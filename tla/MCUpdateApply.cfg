SPECIFICATION Spec
CONSTANTS
    Archives <- MCArchives
    Installed = 2
    Kept = 1
    MaxCrashes = 3
    MaxFaults = 3
INVARIANTS TypeOK Recoverable NoJournalMeansRunnable
PROPERTIES ForeignJournalIsLeftAlone EveryUpdateCompletes 
CHECK_DEADLOCK FALSE
