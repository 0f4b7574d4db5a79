SPECIFICATION Spec
CONSTANTS
    MaxOutput = 1
    Channel = 1
    ReadMax = 2
    PtyInput = 1
    MaxWrite = 2
    MaxCalls = 4
    MaxRuns = 1
    MaxTerminals = 2
    MaxReloads = 1
    MaxFaults = 1
INVARIANTS  EndIsToldLast NoOrphanProcess
CHECK_DEADLOCK FALSE
