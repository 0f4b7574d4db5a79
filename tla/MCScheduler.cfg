SPECIFICATION Spec
CONSTANTS
    sync = sync
    sweep = sweep
    ping = ping
    Nobody = Nobody
    Jobs <- MCAllJobs
    Persistent <- MCJobs
    Skips <- MCSkips
    MaximumAttempts <- MCMaximumAttempts
    MaxSchedules = 2
    MaxReloads = 0
    MaxMishaps = 2
INVARIANTS RunningIsJournaled
PROPERTIES ClosedOnlyAfterSequence 
CHECK_DEADLOCK FALSE
