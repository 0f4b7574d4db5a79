SPECIFICATION Spec
CONSTANTS
    sync = sync
    sweep = sweep
    ping = ping
    Nobody = Nobody
    Jobs <- MCJobs
    Persistent <- MCJobs
    Skips <- MCSkips
    MaximumAttempts <- MCMaximumAttempts
    MaxSchedules = 2
    MaxReloads = 1
    MaxMishaps = 0
PROPERTIES StopEnds
CHECK_DEADLOCK FALSE
