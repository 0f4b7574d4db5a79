SPECIFICATION Spec
CONSTANTS
    h1 = h1
    h2 = h2
    a1 = a1
    a2 = a2
    Hosts <- MCHosts
    Agents <- MCAgents
    Boots <- MCBoots
    None = None
    Failed = Failed
    MaxEvents = 1
SYMMETRY Symmetric
CHECK_DEADLOCK FALSE
INVARIANTS SinglePrimary OneSchedule NoCircularWait
PROPERTIES SnapshotHitIsCurrent
