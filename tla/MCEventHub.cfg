SPECIFICATION Spec
CONSTANTS
    w1 = w1
    w2 = w2
    all = all
    Windows <- MCWindows
    Targets <- MCTargets
    Broadcast = all
    EventHistoryLimit = 2
    MaxEvents = 3
    MaxLost = 1
    MaxLoads = 1
INVARIANTS SkippedOnlyIfEvictedOrRaced
PROPERTIES DispatchedOnceInOrder EventuallyDispatched
