SPECIFICATION Spec
CONSTANTS
    a = a
    b = b
    c = c
    save = save
    scan = scan
    plugin = plugin
    Windows <- MCWindows
    Configs <- MCConfigs
    Commands <- MCCommands
    Plugin = plugin
    Uses <- MCUses
    MaxRequests = 2
    MaxAborts = 1
    MaxLoads = 1
    MaxReloads = 1
INVARIANTS OneTaskPerKey OnlyDroppedHandlersLeak IsolatedWorkersAreExclusive CapacitySufficesWithoutReload
CHECK_DEADLOCK FALSE
