SPECIFICATION UpdaterSpec
CONSTANTS
    Releases <- MCReleases
    Precedence <- MCPrecedence
    MaxCalls = 3
    MaxReloads = 1
    MaxTampered = 1
INVARIANTS NeverInstallsOlder HelperFindsItsArchive
 
CHECK_DEADLOCK FALSE
