SPECIFICATION Spec
CONSTANTS
    Profile <- MCProfile
    Starts = {"plain", "tray"}
    Main = "main"
    NoParent = "none"
    Displays <- MCDisplays
    Places <- MCPlaces
    MaxMoves = 3
    MaxFaults = 1
    IntMin <- MCIntMin
    IntMax = 100000
    MinVisible = 64
    MinWidth = 320
    MinHeight = 240
INVARIANTS  ClosedHasWayBack
PROPERTIES  RestoredInSight
CHECK_DEADLOCK FALSE
