SPECIFICATION Spec
CONSTANTS
    SizeMax = 255
    Uint16Max = 31
    MaxReserve = 16
    Environments <- MCEnvironments
    Paths <- MCPaths
    Routes <- MCRoutes
INVARIANTS
    ServedAsConfigured
    StripsOnlyThePrefix
    ReachesItsQueue
    ServesWithEverything
    ExitTouchesNothing
CHECK_DEADLOCK FALSE
