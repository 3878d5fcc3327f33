SPECIFICATION FairSpec
CONSTANTS
    StartingClientId = 3
    MinClientId = 1
    MaxNotices = 2
INVARIANTS
    TypeOK
    OnlyUsedIdsSkipped
    NothingLeftBehind
    ReportIsTrue
PROPERTIES
    Returned
CHECK_DEADLOCK FALSE
