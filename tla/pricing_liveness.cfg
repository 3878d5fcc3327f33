SPECIFICATION PricingSpec
CONSTANTS
    Slots = {0}
    Requests = {r1}
    NoReq = NoReq
    RangeSize = 2
    MaxInbox = 1
    MaxConnects <- SlotZeroReconnects
INVARIANTS
    RespondedAtMostOnce
PROPERTIES
    HandlersReturn
    ShutdownCompletes
    EveryRequestResponded
CHECK_DEADLOCK FALSE
