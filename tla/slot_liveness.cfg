SPECIFICATION FairSpec
CONSTANTS
    Slots = {0}
    Requests = {r1, r2}
    NoReq = NoReq
    RangeSize = 3
    MaxInbox = 1
    MaxConnects <- ConnectTwice
PROPERTIES
    ImplementsService
    EveryRequestAnswered
CHECK_DEADLOCK FALSE
