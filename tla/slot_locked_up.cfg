SPECIFICATION Spec
CONSTANTS
    Slots = {0}
    Requests = {r1, r2}
    NoReq = NoReq
    RangeSize = 3
    MaxInbox = 1
    MaxConnects <- ConnectTwice
SYMMETRY RequestSymmetry
INVARIANTS
    MutexReleased
CHECK_DEADLOCK FALSE
