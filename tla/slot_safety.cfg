SPECIFICATION Spec
CONSTANTS
    Slots = {0}
    Requests = {r1, r2, r3}
    NoReq = NoReq
    RangeSize = 3
    MaxInbox = 1
    MaxConnects <- ConnectTwice
SYMMETRY RequestSymmetry
INVARIANTS
    TypeOK
    AnsweredAtMostOnce
    NoRequestLost
    OwnSnapshot
    NotStranded
CHECK_DEADLOCK FALSE
