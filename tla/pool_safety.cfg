SPECIFICATION PoolSpec
CONSTANTS
    Slots = {0, 1}
    Requests = {r1, r2}
    NoReq = NoReq
    RangeSize = 3
    MaxInbox = 1
    MaxConnects <- SlotZeroReconnects
SYMMETRY RequestSymmetry
INVARIANTS
    PoolTypeOK
    OneOwner
    NoFalseRefusal
    ShutdownDrains
CHECK_DEADLOCK FALSE
