SPECIFICATION Spec
CONSTANTS
    Slots = {s1, s2}
    Fds = {f1, f2}
    NoSlot = NoSlot
    MaxConnections = 3
INVARIANTS
    TypeOK
    Served
    RegisteredIsAlive
CHECK_DEADLOCK FALSE
