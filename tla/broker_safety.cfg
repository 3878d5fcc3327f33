SPECIFICATION Spec
CONSTANTS
    Slots = {0, 1}
    NumChannels = 2
    Publishes = {p1, p2}
    Topics = {t1}
    SlotOf <- AllToFirst
    Nothing = Nothing
    MaxDelay = 3
    MaxFaults = 2
    MaxReports = 2
SYMMETRY PublishSymmetry
CONSTRAINT FewCalls
INVARIANTS
    ExactlyOnePlace
    QueuedCountExact
    WaitsForReady
    ReadyIsTrue
    OneReconnect
    ReconnectUnderWay
PROPERTIES
    ImplementsPublishing
CHECK_DEADLOCK FALSE
