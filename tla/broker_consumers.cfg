SPECIFICATION FairConsumersSpec
CONSTANTS
    Slots = {0}
    NumChannels = 1
    Publishes = {p1}
    Topics = {t1}
    SlotOf <- AllToFirst
    Nothing = Nothing
    MaxDelay = 3
    MaxFaults = 2
    MaxReports = 2
INVARIANTS
    ConsumersTypeOK
    ReadyTopicsServed
PROPERTIES
    Recovers
    GoesOut
    EveryMessageObserved
CHECK_DEADLOCK FALSE
