SPECIFICATION FairSpec
CONSTANTS
    good = good
    poison = poison
    unreadable = unreadable
    Orders = {good, poison, unreadable}
    Kind <- MCKind
    Workers = {w1, w2}
    None = None
    Prefetch = 1
    MaxAttempts = 2
    DeliveryLimit = 1
    MaxCrashes = 2
    MaxRefusals = 1
INVARIANTS
    TypeOK
    NoOrderLost
    OneMorePerCrash
    DeadForAReason
PROPERTIES
    QueueDrains
CHECK_DEADLOCK FALSE
