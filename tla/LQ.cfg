SPECIFICATION FairSpec
CONSTANTS
    o1 = o1
    o2 = o2
    m1 = m1
    m2 = m2
    d1 = d1
    d2 = d2
    dm1 = dm1
    dm2 = dm2
    Messages = {m1, m2, dm1, dm2}
    Orders = {o1, o2}
    OrderOf <- MCOrderOf
    Kind <- MCKind
    Envs = {e1}
    poller = poller
    Direct = {d1, d2}
    DirectMsg <- MCDirectMsg
    None = None
    BatchSize = 2
    MaxReceive = 2
    Idempotent = TRUE
    MaxFaults = 1
    MaxPurges = 1
INVARIANTS
    TypeOK
    AccountsBalance
    GoodNeverRetried
    OneCallPerEnvironment
    ChargeInv
PROPERTIES
    Implements
    EveryMessageSettles
CHECK_DEADLOCK FALSE
