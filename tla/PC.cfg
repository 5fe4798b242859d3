SPECIFICATION Spec
CONSTANTS
    Orders = {o1, o2}
    Consumers = {c1, c2}
    None = None
    MaxPublish = 2
    MaxStarts = 3
    MaxResets = 1
SYMMETRY OrderSymmetry
INVARIANTS
    TypeOK
    DeliveredAsPromised
    EffectivelyOnce
PROPERTIES
    ChargesOnce
CHECK_DEADLOCK FALSE
