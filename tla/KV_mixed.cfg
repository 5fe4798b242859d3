SPECIFICATION SpecUp
CONSTANTS
    Nodes = {1, 2, 3}
    k1 = k1
    Keys = {k1}
    Writes = {w1, w2}
    NoWrite = NoWrite
    KeyOf <- MCKeyOf
    Reads = {}
    ReadKeyOf <- MCReadKeyOf
    ModeDefault = "ap"
    Switchable = {1}
    Isolable = {1}
    Crashable = {}
SYMMETRY WriteSymmetry
INVARIANTS
    TypeOK
    ClockDominates
    OwedWritesAreRemembered
    StoredOnQuorum
    AgreeUnlessRefused
PROPERTIES
    NeverGoesBack
CHECK_DEADLOCK FALSE
