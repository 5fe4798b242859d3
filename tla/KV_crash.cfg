SPECIFICATION SpecUp
CONSTANTS
    Nodes = {1, 2, 3}
    k1 = k1
    Keys = {k1}
    Writes = {w1, w2}
    NoWrite = NoWrite
    KeyOf <- MCKeyOf
    Reads = {r1}
    ReadKeyOf <- MCReadKeyOf
    ModeDefault = "cp"
    Switchable = {}
    Isolable = {}
    Crashable = {1}
SYMMETRY WriteSymmetry
CONSTRAINT CrashBound
INVARIANTS
    AckedWritesSurvive
CHECK_DEADLOCK FALSE
