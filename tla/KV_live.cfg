SPECIFICATION FairSpec
CONSTANTS
    Nodes = {1, 2, 3}
    k1 = k1
    Keys = {k1}
    Writes = {w1}
    NoWrite = NoWrite
    KeyOf <- MCKeyOf
    Reads = {}
    ReadKeyOf <- MCReadKeyOf
    ModeDefault = "cp"
    Switchable = {1}
    Isolable = {1}
    Crashable = {}
PROPERTIES
    Converges
CHECK_DEADLOCK FALSE
