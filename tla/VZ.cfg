\* Three requests to any three routes, at once.
SPECIFICATION Spec
CONSTANTS
    r1 = r1
    r2 = r2
    r3 = r3
    Requests = {r1, r2, r3}
    Kinds <- MCKinds
    Sizes <- MCSizes
    Default = 128
    None = None
    MaxFails = 1
SYMMETRY Symmetry
INVARIANTS TypeOK ResetRestores BenchIsWhole FoundIsReplicated
CHECK_DEADLOCK FALSE
