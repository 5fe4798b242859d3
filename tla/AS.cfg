SPECIFICATION Spec
CONSTANTS
    s1 = s1
    s2 = s2
    a1 = a1
    a2 = a2
    a3 = a3
    Slots = {s1, s2}
    Services = {a1, a2, a3}
    Answer <- MCAnswer
    None = None
    Budget = 2
    MaxAttempts = 2
    MaxRecords = 2
INVARIANTS
    AttemptsAreSound
    StoredIsCurrent
    ChallengeIsStrict
CHECK_DEADLOCK FALSE
