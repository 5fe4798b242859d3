SPECIFICATION FairSpec
CONSTANTS
    s1 = s1
    s2 = s2
    s3 = s3
    c1 = c1
    c2 = c2
    Students = {s1, s2, s3}
    Seeded = {s1, s2}
    Courses = {c1, c2}
    Seeds <- MCSeeds
    Transfers = {t1, t2}
    Resets = {r1}
    None = None
    MaxConsole = 1
INVARIANTS
    Consistent
PROPERTIES
    CommitsAreAtomic
    RequestsEnd
CHECK_DEADLOCK FALSE
