\* Two programs, one after the other or at once.
SPECIFICATION CacheSpec
CONSTANTS
    c1 = c1
    c2 = c2
    Programs = {c1, c2}
    Products = {1, 2, 3, 4}
    Aside = 1
    Timed = 2
    Later = {3, 4}
    Nobody = Nobody
SYMMETRY Symmetry
INVARIANTS LeavesNoTrace WritesArrive CacheIsCurrent
CHECK_DEADLOCK FALSE
