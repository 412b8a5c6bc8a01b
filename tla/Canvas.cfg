SPECIFICATION CSpec
CONSTANTS
    Calls = {c1, c2}
    PERMITS = 2
    MAX_VERBS = 3
    MAX_FAILURES = 1
    Surfaces = {s1, s2}
    MAX_ASKS = 2
SYMMETRY Symmetric
INVARIANTS
    NoneLeaks
    NothingOutlives
    TableIsTrue
    HearsUnlessLeft
    Hooked
CHECK_DEADLOCK FALSE
