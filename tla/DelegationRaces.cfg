SPECIFICATION MCSpec
CONSTANTS
    a = a
    b = b
    Ids = {d1}
    Agents = {a, b}
    Calls = {k1, k2}
    MAX_TURNS = 4
SYMMETRY Symmetric
INVARIANTS
    TypeOK
    DeliveredIsHeard
PROPERTIES
    TimeoutSparesResults
