SPECIFICATION MCFairSpec
CONSTANTS
    a = a
    b = b
    Ids = {d1}
    Agents = {a, b}
    Calls = {k1}
    MAX_TURNS = 3
PROPERTIES
    UndeliveredIsWoken
    OpenEnds
