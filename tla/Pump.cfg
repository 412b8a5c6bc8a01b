SPECIFICATION Spec
CONSTANTS
    Sessions = {1}
    Callers = {c1, c2}
    Watched = {2}
    MAX_VIEWS = 2
    MAX_PIDS = 2
    MAX_OUT <- OutBound
    MAX_ASKED = 1
    Handles = {h1, h2, h3}
SYMMETRY Symmetric
INVARIANTS
    ConvergesInOrder
    NoStrayPump
    
CHECK_DEADLOCK FALSE
