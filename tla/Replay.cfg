SPECIFICATION Spec
CONSTANTS
    Callers = {c1, c2}
    MAX_CHUNKS = 1
    MAX_TURNS = 1
    MAX_OPENED = 2
    MAX_ASKED = 1
    MAX_STALE = 1
    MAX_ATTEMPTS = 2
    MAY_FAIL = TRUE
SYMMETRY Symmetric
INVARIANTS
    OneAtATime
    EveryDemandServed
    
    
    AwakeWhenWatched
CHECK_DEADLOCK FALSE
