SPECIFICATION FairSpec
CONSTANTS
    Commands = {c1}
    Agents = {a1}
    Others = {n1}
    MAX_NUDGES = 2
    MAX_BG_DISPATCHES = 1
INVARIANTS
    TypeOK
    RingingIsBounded
PROPERTIES
    RungUntilExhausted
    DispatchedUntilExhausted
