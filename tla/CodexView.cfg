SPECIFICATION Spec
CONSTANTS
    Items = {i1, i2}
    Prompts = {}
    Questions = {}
    Callers = {c1}
    PAGE = 1
    MAX_PAGES = 2
    MAX_TURNS = 1
    MAX_NEWS = 1
    MAX_LOST = 1
INVARIANTS
    ViewIsCurrent
CHECK_DEADLOCK FALSE
