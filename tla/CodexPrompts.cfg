SPECIFICATION FairSpec
CONSTANTS
    Items = {}
    Prompts = {p1}
    Questions = {q1}
    Callers = {c1}
    PAGE = 1
    MAX_PAGES = 1
    MAX_TURNS = 1
    MAX_NEWS = 0
    MAX_LOST = 0
INVARIANTS
    NeverResent
PROPERTIES
    PromptsWaitForSettings
    OnlyRefusalStrands
    ComesToRest
    NobodyHangs
CHECK_DEADLOCK FALSE
