SPECIFICATION Spec
CONSTANTS
    Tasks = {t1, t2}
    MAX_KEY = 3
    ATTEMPTS = 2
    MAX_VERBS = 2
    MAX_FAULTS = 1
INVARIANTS OneEngine Settled StateIsTrue
PROPERTIES SiblingsSpared OnlyOverlapRevives
