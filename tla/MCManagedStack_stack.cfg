CONSTANTS
    h1 = h1
    h2 = h2
    h3 = h3
    Handler = {h1, h2, h3}
    Programs <- MCPrograms
    MaxSpawn = 2
SPECIFICATION StackFairSpec
INVARIANTS NoOrphan NothingLeftBehind
PROPERTIES CoworkEnds
CHECK_DEADLOCK FALSE
