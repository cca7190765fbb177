CONSTANTS
    Searcher = {s1}
    Query = {q1, q2}
    MaxEntries = 1
    Ttl = 1
    MaxEdits = 2
    MaxFaults = 1
    MaxDeletes = 1
SPECIFICATION ClientFairSpec
INVARIANTS CacheTruthful
PROPERTIES FileGetsServed
CHECK_DEADLOCK FALSE
