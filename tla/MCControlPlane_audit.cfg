CONSTANTS
    Request = {r1, r2, r3}
    Capacity = 1
    Refill = 1
    MaxTime = 2
    MaxVersion = 3
    MaxForeign = 2
    MaxFaults = 1
    NoVersion = NoVersion
SPECIFICATION ControlSpec
INVARIANTS AnsweredIsAudited RateBound
SYMMETRY Symmetry
CHECK_DEADLOCK FALSE
