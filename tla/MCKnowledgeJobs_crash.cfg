CONSTANTS
    notes = notes
    v1 = v1
    v2 = v2
    j1 = j1
    j2 = j2
    Source = {notes}
    Version = {v1, v2}
    Job = {j1, j2}
    Request <- MCRequest
    SourceOf <- MCSourceOf
    VersionOf <- MCVersionOf
    Searcher = {}
    Free = Free
    Concurrency = 2
    MaxEpoch = 2
    MaxFaults = 1
    MaxBroken = 1
SPECIFICATION Spec
INVARIANTS JobsTypeOK UnfinishedHaveTask LaterJobWins
PROPERTIES ImplementsLedger
SYMMETRY MCSymmetry
