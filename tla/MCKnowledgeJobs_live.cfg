CONSTANTS
    notes = notes
    v1 = v1
    v2 = v2
    j1 = j1
    j2 = j2
    Source = {notes}
    Version = {v1}
    Job = {j1, j2}
    Request <- MCRequest
    SourceOf <- MCSourceOf
    VersionOf <- MCSameVersion
    Searcher = {}
    Free = Free
    Concurrency = 1
    MaxEpoch = 2
    MaxFaults = 0
    MaxBroken = 0
SPECIFICATION FairSpec
PROPERTIES JobsFinish IngestsEnd
