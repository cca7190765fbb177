CONSTANTS
    notes = notes
    report = report
    v1 = v1
    v2 = v2
    r1 = r1
    r2 = r2
    r3 = r3
    r4 = r4
    q1 = q1
    Source = {notes, report}
    Version = {v1, v2}
    Request = {r1, r2, r3, r4}
    SourceOf <- MCSourceOf
    VersionOf <- MCVersionOf
    Searcher = {q1}
    Free = Free
SPECIFICATION ServiceSpec
INVARIANTS ServiceTypeOK OneVersion AnsweredIsStored
