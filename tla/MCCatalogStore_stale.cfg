CONSTANTS
    t1 = t1
    t2 = t2
    p1 = p1
    p2 = p2
    deployment = deployment
    research = research
    Thread <- MCThread
    Process = {p1, p2}
    ProcessOf <- TwoProcesses
    Stream = {deployment, research}
    Replacements <- MCReplacements
    MaxVersion = 2
    MaxOrdinal = 3
    Nobody = Nobody
    NoVersion = NoVersion
SPECIFICATION Spec
PROPERTIES StaleNeverCommits
CHECK_DEADLOCK FALSE
