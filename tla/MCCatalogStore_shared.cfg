CONSTANTS
    t1 = t1
    t2 = t2
    p1 = p1
    p2 = p2
    deployment = deployment
    research = research
    Thread <- MCThread
    Process = {p1}
    ProcessOf <- OneProcess
    Stream = {deployment, research}
    Replacements <- MCReplacements
    MaxVersion = 3
    MaxOrdinal = 4
    Nobody = Nobody
    NoVersion = NoVersion
SPECIFICATION Spec
INVARIANTS TypeOK VersionNamesCatalog
PROPERTIES StaleNeverCommits ImplementsRegister
CHECK_DEADLOCK FALSE
