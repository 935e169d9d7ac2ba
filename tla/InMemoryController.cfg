SPECIFICATION Spec
CONSTANTS
    o1 = o1
    o2 = o2
    c1 = c1
    c2 = c2
    h1 = h1
    h2 = h2
    JobIds <- LocalJobs
    SpecOf <- LocalSpec
    ParentOf <- LocalParent
    LocalAuthority = TRUE
    MaxPreparations = 1
    MaxActiveJobs = 2
    Ops = {o1, o2}
    Reconciling = {o2}
    Seeds = {s1}
    NoOp = NoOp
    NoRecovery = NoRecovery
    MaxEpoch = 1
SYMMETRY Candidates
INVARIANTS
    TypeOK
    OnePermit
    FenceNamesUnresolved
    NoForeignWriterRuns
    StatusTracksJobs
PROPERTIES
    FenceOutlivesOneResolution
    ImplementsContract
\* Every operation is used once: the system stops when all are used up.
CHECK_DEADLOCK FALSE
