SPECIFICATION Spec
CONSTANTS
    o1 = o1
    o2 = o2
    c1 = c1
    c2 = c2
    h1 = h1
    h2 = h2
    JobIds <- WriterJobs
    SpecOf <- WriterSpec
    ParentOf <- WriterParent
    LocalAuthority = TRUE
    MaxPreparations = 1
    MaxActiveJobs = 2
    Ops = {o1, o2}
    Reconciling = {o2}
    Seeds = {s1}
    NoOp = NoOp
    NoRecovery = NoRecovery
    MaxEpoch = 1
INVARIANT
    UnresolvedRecoveryKeepsFence
CHECK_DEADLOCK FALSE
