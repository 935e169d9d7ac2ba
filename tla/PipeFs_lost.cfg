SPECIFICATION Spec
CONSTANTS
    o1 = o1
    o2 = o2
    c1 = c1
    h1 = h1
    JobIds <- OneJob
    SpecOf <- OneSpec
    ParentOf <- OneParent
    LocalAuthority = FALSE
    MaxPreparations = 1
    MaxActiveJobs = 2
    Ops = {o1}
    Reconcilers = {}
    Restarts = {}
    Causal = TRUE
    NoOp = NoOp
    NoRecovery = NoRecovery
INVARIANTS
    LostLeaseStaysClosed
\* Every operation is used once and a lost lease stays lost: the system stops.
CHECK_DEADLOCK FALSE
