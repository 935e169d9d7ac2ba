SPECIFICATION Spec
CONSTANTS
    o1 = o1
    o2 = o2
    c1 = c1
    h1 = h1
    JobIds <- BothJobs
    SpecOf <- BothSpec
    ParentOf <- BothParent
    LocalAuthority = FALSE
    MaxPreparations = 1
    MaxActiveJobs = 2
    Ops = {o1, o2}
    Reconcilers = {a}
    Restarts = {s}
    Causal = TRUE
    NoOp = NoOp
    NoRecovery = NoRecovery
INVARIANTS
    TypeOK
    OneMutationInProgress
    ActiveHasOwner
    DisplacedIsRecorded
    ReadyNamesNoFence
    RestartFenceHolds
    RecoverableJobIsRecorded
PROPERTIES
    ImplementsContract
\* Every operation is used once and a lost lease stays lost: the system stops.
CHECK_DEADLOCK FALSE
