SPECIFICATION Spec
CONSTANTS
    c1 = c1
    c2 = c2
    r1 = r1
    p1 = p1
    h1 = h1
    JobIds <- MCJobsWriters
    SpecOf <- MCSpecWriters
    LocalAuthority = TRUE
    MaxPreparations = 1
    MaxActiveJobs = 2
    Cancellers = {k1}
    Waiters = {}
    MaxEpoch = 1
INVARIANTS
    OneLiveWriter
    TypeOK
    RecoveryIsReconcilable
    StaleEpochInert
PROPERTIES
    CancelHandshake
