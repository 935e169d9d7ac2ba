SPECIFICATION FairSpec
CONSTANTS
    c1 = c1
    c2 = c2
    r1 = r1
    p1 = p1
    h1 = h1
    JobIds <- MCJobsWaiting
    SpecOf <- MCSpecWaiting
    LocalAuthority = FALSE
    MaxPreparations = 1
    MaxActiveJobs = 2
    Cancellers = {k1}
    Waiters = {w1}
    MaxEpoch = 0
INVARIANTS
    NoLostWakeup
PROPERTIES
    WaiterReturns
