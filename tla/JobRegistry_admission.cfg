SPECIFICATION Spec
CONSTANTS
    c1 = c1
    c2 = c2
    r1 = r1
    p1 = p1
    h1 = h1
    JobIds <- MCJobsAdmission
    SpecOf <- MCSpecAdmission
    LocalAuthority = FALSE
    MaxPreparations = 1
    MaxActiveJobs = 2
    Cancellers = {}
    Waiters = {}
    MaxEpoch = 0
INVARIANTS
    LimitsHold
    FailedAdmissionIsTerminal
PROPERTIES
    TerminalIsFinal
