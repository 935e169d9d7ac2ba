SPECIFICATION Spec
CONSTANTS
    o1 = o1
    o2 = o2
    j1 = j1
    Ops = {o1, o2}
    Jobs = {j1}
    None = None
    Workloads <- TwoAtATime
    MaxFailures = 2
    MaxCrashes = 0
\* Every operation and job is asked for once: the system stops.
CHECK_DEADLOCK FALSE
PROPERTIES AdmissionClosesOnAmbiguity
