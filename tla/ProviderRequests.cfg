SPECIFICATION FairSpec
CONSTANTS
    q1 = q1
    q2 = q2
    q3 = q3
    Requests = {q1, q2, q3}
    Configs <- AllConfigs
    RecoverySuccesses = 1
    MinSamples = 1
    MaxProbes = 1
INVARIANTS TypeOK SlotsBounded NoForgottenWaiter UsageCarried
PROPERTIES Served NotLockedOut
\* Every request is made once: the system stops.
CHECK_DEADLOCK FALSE
