SPECIFICATION Spec
CONSTANTS
    Txns = {t1, t2}
    NoTxn = NoTxn
    NumFiles = 2
    Absent = Absent
    Original = Original
    Edited = Edited
    Initial <- OneOfTwo
    MaxProcesses = 3
    MaxEdits = 1
    SyncMayFail = TRUE
    RollbackMayFail = TRUE
    EditCreated = TRUE
    EditInDoubt = TRUE
INVARIANT RollbackIsJournaled
\* Every transaction is used once: the system stops.
CHECK_DEADLOCK FALSE
