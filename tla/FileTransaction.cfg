SPECIFICATION FairSpec
CONSTANTS
    Txns = {t1, t2}
    NoTxn = NoTxn
    NumFiles = 2
    Absent = Absent
    Original = Original
    Edited = Edited
    Initial <- OneOfTwo
    MaxProcesses = 3
    MaxEdits = 1
    SyncMayFail = FALSE
    RollbackMayFail = FALSE
    EditCreated = FALSE
    EditInDoubt = FALSE
INVARIANTS
    TypeOK
    NoPreimageStranded
PROPERTIES
    ImplementsAtomicFiles
    DoubtResolved
\* Every transaction is used once: the system stops.
CHECK_DEADLOCK FALSE
