------------------------ MODULE JournalRestartProofs ------------------------
(***************************************************************************)
(* Proofs about JournalRestart, for every set of operations and jobs and   *)
(* every number of failed commits and crashes: the state keeps its types,  *)
(* what was answered as published is in the journal, the pass after a      *)
(* restart accounts for every effect, a lifecycle ends as failed only on a *)
(* decision, or as an operation that lost its place, and a repair resolves *)
(* its recovery last.                                                      *)
(***************************************************************************)
EXTENDS JournalRestart, TLAPS

-----------------------------------------------------------------------------
(* The inductive invariant.                                                *)

Things == Ops \cup Jobs

WorkKinds == {"none", "repair", "resolve", "discard"}

\* The closure of several commits names a recovery, and knows its steps.
WorkOK ==
    /\ work \in [kind : WorkKinds, recovery : Recovery \cup {None}, step : 0 .. 4]
    /\ work.kind # "none" => work.recovery \in Recovery /\ work.step \in 1 .. 4
    /\ work.kind = "resolve" => work.step <= 3

\* A job that was sealed has an answer of the inner controller.
SealedAnswered ==
    \A j \in Jobs : job_pc[j] = "sealed" =>
        inner_job[j] \in {"Advancing", "RecoveryRequired", "Terminal"}

TypeInv == TypeOK /\ WorkOK /\ SealedAnswered

\* Where an operation is neither settled nor given up.
Underway == {"new", "checked", "admitted", "held", "settling", "executed", "claimed", "durable"}

\* What the journal says of an operation before its caller has come so far.
OpAhead(o) ==
    /\ op_pc[o] \in {"new", "checked", "admitted", "cancelled"} => op_row[o] = "none"
    /\ op_pc[o] # "done" => rec_row[Stable(o)] = "none" /\ reported[o] = "none"
    /\ op_pc[o] \in Underway => inner_rec[Alias(o)] = "none" /\ rec_row[Alias(o)] = "none"
    /\ op_pc[o] = "durable" => o \in durable

\* An operation that the inner controller settled has no recovery there.
OpSettled(o) ==
    o \in durable =>
        /\ op_pc[o] \in {"durable", "done"}
        /\ inner_rec[Alias(o)] = "none" /\ rec_row[Alias(o)] = "none"

\* The inner controller knows the stable recovery of an operation, or one of
\* its own that the journal has linked, never both.
OneRecovery(o) ==
    /\ rec_row[Stable(o)] # "none" /\ op_row[o] = "none" => o \in durable
    /\ inner_rec[Alias(o)] # "none" /\ Alias(o) \notin unlinked => rec_row[Stable(o)] = "none"

\* What the journal knows of a mutation that was given up names no operation.
InertUnlinked(o) == rec_row[Inert(o)] # "none" => Inert(o) \in unlinked

\* Only the lease monitor takes the place of an operation away, and only
\* PipeFS has one.
KeepsPlace(o) ==
    /\ ~PipeFs /\ o \in InProgress => active = o
    /\ active = o => o \in InProgress
    /\ op_pc[o] = "stale" => PipeFs /\ o \in stale

\* What was answered is recorded, and stays recorded because the caller is
\* gone.
OpAnswered(o) ==
    /\ reported[o] = "Durable" => op_row[o] = "Durable"
    /\ op_row[o] = "Durable" => o \in durable

JobAnswered(j) ==
    /\ reported[j] = "Terminal" => job_row[j] = "Terminal" /\ job_pc[j] = "done"
    /\ reported[j] = "Advancing" => job_row[j] \notin {"none", "Running"}
    /\ reported[j] # "none" => job_pc[j] \in {"running", "sealing", "sealed", "done"}

\* A stable recovery is recorded with what it is of, before the inner
\* controller hears of it.
StableLinked ==
    \A x \in Things :
        /\ Stable(x) \notin unlinked
        /\ inner_rec[Stable(x)] # "none" => rec_row[Stable(x)] # "none"

\* A settlement that could not be published.
Unpublished(o) ==
    o \in Ops /\ o \in durable /\ op_pc[o] = "done" /\ reported[o] = "none"

FenceOK == op_fence.state = "RecoveryRequired" => Unpublished(op_fence.op)

\* The writer, in the middle of several commits.
Repairing ==
    work.kind = "repair" =>
        LET o == work.recovery[1] IN
        /\ work.recovery = Stable(o) /\ Unpublished(o)
        /\ work.step = 4 => op_row[o] = "Durable"
Resolving ==
    work.kind = "resolve" =>
        LET r == work.recovery IN
        /\ inner_rec[r] # "none"
        /\ r[2] = "stable" => inner_rec[r] = "closed"
        /\ work.step > 1 => r \notin unlinked /\ rec_row[r] = "Resolved"
Discarding ==
    work.kind = "discard" =>
        LET r == work.recovery IN
        /\ inner_rec[r] # "none"
        /\ r \in unlinked \/ r[2] = "stable"
        /\ work.step > 1 => rec_row[r] # "none"
        /\ work.step = 4 => rec_row[r] = "Discarded"

\* Before the pass is over the inner controller has no recovery, the writer
\* nothing to go on with, and no operation is on its way.
Restarting ==
    phase = "restart" =>
        /\ work = NoWork
        /\ \A r \in Recovery : inner_rec[r] = "none"
        /\ \A o \in Ops : op_pc[o] \in {"new", "done"}

\* What had effects is in the journal; what ended as failed has a recovery,
\* unless the operation had lost its place.
EffectsRecorded ==
    /\ \A o \in (held \cap Ops) \ bare : op_row[o] # "none"
    /\ \A j \in held \cap Jobs : is_writer(j) => job_row[j] # "none"
    /\ \A j \in Jobs : job_row[j] = "Orphaned" => is_local_live_process(j) \/ ~is_writer(j)
FailedLinked ==
    /\ \A o \in Ops : op_row[o] = "Failed" => Linked(o) # {} \/ o \in stale
    /\ \A j \in Jobs : job_row[j] = "Failed" => Linked(j) # {}

OpInv ==
    \A o \in Ops :
        /\ OpAhead(o) /\ OpSettled(o) /\ OneRecovery(o) /\ InertUnlinked(o) /\ KeepsPlace(o)
        /\ OpAnswered(o)
JobInv == \A j \in Jobs : JobAnswered(j)
WriterInv == FenceOK /\ Repairing /\ Resolving /\ Discarding /\ Restarting

IndInv ==
    TypeInv /\ OpInv /\ JobInv /\ StableLinked /\ WriterInv /\ EffectsRecorded /\ FailedLinked

-----------------------------------------------------------------------------
(* Types.                                                                  *)

LEMMA RecoveryFacts ==
    /\ \A x \in Things : Stable(x) \in Recovery /\ Alias(x) \in Recovery
    /\ \A o \in Ops : Inert(o) \in Recovery
    /\ \A j \in Jobs : JournalRecovery(j) \in Recovery
    /\ \A x : Stable(x)[1] = x /\ Alias(x)[1] = x /\ Inert(x)[1] = x /\ JournalRecovery(x)[1] = x
    /\ \A x : Stable(x)[2] = "stable" /\ Alias(x)[2] = "alias" /\ Inert(x)[2] = "inert"
                   /\ JournalRecovery(x)[2] = "journal"
    /\ \A r \in Recovery : /\ r[1] \in Things
                           /\ \/ r = Stable(r[1]) \/ r = Alias(r[1])
                              \/ r = Inert(r[1]) /\ r[1] \in Ops
                              \/ r = JournalRecovery(r[1]) /\ r[1] \in Jobs
    /\ Ops \subseteq Things /\ Jobs \subseteq Things /\ Ops \cap Jobs = {} /\ None \notin Ops
BY JournalAssumption DEF Recovery, Stable, Alias, Inert, JournalRecovery, Things

LEMMA CommitTypes ==
    ASSUME failures \in 0 .. MaxFailures, health \in {"Healthy", "Failed"},
           NEW w1 \in Outcomes, NEW w2 \in Outcomes, NEW b \in BOOLEAN, Commit(w1, w2, b)
    PROVE  failures' \in 0 .. MaxFailures /\ health' \in {"Healthy", "Failed"}
<1>1. Fails(w1) \in {0, 1} /\ Fails(w2) \in {0, 1}
  BY DEF Fails
<1>2. failures' \in 0 .. MaxFailures
  BY <1>1, JournalAssumption DEF Commit
<1> QED
  BY <1>2 DEF Commit

\* The parts of the type invariant, by who changes them.
MemoryOK ==
    /\ policy \in Policies /\ kind \in [Jobs -> JobKinds]
    /\ op_fence \in [state : {"none", "Pending", "RecoveryRequired"}, op : Ops \cup {None}]
    /\ job_fence \in [Jobs -> {"none", "Pending", "RecoveryRequired"}]
    /\ active \in Ops \cup {None} /\ version \in Ops \cup {None}
    /\ inner_rec \in [Recovery -> {"none", "open", "closed"}]
    /\ inner_job \in [Jobs -> {"none", "Running", "Advancing", "RecoveryRequired", "Terminal"}]
CallersOK ==
    /\ op_pc \in [Ops -> {"new", "checked", "admitted", "cancelled", "held", "settling",
                          "executed", "claimed", "durable", "unsettled", "stale", "done"}]
    /\ job_pc \in [Jobs -> {"new", "checked", "registered", "running", "sealing", "sealed", "done"}]
StoreOK ==
    /\ op_row \in [Ops -> {"none", "Admitted", "ExecutionRecorded", "Durable",
                           "RecoveryRequired", "Failed"}]
    /\ job_row \in [Jobs -> {"none", "Running", "Advancing", "RecoveryRequired", "Terminal",
                             "Failed", "Orphaned"}]
    /\ rec_row \in [Recovery -> {"none", "Required", "Resolved", "Discarded"}]
    /\ unlinked \subseteq Recovery
CountersOK ==
    /\ health \in {"Healthy", "Failed"} /\ failures \in 0 .. MaxFailures
    /\ phase \in {"live", "restart"} /\ crashes \in 0 .. MaxCrashes
GhostsOK ==
    /\ durable \subseteq Ops /\ stale \subseteq Ops
    /\ held \subseteq Ops \cup Jobs /\ bare \subseteq Ops
    /\ reported \in [Ops \cup Jobs -> {"none", "Durable", "Advancing", "Terminal"}]

LEMMA TypeParts ==
    TypeInv <=> /\ MemoryOK /\ CallersOK /\ StoreOK /\ CountersOK /\ GhostsOK
                /\ WorkOK /\ SealedAnswered
BY DEF TypeInv, TypeOK, JournalTypeOK, MemoryOK, CallersOK, StoreOK, CountersOK, GhostsOK, WorkOK,
      WorkKinds

LEMMA TypePartsNext ==
    TypeInv' <=> /\ MemoryOK' /\ CallersOK' /\ StoreOK' /\ CountersOK' /\ GhostsOK'
                 /\ WorkOK' /\ SealedAnswered'
BY DEF TypeInv, TypeOK, JournalTypeOK, MemoryOK, CallersOK, StoreOK, CountersOK, GhostsOK, WorkOK,
      WorkKinds

LEMMA OpTypes ==
    ASSUME TypeInv, NEW o \in Ops, LiveOp(o), UNCHANGED <<phase, crashes>>
    PROVE  TypeInv'
<1>0. /\ MemoryOK /\ CallersOK /\ StoreOK /\ CountersOK /\ GhostsOK /\ WorkOK /\ SealedAnswered
      /\ o \in Things /\ Stable(o) \in Recovery /\ Alias(o) \in Recovery /\ Inert(o) \in Recovery
  BY TypeParts, RecoveryFacts
<1>1. UNCHANGED <<policy, kind, job_fence, inner_job, job_pc, job_row, unlinked, work>>
  BY DEF LiveOp, BeginCheck, InnerBegin, CancelBegin, RecordAdmission, Abandon, BeginPublication,
        RecordExecution, ClaimPermit, InnerSettle, FinishPublication, PublishSettlement, FenceLost,
        DropPermit, HandOut, inner, store, ghosts
<1>2. WorkOK' /\ SealedAnswered'
  BY <1>0, <1>1 DEF WorkOK, SealedAnswered
<1>3. CallersOK'
  BY <1>0, <1>1 DEF CallersOK, LiveOp, BeginCheck, InnerBegin, CancelBegin, RecordAdmission,
        Abandon, BeginPublication, RecordExecution, ClaimPermit, InnerSettle, FinishPublication,
        PublishSettlement, FenceLost, Goto, HandOut
<1>4. StoreOK'
  <2>1. op_row' \in [Ops -> {"none", "Admitted", "ExecutionRecorded", "Durable",
                             "RecoveryRequired", "Failed"}]
    <3>1. op_pc[o] \in {"durable", "unsettled", "stale"} =>
              SettlementRow(o) \in {"Durable", "RecoveryRequired", "Failed"}
      BY DEF SettlementRow
    <3>2. \/ UNCHANGED op_row
          \/ \E v \in {"Admitted", "ExecutionRecorded", "Durable", "RecoveryRequired", "Failed"} :
                 op_row' = [op_row EXCEPT ![o] = v]
      BY <3>1 DEF LiveOp, BeginCheck, InnerBegin, CancelBegin, RecordAdmission, Abandon,
            BeginPublication, RecordExecution, ClaimPermit, InnerSettle, FinishPublication,
            PublishSettlement, FenceLost, store
    <3> QED
      BY <1>0, <3>2 DEF StoreOK
  <2>2. rec_row' \in [Recovery -> {"none", "Required", "Resolved", "Discarded"}]
    BY <1>0 DEF StoreOK, LiveOp, BeginCheck, InnerBegin, CancelBegin, RecordAdmission, Abandon,
          BeginPublication, RecordExecution, ClaimPermit, InnerSettle, FinishPublication,
          PublishSettlement, FenceLost, store
  <2> QED
    BY <1>0, <1>1, <2>1, <2>2 DEF StoreOK
<1>5. CountersOK'
  <2>1. "ok" \in Outcomes /\ FALSE \in BOOLEAN
    BY DEF Outcomes
  <2>3. CASE PublishSettlement(o)
    <3>1. (op_pc[o] = "unsettled" /\ LinkRefused(Alias(o))) \in BOOLEAN
      BY DEF LinkRefused
    <3> QED
      BY <1>0, <2>3, <3>1, CommitTypes DEF CountersOK, PublishSettlement
  <2>4. CASE FinishPublication(o)
    BY <1>0, <2>1, <2>4, CommitTypes DEF CountersOK, FinishPublication
  <2>5. CASE RecordAdmission(o) \/ RecordExecution(o)
    <3>1. UNCHANGED <<health, failures>> \/ \E w \in Outcomes : Commit(w, "ok", FALSE)
      BY <2>5 DEF RecordAdmission, RecordExecution
    <3> QED
      BY <1>0, <2>1, <3>1, CommitTypes DEF CountersOK
  <2>6. CASE UNCHANGED <<health, failures>>
    BY <1>0, <2>6 DEF CountersOK
  <2> QED
    BY <2>3, <2>4, <2>5, <2>6 DEF LiveOp, BeginCheck, InnerBegin, CancelBegin, Abandon,
          BeginPublication, ClaimPermit, InnerSettle, FenceLost
<1>6. MemoryOK'
  <2>1. op_fence' \in [state : {"none", "Pending", "RecoveryRequired"}, op : Ops \cup {None}]
    <3>1. op_fence' \in {op_fence, NoFence, [state |-> "Pending", op |-> o],
                         [state |-> "RecoveryRequired", op |-> o]}
      BY DEF LiveOp, BeginCheck, InnerBegin, CancelBegin, RecordAdmission, Abandon,
            BeginPublication, RecordExecution, ClaimPermit, InnerSettle, FinishPublication,
            PublishSettlement, FenceLost, release_pending_operation
    <3>2. op_fence \in [state : {"none", "Pending", "RecoveryRequired"}, op : Ops \cup {None}]
      BY <1>0 DEF MemoryOK
    <3> QED
      BY <3>1, <3>2 DEF NoFence
  <2>2. /\ active' \in Ops \cup {None} /\ version' \in Ops \cup {None}
        /\ inner_rec' \in [Recovery -> {"none", "open", "closed"}]
    BY <1>0 DEF MemoryOK, LiveOp, BeginCheck, InnerBegin, CancelBegin, RecordAdmission, Abandon,
          BeginPublication, RecordExecution, ClaimPermit, InnerSettle, FinishPublication,
          PublishSettlement, FenceLost, DropPermit, HandOut, inner
  <2> QED
    BY <1>0, <1>1, <2>1, <2>2 DEF MemoryOK
<1>7. GhostsOK'
  <2>1. /\ durable' \subseteq Ops /\ stale' \subseteq Ops
        /\ held' \subseteq Ops \cup Jobs /\ bare' \subseteq Ops
    BY <1>0 DEF GhostsOK, LiveOp, BeginCheck, InnerBegin, CancelBegin, RecordAdmission, Abandon,
          BeginPublication, RecordExecution, ClaimPermit, InnerSettle, FinishPublication,
          PublishSettlement, FenceLost, HandOut, ghosts
  <2>2. \/ UNCHANGED reported
        \/ \E b : Answer(o, b, "Durable")
    BY DEF LiveOp, BeginCheck, InnerBegin, CancelBegin, RecordAdmission, Abandon, BeginPublication,
          RecordExecution, ClaimPermit, InnerSettle, FinishPublication, PublishSettlement,
          FenceLost, HandOut, ghosts
  <2> QED
    BY <1>0, <2>1, <2>2 DEF GhostsOK, Answer
<1> QED
  BY <1>2, <1>3, <1>4, <1>5, <1>6, <1>7, TypePartsNext

LEMMA JobTypes ==
    ASSUME TypeInv, NEW j \in Jobs, LiveJob(j), UNCHANGED <<phase, crashes>>
    PROVE  TypeInv'
<1>0. /\ MemoryOK /\ CallersOK /\ StoreOK /\ CountersOK /\ GhostsOK /\ WorkOK /\ SealedAnswered
      /\ j \in Things /\ Alias(j) \in Recovery /\ JournalRecovery(j) \in Recovery
  BY TypeParts, RecoveryFacts
<1>1. UNCHANGED <<policy, kind, op_fence, active, version, op_pc, op_row, unlinked, work, durable,
                  stale, bare>>
  BY DEF LiveJob, JobCheck, JobRegister, JobRecord, SealJob, InnerSeal, InnerSealRejected,
        FinishJobPublication, inner, store, ghosts
<1>2. CallersOK'
  BY <1>0, <1>1 DEF CallersOK, LiveJob, JobCheck, JobRegister, JobRecord, SealJob, InnerSeal,
        InnerSealRejected, FinishJobPublication, GotoJob
<1>3. MemoryOK'
  <2>1. job_fence' \in [Jobs -> {"none", "Pending", "RecoveryRequired"}]
    BY <1>0 DEF MemoryOK, LiveJob, JobCheck, JobRegister, JobRecord, SealJob, InnerSeal,
          InnerSealRejected, FinishJobPublication
  <2>2. inner_rec' \in [Recovery -> {"none", "open", "closed"}]
    BY <1>0 DEF MemoryOK, LiveJob, JobCheck, JobRegister, JobRecord, SealJob, InnerSeal,
          InnerSealRejected, FinishJobPublication, inner
  <2>3. inner_job' \in [Jobs -> {"none", "Running", "Advancing", "RecoveryRequired", "Terminal"}]
    BY <1>0 DEF MemoryOK, LiveJob, JobCheck, JobRegister, JobRecord, SealJob, InnerSeal,
          InnerSealRejected, FinishJobPublication, inner
  <2> QED
    BY <1>0, <1>1, <2>1, <2>2, <2>3 DEF MemoryOK
<1>4. WorkOK'
  BY <1>0, <1>1 DEF WorkOK
<1>5. SealedAnswered'
  <2>1. \A i \in Jobs \ {j} : job_pc'[i] = job_pc[i] /\ inner_job'[i] = inner_job[i]
    <3>1. UNCHANGED job_pc \/ \E p : GotoJob(j, p)
      BY DEF LiveJob, JobCheck, JobRegister, JobRecord, SealJob, InnerSeal, InnerSealRejected,
            FinishJobPublication
    <3>2. UNCHANGED inner_job \/ \E v : inner_job' = [inner_job EXCEPT ![j] = v]
      BY DEF LiveJob, JobCheck, JobRegister, JobRecord, SealJob, InnerSeal, InnerSealRejected,
            FinishJobPublication, inner
    <3> QED
      BY <1>0, <3>1, <3>2 DEF CallersOK, MemoryOK, GotoJob
  <2>2. job_pc'[j] = "sealed" => InnerSeal(j)
    BY <1>0 DEF CallersOK, LiveJob, JobCheck, JobRegister, JobRecord,
          SealJob, InnerSealRejected, FinishJobPublication, GotoJob
  <2>3. InnerSeal(j) => inner_job'[j] \in {"Advancing", "RecoveryRequired", "Terminal"}
    BY <1>0 DEF MemoryOK, InnerSeal
  <2> QED
    BY <1>0, <2>1, <2>2, <2>3 DEF SealedAnswered
<1>6. CASE FinishJobPublication(j)
  <2>1. inner_job[j] \in {"Advancing", "RecoveryRequired", "Terminal"}
    BY <1>0, <1>6 DEF FinishJobPublication, SealedAnswered
  <2>2. StoreOK'
    BY <1>0, <1>1, <1>6, <2>1 DEF FinishJobPublication, StoreOK
  <2>3. /\ held' = held
        /\ \E b : Answer(j, b /\ inner_job[j] # "RecoveryRequired", inner_job[j])
    BY <1>6 DEF FinishJobPublication
  <2>4. GhostsOK'
    BY <1>0, <1>1, <2>1, <2>3 DEF GhostsOK, Answer
  <2>5. CountersOK'
    <3>1. ASSUME NEW w \in Outcomes
          PROVE  (~(w # "ok" /\ must_fence(j)) /\ inner_job[j] = "RecoveryRequired"
                      /\ LinkRefused(Alias(j))) \in BOOLEAN
      BY DEF LinkRefused
    <3> QED
      BY <1>0, <1>6, <3>1, CommitTypes DEF FinishJobPublication, CountersOK
  <2> QED
    BY <1>2, <1>3, <1>4, <1>5, <2>2, <2>4, <2>5, TypePartsNext
<1>7. CASE ~FinishJobPublication(j)
  <2>1. UNCHANGED <<rec_row, reported>>
    BY <1>7 DEF LiveJob, JobCheck, JobRegister, JobRecord, SealJob, InnerSeal, InnerSealRejected,
          store, ghosts
  <2>2. StoreOK'
    BY <1>0, <1>1, <1>7, <2>1 DEF StoreOK, LiveJob, JobCheck, JobRegister, JobRecord, SealJob,
          InnerSeal, InnerSealRejected, store
  <2>3. GhostsOK'
    BY <1>0, <1>1, <1>7, <2>1 DEF GhostsOK, LiveJob, JobCheck, JobRegister, JobRecord, SealJob,
          InnerSeal, InnerSealRejected, ghosts
  <2>4. UNCHANGED <<health, failures>> \/ \E w \in Outcomes : Commit(w, "ok", FALSE)
    BY <1>7 DEF LiveJob, JobCheck, JobRegister, JobRecord, SealJob, InnerSeal, InnerSealRejected
  <2>5. CountersOK'
    <3>1. "ok" \in Outcomes /\ FALSE \in BOOLEAN
      BY DEF Outcomes
    <3> QED
      BY <1>0, <2>4, <3>1, CommitTypes DEF CountersOK
  <2> QED
    BY <1>2, <1>3, <1>4, <1>5, <2>2, <2>3, <2>5, TypePartsNext
<1> QED
  BY <1>6, <1>7

\* A commit of the writer, and what is left to do after it.
LEMMA WorkTypes ==
    ASSUME WorkOK,
           \/ work' = work
           \/ work' = NoWork
           \/ \E r \in Recovery, k \in {"repair", "resolve", "discard"} :
                  work' = [kind |-> k, recovery |-> r, step |-> 1]
           \/ /\ work.kind # "none" /\ work' = [work EXCEPT !.step = @ + 1]
              /\ work.step < 4 /\ (work.kind = "resolve" => work.step < 3)
    PROVE  WorkOK'
<1>1. CASE work' = work \/ work' = NoWork
  BY <1>1 DEF WorkOK, NoWork, WorkKinds
<1>2. ASSUME NEW r \in Recovery, NEW k \in {"repair", "resolve", "discard"},
             work' = [kind |-> k, recovery |-> r, step |-> 1]
      PROVE  WorkOK'
  BY <1>2 DEF WorkOK, WorkKinds
<1>3. CASE /\ work.kind # "none" /\ work' = [work EXCEPT !.step = @ + 1]
           /\ work.step < 4 /\ (work.kind = "resolve" => work.step < 3)
  <2>1. work'.kind = work.kind /\ work'.recovery = work.recovery /\ work'.step = work.step + 1
    BY <1>3 DEF WorkOK
  <2>2. work.step \in 1 .. 4 /\ work.recovery \in Recovery
    BY <1>3 DEF WorkOK
  <2>3. work'.step \in 1 .. 4 /\ (work.kind = "resolve" => work'.step <= 3)
    BY <1>3, <2>1, <2>2
  <2>4. work' \in [kind : WorkKinds, recovery : Recovery \cup {None}, step : 0 .. 4]
    BY <1>3, <2>3, <2>1 DEF WorkOK
  <2> QED
    BY <2>1, <2>2, <2>3, <2>4 DEF WorkOK
<1> QED
  BY <1>1, <1>2, <1>3

\* The closures of reconcile and of discard_local_restart_recovery.
Writer ==
    \/ \E r \in Recovery : ReconcilePublication(r) \/ ReconcileInner(r) \/ Discard(r)
    \/ repair_operation_publication \/ record_recovery_outcome \/ discard_step

LEMMA WriterTypes ==
    ASSUME TypeInv, FenceOK, Repairing, Writer, UNCHANGED <<phase, crashes>>
    PROVE  TypeInv'
<1>0. /\ MemoryOK /\ CallersOK /\ StoreOK /\ CountersOK /\ GhostsOK /\ WorkOK /\ SealedAnswered
  BY TypeParts
<1>1. UNCHANGED <<policy, kind, job_fence, inner_job, op_pc, job_pc, durable, stale, held, bare,
                  reported>>
  BY DEF Writer, ReconcilePublication, ReconcileInner, Discard, repair_operation_publication,
        record_recovery_outcome, discard_step, inner, local, ghosts
<1>2. CallersOK' /\ GhostsOK' /\ SealedAnswered'
  BY <1>0, <1>1 DEF CallersOK, GhostsOK, SealedAnswered
<1>3. MemoryOK'
  <2>1. op_fence' = op_fence \/ op_fence' = NoFence
    BY DEF Writer, ReconcilePublication, ReconcileInner, Discard, repair_operation_publication,
          record_recovery_outcome, discard_step
  <2>2. op_fence' \in [state : {"none", "Pending", "RecoveryRequired"}, op : Ops \cup {None}]
    BY <1>0, <2>1 DEF MemoryOK, NoFence
  <2>3. inner_rec' \in [Recovery -> {"none", "open", "closed"}]
    <3>1. UNCHANGED inner_rec \/ \E r \in Recovery : inner_rec' = [inner_rec EXCEPT ![r] = "closed"]
      BY DEF Writer, ReconcilePublication, ReconcileInner, Discard, repair_operation_publication,
            record_recovery_outcome, discard_step, inner
    <3> QED
      BY <1>0, <3>1 DEF MemoryOK
  <2>4. active' \in Ops \cup {None} /\ version' \in Ops \cup {None}
    <3>1. /\ active' \in {active, None}
          /\ version' = version \/ \E r \in Recovery : r[1] \in Ops /\ version' = r[1]
      BY DEF Writer, ReconcilePublication, ReconcileInner, Discard, repair_operation_publication,
            record_recovery_outcome, discard_step, inner
    <3> QED
      BY <1>0, <3>1 DEF MemoryOK
  <2> QED
    BY <1>0, <1>1, <2>2, <2>3, <2>4 DEF MemoryOK
<1>4. "ok" \in Outcomes /\ FALSE \in BOOLEAN
  BY DEF Outcomes
<1>5. CountersOK'
  <2>1. CASE repair_operation_publication
    <3>1. PICK w \in Outcomes : /\ failures + Fails(w) <= MaxFailures
                                /\ failures' = failures + Fails(w)
      BY <2>1 DEF repair_operation_publication
    <3>2. Fails(w) \in {0, 1}
      BY DEF Fails
    <3>3. failures' \in 0 .. MaxFailures
      BY <1>0, <3>1, <3>2, JournalAssumption DEF CountersOK
    <3>4. health' \in {"Healthy", "Failed"}
      BY <1>0, <2>1 DEF CountersOK, repair_operation_publication
    <3> QED
      BY <1>0, <3>3, <3>4 DEF CountersOK
  <2>2. CASE health' = "Failed" /\ UNCHANGED failures
    BY <1>0, <2>2 DEF CountersOK
  <2>3. CASE UNCHANGED <<health, failures>> \/ \E w \in Outcomes : Commit(w, "ok", FALSE)
    BY <1>0, <1>4, <2>3, CommitTypes DEF CountersOK
  <2> QED
    BY <2>1, <2>2, <2>3 DEF Writer, ReconcilePublication, ReconcileInner, Discard,
          record_recovery_outcome, discard_step
<1>6. WorkOK'
  <2>1. CASE UNCHANGED work
    BY <1>0, <2>1, WorkTypes
  <2>2. CASE \E r \in Recovery : ReconcilePublication(r) \/ ReconcileInner(r) \/ Discard(r)
    BY <1>0, <2>2, WorkTypes DEF ReconcilePublication, ReconcileInner, Discard
  <2>3. CASE repair_operation_publication \/ discard_step
    <3>1. work.kind \in {"repair", "discard"} /\ work.step \in 1 .. 4
      BY <1>0, <2>3 DEF repair_operation_publication, discard_step, WorkOK
    <3>2. work' = NoWork \/ (work.step < 4 /\ work' = [work EXCEPT !.step = @ + 1])
      BY <2>3, <3>1 DEF repair_operation_publication, discard_step
    <3> QED
      BY <1>0, <3>1, <3>2, WorkTypes
  <2>4. CASE record_recovery_outcome
    <3>1. work.kind = "resolve" /\ work.step \in 1 .. 4
      BY <1>0, <2>4 DEF record_recovery_outcome, WorkOK
    <3>2. work' = NoWork \/ (work.step < 3 /\ work' = [work EXCEPT !.step = @ + 1])
      BY <2>4 DEF record_recovery_outcome
    <3>3. work.step < 3 => work.step < 4
      BY <3>1
    <3> QED
      BY <1>0, <3>1, <3>2, <3>3, WorkTypes
  <2> QED
    BY <2>2, <2>3, <2>4 DEF Writer
<1>7. StoreOK'
  <2>1. work.kind # "none" => work.recovery \in Recovery
    BY <1>0 DEF WorkOK
  <2>2. CASE \E r \in Recovery : ReconcilePublication(r) \/ ReconcileInner(r) \/ Discard(r)
    <3>1. PICK r \in Recovery : ReconcilePublication(r) \/ ReconcileInner(r) \/ Discard(r)
      BY <2>2
    <3>2. UNCHANGED <<op_row, job_row>>
      BY <3>1 DEF ReconcilePublication, ReconcileInner, Discard, store
    <3>3. \/ UNCHANGED <<rec_row, unlinked>>
          \/ RecordBare(r, "Required")
      BY <3>1 DEF ReconcilePublication, ReconcileInner, Discard, store
    <3> QED
      BY <1>0, <3>2, <3>3 DEF StoreOK, RecordBare
  <2>3. CASE repair_operation_publication
    <3>1. Stable(work.recovery[1]) \in Recovery
      BY <2>1, <2>3 DEF repair_operation_publication, Repairing
    <3> QED
      BY <1>0, <2>3, <3>1 DEF StoreOK, repair_operation_publication
  <2>4. CASE record_recovery_outcome
    <3> DEFINE r == work.recovery
    <3>1. r \in Recovery
      BY <2>1, <2>4 DEF record_recovery_outcome
    <3>2. \/ UNCHANGED store
          \/ RecordBare(r, "Resolved") /\ UNCHANGED <<op_row, job_row>>
          \/ /\ \E others \in SUBSET Recovery :
                    rec_row' = [s \in Recovery |-> IF s \in others THEN "Resolved" ELSE rec_row[s]]
             /\ UNCHANGED <<unlinked, op_row, job_row>>
          \/ SettleFailed(r[1]) /\ UNCHANGED <<rec_row, unlinked>>
      BY <2>4 DEF record_recovery_outcome, Linked
    <3> HIDE DEF r
    <3> QED
      BY <1>0, <3>1, <3>2 DEF StoreOK, store, RecordBare, SettleFailed
  <2>5. CASE discard_step
    <3>1. work.recovery \in Recovery
      BY <2>1, <2>5 DEF discard_step
    <3>2. rec_row' \in [Recovery -> {"none", "Required", "Resolved", "Discarded"}]
      BY <1>0, <2>5, <3>1 DEF StoreOK, discard_step
    <3>3. /\ UNCHANGED unlinked
          /\ UNCHANGED <<op_row, job_row>> \/ SettleFailed(work.recovery[1])
      BY <2>5 DEF discard_step
    <3> QED
      BY <1>0, <3>2, <3>3 DEF StoreOK, SettleFailed
  <2> QED
    BY <2>2, <2>3, <2>4, <2>5 DEF Writer
<1> QED
  BY <1>2, <1>3, <1>5, <1>6, <1>7, TypePartsNext

LEMMA RestartTypes ==
    ASSUME TypeInv,
           \/ Crash \/ RestartDone \/ UNCHANGED vars
           \/ \E x \in Things : RestartRow(x) \/ RestartRecovery(x)
    PROVE  TypeInv'
<1>0. /\ MemoryOK /\ CallersOK /\ StoreOK /\ CountersOK /\ GhostsOK /\ WorkOK /\ SealedAnswered
  BY TypeParts
<1>1. CASE Crash
  <2>1. MemoryOK' /\ CallersOK'
    BY <1>0, <1>1 DEF Crash, MemoryOK, CallersOK, NoFence
  <2>2. StoreOK' /\ GhostsOK'
    BY <1>0, <1>1 DEF Crash, StoreOK, GhostsOK, store, ghosts
  <2>3. CountersOK'
    BY <1>0, <1>1, RestartAssumption DEF Crash, CountersOK
  <2>4. WorkOK'
    BY <1>0, <1>1, WorkTypes DEF Crash
  <2>5. SealedAnswered'
    BY <1>0, <1>1 DEF Crash, SealedAnswered
  <2> QED
    BY <2>1, <2>2, <2>3, <2>4, <2>5, TypePartsNext
<1>2. CASE RestartDone
  BY <1>0, <1>2, TypePartsNext DEF RestartDone, MemoryOK, CallersOK, StoreOK, CountersOK, GhostsOK,
        WorkOK, SealedAnswered, local, store, ghosts
<1>3. ASSUME NEW x \in Things, RestartRow(x) \/ RestartRecovery(x) PROVE TypeInv'
  <2>1. /\ UNCHANGED <<policy, kind, health, op_fence, job_fence, active, version, inner_rec,
                       inner_job, op_pc, job_pc, unlinked, work, failures, durable, stale, held, bare,
                       reported, phase, crashes>>
    BY <1>3 DEF RestartRow, RestartRecovery, inner, local, ghosts
  <2>2. MemoryOK' /\ CallersOK' /\ CountersOK' /\ GhostsOK' /\ WorkOK' /\ SealedAnswered'
    BY <1>0, <2>1 DEF MemoryOK, CallersOK, CountersOK, GhostsOK, WorkOK, SealedAnswered
  <2>3. x \in Ops => RestartedRow(x) \in {"Failed", "RecoveryRequired"}
    BY RecoveryFacts DEF RestartedRow
  <2>4. RestartedRow(x) \in {"Orphaned", "Failed", "RecoveryRequired"}
    BY DEF RestartedRow
  <2>5. StoreOK'
    BY <1>0, <1>3, <2>1, <2>3, <2>4, RecoveryFacts DEF RestartRow, RestartRecovery, StoreOK, Linked
  <2> QED
    BY <2>2, <2>5, TypePartsNext
<1>4. CASE UNCHANGED vars
  BY <1>0, <1>4, TypePartsNext DEF vars, jvars, MemoryOK, CallersOK, StoreOK, CountersOK, GhostsOK,
        WorkOK, SealedAnswered
<1> QED
  BY <1>1, <1>2, <1>3, <1>4

-----------------------------------------------------------------------------
(* Operations.                                                             *)

InvFacts == OpInv /\ JobInv /\ StableLinked /\ WriterInv /\ EffectsRecorded

\* What a step of the caller of o leaves alone.
LEMMA OpFrame ==
    ASSUME TypeInv, NEW o \in Ops, KeepsPlace(o), LiveOp(o)
    PROVE  /\ UNCHANGED <<policy, kind, job_pc, job_row, unlinked, work>>
           /\ op_pc[o] # "done"
           /\ \A p \in Ops \ {o} : op_pc'[p] = op_pc[p] /\ op_row'[p] = op_row[p]
           /\ \A r \in Recovery \ {Stable(o), Alias(o)} : rec_row'[r] = rec_row[r]
           /\ \A r \in Recovery \ {Alias(o), Inert(o)} : inner_rec'[r] = inner_rec[r]
           /\ \A x \in Things \ {o} :
                  /\ reported'[x] = reported[x]
                  /\ x \in durable' <=> x \in durable
                  /\ x \in stale' <=> x \in stale
                  /\ x \in held' <=> x \in held
                  /\ x \in bare' <=> x \in bare
           /\ stale \subseteq stale'
           /\ active' \in {active, o, None}
           /\ \A p \in Ops \ {o} : ~PipeFs /\ active = p /\ p \in InProgress => active' = p
           /\ work.kind # "none" => UNCHANGED <<op_row, rec_row>>
<1>0. MemoryOK /\ CallersOK /\ StoreOK /\ GhostsOK
  BY TypeParts
<1>1. UNCHANGED <<policy, kind, job_pc, job_row, unlinked, work>>
  BY DEF LiveOp, BeginCheck, InnerBegin, CancelBegin, RecordAdmission, Abandon, BeginPublication,
        RecordExecution, ClaimPermit, InnerSettle, FinishPublication, PublishSettlement, FenceLost,
        DropPermit, HandOut, inner, store, ghosts
<1>2. op_pc[o] # "done"
  BY DEF LiveOp, BeginCheck, InnerBegin, CancelBegin, RecordAdmission, Abandon, BeginPublication,
        RecordExecution, ClaimPermit, InnerSettle, FinishPublication, PublishSettlement, FenceLost,
        KeepsPlace, InProgress
<1>3. \A p \in Ops \ {o} : op_pc'[p] = op_pc[p]
  BY <1>0 DEF CallersOK, LiveOp, BeginCheck, InnerBegin, CancelBegin, RecordAdmission, Abandon,
        BeginPublication, RecordExecution, ClaimPermit, InnerSettle, FinishPublication,
        PublishSettlement, FenceLost, HandOut, Goto
<1>4. \A p \in Ops \ {o} : op_row'[p] = op_row[p]
  BY <1>0 DEF StoreOK, LiveOp, BeginCheck, InnerBegin, CancelBegin, RecordAdmission, Abandon,
        BeginPublication, RecordExecution, ClaimPermit, InnerSettle, FinishPublication,
        PublishSettlement, FenceLost, store
<1>5. \A r \in Recovery \ {Stable(o), Alias(o)} : rec_row'[r] = rec_row[r]
  BY <1>0 DEF StoreOK, LiveOp, BeginCheck, InnerBegin, CancelBegin, RecordAdmission, Abandon,
        BeginPublication, RecordExecution, ClaimPermit, InnerSettle, FinishPublication,
        PublishSettlement, FenceLost, store
<1>6. \A r \in Recovery \ {Alias(o), Inert(o)} : inner_rec'[r] = inner_rec[r]
  BY <1>0 DEF MemoryOK, LiveOp, BeginCheck, InnerBegin, CancelBegin, RecordAdmission, Abandon,
        BeginPublication, RecordExecution, ClaimPermit, InnerSettle, FinishPublication,
        PublishSettlement, FenceLost, DropPermit, HandOut, inner
<1>7. \A x \in Things \ {o} : reported'[x] = reported[x]
  BY <1>0 DEF GhostsOK, Things, LiveOp, BeginCheck, InnerBegin, CancelBegin, RecordAdmission,
        Abandon, BeginPublication, RecordExecution, ClaimPermit, InnerSettle, FinishPublication,
        PublishSettlement, FenceLost, HandOut, Answer, ghosts
<1>8. /\ durable' \in {durable, durable \cup {o}} /\ stale' \in {stale, stale \cup {o}}
      /\ held' \in {held, held \cup {o}} /\ bare' \in {bare, bare \cup {o}}
  BY DEF LiveOp, BeginCheck, InnerBegin, CancelBegin, RecordAdmission, Abandon, BeginPublication,
        RecordExecution, ClaimPermit, InnerSettle, FinishPublication, PublishSettlement, FenceLost,
        HandOut, ghosts
<1>9. work.kind # "none" => UNCHANGED <<op_row, rec_row>>
  BY DEF LiveOp, BeginCheck, InnerBegin, CancelBegin, RecordAdmission, Abandon, BeginPublication,
        RecordExecution, ClaimPermit, InnerSettle, FinishPublication, PublishSettlement, FenceLost,
        WriterFree, store
<1>10. active' \in {active, o, None}
  BY DEF LiveOp, BeginCheck, InnerBegin, CancelBegin, RecordAdmission, Abandon, BeginPublication,
        RecordExecution, ClaimPermit, InnerSettle, FinishPublication, PublishSettlement, FenceLost,
        DropPermit, HandOut, inner
<1>11. ASSUME NEW p \in Ops \ {o}, ~PipeFs, active = p, p \in InProgress PROVE active' = p
  <2>1. active # None /\ active # o
    BY <1>11, RecoveryFacts
  <2>2. ~InnerSettle(o)
    BY <1>11 DEF InnerSettle, KeepsPlace, InProgress
  <2> QED
    BY <1>11, <2>1, <2>2 DEF LiveOp, BeginCheck, InnerBegin, CancelBegin, RecordAdmission, Abandon,
          BeginPublication, RecordExecution, ClaimPermit, InnerSettle, FinishPublication,
          PublishSettlement, FenceLost, DropPermit, HandOut, inner
<1>12. \A x \in Things \ {o} : /\ x \in durable' <=> x \in durable
                               /\ x \in stale' <=> x \in stale
                               /\ x \in held' <=> x \in held
                               /\ x \in bare' <=> x \in bare
  BY <1>8
<1> QED
  BY <1>1, <1>2, <1>3, <1>4, <1>5, <1>6, <1>7, <1>8, <1>9, <1>10, <1>11, <1>12

\* The caller of o keeps the invariant of o, and records what it has handed
\* out.
OpFacts(o) ==
    /\ OpAhead(o) /\ OpSettled(o) /\ OneRecovery(o) /\ InertUnlinked(o) /\ KeepsPlace(o)
    /\ OpAnswered(o)

OpKept(o) ==
    /\ OpFacts(o)'
    /\ o \in held' \ bare' => op_row'[o] # "none"
    /\ \A r \in {Alias(o), Inert(o)} : inner_rec[r] # "none" => inner_rec'[r] # "none"
    /\ rec_row[Stable(o)] # "none" => rec_row'[Stable(o)] # "none"
    /\ op_fence'.state = "RecoveryRequired" =>
           op_fence' = op_fence \/ (op_fence'.op = o /\ Unpublished(o)')

\* What PipeFS has to do with the place of an operation.
LEMMA PlaceKept ==
    ASSUME TypeInv, NEW o \in Ops, KeepsPlace(o), LiveOp(o)
    PROVE  KeepsPlace(o)'
<1>0. MemoryOK /\ CallersOK /\ GhostsOK /\ None \notin Ops
  BY TypeParts, RecoveryFacts
<1>1. PipeFs' = PipeFs
  BY OpFrame DEF PipeFs
<1>2. CASE BeginCheck(o) \/ InnerBegin(o) \/ CancelBegin(o) \/ Abandon(o)
  BY <1>0, <1>1, <1>2 DEF BeginCheck, InnerBegin, CancelBegin, Abandon, KeepsPlace, InProgress,
        CallersOK, Goto, DropPermit, inner, ghosts
<1>3. CASE RecordAdmission(o) \/ BeginPublication(o) \/ RecordExecution(o)
  BY <1>0, <1>1, <1>3 DEF RecordAdmission, BeginPublication, RecordExecution, KeepsPlace,
        InProgress, CallersOK, Goto, DropPermit, HandOut, inner, ghosts
<1>4. CASE ClaimPermit(o) \/ InnerSettle(o) \/ FenceLost(o)
  BY <1>0, <1>1, <1>4 DEF ClaimPermit, InnerSettle, FenceLost, KeepsPlace, InProgress, CallersOK,
        Goto, inner, ghosts
<1>5. CASE FinishPublication(o) \/ PublishSettlement(o)
  BY <1>0, <1>1, <1>5 DEF FinishPublication, PublishSettlement, KeepsPlace, InProgress, CallersOK,
        Goto, inner
<1> QED
  BY <1>2, <1>3, <1>4, <1>5 DEF LiveOp

LEMMA OpStep ==
    ASSUME IndInv, NEW o \in Ops, LiveOp(o)
    PROVE  OpKept(o)
<1>0. /\ MemoryOK /\ CallersOK /\ StoreOK /\ GhostsOK /\ TypeInv
      /\ OpAhead(o) /\ OpSettled(o) /\ OneRecovery(o) /\ InertUnlinked(o) /\ KeepsPlace(o)
      /\ OpAnswered(o)
      /\ o \in held \ bare => op_row[o] # "none"
  BY TypeParts DEF IndInv, OpInv, EffectsRecorded
<1>f. /\ o \in Things /\ Stable(o) \in Recovery /\ Alias(o) \in Recovery /\ Inert(o) \in Recovery
      /\ Stable(o) # Alias(o) /\ Inert(o) # Alias(o) /\ Inert(o) # Stable(o)
  BY RecoveryFacts
<1>k. KeepsPlace(o)'
  BY <1>0, PlaceKept
<1>i. InertUnlinked(o)'
  BY <1>0, <1>f, OpFrame DEF InertUnlinked
<1> SUFFICES
       /\ (OpAhead(o) /\ OpSettled(o) /\ OneRecovery(o) /\ OpAnswered(o))'
       /\ o \in held' \ bare' => op_row'[o] # "none"
       /\ inner_rec[Alias(o)] # "none" => inner_rec'[Alias(o)] # "none"
       /\ inner_rec[Inert(o)] # "none" => inner_rec'[Inert(o)] # "none"
       /\ rec_row[Stable(o)] # "none" => rec_row'[Stable(o)] # "none"
       /\ op_fence'.state = "RecoveryRequired" =>
              op_fence' = op_fence \/ (op_fence'.op = o /\ Unpublished(o)')
  BY <1>k, <1>i DEF OpKept, OpFacts
<1>1. CASE BeginCheck(o) \/ FenceLost(o)
  BY <1>0, <1>1, <1>f DEF BeginCheck, FenceLost, OpAhead, OpSettled, OneRecovery, OpAnswered,
        CallersOK, MemoryOK, Goto, store, ghosts, inner, Underway
<1>9. CASE InnerBegin(o)
  BY <1>0, <1>9, <1>f DEF InnerBegin, OpAhead, OpSettled, OneRecovery, OpAnswered, CallersOK,
        MemoryOK, Goto, store, ghosts, Underway
<1>2. CASE CancelBegin(o) \/ Abandon(o)
  BY <1>0, <1>2, <1>f DEF CancelBegin, Abandon, OpAhead, OpSettled, OneRecovery, OpAnswered,
        CallersOK, MemoryOK, Goto, DropPermit, store, ghosts, Underway
<1>3. CASE RecordAdmission(o)
  <2>1. /\ op_pc[o] \in {"admitted", "cancelled"} /\ UNCHANGED <<op_fence, rec_row, unlinked>>
        /\ op_row'[o] \in {op_row[o], "Admitted"}
    BY <1>0, <1>3 DEF RecordAdmission, StoreOK
  <2>2. UNCHANGED <<durable, reported>> /\ op_row[o] = "none" /\ o \notin durable
    BY <1>0, <1>3, <2>1 DEF RecordAdmission, HandOut, ghosts, OpAhead, OpSettled
  <2>3. /\ inner_rec'[Alias(o)] = inner_rec[Alias(o)]
        /\ inner_rec[Inert(o)] # "none" => inner_rec'[Inert(o)] # "none"
        /\ \/ op_pc'[o] = "done" /\ UNCHANGED <<held, bare>>
           \/ /\ op_pc[o] = "admitted" /\ op_pc'[o] = "held"
              /\ o \in bare' \/ op_row'[o] # "none"
    BY <1>0, <1>3, <1>f DEF RecordAdmission, CallersOK, MemoryOK, Goto, DropPermit, HandOut, inner,
          ghosts
  <2>4. (OpAhead(o) /\ OpSettled(o) /\ OneRecovery(o) /\ OpAnswered(o))'
    BY <1>0, <2>1, <2>2, <2>3 DEF OpAhead, OpSettled, OneRecovery, OpAnswered, Underway
  <2>5. o \in held' \ bare' => op_row'[o] # "none"
    BY <1>0, <2>1, <2>3
  <2> QED
    BY <2>1, <2>3, <2>4, <2>5
<1>4. CASE BeginPublication(o)
  BY <1>0, <1>4 DEF BeginPublication, OpAhead, OpSettled, OneRecovery, OpAnswered,
        CallersOK, Goto, store, ghosts, inner, Underway
<1>5. CASE RecordExecution(o)
  BY <1>0, <1>5 DEF RecordExecution, OpAhead, OpSettled, OneRecovery, OpAnswered,
        CallersOK, StoreOK, Goto, ghosts, inner, Underway
<1>10. CASE ClaimPermit(o)
  BY <1>0, <1>10 DEF ClaimPermit, OpAhead, OpSettled, OneRecovery, OpAnswered,
        CallersOK, Goto, store, inner, release_pending_operation, NoFence, Underway
<1>6. CASE InnerSettle(o)
  BY <1>0, <1>6, <1>f DEF InnerSettle, OpAhead, OpSettled, OneRecovery, OpAnswered,
        CallersOK, MemoryOK, Goto, store, release_pending_operation, NoFence, Underway
<1>7. CASE FinishPublication(o)
  BY <1>0, <1>7, <1>f DEF FinishPublication, OpAhead, OpSettled, OneRecovery, OpAnswered,
        CallersOK, StoreOK, GhostsOK, Things, Goto, Answer, Unpublished, inner, Applied,
        release_pending_operation, NoFence, Underway
<1>8. CASE PublishSettlement(o)
  BY <1>0, <1>8, <1>f DEF PublishSettlement, SettlementRow, OpAhead, OpSettled, OneRecovery,
        OpAnswered, CallersOK, StoreOK, GhostsOK, Things, Goto, Answer, Unpublished, inner, Applied,
        Commit, Underway
<1> QED
  BY <1>1, <1>2, <1>3, <1>4, <1>5, <1>6, <1>7, <1>8, <1>9, <1>10 DEF LiveOp

LEMMA OpKeeps ==
    ASSUME IndInv, phase = "live", NEW o \in Ops, LiveOp(o), UNCHANGED phase
    PROVE  InvFacts'
<1>0. /\ TypeInv /\ OpInv /\ JobInv /\ StableLinked /\ FenceOK /\ Repairing /\ Resolving /\ Discarding
      /\ EffectsRecorded /\ WorkOK /\ KeepsPlace(o)
  BY DEF IndInv, WriterInv, TypeInv, OpInv
<1>1. OpKept(o)
  BY OpStep
<1>2. /\ UNCHANGED <<policy, kind, job_pc, job_row, unlinked, work>>
      /\ op_pc[o] # "done"
      /\ \A p \in Ops \ {o} : op_pc'[p] = op_pc[p] /\ op_row'[p] = op_row[p]
      /\ \A r \in Recovery \ {Stable(o), Alias(o)} : rec_row'[r] = rec_row[r]
      /\ \A r \in Recovery \ {Alias(o), Inert(o)} : inner_rec'[r] = inner_rec[r]
      /\ \A x \in Things \ {o} :
             /\ reported'[x] = reported[x]
             /\ x \in durable' <=> x \in durable
             /\ x \in stale' <=> x \in stale
             /\ x \in held' <=> x \in held
             /\ x \in bare' <=> x \in bare
      /\ active' \in {active, o, None}
      /\ \A p \in Ops \ {o} : ~PipeFs /\ active = p /\ p \in InProgress => active' = p
      /\ work.kind # "none" => UNCHANGED <<op_row, rec_row>>
  BY <1>0, OpFrame
<1>f. /\ Ops \subseteq Things /\ Jobs \subseteq Things /\ Ops \cap Jobs = {} /\ None \notin Ops
      /\ \A x \in Things : Stable(x) \in Recovery \ {Alias(o), Inert(o)}
      /\ \A x \in Things \ {o} :
             {Stable(x), Alias(x), Inert(x)} \cap {Stable(o), Alias(o), Inert(o)} = {}
      /\ \A p \in Ops : Stable(p) \in Recovery /\ Alias(p) \in Recovery /\ Inert(p) \in Recovery
  BY RecoveryFacts
<1>3. OpInv'
  <2>1. ASSUME NEW p \in Ops, p # o
        PROVE  OpFacts(p)'
    <3>1. /\ p \in Things \ {o} /\ p \in Ops \ {o} /\ op_pc'[p] = op_pc[p] /\ op_row'[p] = op_row[p]
          /\ rec_row'[Stable(p)] = rec_row[Stable(p)] /\ rec_row'[Alias(p)] = rec_row[Alias(p)]
          /\ rec_row'[Inert(p)] = rec_row[Inert(p)] /\ inner_rec'[Alias(p)] = inner_rec[Alias(p)]
      BY <1>2, <1>f, <2>1
    <3>2. OpFacts(p)
      BY <1>0 DEF OpInv, OpFacts
    <3>3. (OpAhead(p) /\ OpSettled(p) /\ OneRecovery(p) /\ InertUnlinked(p) /\ OpAnswered(p))'
      BY <1>2, <3>1, <3>2 DEF OpFacts, OpAhead, OpSettled, OneRecovery, OpAnswered, InertUnlinked
    <3>4. KeepsPlace(p)'
      BY <1>2, <1>f, <2>1, <3>1, <3>2 DEF OpFacts, KeepsPlace, InProgress, PipeFs
    <3> QED
      BY <3>3, <3>4 DEF OpFacts
  <2> QED
    BY <1>1, <2>1 DEF OpInv, OpFacts, OpKept
<1>4. JobInv'
  <2>1. \A j \in Jobs : reported'[j] = reported[j]
    BY <1>2, <1>f
  <2> QED
    BY <1>0, <1>2, <2>1 DEF JobInv, JobAnswered
<1>5. StableLinked'
  <2>1. \A x \in Things : inner_rec'[Stable(x)] = inner_rec[Stable(x)]
    BY <1>2, <1>f
  <2>2. \A x \in Things : rec_row[Stable(x)] # "none" => rec_row'[Stable(x)] # "none"
    BY <1>1, <1>2, <1>f DEF OpKept
  <2> QED
    BY <1>0, <1>2, <2>1, <2>2 DEF StableLinked
<1>6. \A q : Unpublished(q) => q # o /\ Unpublished(q)'
  BY <1>2, <1>f DEF Unpublished
<1>7. FenceOK'
  BY <1>0, <1>1, <1>6 DEF FenceOK, OpKept
<1>8. Repairing'
  BY <1>0, <1>2, <1>6 DEF Repairing
<1>9. \A r \in Recovery : inner_rec[r] # "none" => inner_rec'[r] # "none"
  BY <1>1, <1>2 DEF OpKept
<1>10. \A r \in Recovery : r[2] = "stable" => inner_rec'[r] = inner_rec[r]
  BY <1>2, RecoveryFacts
<1>11. Resolving' /\ Discarding'
  BY <1>0, <1>2, <1>9, <1>10 DEF Resolving, Discarding, WorkOK
<1>12. Restarting'
  BY DEF Restarting
<1>13. EffectsRecorded'
  <2>1. \A p \in (held' \cap Ops) \ bare' : op_row'[p] # "none"
    BY <1>0, <1>1, <1>2, <1>f DEF EffectsRecorded, OpKept
  <2>2. /\ \A j \in held' \cap Jobs : j \in held
        /\ \A j \in Jobs : is_writer(j)' = is_writer(j)
        /\ \A j \in Jobs : is_local_live_process(j)' = is_local_live_process(j)
    BY <1>2, <1>f DEF is_writer, is_local_live_process, PipeFs
  <2> QED
    BY <1>0, <1>2, <2>1, <2>2 DEF EffectsRecorded
<1> QED
  BY <1>3, <1>4, <1>5, <1>7, <1>8, <1>11, <1>12, <1>13 DEF InvFacts, WriterInv

-----------------------------------------------------------------------------
(* Jobs.                                                                   *)

\* What the owner of a job leaves alone.
LEMMA JobFrame ==
    ASSUME TypeInv, NEW j \in Jobs, LiveJob(j)
    PROVE  /\ UNCHANGED <<policy, kind, op_fence, op_pc, op_row, unlinked, work, active, durable,
                         stale, bare>>
           /\ \A i \in Jobs \ {j} : job_pc'[i] = job_pc[i] /\ job_row'[i] = job_row[i]
           /\ \A r \in Recovery \ {Alias(j), JournalRecovery(j)} : rec_row'[r] = rec_row[r]
           /\ \A r \in Recovery \ {Alias(j)} : inner_rec'[r] = inner_rec[r]
           /\ \A x \in Things \ {j} : reported'[x] = reported[x] /\ (x \in held' <=> x \in held)
           /\ work.kind # "none" => UNCHANGED <<job_row, rec_row>>
<1>0. MemoryOK /\ CallersOK /\ StoreOK /\ GhostsOK
  BY TypeParts
<1>1. UNCHANGED <<policy, kind, op_fence, op_pc, op_row, unlinked, work, active, durable, stale,
                  bare>>
  BY DEF LiveJob, JobCheck, JobRegister, JobRecord, SealJob, InnerSeal, InnerSealRejected,
        FinishJobPublication, inner, store, ghosts
<1>2. \A i \in Jobs \ {j} : job_pc'[i] = job_pc[i]
  BY <1>0 DEF CallersOK, LiveJob, JobCheck, JobRegister, JobRecord, SealJob, InnerSeal,
        InnerSealRejected, FinishJobPublication, GotoJob
<1>3. \A i \in Jobs \ {j} : job_row'[i] = job_row[i]
  BY <1>0 DEF StoreOK, LiveJob, JobCheck, JobRegister, JobRecord, SealJob, InnerSeal,
        InnerSealRejected, FinishJobPublication, store
<1>4. \A r \in Recovery \ {Alias(j), JournalRecovery(j)} : rec_row'[r] = rec_row[r]
  BY <1>0 DEF StoreOK, LiveJob, JobCheck, JobRegister, JobRecord, SealJob, InnerSeal,
        InnerSealRejected, FinishJobPublication, store
<1>5. \A r \in Recovery \ {Alias(j)} : inner_rec'[r] = inner_rec[r]
  BY <1>0 DEF MemoryOK, LiveJob, JobCheck, JobRegister, JobRecord, SealJob, InnerSeal,
        InnerSealRejected, FinishJobPublication, inner
<1>6. \A x \in Things \ {j} : reported'[x] = reported[x]
  BY <1>0 DEF GhostsOK, Things, LiveJob, JobCheck, JobRegister, JobRecord, SealJob, InnerSeal,
        InnerSealRejected, FinishJobPublication, Answer, ghosts
<1>7. held' \in {held, held \cup {j}}
  BY DEF LiveJob, JobCheck, JobRegister, JobRecord, SealJob, InnerSeal, InnerSealRejected,
        FinishJobPublication, ghosts
<1>8. work.kind # "none" => UNCHANGED <<job_row, rec_row>>
  BY DEF LiveJob, JobCheck, JobRegister, JobRecord, SealJob, InnerSeal, InnerSealRejected,
        FinishJobPublication, WriterFree, store
<1>9. \A x \in Things \ {j} : x \in held' <=> x \in held
  BY <1>7
<1> QED
  BY <1>1, <1>2, <1>3, <1>4, <1>5, <1>6, <1>8, <1>9

JobKept(j) ==
    /\ JobAnswered(j)'
    /\ j \in held' /\ is_writer(j) => job_row'[j] # "none"
    /\ job_row'[j] # "Orphaned" \/ job_row'[j] = job_row[j]
    /\ inner_rec[Alias(j)] # "none" => inner_rec'[Alias(j)] # "none"

LEMMA JobStep ==
    ASSUME IndInv, NEW j \in Jobs, LiveJob(j)
    PROVE  JobKept(j)
<1>0. /\ MemoryOK /\ CallersOK /\ StoreOK /\ GhostsOK /\ SealedAnswered
      /\ JobAnswered(j)
      /\ j \in held /\ is_writer(j) => job_row[j] # "none"
  BY TypeParts DEF IndInv, JobInv, EffectsRecorded
<1>f. j \in Things /\ Alias(j) \in Recovery
  BY RecoveryFacts
<1>1. CASE JobCheck(j) \/ JobRegister(j)
  BY <1>0, <1>1 DEF JobCheck, JobRegister, JobKept, JobAnswered, CallersOK, GotoJob, inner, store,
        ghosts
<1>2. CASE JobRecord(j)
  BY <1>0, <1>2 DEF JobRecord, JobKept, JobAnswered, CallersOK, StoreOK, GotoJob, Applied
<1>3. CASE SealJob(j) \/ InnerSealRejected(j)
  BY <1>0, <1>3 DEF SealJob, InnerSealRejected, JobKept, JobAnswered, CallersOK, GotoJob, inner,
        store, ghosts
<1>4. CASE InnerSeal(j)
  BY <1>0, <1>4, <1>f DEF InnerSeal, JobKept, JobAnswered, CallersOK, MemoryOK, GotoJob, store,
        ghosts
<1>5. CASE FinishJobPublication(j)
  <2>1. /\ inner_job[j] \in {"Advancing", "RecoveryRequired", "Terminal"}
        /\ UNCHANGED <<inner_rec, held>>
    BY <1>0, <1>5 DEF FinishJobPublication, SealedAnswered, inner
  <2>2. job_row'[j] \in {job_row[j], inner_job[j]}
    BY <1>0, <1>5, <1>f DEF FinishJobPublication, StoreOK
  <2>3. /\ job_pc'[j] \in {"running", "done"}
        /\ reported'[j] \in {"none", inner_job[j]}
        /\ reported'[j] = inner_job[j] => job_row'[j] = inner_job[j]
        /\ reported'[j] = "Terminal" => job_pc'[j] = "done"
    BY <1>0, <1>5, <2>1 DEF FinishJobPublication, CallersOK, GhostsOK, StoreOK, GotoJob, Answer,
          Applied
  <2> QED
    BY <1>0, <2>1, <2>2, <2>3 DEF JobKept, JobAnswered
<1> QED
  BY <1>1, <1>2, <1>3, <1>4, <1>5 DEF LiveJob

LEMMA JobKeeps ==
    ASSUME IndInv, phase = "live", NEW j \in Jobs, LiveJob(j), UNCHANGED phase
    PROVE  InvFacts'
<1>0. /\ TypeInv /\ OpInv /\ JobInv /\ StableLinked /\ FenceOK /\ Repairing /\ Resolving /\ Discarding
      /\ EffectsRecorded /\ WorkOK
  BY DEF IndInv, WriterInv, TypeInv
<1>1. JobKept(j)
  BY JobStep
<1>2. /\ UNCHANGED <<policy, kind, op_fence, op_pc, op_row, unlinked, work, active, durable, stale,
                     bare>>
      /\ \A i \in Jobs \ {j} : job_pc'[i] = job_pc[i] /\ job_row'[i] = job_row[i]
      /\ \A r \in Recovery \ {Alias(j), JournalRecovery(j)} : rec_row'[r] = rec_row[r]
      /\ \A r \in Recovery \ {Alias(j)} : inner_rec'[r] = inner_rec[r]
      /\ \A x \in Things \ {j} : reported'[x] = reported[x] /\ (x \in held' <=> x \in held)
      /\ work.kind # "none" => UNCHANGED <<job_row, rec_row>>
  BY <1>0, JobFrame
<1>f. /\ Ops \subseteq Things /\ Jobs \subseteq Things /\ \A o \in Ops : o \in Things \ {j}
      /\ \A x \in Things : Stable(x) \in Recovery \ {Alias(j), JournalRecovery(j)}
      /\ \A o \in Ops : {Alias(o), Inert(o)} \subseteq Recovery \ {Alias(j), JournalRecovery(j)}
  BY RecoveryFacts
<1>s. \A x \in Things : /\ rec_row'[Stable(x)] = rec_row[Stable(x)]
                        /\ inner_rec'[Stable(x)] = inner_rec[Stable(x)]
  BY <1>2, <1>f
<1>3. OpInv'
  <2>1. ASSUME NEW o \in Ops PROVE OpFacts(o)'
    <3>1. /\ o \in Things \ {j} /\ rec_row'[Stable(o)] = rec_row[Stable(o)]
          /\ rec_row'[Alias(o)] = rec_row[Alias(o)] /\ rec_row'[Inert(o)] = rec_row[Inert(o)]
          /\ inner_rec'[Alias(o)] = inner_rec[Alias(o)]
      BY <1>2, <1>f
    <3>2. OpFacts(o)
      BY <1>0 DEF OpInv, OpFacts
    <3> QED
      BY <1>2, <3>1, <3>2 DEF OpFacts, OpAhead, OpSettled, OneRecovery, OpAnswered, InertUnlinked,
            KeepsPlace, InProgress, PipeFs
  <2> QED
    BY <2>1 DEF OpInv, OpFacts
<1>4. JobInv'
  BY <1>0, <1>1, <1>2, <1>f DEF JobInv, JobAnswered, JobKept
<1>5. StableLinked'
  BY <1>0, <1>2, <1>s DEF StableLinked
<1>6. \A q : Unpublished(q) => Unpublished(q)'
  BY <1>2, <1>f DEF Unpublished
<1>7. FenceOK' /\ Repairing'
  BY <1>0, <1>2, <1>6 DEF FenceOK, Repairing
<1>9. \A r \in Recovery : inner_rec[r] # "none" => inner_rec'[r] # "none"
  BY <1>1, <1>2 DEF JobKept
<1>10. \A r \in Recovery : r[2] = "stable" => inner_rec'[r] = inner_rec[r]
  BY <1>2, RecoveryFacts
<1>11. Resolving' /\ Discarding'
  BY <1>0, <1>2, <1>9, <1>10 DEF Resolving, Discarding, WorkOK
<1>12. Restarting'
  BY DEF Restarting
<1>13. EffectsRecorded'
  <2>1. /\ \A i \in Jobs : is_writer(i)' = is_writer(i)
        /\ \A i \in Jobs : is_local_live_process(i)' = is_local_live_process(i)
    BY <1>2 DEF is_writer, is_local_live_process, PipeFs
  <2> QED
    BY <1>0, <1>1, <1>2, <1>f, <2>1 DEF EffectsRecorded, JobKept
<1> QED
  BY <1>3, <1>4, <1>5, <1>7, <1>11, <1>12, <1>13 DEF InvFacts, WriterInv

-----------------------------------------------------------------------------
(* The writer.                                                             *)

\* What the closures do to the records: only of what the inner controller
\* knows, or of a settlement that could not be published, a recovery appears;
\* only what is unfinished ends.
Recording ==
    /\ UNCHANGED <<policy, kind, op_pc, job_pc, durable, stale, held, bare, reported>>
    /\ active' = active \/ (PipeFs /\ active' = None)
    /\ \A r \in Recovery :
           /\ inner_rec'[r] = "none" <=> inner_rec[r] = "none"
           /\ rec_row[r] # "none" => rec_row'[r] # "none"
           /\ rec_row'[r] # "none" =>
                  \/ rec_row[r] # "none" \/ inner_rec[r] # "none"
                  \/ \E o \in Ops : Unpublished(o) /\ r = Stable(o)
           /\ rec_row[r] = "none" /\ rec_row'[r] # "none" => r \in unlinked' \/ r[2] = "stable"
    /\ unlinked \subseteq unlinked'
    /\ \A r \in unlinked' : r \in unlinked \/ (rec_row[r] = "none" /\ inner_rec[r] # "none")
    /\ \A o \in Ops :
           \/ op_row'[o] = op_row[o]
           \/ Unpublished(o) /\ op_row'[o] \notin {"none", "Failed"}
           \/ operation_requires_recovery(o) /\ op_row'[o] = "Failed"
    /\ \A j \in Jobs :
           \/ job_row'[j] = job_row[j]
           \/ job_row[j] \notin JobTerminal \cup {"none"} /\ job_row'[j] = "Failed"

LEMMA RecordingKeeps ==
    ASSUME OpInv, JobInv, StableLinked, EffectsRecorded, Recording
    PROVE  OpInv' /\ JobInv' /\ StableLinked' /\ EffectsRecorded'
<1>f. /\ Ops \subseteq Things /\ Jobs \subseteq Things
      /\ \A x \in Things : Stable(x) \in Recovery /\ Alias(x) \in Recovery
      /\ \A o \in Ops : Inert(o) \in Recovery /\ Inert(o)[2] # "stable"
      /\ \A x, y : Stable(x) # Alias(y)
      /\ \A x, y : Stable(x) = Stable(y) => x = y
      /\ None \notin Ops
  BY RecoveryFacts
<1>1. \A x \in Things : inner_rec[Stable(x)] # "none" => rec_row[Stable(x)] # "none"
  BY DEF StableLinked
<1>2. \A o \in Ops : rec_row'[Stable(o)] # "none" => rec_row[Stable(o)] # "none" \/ Unpublished(o)
  BY <1>1, <1>f DEF Recording
<1>3. \A o \in Ops : rec_row'[Alias(o)] # "none" =>
          rec_row[Alias(o)] # "none" \/ inner_rec[Alias(o)] # "none"
  BY <1>f DEF Recording
<1>4. \A o \in Ops : inner_rec'[Alias(o)] = "none" <=> inner_rec[Alias(o)] = "none"
  BY <1>f DEF Recording
<1>5. \A o \in Ops : Alias(o) \notin unlinked' => Alias(o) \notin unlinked
  BY DEF Recording
<1>6. ASSUME NEW o \in Ops
      PROVE  OpFacts(o)'
  <2>0. /\ OpAhead(o) /\ OpSettled(o) /\ OneRecovery(o) /\ InertUnlinked(o) /\ KeepsPlace(o)
        /\ OpAnswered(o)
    BY DEF OpInv
  <2>1. /\ op_pc' = op_pc /\ durable' = durable /\ reported' = reported
        /\ \/ op_row'[o] = op_row[o]
           \/ Unpublished(o) /\ op_row'[o] \notin {"none", "Failed"}
           \/ operation_requires_recovery(o) /\ op_row'[o] = "Failed"
    BY DEF Recording
  <2>2. OpAhead(o)'
    BY <1>2, <1>3, <1>4, <2>0, <2>1 DEF OpAhead, Unpublished, operation_requires_recovery
  <2>3. OpSettled(o)'
    BY <1>3, <1>4, <2>0, <2>1 DEF OpSettled
  <2>4. OneRecovery(o)'
    BY <1>2, <1>4, <1>5, <2>0, <2>1 DEF OneRecovery, OpSettled, Unpublished,
          operation_requires_recovery
  <2>5. OpAnswered(o)'
    BY <2>0, <2>1 DEF OpAnswered, Unpublished, operation_requires_recovery
  <2>6. InertUnlinked(o)'
    BY <1>f, <2>0 DEF InertUnlinked, Recording
  <2>7. KeepsPlace(o)'
    BY <1>f, <2>0 DEF KeepsPlace, InProgress, PipeFs, Recording
  <2> QED
    BY <2>2, <2>3, <2>4, <2>5, <2>6, <2>7 DEF OpFacts
<1>7. JobInv'
  BY DEF JobInv, JobAnswered, Recording, JobTerminal
<1>8. StableLinked'
  BY <1>1, <1>f DEF StableLinked, Recording
<1>9. EffectsRecorded'
  <2>1. /\ \A j \in Jobs : is_writer(j)' = is_writer(j)
        /\ \A j \in Jobs : is_local_live_process(j)' = is_local_live_process(j)
        /\ UNCHANGED <<held, bare>>
    BY DEF Recording, is_writer, is_local_live_process, PipeFs
  <2>2. \A o \in Ops : op_row[o] # "none" => op_row'[o] # "none"
    BY DEF Recording
  <2>3. \A j \in Jobs : /\ job_row[j] # "none" => job_row'[j] # "none"
                        /\ job_row'[j] = "Orphaned" => job_row[j] = "Orphaned"
    BY DEF Recording
  <2> QED
    BY <2>1, <2>2, <2>3 DEF EffectsRecorded
<1> QED
  BY <1>6, <1>7, <1>8, <1>9 DEF OpInv, OpFacts

\* What a step may do to the rows: a lifecycle ends as failed on a decision
\* only, or because the operation has lost its place, a recovery is resolved
\* last, and no recovery is forgotten.
FailedStep ==
    /\ \A o \in Ops : op_row[o] # "Failed" /\ op_row'[o] = "Failed" =>
           Decided(o) \/ (PipeFs /\ op_pc[o] = "stale")
    /\ \A j \in Jobs : job_row[j] # "Failed" /\ job_row'[j] = "Failed" => Decided(j)
ResolvedStep ==
    \A o \in Ops : rec_row[Stable(o)] # "Resolved" /\ rec_row'[Stable(o)] = "Resolved" =>
        op_row[o] \in {"Durable", "Failed"} \/ inner_rec[Stable(o)] = "closed"
RowsGrow ==
    /\ stale \subseteq stale'
    /\ \A r \in Recovery : rec_row[r] # "none" =>
           rec_row'[r] # "none" /\ (r \in unlinked' => r \in unlinked)

StepFacts == FailedStep /\ ResolvedStep /\ RowsGrow

LEMMA FailedKept ==
    ASSUME FailedLinked, OpInv, FailedStep, RowsGrow
    PROVE  FailedLinked'
<1>1. \A x : Linked(x) # {} => Linked(x)' # {}
  BY DEF Linked, RowsGrow
<1>2. \A x : Decided(x) => Linked(x) # {}
  BY DEF Decided
<1>3. \A o \in Ops : op_pc[o] = "stale" => o \in stale
  BY DEF OpInv, KeepsPlace
<1> QED
  BY <1>1, <1>2, <1>3 DEF FailedLinked, FailedStep, RowsGrow

LEMMA SettleRecords ==
    ASSUME StoreOK, NEW x \in Things, SettleFailed(x)
    PROVE  /\ \A o \in Ops : \/ op_row'[o] = op_row[o]
                             \/ o = x /\ operation_requires_recovery(o) /\ op_row'[o] = "Failed"
           /\ \A j \in Jobs : \/ job_row'[j] = job_row[j]
                              \/ j = x /\ job_row[j] \notin JobTerminal \cup {"none"}
                                 /\ job_row'[j] = "Failed"
BY RecoveryFacts DEF SettleFailed, StoreOK, Unfinished

\* A closure that only starts, or only notes what it finds.
LEMMA ReconcileKeeps ==
    ASSUME IndInv, phase = "live", UNCHANGED phase, NEW r \in Recovery,
           ReconcilePublication(r) \/ ReconcileInner(r) \/ Discard(r)
    PROVE  InvFacts' /\ StepFacts
<1>0. /\ MemoryOK /\ StoreOK /\ WorkOK /\ OpInv /\ JobInv /\ StableLinked /\ FenceOK
      /\ EffectsRecorded
  BY TypeParts DEF IndInv, WriterInv
<1>1. /\ UNCHANGED <<policy, kind, op_pc, job_pc, durable, stale, held, bare, reported, op_fence,
                     op_row, job_row>>
      /\ active' = active \/ (PipeFs /\ active' = None)
      /\ work.kind = "none"
  BY DEF ReconcilePublication, ReconcileInner, Discard, inner, local, store, ghosts, WriterFree
<1>f. /\ \A x \in Things : Stable(x) \in Recovery /\ Stable(x)[1] = x /\ Stable(x)[2] = "stable"
      /\ Ops \subseteq Things
      /\ r[1] \in Things
  BY RecoveryFacts
<1>2. /\ \A s \in Recovery \ {r} : inner_rec'[s] = inner_rec[s] /\ rec_row'[s] = rec_row[s]
      /\ inner_rec'[r] = "none" <=> inner_rec[r] = "none"
      /\ \/ UNCHANGED <<rec_row, unlinked>>
         \/ /\ rec_row'[r] = "Required" /\ (rec_row[r] # "none" \/ inner_rec[r] # "none")
            /\ unlinked' = IF rec_row[r] = "none" THEN unlinked \cup {r} ELSE unlinked
  <2>1. CASE ReconcilePublication(r) \/ Discard(r)
    BY <2>1 DEF ReconcilePublication, Discard, inner, store
  <2>2. CASE ReconcileInner(r)
    <3>1. \/ /\ inner_rec[r] # "none" /\ inner_rec' = [inner_rec EXCEPT ![r] = "closed"]
             /\ UNCHANGED <<rec_row, unlinked>>
          \/ UNCHANGED <<inner_rec, rec_row, unlinked>>
          \/ /\ UNCHANGED inner_rec /\ (rec_row[r] # "none" \/ inner_rec[r] # "none")
             /\ RecordBare(r, "Required")
      BY <2>2 DEF ReconcileInner
    <3> QED
      BY <1>0, <3>1 DEF MemoryOK, StoreOK, RecordBare
  <2> QED
    BY <2>1, <2>2
<1>3. Recording
  BY <1>1, <1>2 DEF Recording
<1>4. StepFacts
  <2>1. FailedStep
    BY <1>1 DEF FailedStep
  <2>2. ResolvedStep
    BY <1>2, <1>f DEF ResolvedStep
  <2>3. RowsGrow
    BY <1>1, <1>2 DEF RowsGrow
  <2> QED
    BY <2>1, <2>2, <2>3 DEF StepFacts
<1>5. FenceOK'
  BY <1>0, <1>1 DEF FenceOK, Unpublished
<1>6. Repairing' /\ Resolving' /\ Discarding'
  <2>1. CASE UNCHANGED work
    BY <1>1, <2>1 DEF Repairing, Resolving, Discarding
  <2>2. CASE ReconcilePublication(r) /\ work' = [kind |-> "repair", recovery |-> r, step |-> 1]
    <3>1. r = Stable(op_fence.op) /\ Unpublished(op_fence.op)
      BY <1>0, <2>2 DEF ReconcilePublication, FencedBy, FenceOK
    <3>2. r[1] = op_fence.op
      BY <1>f, <3>1 DEF Unpublished
    <3>3. Unpublished(r[1])'
      BY <1>1, <3>1, <3>2 DEF Unpublished
    <3> QED
      BY <2>2, <3>1, <3>2, <3>3 DEF Repairing, Resolving, Discarding
  <2>3. CASE ReconcileInner(r) /\ work' = [kind |-> "resolve", recovery |-> r, step |-> 1]
    <3>1. work'.kind # work.kind
      BY <1>1, <2>3
    <3>2. inner_rec' = [inner_rec EXCEPT ![r] = "closed"]
      BY <2>3, <3>1 DEF ReconcileInner
    <3>3. inner_rec'[r] = "closed"
      BY <1>0, <3>2 DEF MemoryOK
    <3> QED
      BY <2>3, <3>3 DEF Repairing, Resolving, Discarding
  <2>4. CASE Discard(r)
    <3>1. /\ inner_rec'[r] = "open" /\ work' = [kind |-> "discard", recovery |-> r, step |-> 1]
          /\ r \in unlinked' \/ r[2] = "stable"
      BY <1>f, <2>4 DEF Discard, inner, store
    <3> QED
      BY <3>1 DEF Repairing, Resolving, Discarding
  <2> QED
    BY <2>1, <2>2, <2>3, <2>4 DEF ReconcilePublication, ReconcileInner
<1>7. Restarting'
  BY DEF Restarting
<1> QED
  BY <1>0, <1>3, <1>4, <1>5, <1>6, <1>7, RecordingKeeps DEF InvFacts, WriterInv

\* The repair writes the settlement before it resolves the recovery.
LEMMA RepairKeeps ==
    ASSUME IndInv, phase = "live", UNCHANGED phase, repair_operation_publication
    PROVE  InvFacts' /\ StepFacts
<1>0. /\ MemoryOK /\ StoreOK /\ WorkOK /\ OpInv /\ JobInv /\ StableLinked /\ FenceOK /\ Repairing
      /\ EffectsRecorded
  BY TypeParts DEF IndInv, WriterInv
<1>1. PICK o \in Ops : o = work.recovery[1] /\ work.recovery = Stable(o) /\ Unpublished(o)
  BY <1>0 DEF repair_operation_publication, Repairing, Unpublished
<1>2. /\ UNCHANGED <<policy, kind, op_pc, job_pc, durable, stale, held, bare, reported, job_row,
                     unlinked, active, inner_rec>>
      /\ work.kind = "repair" /\ work.step \in 1 .. 4
      /\ op_fence' \in {op_fence, NoFence}
  BY <1>0 DEF repair_operation_publication, inner, local, ghosts, WorkOK
<1>3. PICK w \in Outcomes :
          /\ rec_row' = IF work.step \in {1, 4} /\ Applied(w)
                        THEN [rec_row EXCEPT ![Stable(o)] = IF work.step = 4 THEN "Resolved"
                                                            ELSE "Required"] ELSE rec_row
          /\ op_row' = IF work.step \in {2, 3} /\ Applied(w)
                       THEN [op_row EXCEPT ![o] = IF work.step = 2 THEN "ExecutionRecorded"
                                                  ELSE "Durable"] ELSE op_row
          /\ work' = IF w = "ok" /\ ~(work.step = 4) THEN [work EXCEPT !.step = @ + 1] ELSE NoWork
  BY <1>1 DEF repair_operation_publication
<1>f. /\ o \in Things /\ Stable(o) \in Recovery /\ Ops \subseteq Things
      /\ \A x, y : Stable(x) = Stable(y) => x = y
      /\ \A x \in Things : Stable(x) \in Recovery /\ Stable(x)[2] = "stable"
  BY RecoveryFacts
<1>4. /\ \A s \in Recovery \ {Stable(o)} : rec_row'[s] = rec_row[s]
      /\ rec_row'[Stable(o)] \in {rec_row[Stable(o)], "Resolved", "Required"}
      /\ rec_row'[Stable(o)] = "Resolved" => rec_row[Stable(o)] = "Resolved" \/ work.step = 4
      /\ \A p \in Ops \ {o} : op_row'[p] = op_row[p]
      /\ op_row'[o] \in {op_row[o], "ExecutionRecorded", "Durable"}
  BY <1>0, <1>3, <1>f DEF StoreOK
<1>5. Recording
  BY <1>1, <1>2, <1>4, <1>f DEF Recording
<1>6. StepFacts
  <2>1. FailedStep
    BY <1>2, <1>4 DEF FailedStep
  <2>2. work.step = 4 => op_row[o] = "Durable"
    BY <1>0, <1>1, <1>2 DEF Repairing
  <2>3. ResolvedStep
    BY <1>4, <1>f, <2>2 DEF ResolvedStep
  <2>4. RowsGrow
    BY <1>2, <1>4 DEF RowsGrow
  <2> QED
    BY <2>1, <2>3, <2>4 DEF StepFacts
<1>7. FenceOK'
  BY <1>0, <1>2 DEF FenceOK, Unpublished, NoFence
<1>8. Repairing' /\ Resolving' /\ Discarding'
  <2>1. CASE work' = NoWork
    BY <2>1 DEF NoWork, Repairing, Resolving, Discarding
  <2>2. CASE w = "ok" /\ work.step # 4 /\ work' = [work EXCEPT !.step = @ + 1]
    <3>1. work'.kind = "repair" /\ work'.recovery = work.recovery /\ work'.step = work.step + 1
      BY <1>0, <1>2, <2>2 DEF WorkOK
    <3>2. work'.step = 4 => work.step = 3
      BY <1>2, <3>1
    <3>3. work.step = 3 => op_row'[o] = "Durable"
      BY <1>0, <1>3, <2>2 DEF StoreOK, Applied
    <3>4. Unpublished(o)'
      BY <1>1, <1>2 DEF Unpublished
    <3> QED
      BY <1>1, <3>1, <3>2, <3>3, <3>4 DEF Repairing, Resolving, Discarding
  <2> QED
    BY <1>3, <2>1, <2>2
<1>9. Restarting'
  BY DEF Restarting
<1> QED
  BY <1>0, <1>5, <1>6, <1>7, <1>8, <1>9, RecordingKeeps DEF InvFacts, WriterInv

\* The outcome of a reconciliation: the recovery first, the lifecycle last.
LEMMA OutcomeKeeps ==
    ASSUME IndInv, phase = "live", UNCHANGED phase, record_recovery_outcome
    PROVE  InvFacts' /\ StepFacts
<1>0. /\ MemoryOK /\ StoreOK /\ WorkOK /\ OpInv /\ JobInv /\ StableLinked /\ FenceOK /\ Resolving
      /\ EffectsRecorded
  BY TypeParts DEF IndInv, WriterInv
<1>1. /\ work.kind = "resolve" /\ work.recovery \in Recovery /\ work.step \in {1, 2, 3}
  BY <1>0 DEF record_recovery_outcome, WorkOK
<1>r. PICK r \in Recovery : r = work.recovery
  BY <1>1
<1>2. UNCHANGED <<policy, kind, op_pc, job_pc, durable, stale, held, bare, reported, op_fence,
                  active, inner_rec>>
  BY DEF record_recovery_outcome, inner, local, ghosts
<1>3. /\ inner_rec[r] # "none"
      /\ r[2] = "stable" => inner_rec[r] = "closed"
      /\ work.step > 1 => r \notin unlinked /\ rec_row[r] = "Resolved"
  BY <1>0, <1>1, <1>r DEF Resolving
<1> DEFINE others == {s \in Linked(r[1]) \ {r} : Unresolved(s)}
<1>4. PICK w \in Outcomes :
          /\ \/ UNCHANGED store
             \/ work.step = 1 /\ RecordBare(r, "Resolved") /\ UNCHANGED <<op_row, job_row>>
             \/ /\ work.step = 2
                /\ rec_row' = [s \in Recovery |-> IF s \in others THEN "Resolved" ELSE rec_row[s]]
                /\ UNCHANGED <<unlinked, op_row, job_row>>
             \/ work.step = 3 /\ SettleFailed(r[1]) /\ UNCHANGED <<rec_row, unlinked>>
          /\ w = "ok" /\ work.step = 1 => RecordBare(r, "Resolved")
          /\ \/ work' = NoWork
             \/ w = "ok" /\ r \notin unlinked' /\ work' = [work EXCEPT !.step = @ + 1]
  BY <1>1, <1>r DEF record_recovery_outcome, Applied
<1>f. /\ r[1] \in Things
      /\ r[1] \in Ops => r = Stable(r[1]) \/ r = Alias(r[1]) \/ r = Inert(r[1])
      /\ Ops \subseteq Things /\ Jobs \subseteq Things
      /\ \A x \in Things : Stable(x) \in Recovery /\ Stable(x)[1] = x /\ Stable(x)[2] = "stable"
  BY RecoveryFacts
<1>5. \A s \in others : s \in Recovery /\ s # r /\ s[1] = r[1] /\ rec_row[s] = "Required"
  BY DEF Linked, Unresolved
<1>6. work.step = 2 => \A o \in Ops : Stable(o) \notin others
  <2> SUFFICES ASSUME work.step = 2, NEW o \in Ops, Stable(o) \in others PROVE FALSE
    OBVIOUS
  <2>0. r # Inert(o)
    BY <1>0, <1>3 DEF OpInv, InertUnlinked
  <2>1. r[1] = o /\ r = Alias(o) /\ rec_row[Stable(o)] = "Required"
    BY <1>5, <1>f, <2>0
  <2>2. inner_rec[Alias(o)] # "none" /\ Alias(o) \notin unlinked
    BY <1>3, <2>1
  <2> QED
    BY <1>0, <2>1, <2>2 DEF OpInv, OneRecovery
<1> HIDE DEF others
<1>7. /\ \A s \in Recovery : rec_row[s] # "none" => rec_row'[s] # "none"
      /\ \A s \in Recovery \ {r} : rec_row'[s] # "none" => rec_row[s] # "none"
      /\ \A s \in unlinked' : s \in unlinked \/ (s = r /\ rec_row[r] = "none")
      /\ rec_row[r] = "none" /\ rec_row'[r] # "none" => r \in unlinked'
      /\ unlinked \subseteq unlinked'
      /\ \A o \in Ops : rec_row'[Stable(o)] = "Resolved" =>
             rec_row[Stable(o)] = "Resolved" \/ Stable(o) = r
  <2>1. CASE UNCHANGED <<rec_row, unlinked>>
    BY <2>1
  <2>2. CASE RecordBare(r, "Resolved")
    BY <1>0, <1>f, <2>2 DEF RecordBare, StoreOK
  <2>3. CASE /\ work.step = 2
             /\ rec_row' = [s \in Recovery |-> IF s \in others THEN "Resolved" ELSE rec_row[s]]
             /\ UNCHANGED unlinked
    BY <1>5, <1>6, <1>f, <2>3
  <2> QED
    BY <1>4, <2>1, <2>2, <2>3 DEF store
<1>8. /\ \A o \in Ops : \/ op_row'[o] = op_row[o]
                        \/ /\ operation_requires_recovery(o) /\ op_row'[o] = "Failed"
                           /\ o = r[1] /\ work.step = 3
      /\ \A j \in Jobs : \/ job_row'[j] = job_row[j]
                         \/ /\ job_row[j] \notin JobTerminal \cup {"none"} /\ job_row'[j] = "Failed"
                            /\ j = r[1] /\ work.step = 3
  BY <1>0, <1>4, <1>f, SettleRecords DEF store
<1>9. Recording
  BY <1>2, <1>3, <1>7, <1>8 DEF Recording
<1>10. StepFacts
  <2>1. work.step = 3 => Decided(r[1])
    BY <1>3 DEF Decided, Linked
  <2>2. FailedStep
    BY <1>8, <2>1 DEF FailedStep
  <2>3. ResolvedStep
    BY <1>3, <1>7, <1>f DEF ResolvedStep
  <2>4. RowsGrow
    BY <1>2, <1>7 DEF RowsGrow
  <2> QED
    BY <2>2, <2>3, <2>4 DEF StepFacts
<1>11. FenceOK'
  BY <1>0, <1>2 DEF FenceOK, Unpublished
<1>12. Repairing' /\ Resolving' /\ Discarding'
  <2>1. CASE work' = NoWork
    BY <2>1 DEF NoWork, Repairing, Resolving, Discarding
  <2>2. CASE w = "ok" /\ r \notin unlinked' /\ work' = [work EXCEPT !.step = @ + 1]
    <3>1. work'.kind = "resolve" /\ work'.recovery = r
      BY <1>0, <1>1, <1>r, <2>2 DEF WorkOK
    <3>2. rec_row'[r] = "Resolved"
      <4>1. CASE work.step = 1
        BY <1>0, <1>4, <2>2, <4>1 DEF RecordBare, StoreOK
      <4>2. CASE work.step = 2
        BY <1>3, <1>4, <1>5, <4>2 DEF store
      <4>3. CASE work.step = 3
        BY <1>3, <1>4, <4>3 DEF store
      <4> QED
        BY <1>1, <4>1, <4>2, <4>3
    <3> QED
      BY <1>2, <1>3, <2>2, <3>1, <3>2 DEF Repairing, Resolving, Discarding
  <2> QED
    BY <1>4, <2>1, <2>2
<1>13. Restarting'
  BY DEF Restarting
<1> QED
  BY <1>0, <1>9, <1>10, <1>11, <1>12, <1>13, RecordingKeeps DEF InvFacts, WriterInv

\* The operator's decision: the recovery before the lifecycle.
LEMMA DiscardKeeps ==
    ASSUME IndInv, phase = "live", UNCHANGED phase, discard_step
    PROVE  InvFacts' /\ StepFacts
<1>0. /\ MemoryOK /\ StoreOK /\ WorkOK /\ OpInv /\ JobInv /\ StableLinked /\ FenceOK /\ Discarding
      /\ EffectsRecorded
  BY TypeParts DEF IndInv, WriterInv
<1>1. /\ work.kind = "discard" /\ work.recovery \in Recovery /\ work.step \in {1, 2, 3, 4}
  BY <1>0 DEF discard_step, WorkOK
<1>r. PICK r \in Recovery : r = work.recovery
  BY <1>1
<1>2. UNCHANGED <<policy, kind, op_pc, job_pc, durable, stale, held, bare, reported, op_fence,
                  active, inner_rec, unlinked>>
  BY DEF discard_step, inner, local, ghosts
<1>3. /\ inner_rec[r] # "none"
      /\ r \in unlinked \/ r[2] = "stable"
      /\ work.step > 1 => rec_row[r] # "none"
      /\ work.step = 4 => rec_row[r] = "Discarded"
  BY <1>0, <1>1, <1>r DEF Discarding
<1>4. /\ rec_row'[r] = IF work.step = 1 /\ rec_row[r] = "none" THEN "Required"
                       ELSE IF work.step = 3 THEN "Discarded" ELSE rec_row[r]
      /\ \A s \in Recovery \ {r} : \/ rec_row'[s] = rec_row[s]
                                   \/ rec_row[s] # "none" /\ rec_row'[s] = "Discarded"
  <2> DEFINE linked == IF r \in unlinked THEN {} ELSE Linked(r[1]) \ {r}
  <2>1. rec_row' =
            CASE work.step = 1 -> [rec_row EXCEPT ![r] = IF @ = "none" THEN "Required" ELSE @]
              [] work.step = 2 -> [s \in Recovery |->
                     IF s \in linked /\ Unresolved(s) THEN "Discarded" ELSE rec_row[s]]
              [] work.step = 3 -> [rec_row EXCEPT ![r] = "Discarded"]
              [] OTHER -> rec_row
    BY <1>r DEF discard_step
  <2>2. r \notin linked /\ \A s \in linked : rec_row[s] # "none"
    BY DEF Linked
  <2> HIDE DEF linked
  <2>3. CASE work.step = 1
    BY <1>0, <2>1, <2>3 DEF StoreOK
  <2>4. CASE work.step = 2
    BY <1>0, <2>1, <2>2, <2>4 DEF StoreOK
  <2>5. CASE work.step = 3
    BY <1>0, <2>1, <2>5 DEF StoreOK
  <2>6. CASE work.step = 4
    BY <2>1, <2>6
  <2> QED
    BY <1>1, <2>3, <2>4, <2>5, <2>6
<1>5. \/ UNCHANGED <<op_row, job_row>>
      \/ work.step = 4 /\ r \notin unlinked /\ SettleFailed(r[1])
  BY <1>r DEF discard_step
<1>f. /\ r[1] \in Things /\ Ops \subseteq Things /\ Jobs \subseteq Things
      /\ \A x \in Things : Stable(x) \in Recovery
  BY RecoveryFacts
<1>6. /\ \A o \in Ops : \/ op_row'[o] = op_row[o]
                        \/ /\ operation_requires_recovery(o) /\ op_row'[o] = "Failed"
                           /\ o = r[1] /\ work.step = 4 /\ r \notin unlinked
      /\ \A j \in Jobs : \/ job_row'[j] = job_row[j]
                         \/ /\ job_row[j] \notin JobTerminal \cup {"none"} /\ job_row'[j] = "Failed"
                            /\ j = r[1] /\ work.step = 4 /\ r \notin unlinked
  BY <1>0, <1>5, <1>f, SettleRecords
<1>7. \A s \in Recovery : /\ rec_row[s] # "none" => rec_row'[s] # "none"
                          /\ rec_row'[s] # "none" => rec_row[s] # "none" \/ inner_rec[s] # "none"
                          /\ rec_row'[s] = "Resolved" => rec_row[s] = "Resolved"
  BY <1>3, <1>4
<1>8. Recording
  BY <1>2, <1>3, <1>4, <1>6, <1>7 DEF Recording
<1>9. StepFacts
  <2>1. work.step = 4 /\ r \notin unlinked => Decided(r[1])
    BY <1>3 DEF Decided, Linked
  <2>2. FailedStep
    BY <1>6, <2>1 DEF FailedStep
  <2>3. ResolvedStep
    BY <1>7, <1>f DEF ResolvedStep
  <2>4. RowsGrow
    BY <1>2, <1>7 DEF RowsGrow
  <2> QED
    BY <2>2, <2>3, <2>4 DEF StepFacts
<1>10. FenceOK'
  BY <1>0, <1>2 DEF FenceOK, Unpublished
<1>11. Repairing' /\ Resolving' /\ Discarding'
  <2>1. CASE work' = NoWork
    BY <2>1 DEF NoWork, Repairing, Resolving, Discarding
  <2>2. CASE work.step < 4 /\ work' = [work EXCEPT !.step = @ + 1]
    <3>1. work'.kind = "discard" /\ work'.recovery = r /\ work'.step = work.step + 1
      BY <1>0, <1>1, <1>r, <2>2 DEF WorkOK
    <3>2. work'.step = 4 => work.step = 3
      BY <1>1, <3>1
    <3>3. rec_row'[r] # "none"
      BY <1>1, <1>3, <1>4
    <3>4. work.step = 3 => rec_row'[r] = "Discarded"
      BY <1>4
    <3> QED
      BY <1>2, <1>3, <3>1, <3>2, <3>3, <3>4 DEF Repairing, Resolving, Discarding
  <2> QED
    BY <2>1, <2>2 DEF discard_step
<1>12. Restarting'
  BY DEF Restarting
<1> QED
  BY <1>0, <1>8, <1>9, <1>10, <1>11, <1>12, RecordingKeeps DEF InvFacts, WriterInv

-----------------------------------------------------------------------------
(* Crash and restart.                                                      *)

LEMMA CrashKeeps ==
    ASSUME IndInv, Crash
    PROVE  InvFacts' /\ StepFacts
<1>0. /\ MemoryOK /\ CallersOK /\ OpInv /\ JobInv /\ StableLinked /\ EffectsRecorded
  BY TypeParts DEF IndInv
<1>1. /\ UNCHANGED <<policy, kind, op_row, job_row, rec_row, unlinked, durable, stale, held, bare,
                     reported>>
      /\ active' = None /\ work' = NoWork /\ op_fence' = NoFence /\ phase' = "restart"
      /\ \A r \in Recovery : inner_rec'[r] = "none"
      /\ \A o \in Ops : op_pc'[o] = IF op_pc[o] \in {"new", "checked"} THEN "new" ELSE "done"
      /\ \A j \in Jobs : job_pc'[j] = IF job_pc[j] \in {"new", "checked"} THEN "new" ELSE "done"
  BY DEF Crash, store, ghosts
<1>f. None \notin Ops /\ \A o \in Ops : o \in Things /\ Alias(o) \in Recovery
  BY RecoveryFacts
<1>g. \A x \in Things : Stable(x) \in Recovery
  BY RecoveryFacts
<1>2. OpInv'
  <2> SUFFICES ASSUME NEW o \in Ops
               PROVE  OpFacts(o)'
    BY DEF OpInv, OpFacts
  <2>1. OpFacts(o)
    BY <1>0 DEF OpInv, OpFacts
  <2> QED
    BY <1>1, <1>f, <2>1 DEF OpFacts, OpAhead, OpSettled, OneRecovery, InertUnlinked, KeepsPlace,
          OpAnswered, Underway, InProgress
<1>3. JobInv'
  BY <1>0, <1>1 DEF JobInv, JobAnswered
<1>4. StableLinked'
  BY <1>0, <1>1, <1>g DEF StableLinked
<1>5. WriterInv'
  BY <1>1 DEF WriterInv, FenceOK, NoFence, NoWork, Repairing, Resolving, Discarding, Restarting
<1>6. EffectsRecorded'
  BY <1>0, <1>1 DEF EffectsRecorded, is_writer, is_local_live_process, PipeFs
<1>7. StepFacts
  BY <1>1 DEF StepFacts, FailedStep, ResolvedStep, RowsGrow
<1> QED
  BY <1>2, <1>3, <1>4, <1>5, <1>6, <1>7 DEF InvFacts

\* A row is brought to its end, or behind its recovery.
LEMMA RowKeeps ==
    ASSUME IndInv, NEW x \in Things, RestartRow(x)
    PROVE  InvFacts' /\ StepFacts
<1>0. /\ StoreOK /\ OpInv /\ JobInv /\ StableLinked /\ WriterInv /\ EffectsRecorded
  BY TypeParts DEF IndInv
<1>1. /\ UNCHANGED <<policy, kind, op_fence, op_pc, job_pc, active, inner_rec, rec_row, unlinked,
                     work, durable, stale, held, bare, reported, phase>>
      /\ phase = "restart" /\ Unfinished(x)
  BY DEF RestartRow, RowDue, inner, local, ghosts
<1>f. /\ Ops \cap Jobs = {} /\ Stable(x) \in Recovery /\ Stable(x)[1] = x
  BY RecoveryFacts
<1>2. /\ \A o \in Ops : \/ op_row'[o] = op_row[o]
                        \/ /\ o = x /\ operation_requires_recovery(o)
                           /\ op_row'[o] \in {"Failed", "RecoveryRequired"}
      /\ \A j \in Jobs : \/ job_row'[j] = job_row[j]
                         \/ /\ j = x /\ job_row[j] \notin JobTerminal \cup {"none"}
                            /\ job_row'[j] \in {"Orphaned", "Failed", "RecoveryRequired"}
                            /\ job_row'[j] = "Orphaned" => is_local_live_process(j) \/ ~is_writer(j)
  <2>1. x \in Ops => RestartedRow(x) \in {"Failed", "RecoveryRequired"}
    BY <1>f DEF RestartedRow
  <2>2. x \in Jobs => /\ RestartedRow(x) \in {"Orphaned", "Failed", "RecoveryRequired"}
                      /\ RestartedRow(x) = "Orphaned" => is_local_live_process(x) \/ ~is_writer(x)
    BY DEF RestartedRow
  <2>3. op_row' = IF x \in Ops THEN [op_row EXCEPT ![x] = RestartedRow(x)] ELSE op_row
    BY DEF RestartRow
  <2>4. job_row' = IF x \in Jobs THEN [job_row EXCEPT ![x] = RestartedRow(x)] ELSE job_row
    BY DEF RestartRow
  <2>5. x \in Ops => operation_requires_recovery(x)
    BY <1>1, <1>f DEF Unfinished
  <2>6. x \in Jobs => job_row[x] \notin JobTerminal \cup {"none"}
    BY <1>1, <1>f DEF Unfinished
  <2> QED
    BY <1>0, <2>1, <2>2, <2>3, <2>4, <2>5, <2>6 DEF StoreOK
<1>3. \/ recovery_resolved(x) \/ UNCHANGED <<op_row, job_row>>
      \/ ~(x \in Ops /\ op_row'[x] = "Failed") /\ ~(x \in Jobs /\ job_row'[x] = "Failed")
  BY <1>0, <1>f DEF RestartRow, RestartedRow, StoreOK
<1>4. OpInv'
  <2> SUFFICES ASSUME NEW o \in Ops
               PROVE  OpFacts(o)'
    BY DEF OpInv, OpFacts
  <2>1. OpFacts(o)
    BY <1>0 DEF OpInv, OpFacts
  <2> QED
    BY <1>1, <1>2, <2>1 DEF OpFacts, OpAhead, OpSettled, OneRecovery, InertUnlinked, KeepsPlace,
          OpAnswered, InProgress, PipeFs, operation_requires_recovery
<1>5. JobInv'
  BY <1>0, <1>1, <1>2 DEF JobInv, JobAnswered, JobTerminal
<1>6. StableLinked'
  BY <1>0, <1>1 DEF StableLinked
<1>7. WriterInv'
  BY <1>0, <1>1 DEF WriterInv, FenceOK, Unpublished, Repairing, Resolving, Discarding, Restarting,
        NoWork
<1>8. EffectsRecorded'
  <2>1. /\ \A j \in Jobs : is_writer(j)' = is_writer(j)
        /\ \A j \in Jobs : is_local_live_process(j)' = is_local_live_process(j)
    BY <1>1 DEF is_writer, is_local_live_process, PipeFs
  <2>2. \A o \in Ops : op_row[o] # "none" => op_row'[o] # "none"
    BY <1>2
  <2> QED
    BY <1>0, <1>1, <1>2, <2>1, <2>2 DEF EffectsRecorded
<1>9. StepFacts
  <2>1. recovery_resolved(x) => Decided(x)
    BY <1>0, <1>f DEF recovery_resolved, Decided, Linked, StableLinked
  <2>2. FailedStep
    <3>1. ASSUME NEW o \in Ops, op_row[o] # "Failed", op_row'[o] = "Failed"
          PROVE  Decided(o)
      BY <1>2, <1>3, <2>1, <3>1
    <3>2. ASSUME NEW j \in Jobs, job_row[j] # "Failed", job_row'[j] = "Failed"
          PROVE  Decided(j)
      BY <1>2, <1>3, <2>1, <3>2
    <3> QED
      BY <3>1, <3>2 DEF FailedStep
  <2>3. ResolvedStep /\ RowsGrow
    BY <1>1 DEF ResolvedStep, RowsGrow
  <2> QED
    BY <2>2, <2>3 DEF StepFacts
<1> QED
  BY <1>4, <1>5, <1>6, <1>7, <1>8, <1>9 DEF InvFacts

\* A recovery of a local process is retired, or one is written for a row.
LEMMA RecoveryKeeps ==
    ASSUME IndInv, NEW x \in Things, RestartRecovery(x)
    PROVE  InvFacts' /\ StepFacts
<1>0. /\ StoreOK /\ OpInv /\ JobInv /\ StableLinked /\ WriterInv /\ EffectsRecorded /\ CallersOK
  BY TypeParts DEF IndInv
<1>1. /\ UNCHANGED <<policy, kind, op_fence, op_pc, job_pc, active, inner_rec, op_row, job_row,
                     unlinked, work, durable, stale, held, bare, reported, phase>>
      /\ phase = "restart"
  BY DEF RestartRecovery, inner, local, ghosts
<1>f. /\ Ops \cap Jobs = {} /\ Stable(x) \in Recovery /\ Stable(x)[1] = x
      /\ \A y \in Things : Stable(y) \in Recovery /\ Alias(y) \in Recovery
      /\ \A y : Stable(y)[1] = y /\ Alias(y)[1] = y /\ Inert(y)[1] = y
      /\ \A y, z : Stable(y) # Alias(z) /\ Stable(y) # Inert(z)
      /\ Ops \subseteq Things
      /\ \A o \in Ops : Inert(o) \in Recovery
  BY RecoveryFacts DEF Stable, Alias, Inert
<1>2. \A r \in Recovery : inner_rec[r] = "none"
  BY <1>0, <1>1 DEF WriterInv, Restarting
<1>3. \/ x \in Jobs /\ \E r \in Linked(x) : rec_row' = [rec_row EXCEPT ![r] = "Resolved"]
      \/ /\ HasRow(x) /\ rec_row[Stable(x)] = "none"
         /\ rec_row' = [rec_row EXCEPT ![Stable(x)] = "Required"]
  BY DEF RestartRecovery, RetireDue, EnsureDue, NeedsRecovery
<1>4. /\ \A r \in Recovery : rec_row[r] # "none" => rec_row'[r] # "none"
      /\ \A o \in Ops : /\ rec_row'[Alias(o)] = rec_row[Alias(o)]
                        /\ rec_row'[Inert(o)] = rec_row[Inert(o)]
                        /\ \/ rec_row'[Stable(o)] = rec_row[Stable(o)]
                           \/ op_row[o] # "none" /\ rec_row'[Stable(o)] = "Required"
  <2>1. ASSUME x \in Jobs, NEW r \in Linked(x), rec_row' = [rec_row EXCEPT ![r] = "Resolved"]
        PROVE  /\ \A s \in Recovery : rec_row[s] # "none" => rec_row'[s] # "none"
               /\ \A o \in Ops : /\ rec_row'[Alias(o)] = rec_row[Alias(o)]
                                 /\ rec_row'[Inert(o)] = rec_row[Inert(o)]
                                 /\ rec_row'[Stable(o)] = rec_row[Stable(o)]
    <3>1. r \in Recovery /\ r[1] = x
      BY DEF Linked
    <3>2. \A o \in Ops : r # Stable(o) /\ r # Alias(o) /\ r # Inert(o)
      BY <1>f, <2>1, <3>1
    <3> QED
      BY <1>0, <1>f, <2>1, <3>1, <3>2 DEF StoreOK
  <2>2. CASE /\ HasRow(x) /\ rec_row[Stable(x)] = "none"
             /\ rec_row' = [rec_row EXCEPT ![Stable(x)] = "Required"]
    <3>1. x \in Ops => op_row[x] # "none"
      BY <2>2 DEF HasRow
    <3>2. \A o \in Ops : Stable(o) = Stable(x) => o = x
      BY <1>f
    <3> QED
      BY <1>0, <1>f, <2>2, <3>1, <3>2 DEF StoreOK
  <2> QED
    BY <1>3, <2>1, <2>2
<1>5. OpInv'
  <2> SUFFICES ASSUME NEW o \in Ops
               PROVE  OpFacts(o)'
    BY DEF OpInv, OpFacts
  <2>1. OpFacts(o) /\ inner_rec[Alias(o)] = "none"
    BY <1>0, <1>2, <1>f DEF OpInv, OpFacts
  <2>2. phase = "restart" => op_pc[o] \in {"new", "done"}
    BY <1>0, <1>1 DEF WriterInv, Restarting
  <2>3. op_row[o] # "none" => op_pc[o] = "done"
    BY <1>1, <2>1, <2>2 DEF OpFacts, OpAhead
  <2> QED
    BY <1>1, <1>4, <2>1, <2>3 DEF OpFacts, OpAhead, OpSettled, OneRecovery, InertUnlinked,
          KeepsPlace, OpAnswered, InProgress, PipeFs
<1>6. JobInv'
  BY <1>0, <1>1 DEF JobInv, JobAnswered
<1>7. StableLinked'
  BY <1>0, <1>1, <1>2, <1>f DEF StableLinked
<1>8. WriterInv'
  BY <1>0, <1>1 DEF WriterInv, FenceOK, Unpublished, Repairing, Resolving, Discarding, Restarting,
        NoWork
<1>9. EffectsRecorded'
  BY <1>0, <1>1 DEF EffectsRecorded, is_writer, is_local_live_process, PipeFs
<1>10. StepFacts
  BY <1>1, <1>4 DEF StepFacts, FailedStep, ResolvedStep, RowsGrow
<1> QED
  BY <1>5, <1>6, <1>7, <1>8, <1>9, <1>10 DEF InvFacts

\* The caller of an operation and the owner of a job decide nothing; only an
\* operation that has lost its place ends as failed.
LEMMA CallersDecideNothing ==
    ASSUME IndInv,
           \/ \E o \in Ops : LiveOp(o)
           \/ \E j \in Jobs : LiveJob(j)
    PROVE  StepFacts
<1>0. TypeInv /\ MemoryOK /\ StoreOK /\ SealedAnswered /\ \A o \in Ops : KeepsPlace(o)
  BY TypeParts DEF IndInv, OpInv
<1>f. /\ \A x \in Things : Stable(x) \in Recovery /\ Alias(x) \in Recovery
      /\ Ops \subseteq Things /\ Jobs \subseteq Things
  BY RecoveryFacts
<1>1. CASE \E o \in Ops : LiveOp(o)
  <2>1. PICK o \in Ops : LiveOp(o)
    BY <1>1
  <2>2. UNCHANGED <<job_row, unlinked>> /\ stale \subseteq stale'
    BY <1>0, <2>1, OpFrame
  <2>3. \/ op_row' = op_row
        \/ \E v \in {"Admitted", "ExecutionRecorded", "Durable", "RecoveryRequired"} :
               op_row' = [op_row EXCEPT ![o] = v]
        \/ op_pc[o] = "stale" /\ op_row' = [op_row EXCEPT ![o] = "Failed"]
    BY <2>1 DEF SettlementRow, LiveOp, BeginCheck, InnerBegin, CancelBegin, RecordAdmission,
          Abandon, BeginPublication, RecordExecution, ClaimPermit, InnerSettle, FinishPublication,
          PublishSettlement, FenceLost, store
  <2>4. \/ rec_row' = rec_row
        \/ \E r \in {Stable(o), Alias(o)} : rec_row' = [rec_row EXCEPT ![r] = "Required"]
    BY <2>1 DEF LiveOp, BeginCheck, InnerBegin, CancelBegin, RecordAdmission, Abandon,
          BeginPublication, RecordExecution, ClaimPermit, InnerSettle, FinishPublication,
          PublishSettlement, FenceLost, store
  <2>5. \A p \in Ops : op_row'[p] = "Failed" =>
                           op_row[p] = "Failed" \/ (PipeFs /\ op_pc[p] = "stale")
    BY <1>0, <2>3 DEF StoreOK, KeepsPlace
  <2>6. \A r \in Recovery : rec_row'[r] \in {rec_row[r], "Required"}
    BY <1>0, <2>4 DEF StoreOK
  <2>7. FailedStep
    BY <2>2, <2>5 DEF FailedStep
  <2>8. ResolvedStep
    BY <1>f, <2>6 DEF ResolvedStep
  <2>9. RowsGrow
    BY <2>2, <2>6 DEF RowsGrow
  <2> QED
    BY <2>7, <2>8, <2>9 DEF StepFacts
<1>2. CASE \E j \in Jobs : LiveJob(j)
  <2>1. PICK j \in Jobs : LiveJob(j)
    BY <1>2
  <2>2. UNCHANGED <<op_row, unlinked, stale>>
    BY <1>0, <2>1, JobFrame
  <2>3. \/ job_row' = job_row
        \/ \E v \in {"Running", "Advancing", "RecoveryRequired", "Terminal"} :
               job_row' = [job_row EXCEPT ![j] = v]
    <3>1. CASE FinishJobPublication(j)
      <4>1. inner_job[j] \in {"Advancing", "RecoveryRequired", "Terminal"}
        BY <1>0, <3>1 DEF FinishJobPublication, SealedAnswered
      <4>2. job_row' = job_row \/ job_row' = [job_row EXCEPT ![j] = inner_job[j]]
        BY <3>1 DEF FinishJobPublication
      <4> QED
        BY <4>1, <4>2
    <3> QED
      BY <2>1, <3>1 DEF LiveJob, JobCheck, JobRegister, JobRecord, SealJob, InnerSeal,
            InnerSealRejected, store
  <2>4. \/ rec_row' = rec_row
        \/ \E r \in {Alias(j), JournalRecovery(j)} : rec_row' = [rec_row EXCEPT ![r] = "Required"]
    <3>1. CASE FinishJobPublication(j)
      BY <3>1 DEF FinishJobPublication
    <3> QED
      BY <2>1, <3>1 DEF LiveJob, JobCheck, JobRegister, JobRecord, SealJob, InnerSeal,
            InnerSealRejected, store
  <2>5. \A i \in Jobs : job_row'[i] = "Failed" => job_row[i] = "Failed"
    BY <1>0, <2>3 DEF StoreOK
  <2>6. \A r \in Recovery : rec_row'[r] \in {rec_row[r], "Required"}
    BY <1>0, <2>4 DEF StoreOK
  <2>7. FailedStep
    BY <2>2, <2>5 DEF FailedStep
  <2>8. ResolvedStep
    BY <1>f, <2>6 DEF ResolvedStep
  <2>9. RowsGrow
    BY <2>2, <2>6 DEF RowsGrow
  <2> QED
    BY <2>7, <2>8, <2>9 DEF StepFacts
<1> QED
  BY <1>1, <1>2

\* What the pass reports of an operation or a job is a recovery of its own
\* that the journal knows, and of the made up ones only those that are not
\* covered by the stable one.
LEMMA ReportFacts ==
    ASSUME PassDone, NEW x \in Things
    PROVE  /\ Stable(x) \in Report => rec_row[Stable(x)] # "none"
           /\ Alias(x) \in Report => /\ rec_row[Alias(x)] # "none"
                                     /\ Alias(x) \in unlinked \/ ~NeedsRecovery(x)
<1>f. /\ \A y, z \in Things : Stable(y) # Alias(z)
      /\ \A y, z \in Things : Stable(y) = Stable(z) => y = z
      /\ Stable(x)[1] = x /\ Alias(x)[1] = x
  BY RecoveryFacts DEF Stable, Alias
<1> DEFINE rows == {Stable(y) : y \in {z \in Things : NeedsRecovery(z)}}
<1>1. Report = rows \cup {r \in Recovery : Unresolved(r) /\ (r \in unlinked \/ Stable(r[1]) \notin rows)}
  BY DEF Report, Things
<1>2. Stable(x) \in rows <=> NeedsRecovery(x)
  BY <1>f
<1>3. NeedsRecovery(x) => rec_row[Stable(x)] # "none"
  BY DEF PassDone, Due, EnsureDue, Things
<1>4. \A r \in Recovery : Unresolved(r) => rec_row[r] # "none"
  BY DEF Unresolved
<1>5. Alias(x) \notin rows
  BY <1>f
<1> HIDE DEF rows
<1> QED
  BY <1>1, <1>2, <1>3, <1>4, <1>5, <1>f

\* The new inner controller is fenced by what the pass reports.
LEMMA DoneKeeps ==
    ASSUME IndInv, RestartDone
    PROVE  InvFacts' /\ StepFacts
<1>0. /\ OpInv /\ JobInv /\ StableLinked /\ WriterInv /\ EffectsRecorded
  BY DEF IndInv
<1>1. /\ UNCHANGED <<policy, kind, op_fence, active, op_pc, job_pc, op_row, job_row, rec_row,
                     unlinked, work, durable, stale, held, bare, reported>>
      /\ phase = "restart" /\ phase' = "live" /\ PassDone
      /\ inner_rec' = [r \in Recovery |-> IF r \in Report THEN "open" ELSE "none"]
  BY DEF RestartDone, local, store, ghosts
<1>f. /\ \A x \in Things : Stable(x) \in Recovery /\ Alias(x) \in Recovery
      /\ \A x \in Things : Alias(x)[1] = x
      /\ Ops \subseteq Things
  BY RecoveryFacts
<1>2. OpInv'
  <2> SUFFICES ASSUME NEW o \in Ops
               PROVE  OpFacts(o)'
    BY DEF OpInv, OpFacts
  <2>1. OpFacts(o)
    BY <1>0 DEF OpInv, OpFacts
  <2>2. inner_rec'[Alias(o)] # "none" => Alias(o) \in Report
    BY <1>1, <1>f
  <2>3. Alias(o) \in Report => /\ rec_row[Alias(o)] # "none"
                               /\ Alias(o) \in unlinked \/ ~NeedsRecovery(o)
    BY <1>1, <1>f, ReportFacts
  <2>4. ASSUME Alias(o) \in Report, Alias(o) \notin unlinked
        PROVE  rec_row[Stable(o)] = "none"
    <3>1. Unresolved(Alias(o)) /\ ~NeedsRecovery(o)
      BY <1>f, <2>3, <2>4, RecoveryFacts DEF Report
    <3>2. LinkedUnresolved(o)
      BY <1>f, <3>1, <2>3, <2>4 DEF LinkedUnresolved, Linked
    <3>3. op_row[o] = "none"
      BY <3>1, <3>2, RecoveryFacts DEF NeedsRecovery, HasRow
    <3>4. o \notin durable
      BY <2>1, <2>3, <2>4 DEF OpFacts, OpSettled
    <3> QED
      BY <2>1, <3>3, <3>4 DEF OpFacts, OneRecovery
  <2>5. OpAhead(o)'
    BY <1>1, <2>1, <2>2, <2>3 DEF OpFacts, OpAhead
  <2>6. OpSettled(o)'
    BY <1>1, <2>1, <2>2, <2>3 DEF OpFacts, OpSettled
  <2>7. OneRecovery(o)'
    BY <1>1, <2>1, <2>2, <2>4 DEF OpFacts, OneRecovery
  <2>8. InertUnlinked(o)' /\ KeepsPlace(o)' /\ OpAnswered(o)'
    BY <1>1, <2>1 DEF OpFacts, InertUnlinked, KeepsPlace, OpAnswered, InProgress, PipeFs
  <2> QED
    BY <2>5, <2>6, <2>7, <2>8 DEF OpFacts
<1>3. JobInv'
  BY <1>0, <1>1 DEF JobInv, JobAnswered
<1>4. StableLinked'
  BY <1>0, <1>1, <1>f, ReportFacts DEF StableLinked
<1>5. WriterInv'
  <2>1. work' = NoWork
    BY <1>0, <1>1 DEF WriterInv, Restarting
  <2>2. FenceOK'
    BY <1>0, <1>1 DEF WriterInv, FenceOK, Unpublished
  <2> QED
    BY <1>1, <2>1, <2>2 DEF WriterInv, NoWork, Repairing, Resolving, Discarding, Restarting
<1>6. EffectsRecorded'
  BY <1>0, <1>1 DEF EffectsRecorded, is_writer, is_local_live_process, PipeFs
<1>7. StepFacts
  BY <1>1 DEF StepFacts, FailedStep, ResolvedStep, RowsGrow
<1> QED
  BY <1>2, <1>3, <1>4, <1>5, <1>6, <1>7 DEF InvFacts

-----------------------------------------------------------------------------
(* The theorems.                                                           *)

LEMMA InitInv ==
    Init => IndInv
<1> SUFFICES ASSUME Init PROVE IndInv
  OBVIOUS
<1>f. /\ \A x \in Things : Stable(x) \in Recovery /\ Alias(x) \in Recovery
      /\ \A o \in Ops : Inert(o) \in Recovery
      /\ Ops \subseteq Things /\ None \notin Ops
  BY RecoveryFacts
<1>1. /\ policy \in Policies /\ kind \in [Jobs -> JobKinds] /\ health = "Healthy" /\ op_fence = NoFence
      /\ job_fence = [j \in Jobs |-> "none"] /\ active = None /\ version = None
      /\ inner_rec = [r \in Recovery |-> "none"] /\ inner_job = [j \in Jobs |-> "none"]
      /\ op_row = [o \in Ops |-> "none"] /\ job_row = [j \in Jobs |-> "none"]
      /\ rec_row = [r \in Recovery |-> "none"] /\ unlinked = {} /\ work = NoWork /\ failures = 0
      /\ durable = {} /\ stale = {} /\ held = {} /\ bare = {}
      /\ reported = [x \in Ops \cup Jobs |-> "none"]
      /\ phase = "live" /\ crashes = 0
      /\ op_pc \in [Ops -> {"new", "done"}] /\ job_pc \in [Jobs -> {"new", "done"}]
  BY DEF Init, JournalInit
<1>2. TypeInv
  <2>1. MemoryOK
    BY <1>1 DEF MemoryOK, NoFence
  <2>2. CallersOK /\ StoreOK
    BY <1>1 DEF CallersOK, StoreOK
  <2>3. CountersOK
    BY <1>1, JournalAssumption, RestartAssumption DEF CountersOK
  <2>4. GhostsOK
    BY <1>1 DEF GhostsOK
  <2>5. WorkOK
    BY <1>1 DEF WorkOK, WorkKinds, NoWork
  <2>6. SealedAnswered
    BY <1>1 DEF SealedAnswered
  <2> QED
    BY <2>1, <2>2, <2>3, <2>4, <2>5, <2>6, TypeParts
<1>3. OpInv
  BY <1>1, <1>f DEF OpInv, OpAhead, OpSettled, OneRecovery, InertUnlinked, KeepsPlace, OpAnswered,
        Underway, InProgress, Things
<1>4. JobInv
  BY <1>1 DEF JobInv, JobAnswered
<1>5. StableLinked
  BY <1>1, <1>f DEF StableLinked
<1>6. WriterInv
  BY <1>1 DEF WriterInv, FenceOK, NoFence, NoWork, Repairing, Resolving, Discarding, Restarting
<1>7. EffectsRecorded /\ FailedLinked
  BY <1>1 DEF EffectsRecorded, FailedLinked
<1> QED
  BY <1>2, <1>3, <1>4, <1>5, <1>6, <1>7 DEF IndInv

\* Every step keeps the invariant, and is one that the two action properties
\* allow.
LEMMA StepInv ==
    ASSUME IndInv, [Next]_vars
    PROVE  IndInv' /\ StepFacts
<1>0. TypeInv /\ OpInv /\ FenceOK /\ Repairing /\ FailedLinked
  BY DEF IndInv, WriterInv
<1> SUFFICES TypeInv' /\ InvFacts' /\ StepFacts
  BY <1>0, FailedKept DEF IndInv, InvFacts, StepFacts
<1>1. CASE phase = "live" /\ Live /\ UNCHANGED <<phase, crashes>>
  <2>0. phase = "live" /\ UNCHANGED phase /\ UNCHANGED <<phase, crashes>>
    BY <1>1
  <2>1. CASE \E o \in Ops : LiveOp(o)
    BY <1>0, <2>0, <2>1, OpTypes, OpKeeps, CallersDecideNothing
  <2>2. CASE \E j \in Jobs : LiveJob(j)
    BY <1>0, <2>0, <2>2, JobTypes, JobKeeps, CallersDecideNothing
  <2>3. CASE \E r \in Recovery : ReconcilePublication(r) \/ ReconcileInner(r)
    <3>1. Writer
      BY <2>3 DEF Writer
    <3> QED
      BY <1>0, <2>0, <2>3, <3>1, WriterTypes, ReconcileKeeps
  <2>4. CASE repair_operation_publication
    <3>1. Writer
      BY <2>4 DEF Writer
    <3> QED
      BY <1>0, <2>0, <2>4, <3>1, WriterTypes, RepairKeeps
  <2>5. CASE record_recovery_outcome
    <3>1. Writer
      BY <2>5 DEF Writer
    <3> QED
      BY <1>0, <2>0, <2>5, <3>1, WriterTypes, OutcomeKeeps
  <2> QED
    BY <1>1, <2>1, <2>2, <2>3, <2>4, <2>5 DEF Live
<1>2. CASE Crash
  BY <1>0, <1>2, RestartTypes, CrashKeeps
<1>3. CASE \E x \in Ops \cup Jobs : RestartRow(x) \/ RestartRecovery(x)
  <2>1. PICK x \in Things : RestartRow(x) \/ RestartRecovery(x)
    BY <1>3 DEF Things
  <2> QED
    BY <1>0, <2>1, RestartTypes, RowKeeps, RecoveryKeeps
<1>4. CASE RestartDone
  BY <1>0, <1>4, RestartTypes, DoneKeeps
<1>5. CASE \E r \in Recovery : Discard(r)
  <2>1. PICK r \in Recovery : Discard(r)
    BY <1>5
  <2>2. Writer /\ phase = "live" /\ UNCHANGED phase /\ UNCHANGED <<phase, crashes>>
    BY <2>1 DEF Writer, Discard
  <2> QED
    BY <1>0, <2>1, <2>2, WriterTypes, ReconcileKeeps
<1>6. CASE discard_step
  <2>1. Writer /\ UNCHANGED phase /\ UNCHANGED <<phase, crashes>> /\ work.kind = "discard"
    BY <1>6 DEF Writer, discard_step
  <2>2. phase = "live"
    BY <2>1 DEF IndInv, TypeInv, TypeOK, WriterInv, Restarting, NoWork
  <2> QED
    BY <1>0, <1>6, <2>1, <2>2, WriterTypes, DiscardKeeps
<1>7. CASE UNCHANGED vars
  <2>1. UNCHANGED <<policy, kind, health, op_fence, job_fence, active, version, inner_rec, inner_job,
                    op_pc, job_pc, op_row, job_row, rec_row, unlinked, work, failures,
                    durable, stale, held, bare, reported, phase, crashes>>
    BY <1>7 DEF vars, jvars
  <2>2. TypeInv'
    BY <1>0, <1>7, RestartTypes
  <2>3. OpInv'
    BY <2>1 DEF IndInv, OpInv, OpAhead, OpSettled, OneRecovery, InertUnlinked, KeepsPlace,
          OpAnswered, InProgress, PipeFs
  <2>4. JobInv' /\ StableLinked'
    BY <2>1 DEF IndInv, JobInv, JobAnswered, StableLinked
  <2>5. WriterInv'
    BY <2>1 DEF IndInv, WriterInv, FenceOK, Unpublished, Repairing, Resolving, Discarding,
          Restarting, NoWork
  <2>6. EffectsRecorded'
    BY <2>1 DEF IndInv, EffectsRecorded, is_writer, is_local_live_process, PipeFs
  <2>7. StepFacts
    BY <2>1 DEF StepFacts, FailedStep, ResolvedStep, RowsGrow
  <2> QED
    BY <2>2, <2>3, <2>4, <2>5, <2>6, <2>7 DEF InvFacts
<1> QED
  BY <1>1, <1>2, <1>3, <1>4, <1>5, <1>6, <1>7 DEF Next

\* An end of the pass with the invariant accounts for everything that had
\* effects.
LEMMA PassAccounts ==
    IndInv => EffectsAccounted
<1> SUFFICES ASSUME IndInv, PassDone
             PROVE  /\ \A o \in (held \cap Ops) \ bare :
                           \/ op_row[o] = "Durable"
                           \/ op_row[o] = "Failed" /\ (Linked(o) # {} \/ o \in stale)
                           \/ Stable(o) \in Report
                    /\ \A j \in held \cap Jobs :
                           is_writer(j) /\ ~is_local_live_process(j) =>
                               \/ job_row[j] = "Terminal"
                               \/ job_row[j] = "Failed" /\ Linked(j) # {}
                               \/ Stable(j) \in Report
  BY DEF EffectsAccounted
<1>0. StoreOK /\ EffectsRecorded /\ FailedLinked /\ Ops \cap Jobs = {}
  BY TypeParts, RecoveryFacts DEF IndInv
<1>1. \A x \in Ops \cup Jobs : NeedsRecovery(x) => Stable(x) \in Report
  BY DEF Report
<1>2. ASSUME NEW o \in (held \cap Ops) \ bare
      PROVE  \/ op_row[o] = "Durable"
             \/ op_row[o] = "Failed" /\ (Linked(o) # {} \/ o \in stale)
             \/ Stable(o) \in Report
  <2>1. /\ op_row[o] # "none" /\ o \notin Jobs
        /\ op_row[o] = "Failed" => Linked(o) # {} \/ o \in stale
    BY <1>0, <1>2 DEF EffectsRecorded, FailedLinked
  <2>2. CASE operation_requires_recovery(o)
    <3>1. Unfinished(o) /\ HasRow(o)
      BY <1>2, <2>1, <2>2 DEF Unfinished, HasRow
    <3>2. op_row[o] = RestartedRow(o)
      BY <1>2, <3>1 DEF PassDone, Due, RowDue
    <3>3. RestartedRow(o) = "RecoveryRequired"
      BY <2>1, <2>2, <3>2 DEF RestartedRow, operation_requires_recovery
    <3> QED
      BY <1>1, <1>2, <2>1, <3>1, <3>3 DEF NeedsRecovery
  <2> QED
    BY <1>0, <1>2, <2>1, <2>2 DEF StoreOK, operation_requires_recovery
<1>3. ASSUME NEW j \in held \cap Jobs, is_writer(j), ~is_local_live_process(j)
      PROVE  \/ job_row[j] = "Terminal"
             \/ job_row[j] = "Failed" /\ Linked(j) # {}
             \/ Stable(j) \in Report
  <2>1. /\ job_row[j] \notin {"none", "Orphaned"}
        /\ job_row[j] = "Failed" => Linked(j) # {}
        /\ j \notin Ops
    BY <1>0, <1>3 DEF EffectsRecorded, FailedLinked
  <2>2. CASE job_row[j] \notin JobTerminal
    <3>1. Unfinished(j) /\ HasRow(j)
      BY <1>3, <2>1, <2>2 DEF Unfinished, HasRow
    <3>2. job_row[j] = RestartedRow(j)
      BY <1>3, <2>1, <3>1 DEF PassDone, Due, RowDue
    <3>3. RestartedRow(j) = "RecoveryRequired"
      BY <1>3, <2>2, <3>2 DEF RestartedRow, JobTerminal
    <3> QED
      BY <1>1, <1>3, <2>1, <3>1, <3>3 DEF NeedsRecovery
  <2> QED
    BY <2>1, <2>2 DEF JobTerminal
<1> QED
  BY <1>2, <1>3

\* Every reachable state satisfies the inductive invariant: what a caller has
\* not done yet is not in the journal, what the inner controller settled has
\* no recovery of its own there, an operation is known to the inner controller
\* under one linked recovery at most, what settle and seal_job answered as
\* published has its row, and a lifecycle that ended as Failed has a recovery
\* in the journal, unless PipeFS had taken the operation's place away.
THEOREM JournalInvariant == Spec => []IndInv
<1>1. Init => IndInv
  BY InitInv
<1>2. IndInv /\ [Next]_vars => IndInv'
  BY StepInv
<1> QED
  BY <1>1, <1>2, PTL DEF Spec

\* TypeOK holds in every reachable state of the journaled controller, its
\* writer and the pass over the journal.
THEOREM JournalRestartTypeOK == Spec => []TypeOK
<1>1. IndInv => TypeOK
  BY DEF IndInv, TypeInv
<1> QED
  BY <1>1, JournalInvariant, PTL

\* PublishedIsRecorded: what settle and seal_job answered as published is in
\* the journal and stays there, and the journal calls nothing durable that the
\* inner controller has not settled.
THEOREM JournalPublishedIsRecorded == Spec => []PublishedIsRecorded
<1>1. IndInv => PublishedIsRecorded
  BY DEF IndInv, OpInv, OpAnswered, JobInv, JobAnswered, PublishedIsRecorded
<1> QED
  BY <1>1, JournalInvariant, PTL

\* EffectsAccounted: when reconcile_jobs_after_restart ends, every recorded
\* mutation and every writer job is durable or finished, has ended as Failed
\* with a recovery of its own (or as an operation that lost its place and that
\* settle answered Incompatible), or is behind a reported recovery.
THEOREM JournalEffectsAccounted == Spec => []EffectsAccounted
<1>1. IndInv => EffectsAccounted
  BY PassAccounts
<1> QED
  BY <1>1, JournalInvariant, PTL

\* FailedOnlyOnDecision: no step ends an operation or a job as Failed before
\* one of its recoveries is decided in the journal, except the settlement of a
\* PipeFS operation whose place the lease monitor has taken.
THEOREM JournalFailedOnlyOnDecision == Spec => FailedOnlyOnDecision
<1>1. IndInv /\ [Next]_vars =>
          [/\ \A o \in Ops : op_row[o] # "Failed" /\ op_row'[o] = "Failed" =>
                  Decided(o) \/ (PipeFs /\ op_pc[o] = "stale")
           /\ \A j \in Jobs : job_row[j] # "Failed" /\ job_row'[j] = "Failed" => Decided(j)]_vars
  BY StepInv DEF StepFacts, FailedStep
<1> QED
  BY <1>1, JournalInvariant, PTL DEF Spec, FailedOnlyOnDecision

\* ResolutionIsLast: no step resolves the recovery of an operation before its
\* row has ended, unless the inner controller closed that recovery.
THEOREM JournalResolutionIsLast == Spec => ResolutionIsLast
<1>1. IndInv /\ [Next]_vars =>
          [\A o \in Ops : rec_row[Stable(o)] # "Resolved" /\ rec_row'[Stable(o)] = "Resolved" =>
               op_row[o] \in {"Durable", "Failed"} \/ inner_rec[Stable(o)] = "closed"]_vars
  BY StepInv DEF StepFacts, ResolvedStep
<1> QED
  BY <1>1, JournalInvariant, PTL DEF Spec, ResolutionIsLast
=============================================================================
