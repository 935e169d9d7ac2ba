------------------------- MODULE JournaledController -------------------------
(***************************************************************************)
(* JournaledWorkspaceController (crates/hi-control/src/                     *)
(* workspace_journal*.rs): a decorator that records every mutation, job and *)
(* recovery of an inner workspace controller in the control journal.  A     *)
(* local workspace goes on when the journal fails; a PipeFS workspace      *)
(* closes.                                                                 *)
(*                                                                         *)
(* Journal work runs on one writer thread, so a closure handed to it is    *)
(* atomic for the callers; the two that commit several rows in a row       *)
(* (repair, recovery outcome) take one step per commit because the process *)
(* can die in between.  A commit fails, or is applied and its              *)
(* acknowledgement lost.  Every await of a caller ends a step.             *)
(*                                                                         *)
(* The inner controller is InMemoryController or PipeFsController, seen    *)
(* through the journal: it promises WorkspaceContract, so it admits one    *)
(* operation at a time, and what else it answers is free.  An open record  *)
(* need not keep it closed (UnresolvedRecoveryKeepsFence of                *)
(* InMemoryController is a finding), so here it never does.                *)
(*                                                                         *)
(* Left out: the writer's queue (a full queue denies the admission, and    *)
(* nothing else), the death of the writer thread, jobs sealed without a    *)
(* permit or after they asked for recovery, a lease lost while nothing     *)
(* mutates or in the middle of inner.begin, the harness failpoints, the    *)
(* watch channel, and the binding row, which is committed with the         *)
(* operation and job rows.                                                 *)
(***************************************************************************)
EXTENDS Naturals

CONSTANTS
    Ops,          \* operation identifiers
    Jobs,         \* job identifiers
    None,         \* no operation
    Workloads,    \* the sets of operations and jobs that may be asked for
    MaxFailures   \* bound on the commits that fail

ASSUME JournalAssumption ==
    /\ Ops \cap Jobs = {}
    /\ None \notin Ops
    /\ Workloads \subseteq SUBSET (Ops \cup Jobs)
    /\ MaxFailures \in Nat

Policies == {"LocalContinueForeground", "PipeFsFailClosed"}

\* EffectScope and JobKind, as far as they matter: a detached candidate, a
\* process that writes the live workspace, a job that only reads.
JobKinds == {"candidate", "process", "reader"}

\* Recoveries: the deterministic identifier of an operation or a job
\* (restart_*_recovery_id), one that the inner controller made up, the one of
\* a job whose publication failed, and one of an operation that was given up
\* before it had an execution to settle: its permit was dropped, its admission
\* failed, or the lease was lost.
Recovery ==
    (((Ops \cup Jobs) \X {"stable", "alias"}) \cup (Jobs \X {"journal"})) \cup (Ops \X {"inert"})
Stable(x) == <<x, "stable">>
Alias(x) == <<x, "alias">>
JournalRecovery(j) == <<j, "journal">>
Inert(o) == <<o, "inert">>

NoFence == [state |-> "none", op |-> None]
NoWork == [kind |-> "none", recovery |-> None, step |-> 0]

VARIABLES
    policy,     \* JournalFailurePolicy
    kind,       \* kind of every job
    health,     \* "Healthy", or what the policy turns a failure into
    op_fence,   \* operation_journal_fence
    job_fence,  \* job_journal_fences
    active,     \* inner controller: the operation that holds a permit
    version,    \* inner controller: the operation the binding's version is from
    inner_rec,  \* inner controller: its recoveries, open or closed
    inner_job,  \* inner controller: what it answered last about every job
    op_pc,      \* where the caller of every operation is
    job_pc,     \* where the owner of every job is
    op_row,     \* journal: workspace operations
    job_row,    \* journal: jobs
    rec_row,    \* journal: recoveries
    unlinked,   \* journal: recoveries that name neither operation nor job
    work,       \* a closure of several commits that the writer is in
    failures    \* commits that failed so far

\* What the properties remember.
VARIABLES
    durable,    \* operations the inner controller has settled as durable
    stale,      \* operations it refused to settle: their place had been taken
    held,       \* operations and jobs whose permit was handed out: effects are possible
    bare,       \* among them, operations handed out without an admission row
    reported    \* what settle and seal_job have last answered as published

jvars == <<policy, kind, health, op_fence, job_fence, active, version, inner_rec, inner_job,
           op_pc, job_pc, op_row, job_row, rec_row, unlinked, work, failures,
           durable, stale, held, bare, reported>>

JournalTypeOK ==
    /\ policy \in Policies
    /\ kind \in [Jobs -> JobKinds]
    /\ health \in {"Healthy", "Failed"}
    /\ op_fence \in [state : {"none", "Pending", "RecoveryRequired"}, op : Ops \cup {None}]
    /\ job_fence \in [Jobs -> {"none", "Pending", "RecoveryRequired"}]
    /\ active \in Ops \cup {None}
    /\ version \in Ops \cup {None}
    /\ inner_rec \in [Recovery -> {"none", "open", "closed"}]
    /\ inner_job \in [Jobs -> {"none", "Running", "Advancing", "RecoveryRequired", "Terminal"}]
    /\ op_pc \in [Ops -> {"new", "checked", "admitted", "cancelled", "held", "settling",
                          "executed", "claimed", "durable", "unsettled", "stale", "done"}]
    /\ job_pc \in [Jobs -> {"new", "checked", "registered", "running", "sealing", "sealed", "done"}]
    /\ op_row \in [Ops -> {"none", "Admitted", "ExecutionRecorded", "Durable",
                           "RecoveryRequired", "Failed"}]
    /\ job_row \in [Jobs -> {"none", "Running", "Advancing", "RecoveryRequired", "Terminal",
                             "Failed", "Orphaned"}]
    /\ rec_row \in [Recovery -> {"none", "Required", "Resolved", "Discarded"}]
    /\ unlinked \subseteq Recovery
    /\ work.kind \in {"none", "repair", "resolve", "discard"}
    /\ work.recovery \in Recovery \cup {None}
    /\ work.step \in 0 .. 4
    /\ failures \in 0 .. MaxFailures
    /\ durable \subseteq Ops
    /\ stale \subseteq Ops
    /\ held \subseteq Ops \cup Jobs
    /\ bare \subseteq Ops
    /\ reported \in [Ops \cup Jobs -> {"none", "Durable", "Advancing", "Terminal"}]

JournalInit ==
    /\ policy \in Policies
    /\ \E w \in Workloads :
           /\ op_pc = [o \in Ops |-> IF o \in w THEN "new" ELSE "done"]
           /\ job_pc = [j \in Jobs |-> IF j \in w THEN "new" ELSE "done"]
           /\ kind \in [Jobs -> JobKinds]
           /\ \A j \in Jobs \ w : kind[j] = "reader"
    /\ health = "Healthy"
    /\ op_fence = NoFence
    /\ job_fence = [j \in Jobs |-> "none"]
    /\ active = None
    /\ version = None
    /\ inner_rec = [r \in Recovery |-> "none"]
    /\ inner_job = [j \in Jobs |-> "none"]
    /\ op_row = [o \in Ops |-> "none"]
    /\ job_row = [j \in Jobs |-> "none"]
    /\ rec_row = [r \in Recovery |-> "none"]
    /\ unlinked = {}
    /\ work = NoWork
    /\ failures = 0
    /\ durable = {}
    /\ stale = {}
    /\ held = {}
    /\ bare = {}
    /\ reported = [x \in Ops \cup Jobs |-> "none"]

local == <<op_pc, job_pc>>
store == <<op_row, job_row, rec_row, unlinked>>
inner == <<active, version, inner_rec, inner_job>>
ghosts == <<durable, stale, held, bare, reported>>

-----------------------------------------------------------------------------
(* The journal writer.                                                     *)

PipeFs == policy = "PipeFsFailClosed"
journal_is_healthy == health = "Healthy"
WriterFree == work.kind = "none"
is_writer(j) == kind[j] # "reader"

\* How a commit ends; "lost": it is applied, but its caller sees an error.
Outcomes == {"ok", "failed", "lost"}
Applied(w) == w # "failed"

\* Two commits (or one, the other "ok") are made; refused: the store does not
\* accept the second.  Any error is noted (note_journal_failure).
Fails(w) == IF w = "ok" THEN 0 ELSE 1

Commit(w1, w2, refused) ==
    /\ failures + Fails(w1) + Fails(w2) <= MaxFailures
    /\ failures' = failures + Fails(w1) + Fails(w2)
    /\ health' = IF w1 # "ok" \/ w2 # "ok" \/ refused THEN "Failed" ELSE health

\* record_recovery and apply_recovery: a recovery that exists keeps the
\* operation or job it names, so naming one later is refused.
LinkRefused(r) == r \in unlinked

journal_fence_denial ==
    \/ op_fence # NoFence
    \/ \E j \in Jobs : job_fence[j] # "none"

Goto(o, p) == op_pc' = [op_pc EXCEPT ![o] = p]
GotoJob(j, p) == job_pc' = [job_pc EXCEPT ![j] = p]

\* The caller is told that x is published as a, or something else: Degraded,
\* RecoveryRequired, Incompatible, a rejected seal.
Answer(x, claimed, a) == reported' = [reported EXCEPT ![x] = IF claimed THEN a ELSE "none"]

\* mutation_abandoned: a dropped permit leaves the inner controller with a
\* recovery, unless its operation has lost its place.
DropPermit(o) ==
    /\ \/ /\ active = o
          /\ active' = None
          /\ inner_rec' = [inner_rec EXCEPT ![Inert(o)] = "open"]
       \/ active # o /\ UNCHANGED <<active, inner_rec>>
    /\ UNCHANGED <<version, inner_job>>

\* fence_lost: the lease monitor records the loss of the lease and forgets the
\* active operation, whose owner is not told.
FenceLost(o) ==
    /\ PipeFs
    /\ active = o
    /\ active' = None
    /\ inner_rec' = [inner_rec EXCEPT ![Inert(o)] = "open"]
    /\ UNCHANGED <<policy, kind, health, op_fence, job_fence, version, inner_job, op_pc, job_pc,
                   store, work, failures, ghosts>>

-----------------------------------------------------------------------------
(* begin.                                                                  *)

\* The fences and the health are looked at before the first await.
BeginCheck(o) ==
    /\ op_pc[o] = "new"
    /\ ~journal_fence_denial
    /\ PipeFs => journal_is_healthy
    /\ Goto(o, "checked")
    /\ UNCHANGED <<policy, kind, health, op_fence, job_fence, inner, job_pc, store, work,
                   failures, ghosts>>

\* The operations whose permit is neither claimed by a settlement that has
\* ended nor dropped.
InProgress ==
    {o \in Ops : op_pc[o] \in {"admitted", "held", "settling", "executed", "claimed"}}

\* inner.begin admits, when no operation is in progress; or denies; or fails on
\* PipeFS after the permit was armed, and leaves a recovery that the journal
\* is not told of.
InnerBegin(o) ==
    /\ op_pc[o] = "checked"
    /\ \/ /\ active = None /\ InProgress = {}
          /\ active' = o
          /\ Goto(o, "admitted")
          /\ UNCHANGED inner_rec
       \/ Goto(o, "new") /\ UNCHANGED <<active, inner_rec>>
       \/ /\ PipeFs /\ active = None /\ InProgress = {}
          /\ inner_rec' = [inner_rec EXCEPT ![Inert(o)] = "open"]
          /\ Goto(o, "done")
          /\ UNCHANGED active
    /\ UNCHANGED <<policy, kind, health, op_fence, job_fence, version, inner_job, job_pc, store,
                   work, failures, ghosts>>

\* The caller of begin goes away: the permit is dropped, the admission that
\* the writer has accepted is recorded all the same.
CancelBegin(o) ==
    /\ op_pc[o] = "admitted"
    /\ DropPermit(o)
    /\ Goto(o, "cancelled")
    /\ UNCHANGED <<policy, kind, health, op_fence, job_fence, job_pc, store, work, failures, ghosts>>

\* begin returns the permit.
HandOut(o) ==
    /\ Goto(o, "held")
    /\ held' = held \cup {o}
    /\ bare' = IF op_row'[o] = "none" THEN bare \cup {o} ELSE bare
    /\ UNCHANGED <<inner, durable, stale, reported>>

\* record_admission_with_binding, skipped when the journal has failed in the
\* meantime; a PipeFS admission that could not be recorded is dropped.
RecordAdmission(o) ==
    /\ op_pc[o] \in {"admitted", "cancelled"}
    /\ WriterFree
    /\ \E w \in Outcomes :
           /\ IF journal_is_healthy
              THEN /\ Commit(w, "ok", FALSE)
                   /\ op_row' = IF Applied(w) THEN [op_row EXCEPT ![o] = "Admitted"] ELSE op_row
              ELSE w = "ok" /\ UNCHANGED <<health, failures, op_row>>
           /\ IF op_pc[o] = "cancelled"
              THEN Goto(o, "done") /\ UNCHANGED <<inner, ghosts>>
              ELSE IF PipeFs /\ w # "ok"
              THEN DropPermit(o) /\ Goto(o, "done") /\ UNCHANGED ghosts
              ELSE HandOut(o)
    /\ UNCHANGED <<policy, kind, op_fence, job_fence, job_pc, job_row, rec_row, unlinked, work>>

\* The holder drops its permit; nothing is journaled.
Abandon(o) ==
    /\ op_pc[o] = "held"
    /\ DropPermit(o)
    /\ Goto(o, "done")
    /\ UNCHANGED <<policy, kind, health, op_fence, job_fence, job_pc, store, work, failures, ghosts>>

-----------------------------------------------------------------------------
(* settle.                                                                 *)

\* begin_operation_publication: whatever fence there was is replaced.
BeginPublication(o) ==
    /\ op_pc[o] = "held"
    /\ op_fence' = IF PipeFs THEN [state |-> "Pending", op |-> o] ELSE op_fence
    /\ Goto(o, "settling")
    /\ UNCHANGED <<policy, kind, health, job_fence, inner, job_pc, store, work, failures, ghosts>>

RecordExecution(o) ==
    /\ op_pc[o] = "settling"
    /\ WriterFree
    /\ IF journal_is_healthy
       THEN \E w \in Outcomes :
                /\ Commit(w, "ok", FALSE)
                /\ op_row' = IF Applied(w) THEN [op_row EXCEPT ![o] = "ExecutionRecorded"] ELSE op_row
       ELSE UNCHANGED <<health, failures, op_row>>
    /\ Goto(o, "executed")
    /\ UNCHANGED <<policy, kind, op_fence, job_fence, inner, job_pc, job_row, rec_row, unlinked,
                   work, ghosts>>

release_pending_operation(o) ==
    op_fence' = IF op_fence = [state |-> "Pending", op |-> o] THEN NoFence ELSE op_fence

\* inner.settle claims the permit, if its operation is still the active one,
\* and awaits the server; otherwise it answers Incompatible, without a
\* recovery, and there is nothing to publish.
ClaimPermit(o) ==
    /\ op_pc[o] = "executed"
    /\ \/ /\ active = o
          /\ Goto(o, "claimed")
          /\ UNCHANGED <<op_fence, stale>>
       \/ /\ active # o
          /\ stale' = stale \cup {o}
          /\ release_pending_operation(o)
          /\ Goto(o, "stale")
    /\ UNCHANGED <<policy, kind, health, job_fence, inner, job_pc, store, work, failures,
                   durable, held, bare, reported>>

\* The rest of inner.settle: durable (or without change); or a recovery of its
\* own, on PipeFS also one of bytes that have landed.
InnerSettle(o) ==
    /\ op_pc[o] = "claimed"
    /\ \/ /\ version' = o
          /\ durable' = durable \cup {o}
          /\ Goto(o, "durable")
          /\ UNCHANGED <<inner_rec, op_fence>>
       \/ /\ inner_rec' = [inner_rec EXCEPT ![Alias(o)] = "open"]
          /\ version' \in {version} \cup (IF PipeFs THEN {o} ELSE {})
          /\ release_pending_operation(o)
          /\ Goto(o, "unsettled")
          /\ UNCHANGED durable
    /\ active' = None
    /\ UNCHANGED <<policy, kind, health, job_fence, inner_job, job_pc, store, work,
                   failures, stale, held, bare, reported>>

\* validate_exact_settlement_proof: the receipt is of this operation, and
\* its version is the one the binding is at.
exact_settlement_proof(o) == version = o

\* Mutant of FinishPublication: an error of the settlement record is only noted.
FinishPublication_noted(o) ==
    /\ op_pc[o] = "durable"
    /\ PipeFs
    /\ WriterFree
    /\ \E w \in Outcomes :
           /\ Commit(w, "ok", FALSE)
           /\ op_row' = IF Applied(w) THEN [op_row EXCEPT ![o] = "Durable"] ELSE op_row
    /\ release_pending_operation(o)
    /\ Answer(o, TRUE, "Durable")
    /\ Goto(o, "done")
    /\ UNCHANGED <<policy, kind, job_fence, inner, job_pc, job_row, rec_row, unlinked, work,
                   durable, stale, held, bare>>

\* finish_operation_publication of a durable PipeFS settlement.
FinishPublication(o) ==
    /\ op_pc[o] = "durable"
    /\ PipeFs
    /\ WriterFree
    /\ \E w1, w2 \in Outcomes :
           LET tried == exact_settlement_proof(o) /\ journal_is_healthy
               published == tried /\ w1 = "ok"
           IN  /\ ~tried => w1 = "ok"
               /\ published => w2 = "ok"
               /\ Commit(w1, w2, FALSE)
               /\ op_row' = IF tried /\ Applied(w1) THEN [op_row EXCEPT ![o] = "Durable"] ELSE op_row
               /\ Answer(o, published, "Durable")
               /\ IF published
                  THEN /\ release_pending_operation(o)
                       /\ UNCHANGED rec_row
                  ELSE /\ op_fence' = [state |-> "RecoveryRequired", op |-> o]
                       /\ rec_row' = IF Applied(w2)
                                     THEN [rec_row EXCEPT ![Stable(o)] = "Required"] ELSE rec_row
    /\ Goto(o, "done")
    /\ UNCHANGED <<policy, kind, job_fence, inner, job_pc, job_row, unlinked, work,
                   durable, stale, held, bare>>

\* operation_status of what a local settlement, or one that is not durable,
\* ends with.
SettlementRow(o) ==
    CASE op_pc[o] = "durable" -> "Durable"
      [] op_pc[o] = "unsettled" -> "RecoveryRequired"
      [] op_pc[o] = "stale" -> "Failed"

\* The rest of settle_owned: only a settlement with a recovery records one.
PublishSettlement(o) ==
    /\ op_pc[o] \in {"durable", "unsettled", "stale"}
    /\ PipeFs => op_pc[o] # "durable"
    /\ WriterFree
    /\ LET unsettled == op_pc[o] = "unsettled"
           refused == unsettled /\ LinkRefused(Alias(o))
       IN  \E w1, w2 \in Outcomes :
               /\ ~unsettled \/ refused => w2 = "ok"
               /\ Commit(w1, w2, refused)
               /\ op_row' = IF Applied(w1) THEN [op_row EXCEPT ![o] = SettlementRow(o)] ELSE op_row
               /\ rec_row' = IF unsettled /\ ~refused /\ Applied(w2)
                             THEN [rec_row EXCEPT ![Alias(o)] = "Required"] ELSE rec_row
               /\ Answer(o, op_pc[o] = "durable" /\ health' = "Healthy", "Durable")
    /\ Goto(o, "done")
    /\ UNCHANGED <<policy, kind, op_fence, job_fence, inner, job_pc, job_row, unlinked, work,
                   durable, stale, held, bare>>

-----------------------------------------------------------------------------
(* Jobs.                                                                   *)

writer_jobs_allowed == journal_is_healthy /\ ~journal_fence_denial

JobCheck(j) ==
    /\ job_pc[j] = "new"
    /\ ~journal_fence_denial
    /\ is_writer(j) => writer_jobs_allowed
    /\ PipeFs => journal_is_healthy
    /\ GotoJob(j, "checked")
    /\ UNCHANGED <<policy, kind, health, op_fence, job_fence, inner, op_pc, store, work,
                   failures, ghosts>>

\* inner.register_job admits or denies; PipeFS has no live writer jobs.
JobRegister(j) ==
    /\ job_pc[j] = "checked"
    /\ \/ /\ PipeFs => kind[j] # "process"
          /\ inner_job' = [inner_job EXCEPT ![j] = "Running"]
          /\ GotoJob(j, "registered")
       \/ UNCHANGED inner_job /\ GotoJob(j, "new")
    /\ UNCHANGED <<policy, kind, health, op_fence, job_fence, active, version, inner_rec, op_pc,
                   store, work, failures, ghosts>>

\* record_job_with_binding; a job that has to be journaled and is not is
\* sealed as failed before it runs.
JobRecord(j) ==
    /\ job_pc[j] = "registered"
    /\ WriterFree
    /\ \E w \in Outcomes :
           /\ Commit(w, "ok", FALSE)
           /\ job_row' = IF Applied(w) THEN [job_row EXCEPT ![j] = "Running"] ELSE job_row
           /\ IF w # "ok" /\ (is_writer(j) \/ PipeFs)
              THEN /\ inner_job' = [inner_job EXCEPT ![j] = "Terminal"]
                   /\ GotoJob(j, "done")
                   /\ UNCHANGED held
              ELSE /\ UNCHANGED inner_job
                   /\ GotoJob(j, "running")
                   /\ held' = held \cup {j}
    /\ UNCHANGED <<policy, kind, op_fence, job_fence, active, version, inner_rec, op_pc, op_row,
                   rec_row, unlinked, work, durable, stale, bare, reported>>

SealJob(j) ==
    /\ job_pc[j] = "running"
    /\ IF job_fence[j] = "none"
       THEN job_fence' = [job_fence EXCEPT ![j] = "Pending"] /\ GotoJob(j, "sealing")
       ELSE UNCHANGED job_fence /\ GotoJob(j, "done")
    /\ UNCHANGED <<policy, kind, health, op_fence, inner, op_pc, store, work, failures, ghosts>>

\* inner.seal_job: the job has ended, asks for recovery, or goes on to be
\* sealed again (Advancing: ReadyToMerge, Merging, Settling and
\* DurabilityPending).
InnerSeal(j) ==
    /\ job_pc[j] = "sealing"
    /\ \E state \in {"Advancing", "RecoveryRequired", "Terminal"} :
           /\ inner_job' = [inner_job EXCEPT ![j] = state]
           /\ inner_rec' = IF state = "RecoveryRequired"
                           THEN [inner_rec EXCEPT ![Alias(j)] = "open"] ELSE inner_rec
    /\ GotoJob(j, "sealed")
    /\ UNCHANGED <<policy, kind, health, op_fence, job_fence, active, version, op_pc, store, work,
                   failures, ghosts>>

\* inner.seal_job rejects the transition, and the fence is taken back.
InnerSealRejected(j) ==
    /\ job_pc[j] = "sealing"
    /\ WriterFree
    /\ job_fence' = [job_fence EXCEPT ![j] = "none"]
    /\ GotoJob(j, "running")
    /\ UNCHANGED <<policy, kind, health, op_fence, inner, op_pc, store, work, failures, ghosts>>

\* A local process degrades the audit trail; everything else is fenced.
must_fence(j) == (is_writer(j) /\ ~(kind[j] = "process" /\ ~PipeFs)) \/ PipeFs

\* finish_job_publication.  A job that is not fenced is answered as sealed also
\* without its record; the health of the journal tells that it is missing.
FinishJobPublication(j) ==
    /\ job_pc[j] = "sealed"
    /\ WriterFree
    /\ LET recovery == inner_job[j] = "RecoveryRequired"
       IN  \E w1, w2 \in Outcomes :
               LET fenced == w1 # "ok" /\ must_fence(j)
                   refused == ~fenced /\ recovery /\ LinkRefused(Alias(j))
                   named == IF fenced THEN JournalRecovery(j) ELSE Alias(j)
               IN  /\ (~fenced /\ ~recovery) \/ refused => w2 = "ok"
                   /\ Commit(w1, w2, refused)
                   /\ job_row' = IF Applied(w1) THEN [job_row EXCEPT ![j] = inner_job[j]]
                                 ELSE job_row
                   /\ rec_row' = IF (fenced \/ recovery) /\ ~refused /\ Applied(w2)
                                 THEN [rec_row EXCEPT ![named] = "Required"] ELSE rec_row
                   /\ job_fence' = [job_fence EXCEPT ![j] =
                                        IF fenced THEN "RecoveryRequired" ELSE "none"]
                   /\ GotoJob(j, IF ~fenced /\ inner_job[j] = "Advancing" THEN "running" ELSE "done")
                   /\ Answer(j, w1 = "ok" /\ ~recovery, inner_job[j])
    /\ UNCHANGED <<policy, kind, op_fence, inner, op_pc, op_row, unlinked, work,
                   durable, stale, held, bare>>

-----------------------------------------------------------------------------
(* reconcile.                                                              *)

operation_requires_recovery(o) ==
    op_row[o] \in {"Admitted", "ExecutionRecorded", "RecoveryRequired"}

JobTerminal == {"Terminal", "Failed", "Orphaned"}

\* Required stands for every status that is neither Resolved nor Discarded.
Unresolved(r) == rec_row[r] = "Required"

\* recoveries_for_operation and recoveries_for_job.
Linked(x) == {r \in Recovery : r[1] = x /\ r \notin unlinked /\ rec_row[r] # "none"}

\* record_recovery without an operation or a job.
RecordBare(r, status) ==
    /\ rec_row' = [rec_row EXCEPT ![r] = status]
    /\ unlinked' = IF rec_row[r] = "none" THEN unlinked \cup {r} ELSE unlinked

FencedBy(r) == op_fence.state = "RecoveryRequired" /\ r = Stable(op_fence.op)

\* reconcile_operation_publication: the fence of this recovery is repaired,
\* if the proof still holds.
ReconcilePublication(r) ==
    /\ WriterFree
    /\ FencedBy(r)
    /\ IF exact_settlement_proof(op_fence.op)
       THEN work' = [kind |-> "repair", recovery |-> r, step |-> 1] /\ UNCHANGED health
       ELSE health' = "Failed" /\ UNCHANGED work
    /\ UNCHANGED <<policy, kind, op_fence, job_fence, inner, local, store, failures, ghosts>>

\* The recovery of a fenced job waits for a restart.
forced_job_recovery(r) ==
    \E j \in Jobs : job_fence[j] = "RecoveryRequired" /\ r = JournalRecovery(j)

\* The inner controller reconciles: it recovers, has recovered before, is not
\* done yet or rejects (PipeFS: without an execution it always does), or does
\* not know the recovery; the outcome is recorded.  A PipeFS operation that is
\* settled again may move the version.
ReconcileInner(r) ==
    /\ WriterFree
    /\ ~FencedBy(r)
    /\ ~forced_job_recovery(r)
    /\ rec_row[r] # "none" \/ inner_rec[r] # "none"
    /\ \/ /\ inner_rec[r] \in {"open", "closed"}
          /\ PipeFs => r[2] # "inert"
          /\ inner_rec' = [inner_rec EXCEPT ![r] = "closed"]
          /\ IF PipeFs /\ inner_rec[r] = "open" /\ r[1] \in Ops
             THEN version' \in {version, r[1]} /\ active' = None
             ELSE UNCHANGED <<version, active>>
          /\ work' = [kind |-> "resolve", recovery |-> r, step |-> 1]
          /\ UNCHANGED <<rec_row, unlinked, health, failures>>
       \/ /\ inner_rec[r] # "closed"
          /\ inner_rec[r] = "open" => PipeFs
          /\ \E w \in Outcomes :
                 /\ Commit(w, "ok", FALSE)
                 /\ IF Applied(w) THEN RecordBare(r, "Required") ELSE UNCHANGED <<rec_row, unlinked>>
          /\ UNCHANGED <<active, version, inner_rec, work>>
    /\ UNCHANGED <<policy, kind, op_fence, job_fence, inner_job, local, op_row, job_row, ghosts>>

\* Mutant of repair_operation_publication: the recovery is resolved first.
repair_operation_publication_first ==
    /\ work.kind = "repair"
    /\ LET o == work.recovery[1]
       IN  \E w \in Outcomes :
               /\ Commit(w, "ok", FALSE)
               /\ rec_row' = IF work.step = 1 /\ Applied(w)
                             THEN [rec_row EXCEPT ![Stable(o)] = "Resolved"] ELSE rec_row
               /\ op_row' = IF work.step \in {2, 3} /\ Applied(w)
                            THEN [op_row EXCEPT ![o] = IF work.step = 2 THEN "ExecutionRecorded"
                                                       ELSE "Durable"] ELSE op_row
               /\ work' = IF w = "ok" /\ work.step < 4 THEN [work EXCEPT !.step = @ + 1] ELSE NoWork
               /\ op_fence' = IF w = "ok" /\ work.step = 4 THEN NoFence ELSE op_fence
    /\ UNCHANGED <<policy, kind, job_fence, inner, local, job_row, unlinked, ghosts>>

\* repair_operation_publication, one commit at a time; the last one lifts the
\* fence, and the failure too unless a job is fenced.
repair_operation_publication ==
    /\ work.kind = "repair"
    /\ LET o == work.recovery[1]
           last == work.step = 4
       IN  \E w \in Outcomes :
               /\ failures + Fails(w) <= MaxFailures
               /\ failures' = failures + Fails(w)
               /\ rec_row' = IF work.step \in {1, 4} /\ Applied(w)
                             THEN [rec_row EXCEPT ![Stable(o)] = IF last THEN "Resolved"
                                                                 ELSE "Required"] ELSE rec_row
               /\ op_row' = IF work.step \in {2, 3} /\ Applied(w)
                            THEN [op_row EXCEPT ![o] = IF work.step = 2 THEN "ExecutionRecorded"
                                                       ELSE "Durable"] ELSE op_row
               /\ work' = IF w = "ok" /\ ~last THEN [work EXCEPT !.step = @ + 1] ELSE NoWork
               /\ op_fence' = IF w = "ok" /\ last /\ FencedBy(Stable(o)) THEN NoFence ELSE op_fence
               /\ health' = IF w # "ok" THEN "Failed"
                            ELSE IF last /\ \A j \in Jobs : job_fence[j] = "none" THEN "Healthy"
                            ELSE health
    /\ UNCHANGED <<policy, kind, job_fence, inner, local, job_row, unlinked, ghosts>>

\* The lifecycle of x has a row, and the row says that it has not ended.
Unfinished(x) ==
    \/ x \in Ops /\ operation_requires_recovery(x)
    \/ x \in Jobs /\ job_row[x] \notin JobTerminal \cup {"none"}

\* settle_recovered_job, settle_recovered_operation: it ends as Failed.
SettleFailed(x) ==
    /\ op_row' = IF x \in Ops /\ Unfinished(x) THEN [op_row EXCEPT ![x] = "Failed"] ELSE op_row
    /\ job_row' = IF x \in Jobs /\ Unfinished(x) THEN [job_row EXCEPT ![x] = "Failed"] ELSE job_row

\* record_recovery_outcome of a recovery, one commit at a time: the recovery,
\* the others of the same operation or job, its lifecycle.
record_recovery_outcome ==
    /\ work.kind = "resolve"
    /\ LET r == work.recovery
           others == {s \in Linked(r[1]) \ {r} : Unresolved(s)}
       IN  \E w \in Outcomes :
               /\ work.step = 2 /\ others = {} => w = "ok"
               /\ work.step = 3 /\ ~Unfinished(r[1]) => w = "ok"
               /\ Commit(w, "ok", FALSE)
               /\ CASE ~Applied(w) -> UNCHANGED store
                    [] Applied(w) /\ work.step = 1 ->
                           RecordBare(r, "Resolved") /\ UNCHANGED <<op_row, job_row>>
                    [] Applied(w) /\ work.step = 2 ->
                           /\ rec_row' = [s \in Recovery |-> IF s \in others THEN "Resolved"
                                                             ELSE rec_row[s]]
                           /\ UNCHANGED <<unlinked, op_row, job_row>>
                    [] OTHER -> SettleFailed(r[1]) /\ UNCHANGED <<rec_row, unlinked>>
               /\ work' = IF w = "ok" /\ work.step < 3 /\ r \notin unlinked'
                          THEN [work EXCEPT !.step = @ + 1] ELSE NoWork
    /\ UNCHANGED <<policy, kind, op_fence, job_fence, inner, local, ghosts>>

LiveOp(o) ==
    \/ BeginCheck(o) \/ InnerBegin(o) \/ CancelBegin(o) \/ RecordAdmission(o) \/ Abandon(o)
    \/ BeginPublication(o) \/ RecordExecution(o) \/ ClaimPermit(o) \/ InnerSettle(o)
    \/ FinishPublication(o) \/ PublishSettlement(o) \/ FenceLost(o)

LiveJob(j) ==
    \/ JobCheck(j) \/ JobRegister(j) \/ JobRecord(j)
    \/ SealJob(j) \/ InnerSeal(j) \/ InnerSealRejected(j) \/ FinishJobPublication(j)

Live ==
    \/ \E o \in Ops : LiveOp(o)
    \/ \E j \in Jobs : LiveJob(j)
    \/ \E r \in Recovery : ReconcilePublication(r) \/ ReconcileInner(r)
    \/ repair_operation_publication
    \/ record_recovery_outcome
=============================================================================
