--------------------------- MODULE JournalRestart ---------------------------
(***************************************************************************)
(* The control journal across crashes (crates/hi-control/src/              *)
(* workspace_restart.rs).  A process dies at any point of                  *)
(* JournaledController; the next one goes over the rows of the binding     *)
(* before it admits anything: reconcile_jobs_after_restart ends, orphans   *)
(* or fences what was in flight, one commit after the other, and may die   *)
(* itself in between.  The recoveries it reports fence the new inner       *)
(* controller.  A local recovery may be discarded by the operator.         *)
(*                                                                         *)
(* A pass commits what the rows call for until they call for nothing: the  *)
(* second commit for a row depends on the first only through the rows.  A  *)
(* commit of the pass that fails ends the pass with an error, after which  *)
(* it is run again; the model takes that for a crash.  Epochs do not       *)
(* change, so no job is Stale.                                             *)
(***************************************************************************)
EXTENDS JournaledController

CONSTANT MaxCrashes    \* bound on the processes that die; of the one after the
                       \* last of them only the pass is followed

ASSUME RestartAssumption == MaxCrashes \in Nat

VARIABLES
    phase,     \* "live", or "restart" while the pass over the journal runs
    crashes    \* processes that died so far

vars == <<jvars, phase, crashes>>

TypeOK ==
    /\ JournalTypeOK
    /\ phase \in {"live", "restart"}
    /\ crashes \in 0 .. MaxCrashes

Init == JournalInit /\ phase = "live" /\ crashes = 0

-----------------------------------------------------------------------------
(* The pass.                                                               *)

\* What is in memory is gone.  The inner controller's settlements are not.
Crash ==
    /\ crashes < MaxCrashes
    /\ crashes' = crashes + 1
    /\ phase' = "restart"
    /\ health' = "Healthy"
    /\ op_fence' = NoFence
    /\ job_fence' = [j \in Jobs |-> "none"]
    /\ active' = None
    /\ inner_rec' = [r \in Recovery |-> "none"]
    /\ inner_job' = [j \in Jobs |-> "none"]
    /\ op_pc' = [o \in Ops |-> IF op_pc[o] \in {"new", "checked"} THEN "new" ELSE "done"]
    /\ job_pc' = [j \in Jobs |-> IF job_pc[j] \in {"new", "checked"} THEN "new" ELSE "done"]
    /\ work' = NoWork
    /\ UNCHANGED <<policy, kind, version, store, failures, ghosts>>

LinkedUnresolved(x) == \E r \in Linked(x) : Unresolved(r)

\* The stable recovery of x has been decided.
recovery_resolved(x) == rec_row[Stable(x)] \in {"Resolved", "Discarded"}

is_local_live_process(j) == ~PipeFs /\ kind[j] = "process"

\* Mutant of RestartedRow: a writer job is orphaned like a reader.
RestartedRow_orphan(x) ==
    IF x \in Jobs THEN "Orphaned"
    ELSE IF recovery_resolved(x) THEN "Failed"
    ELSE "RecoveryRequired"

\* What the pass makes of an unfinished operation or job.
RestartedRow(x) ==
    IF x \in Jobs /\ (is_local_live_process(x) \/ ~is_writer(x)) THEN "Orphaned"
    ELSE IF recovery_resolved(x) THEN "Failed"
    ELSE "RecoveryRequired"

\* The operation or the job is in the journal.
HasRow(x) == IF x \in Ops THEN op_row[x] # "none" ELSE job_row[x] # "none"

\* Its recovery has to be there too, under the stable identifier.
NeedsRecovery(x) ==
    /\ HasRow(x)
    /\ ~(x \in Jobs /\ is_local_live_process(x))
    /\ \/ Unfinished(x) /\ RestartedRow(x) = "RecoveryRequired"
       \/ LinkedUnresolved(x)

\* The commits that the pass has still to make for x.
RowDue(x) ==
    Unfinished(x) /\ (IF x \in Ops THEN op_row[x] ELSE job_row[x]) # RestartedRow(x)
RetireDue(x) == x \in Jobs /\ is_local_live_process(x) /\ HasRow(x) /\ LinkedUnresolved(x)
EnsureDue(x) == NeedsRecovery(x) /\ rec_row[Stable(x)] = "none"

Due(x) == RowDue(x) \/ RetireDue(x) \/ EnsureDue(x)

PassDone == \A x \in Ops \cup Jobs : ~Due(x)

\* The jobs come before the operations.
InTurn(x) == x \in Ops => \A j \in Jobs : ~Due(j)

\* The recoveries that the pass reports: those of the rows, and what is
\* unresolved and not covered by one of them.
Report ==
    LET rows == {Stable(x) : x \in {y \in Ops \cup Jobs : NeedsRecovery(y)}}
    IN  rows \cup {r \in Recovery : Unresolved(r) /\ (r \in unlinked \/ Stable(r[1]) \notin rows)}

\* commit_job, commit_operation.
RestartRow(x) ==
    /\ phase = "restart"
    /\ InTurn(x)
    /\ RowDue(x)
    /\ op_row' = IF x \in Ops THEN [op_row EXCEPT ![x] = RestartedRow(x)] ELSE op_row
    /\ job_row' = IF x \in Jobs THEN [job_row EXCEPT ![x] = RestartedRow(x)] ELSE job_row
    /\ UNCHANGED <<policy, kind, health, op_fence, job_fence, inner, local, rec_row, unlinked,
                   work, failures, ghosts, phase, crashes>>

\* resolve_local_process_recoveries, ensure_restart_recovery,
\* ensure_restart_operation_recovery: after the row.
RestartRecovery(x) ==
    /\ phase = "restart"
    /\ InTurn(x)
    /\ ~RowDue(x)
    /\ \/ /\ RetireDue(x)
          /\ \E r \in Linked(x) :
                 Unresolved(r) /\ rec_row' = [rec_row EXCEPT ![r] = "Resolved"]
       \/ /\ EnsureDue(x)
          /\ rec_row' = [rec_row EXCEPT ![Stable(x)] = "Required"]
    /\ UNCHANGED <<policy, kind, health, op_fence, job_fence, inner, local, op_row, job_row,
                   unlinked, work, failures, ghosts, phase, crashes>>

\* The pass is over; what it reports fences the inner controller.
RestartDone ==
    /\ phase = "restart"
    /\ crashes < MaxCrashes
    /\ PassDone
    /\ phase' = "live"
    /\ inner_rec' = [r \in Recovery |-> IF r \in Report THEN "open" ELSE "none"]
    /\ UNCHANGED <<policy, kind, health, op_fence, job_fence, active, version, inner_job, local,
                   store, work, failures, ghosts, crashes>>

-----------------------------------------------------------------------------
(* discard_local_restart_recovery.                                         *)

\* The operator accepts the bytes as they are, for a recovery that names an
\* operation, a writer job, or nothing.
Discard(r) ==
    /\ phase = "live" /\ ~PipeFs /\ WriterFree
    /\ inner_rec[r] = "open"
    /\ rec_row[r] # "Resolved"
    /\ \/ r \in unlinked
       \/ r = Stable(r[1]) /\ HasRow(r[1]) /\ (r[1] \in Jobs => is_writer(r[1]))
    /\ work' = [kind |-> "discard", recovery |-> r, step |-> 1]
    /\ UNCHANGED <<policy, kind, health, op_fence, job_fence, inner, local, store, failures,
                   ghosts, phase, crashes>>

\* Mutant of discard_step: the lifecycle ends before the decision is written.
discard_step_early ==
    /\ work.kind = "discard"
    /\ LET r == work.recovery
       IN  /\ SettleFailed(r[1])
           /\ rec_row' = IF work.step = 2 THEN [rec_row EXCEPT ![r] = "Discarded"] ELSE rec_row
           /\ work' = IF work.step = 1 THEN [work EXCEPT !.step = 2] ELSE NoWork
    /\ UNCHANGED <<policy, kind, health, op_fence, job_fence, inner, local, unlinked, failures,
                   ghosts, phase, crashes>>

\* Mutant of discard_step: one step too many.
discard_step_overrun ==
    /\ work.kind = "discard"
    /\ work' = IF work.step <= 4 THEN [work EXCEPT !.step = @ + 1] ELSE NoWork
    /\ UNCHANGED <<policy, kind, health, op_fence, job_fence, inner, local, store, failures,
                   ghosts, phase, crashes>>

\* One commit: the recovery if it is missing, the other recoveries of the
\* operation or job, the recovery itself, and last the lifecycle.
discard_step ==
    /\ work.kind = "discard"
    /\ LET r == work.recovery
           linked == IF r \in unlinked THEN {} ELSE Linked(r[1]) \ {r}
       IN  /\ rec_row' =
                 CASE work.step = 1 -> [rec_row EXCEPT ![r] = IF @ = "none" THEN "Required" ELSE @]
                   [] work.step = 2 -> [s \in Recovery |->
                          IF s \in linked /\ Unresolved(s) THEN "Discarded" ELSE rec_row[s]]
                   [] work.step = 3 -> [rec_row EXCEPT ![r] = "Discarded"]
                   [] OTHER -> rec_row
           /\ IF work.step = 4 /\ r \notin unlinked THEN SettleFailed(r[1])
              ELSE UNCHANGED <<op_row, job_row>>
           /\ work' = IF work.step < 4 THEN [work EXCEPT !.step = @ + 1] ELSE NoWork
    /\ UNCHANGED <<policy, kind, health, op_fence, job_fence, inner, local, unlinked, failures,
                   ghosts, phase, crashes>>

Next ==
    \/ phase = "live" /\ Live /\ UNCHANGED <<phase, crashes>>
    \/ Crash
    \/ \E x \in Ops \cup Jobs : RestartRow(x) \/ RestartRecovery(x)
    \/ RestartDone
    \/ \E r \in Recovery : Discard(r)
    \/ discard_step

Spec == Init /\ [][Next]_vars

-----------------------------------------------------------------------------
(* Properties.                                                             *)

\* finish_operation_publication and finish_job_publication: what settle and
\* seal_job have answered as published is in the journal, also after commits
\* that failed or whose acknowledgement was lost, repairs, crashes and
\* passes; and the journal never calls an operation durable that the inner
\* controller has not settled.
PublishedIsRecorded ==
    /\ \A o \in Ops : reported[o] = "Durable" => op_row[o] = "Durable"
    /\ \A o \in Ops : op_row[o] = "Durable" => o \in durable
    /\ \A j \in Jobs : reported[j] = "Terminal" => job_row[j] = "Terminal"
    /\ \A j \in Jobs : reported[j] = "Advancing" => job_row[j] \notin {"none", "Running"}

Decided(x) == \E r \in Linked(x) : rec_row[r] \in {"Resolved", "Discarded"}

\* reconcile_jobs_after_restart: when the pass ends, wherever the processes
\* before it died, every mutation whose permit had been handed out and
\* recorded, and every writer job that ran, is known as durable or finished,
\* or is behind a recovery that the pass reports.  What ended as Failed has a
\* recovery in the journal, with one exception: an operation whose place the
\* lease monitor took is settled as Incompatible and recorded as Failed with
\* no recovery of its own (workspace_projection.rs:609), so the pass has
\* nothing to report of it.
EffectsAccounted ==
    phase = "restart" /\ PassDone =>
        /\ \A o \in (held \cap Ops) \ bare :
               \/ op_row[o] = "Durable"
               \/ op_row[o] = "Failed" /\ (Linked(o) # {} \/ o \in stale)
               \/ Stable(o) \in Report
        /\ \A j \in held \cap Jobs :
               is_writer(j) /\ ~is_local_live_process(j) =>
                   \/ job_row[j] = "Terminal"
                   \/ job_row[j] = "Failed" /\ Linked(j) # {}
                   \/ Stable(j) \in Report

\* settle_recovered_operation, discard_local_restart_recovery: "Persist the
\* content decision before terminalizing the lifecycle" - an operation or a
\* writer job ends as Failed only once one of its recoveries was decided.  The
\* settlement of a PipeFS operation whose place was taken is the one step that
\* writes Failed on no decision, and on a local workspace there is none.
FailedOnlyOnDecision ==
    [][/\ \A o \in Ops : op_row[o] # "Failed" /\ op_row'[o] = "Failed" =>
              Decided(o) \/ (PipeFs /\ op_pc[o] = "stale")
       /\ \A j \in Jobs : job_row[j] # "Failed" /\ job_row'[j] = "Failed" => Decided(j)]_vars

\* repair_operation_publication: "Resolution is the last write" - while a
\* durable PipeFS settlement is not in the journal, its recovery is not
\* resolved there, so a crash leaves something to find.
ResolutionIsLast ==
    [][\A o \in Ops : rec_row[Stable(o)] # "Resolved" /\ rec_row'[Stable(o)] = "Resolved" =>
           op_row[o] \in {"Durable", "Failed"} \/ inner_rec[Stable(o)] = "closed"]_vars

\* JournalFailurePolicy::PipeFsFailClosed (workspace_journal.rs:33-35): "all
\* new mutation admission closes after any journal ambiguity".  The code does
\* not guarantee it.
AdmissionClosesOnAmbiguity ==
    [][\A o \in Ops : PipeFs /\ op_pc[o] # "held" /\ op_pc'[o] = "held" =>
           journal_is_healthy /\ op_row'[o] = "Admitted"]_vars
=============================================================================
