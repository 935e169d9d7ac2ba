---------------------------- MODULE JobRegistry ----------------------------
(***************************************************************************)
(* WorkspaceJobRegistry (crates/hi-workspace/src/job_registry.rs): the     *)
(* process-wide table of jobs.  Every method takes the mutex once per      *)
(* step, so a method that takes it several times (register_running,        *)
(* request_cancel, wait) is a small program here, whose steps interleave   *)
(* with those of every other caller.                                       *)
(*                                                                         *)
(* A call that returns an error leaves the table alone; such calls are     *)
(* steps only of the multi-step programs, where the error decides what the *)
(* caller does next.                                                       *)
(***************************************************************************)
EXTENDS JobModel

CONSTANTS
    Cancellers,   \* tasks that call request_cancel
    Waiters,      \* tasks that call wait
    MaxEpoch      \* bound on the epochs a behaviour goes through

ASSUME JobRegistryAssumption == MaxEpoch \in Nat

VARIABLES
    epoch,      \* the fence of the registry: its binding and epoch
    jobs,       \* State::jobs
    admission,  \* per job, the progress of its register_running call
    canceller,  \* per canceller, the progress of its request_cancel call
    waiter      \* per waiter, the progress of its wait call

vars == <<epoch, jobs, admission, canceller, waiter>>

WaitCondition == {"RevisionAfter", "Actionable", "Terminal"}

AdmissionStep ==
    {"none", "to_starting", "to_running", "failing", "error"}

Canceller == [pc : {"idle", "observed"}, job : JobIds, state : JobState]

\* `unseen': the watch channel holds a version this receiver has not seen.
\* `newer': the revision of the job is beyond the one the caller named.
Waiter == [pc : {"idle", "check", "parked"}, job : JobIds,
           condition : WaitCondition, deadline : BOOLEAN,
           unseen : BOOLEAN, newer : BOOLEAN]

TypeOK ==
    /\ epoch \in 0 .. MaxEpoch
    /\ jobs \in [JobIds -> Job]
    /\ admission \in [JobIds -> AdmissionStep]
    /\ canceller \in [Cancellers -> Canceller]
    /\ waiter \in [Waiters -> Waiter]

\* The record of a task with no call in progress.
AnyJob == CHOOSE j \in JobIds : TRUE

IdleCanceller == [pc |-> "idle", job |-> AnyJob, state |-> "Queued"]

IdleWaiter ==
    [pc |-> "idle", job |-> AnyJob, condition |-> "Terminal",
     deadline |-> FALSE, unseen |-> FALSE, newer |-> FALSE]

Init ==
    /\ epoch = 0
    /\ jobs = [j \in JobIds |-> NoJob]
    /\ admission = [j \in JobIds |-> "none"]
    /\ canceller = [c \in Cancellers |-> IdleCanceller]
    /\ waiter = [w \in Waiters |-> IdleWaiter]

-----------------------------------------------------------------------------
(* Helpers of the registry.                                                *)

\* The caller presents the current fence; the job must belong to it too.
job_fence_ok(j) == is_registered(jobs, j) /\ jobs[j].epoch = epoch

\* Every change of the table bumps the revision of its job and sends a new
\* version to the watch channel that all waiters subscribe to.
publish(j) ==
    waiter' = [w \in Waiters |->
        IF waiter[w].pc = "idle" THEN waiter[w]
        ELSE [waiter[w] EXCEPT !.unseen = TRUE,
                               !.newer = @ \/ waiter[w].job = j]]

\* Mutant of transition_ok: the expected state is not compared.
transition_ok_any_state(j, expected, next) ==
    /\ job_fence_ok(j)
    /\ ~is_terminal(jobs[j].state)
    /\ transition_allowed(jobs, j, next)
    /\ preparation_slot_free(jobs, j, next)

\* The conditions under which `transition' changes the table.
transition_ok(j, expected, next) ==
    /\ job_fence_ok(j)
    /\ ~is_terminal(jobs[j].state)
    /\ jobs[j].state = expected
    /\ transition_allowed(jobs, j, next)
    /\ preparation_slot_free(jobs, j, next)

\* Mutant of seal_ok: a job that is being cancelled refuses every seal.
seal_ok_not_cancelling(j, next) ==
    /\ job_fence_ok(j)
    /\ jobs[j].state # "CancelRequested"
    /\ transition_allowed(jobs, j, next)

seal_ok(j, next) ==
    /\ job_fence_ok(j)
    /\ ~is_terminal(jobs[j].state)
    /\ transition_allowed(jobs, j, next)

SetState(j, next) ==
    /\ jobs' = WithState(jobs, j, next)
    /\ publish(j)

-----------------------------------------------------------------------------
(* Methods that take the lock once.                                        *)

\* `running' tells whether register_running made the call.
register(j, running) ==
    /\ ~is_registered(jobs, j)
    /\ register_allowed(jobs, j)
    /\ jobs' = Registered(jobs, j, epoch)
    /\ admission' = [admission EXCEPT ![j] =
                        IF running THEN "to_starting" ELSE "none"]
    /\ publish(j)
    /\ UNCHANGED <<epoch, canceller>>

transition(j, next) ==
    /\ transition_ok(j, jobs[j].state, next)
    /\ SetState(j, next)
    /\ UNCHANGED <<epoch, admission, canceller>>

seal(j, completion) ==
    /\ seal_ok(j, completion)
    /\ SetState(j, completion)
    /\ UNCHANGED <<epoch, admission, canceller>>

\* The output itself is bounded in job_output.rs; here it is a new revision.
append_output(j) ==
    /\ job_fence_ok(j)
    /\ ~is_terminal(jobs[j].state)
    /\ publish(j)
    /\ UNCHANGED <<epoch, jobs, admission, canceller>>

\* Mutant of reconcile_recovery: the change is not published.
reconcile_recovery_silent(j) ==
    /\ job_fence_ok(j)
    /\ jobs[j].recovery
    /\ jobs[j].state = "RecoveryRequired"
    /\ jobs' = WithState(jobs, j, "Failed")
    /\ UNCHANGED <<epoch, admission, canceller, waiter>>

reconcile_recovery(j) ==
    /\ job_fence_ok(j)
    /\ jobs[j].recovery
    /\ jobs[j].state = "RecoveryRequired"
    /\ SetState(j, "Failed")
    /\ UNCHANGED <<epoch, admission, canceller>>

-----------------------------------------------------------------------------
(* register_running: register, then two transitions, each under its own    *)
(* lock; the first error seals the job Failed and returns the error.       *)

AdmissionNext(j) ==
    IF admission[j] = "to_starting"
    THEN [expected |-> "Queued", next |-> "Starting", done |-> "to_running"]
    ELSE [expected |-> "Starting", next |-> "Running", done |-> "none"]

register_running_transition(j) ==
    /\ admission[j] \in {"to_starting", "to_running"}
    /\ LET step == AdmissionNext(j) IN
       \/ /\ transition_ok(j, step.expected, step.next)
          /\ SetState(j, step.next)
          /\ admission' = [admission EXCEPT ![j] = step.done]
       \/ /\ ~transition_ok(j, step.expected, step.next)
          /\ admission' = [admission EXCEPT ![j] = "failing"]
          /\ UNCHANGED <<jobs, waiter>>
    /\ UNCHANGED <<epoch, canceller>>

register_running_seal(j) ==
    /\ admission[j] = "failing"
    /\ admission' = [admission EXCEPT ![j] = "error"]
    /\ \/ seal_ok(j, "Failed") /\ SetState(j, "Failed")
       \/ ~seal_ok(j, "Failed") /\ UNCHANGED <<jobs, waiter>>
    /\ UNCHANGED <<epoch, canceller>>

-----------------------------------------------------------------------------
(* request_cancel reads the state under one lock and transitions under     *)
(* another, expecting the state it read.                                   *)

CancelTarget(s) ==
    IF s \in {"Queued", "ReadyToMerge"} THEN "Cancelled" ELSE "CancelRequested"

\* Mutant of request_cancel_status: the job is not looked up first.
request_cancel_status_unchecked(c, j) ==
    /\ canceller[c].pc = "idle"
    /\ canceller' = [canceller EXCEPT ![c] =
                        [pc |-> "observed", job |-> j, state |-> jobs[j].state]]
    /\ UNCHANGED <<epoch, jobs, admission, waiter>>

request_cancel_status(c, j) ==
    /\ canceller[c].pc = "idle"
    /\ job_fence_ok(j)
    /\ jobs[j].state \in {"Queued", "ReadyToMerge", "Starting", "Running"}
    /\ canceller' = [canceller EXCEPT ![c] =
                        [pc |-> "observed", job |-> j, state |-> jobs[j].state]]
    /\ UNCHANGED <<epoch, jobs, admission, waiter>>

request_cancel_transition(c) ==
    /\ canceller[c].pc = "observed"
    /\ canceller' = [canceller EXCEPT ![c] = IdleCanceller]
    /\ LET j == canceller[c].job
           seen == canceller[c].state
       IN \/ /\ transition_ok(j, seen, CancelTarget(seen))
             /\ SetState(j, CancelTarget(seen))
          \/ /\ ~transition_ok(j, seen, CancelTarget(seen))
             /\ UNCHANGED <<jobs, waiter>>
    /\ UNCHANGED <<epoch, admission>>

-----------------------------------------------------------------------------
(* wait subscribes to the watch channel, then loops: read the status,      *)
(* return if the condition holds, else sleep until the channel has a       *)
(* version the receiver has not seen or the deadline passes.               *)

Ready(w) ==
    LET s == jobs[waiter[w].job].state IN
    \/ waiter[w].condition = "RevisionAfter" /\ waiter[w].newer
    \/ /\ waiter[w].condition = "Actionable"
       /\ \/ is_terminal(s)
          \/ s \in {"ReadyToMerge", "DurabilityPending", "RecoveryRequired"}
    \/ waiter[w].condition = "Terminal" /\ is_terminal(s)

wait_subscribe(w, j, condition, deadline, newer) ==
    /\ waiter[w].pc = "idle"
    /\ is_registered(jobs, j)
    /\ newer => condition = "RevisionAfter"
    /\ waiter' = [waiter EXCEPT ![w] =
          [pc |-> "check", job |-> j, condition |-> condition,
           deadline |-> deadline, unseen |-> FALSE, newer |-> newer]]
    /\ UNCHANGED <<epoch, jobs, admission, canceller>>

wait_status(w) ==
    /\ waiter[w].pc = "check"
    /\ \/ /\ ~job_fence_ok(waiter[w].job) \/ Ready(w) \/ waiter[w].deadline
          /\ waiter' = [waiter EXCEPT ![w] = IdleWaiter]
       \/ /\ job_fence_ok(waiter[w].job) /\ ~Ready(w)
          /\ waiter' = [waiter EXCEPT ![w].pc = "parked"]
    /\ UNCHANGED <<epoch, jobs, admission, canceller>>

\* Mutant of wait_changed: the wake-up does not lead to a new status read.
wait_changed_no_loop(w) ==
    /\ waiter[w].pc = "parked" /\ waiter[w].unseen
    /\ waiter' = [waiter EXCEPT ![w].unseen = FALSE]
    /\ UNCHANGED <<epoch, jobs, admission, canceller>>

wait_changed(w) ==
    /\ waiter[w].pc = "parked" /\ waiter[w].unseen
    /\ waiter' = [waiter EXCEPT ![w].pc = "check", ![w].unseen = FALSE]
    /\ UNCHANGED <<epoch, jobs, admission, canceller>>

wait_deadline(w) ==
    /\ waiter[w].pc = "parked" /\ waiter[w].deadline
    /\ waiter' = [waiter EXCEPT ![w] = IdleWaiter]
    /\ UNCHANGED <<epoch, jobs, admission, canceller>>

-----------------------------------------------------------------------------
(* The harness stops: its tasks are gone.  A new one restores the table,   *)
(* bound to the same epoch or to a later one.                              *)

restore(e) ==
    /\ e \in {epoch, epoch + 1} /\ e <= MaxEpoch
    /\ epoch' = e
    /\ jobs' = Restored(jobs, e)
    /\ admission' = [j \in JobIds |-> "none"]
    /\ canceller' = [c \in Cancellers |-> IdleCanceller]
    /\ waiter' = [w \in Waiters |-> IdleWaiter]

-----------------------------------------------------------------------------
RegisterRunning(j) ==
    register_running_transition(j) \/ register_running_seal(j)

WaitStep(w) == wait_status(w) \/ wait_changed(w) \/ wait_deadline(w)

Next ==
    \/ \E j \in JobIds :
          \/ \E running \in BOOLEAN : register(j, running)
          \/ \E s \in JobState : transition(j, s)
          \/ \E s \in JobCompletion : seal(j, s)
          \/ append_output(j)
          \/ reconcile_recovery(j)
          \/ RegisterRunning(j)
    \/ \E c \in Cancellers :
          \/ \E j \in JobIds : request_cancel_status(c, j)
          \/ request_cancel_transition(c)
    \/ \E w \in Waiters :
          \/ \E j \in JobIds, condition \in WaitCondition,
                deadline, newer \in BOOLEAN :
                wait_subscribe(w, j, condition, deadline, newer)
          \/ WaitStep(w)
    \/ \E e \in 0 .. MaxEpoch : restore(e)

\* A running task keeps running: tokio polls a woken task again.
Fairness == \A w \in Waiters : WF_vars(WaitStep(w))

Spec == Init /\ [][Next]_vars

FairSpec == Spec /\ Fairness

-----------------------------------------------------------------------------
(* Properties.                                                             *)

\* The limits of the table hold at every instant, although the slot that
\* register_running asks for is taken under a later lock than the one that
\* put the job into the table, and cancellations, seals and restarts come in
\* between.
LimitsHold ==
    /\ active_count(jobs) <= MaxActiveJobs
    /\ preparation_count(jobs) <= MaxPreparations

\* At most one job writes to the live workspace; only processes of a local
\* workspace may share it (live_writers_conflict).
OneLiveWriter ==
    \A i, j \in Active(jobs) :
        i # j /\ is_live_writer(i) /\ is_live_writer(j) =>
            is_local_live_process(i) /\ is_local_live_process(j)

\* A job that waits for recovery can be found and resolved by
\* reconcile_recovery: it has a recovery identity and carries the current
\* fence.  Otherwise the barrier would report RecoveryRequired for ever.
RecoveryIsReconcilable ==
    \A j \in JobIds : jobs[j].state = "RecoveryRequired" =>
        jobs[j].recovery /\ jobs[j].epoch = epoch

\* Nothing of an earlier epoch is still alive in the table: no callback of an
\* old binding can hold a slot, block a writer or be resurrected.
StaleEpochInert ==
    \A j \in JobIds : is_registered(jobs, j) /\ jobs[j].epoch # epoch =>
        is_terminal(jobs[j].state)

\* "A preparation which cannot acquire its slot is terminalized before
\* returning the denial": when register_running has returned an error its
\* job is terminal, whatever other callers did to the job meanwhile.
FailedAdmissionIsTerminal ==
    \A j \in JobIds : admission[j] = "error" => is_terminal(jobs[j].state)

\* A register_running call in progress holds a job of the current fence.
AdmissionHoldsFence ==
    \A j \in JobIds : admission[j] # "none" => job_fence_ok(j)

\* A waiter sleeps with no wake-up on its way only if what it waits for has
\* not happened: a change between the status read and the sleep is not lost.
NoLostWakeup ==
    \A w \in Waiters :
        waiter[w].pc = "parked" /\ ~waiter[w].unseen => ~Ready(w)

\* The inductive invariant: the properties above support each other.
IndInv ==
    /\ TypeOK
    /\ LimitsHold
    /\ OneLiveWriter
    /\ RecoveryIsReconcilable
    /\ StaleEpochInert
    /\ AdmissionHoldsFence
    /\ FailedAdmissionIsTerminal
    /\ NoLostWakeup

\* A terminal job never changes again, whoever calls and across restarts.
TerminalIsFinal ==
    [][\A j \in JobIds : is_terminal(jobs[j].state) => jobs'[j] = jobs[j]]_vars

\* A cancellation decided on a stale reading never skips the handshake: it
\* takes a job that has begun to run to CancelRequested (whose owner reaps the
\* process) or leaves it alone, and never straight to Cancelled.
CancelHandshake ==
    [][\A c \in Cancellers :
          LET j == canceller[c].job IN
          request_cancel_transition(c) /\ jobs[j].state \in {"Starting", "Running"}
          => jobs'[j].state \in {jobs[j].state, "CancelRequested"}]_vars

\* wait: once its job is terminal, a caller that waits for that (job_wait
\* does) returns, even with no deadline.
WaiterReturns ==
    \A w \in Waiters :
        (/\ waiter[w].pc # "idle"
         /\ waiter[w].condition \in {"Actionable", "Terminal"}
         /\ is_terminal(jobs[waiter[w].job].state)) ~> (waiter[w].pc = "idle")
=============================================================================
