------------------------- MODULE JobRegistryProofs -------------------------
(***************************************************************************)
(* The safety properties of JobRegistry for every set of jobs, every       *)
(* assignment of specifications and every limit.                           *)
(***************************************************************************)
EXTENDS JobRegistry, JobModelProofs

\* The part of the invariant that is about the job map alone.
JobsInv ==
    /\ jobs \in JobMap
    /\ WithinLimits(jobs)
    /\ WritersExclude(jobs)
    /\ RecoveryIsReconcilable
    /\ StaleEpochInert

\* The properties of JobRegistry say the same of the job map.
LEMMA JobsInvMeaning ==
    /\ LimitsHold <=> WithinLimits(jobs)
    /\ OneLiveWriter <=> WritersExclude(jobs)
BY DEF LimitsHold, WithinLimits, OneLiveWriter, WritersExclude

\* publish wakes every waiter that is not idle, so after it nobody sleeps
\* without a wake-up on its way.
LEMMA PublishWakes ==
    ASSUME NEW j \in JobIds, waiter \in [Waiters -> Waiter], publish(j)
    PROVE  waiter' \in [Waiters -> Waiter] /\ NoLostWakeup'
<1>1. waiter' \in [Waiters -> Waiter]
  BY DEF publish, Waiter
<1>2. \A w \in Waiters : waiter'[w].pc # "idle" => waiter'[w].unseen
  BY DEF publish, Waiter
<1> QED
  BY <1>1, <1>2 DEF NoLostWakeup

\* An identifier that is registered under the current fence and not terminal
\* is active.
LEMMA FencedIsActive ==
    ASSUME jobs \in JobMap, NEW j \in JobIds, job_fence_ok(j),
           ~is_terminal(jobs[j].state)
    PROVE  jobs[j].state \in ActiveState /\ jobs[j].epoch = epoch
BY StatesDisjoint DEF job_fence_ok, is_registered, JobMap, Job

\* A legal lifecycle move keeps the invariants of the job map, and touches no
\* job that is terminal.
LEMMA MovePreserves ==
    ASSUME JobsInv, NEW j \in JobIds, NEW next,
           job_fence_ok(j),
           transition_allowed(jobs, j, next),
           preparation_slot_free(jobs, j, next),
           SetState(j, next), epoch' = epoch
    PROVE  /\ JobsInv'
           /\ \A i \in JobIds : is_terminal(jobs[i].state) => jobs'[i] = jobs[i]
           /\ \A i \in JobIds : jobs'[i].epoch = jobs[i].epoch
           /\ \A i \in JobIds : is_registered(jobs, i) => is_registered(jobs', i)
           /\ jobs'[j].state = next
<1>0. /\ jobs' = WithState(jobs, j, next)
      /\ can_transition_to(jobs[j].state, next)
  BY DEF SetState, transition_allowed
<1>1. next \in JobState /\ jobs[j].state \in ActiveState
  BY <1>0, TransitionTable
<1>2. /\ jobs' \in JobMap
      /\ \A i \in JobIds \ {j} : jobs'[i] = jobs[i]
      /\ jobs'[j].state = next
      /\ jobs'[j].epoch = jobs[j].epoch
      /\ next = "RecoveryRequired" => jobs'[j].recovery
  BY <1>0, <1>1, WithStateFacts DEF JobsInv
<1>3. WithinLimits(jobs') /\ WritersExclude(jobs')
  BY <1>0, MoveKeeps DEF JobsInv
<1>4. jobs[j].epoch = epoch
  BY DEF job_fence_ok
<1>5. RecoveryIsReconcilable' /\ StaleEpochInert'
  BY <1>2, <1>4 DEF JobsInv, RecoveryIsReconcilable, StaleEpochInert, is_registered
<1>6. \A i \in JobIds : is_terminal(jobs[i].state) => jobs'[i] = jobs[i]
  BY <1>1, <1>2, StatesDisjoint DEF is_terminal
<1>7. \A i \in JobIds : is_registered(jobs, i) => is_registered(jobs', i)
  BY <1>1, <1>2, StatesDisjoint DEF is_registered
<1> QED
  BY <1>2, <1>3, <1>5, <1>6, <1>7 DEF JobsInv

\* What a step that moves no admission call keeps: the move leaves fences and
\* terminal jobs alone.
LEMMA AdmissionKept ==
    ASSUME AdmissionHoldsFence, FailedAdmissionIsTerminal,
           UNCHANGED <<admission, epoch>>,
           \A i \in JobIds : is_terminal(jobs[i].state) => jobs'[i] = jobs[i],
           \A i \in JobIds : jobs'[i].epoch = jobs[i].epoch,
           \A i \in JobIds : is_registered(jobs, i) => is_registered(jobs', i)
    PROVE  AdmissionHoldsFence' /\ FailedAdmissionIsTerminal'
BY DEF AdmissionHoldsFence, FailedAdmissionIsTerminal, job_fence_ok, is_registered

\* The initial states satisfy the inductive invariant.
LEMMA InitEstablishes == Init => IndInv
<1> SUFFICES ASSUME Init PROVE IndInv
  OBVIOUS
<1> USE DEF Init
<1>1. AnyJob \in JobIds
  BY JobModelAssumption DEF AnyJob
<1>2. TypeOK
  BY <1>1, JobRegistryAssumption
  DEF TypeOK, NoJob, Job, JobState, ActiveState, AdmissionStep, Canceller,
      IdleCanceller, Waiter, IdleWaiter, WaitCondition
<1>3. Active(jobs) = {} /\ Preparations(jobs) = {}
  BY DEF Active, Preparations, NoJob, ActiveState
<1>4. LimitsHold /\ OneLiveWriter
  BY <1>3, FS_EmptySet, JobModelAssumption
  DEF LimitsHold, OneLiveWriter, active_count, preparation_count
<1>5. RecoveryIsReconcilable /\ StaleEpochInert
  BY DEF RecoveryIsReconcilable, StaleEpochInert, NoJob, is_registered
<1>6. AdmissionHoldsFence /\ FailedAdmissionIsTerminal
  BY DEF AdmissionHoldsFence, FailedAdmissionIsTerminal
<1>7. NoLostWakeup
  BY DEF NoLostWakeup, IdleWaiter
<1> QED
  BY <1>2, <1>4, <1>5, <1>6, <1>7 DEF IndInv

\* Every step keeps the inductive invariant.
LEMMA NextPreserves == IndInv /\ [Next]_vars => IndInv'
<1> SUFFICES ASSUME IndInv, [Next]_vars PROVE IndInv'
  OBVIOUS
<1>0. /\ TypeOK /\ JobsInv
      /\ AdmissionHoldsFence /\ FailedAdmissionIsTerminal /\ NoLostWakeup
  BY JobsInvMeaning DEF IndInv, JobsInv, TypeOK, JobMap
<1> DEFINE Kept == /\ epoch' \in 0 .. MaxEpoch
                   /\ JobsInv'
                   /\ admission' \in [JobIds -> AdmissionStep]
                   /\ canceller' \in [Cancellers -> Canceller]
                   /\ waiter' \in [Waiters -> Waiter]
                   /\ AdmissionHoldsFence'
                   /\ FailedAdmissionIsTerminal'
                   /\ NoLostWakeup'
<1>a. SUFFICES Kept
  <2>1. (LimitsHold <=> WithinLimits(jobs))' /\ (OneLiveWriter <=> WritersExclude(jobs))'
    BY DEF LimitsHold, WithinLimits, OneLiveWriter, WritersExclude
  <2> QED
    BY <2>1 DEF IndInv, JobsInv, TypeOK, JobMap
<1>b. AnyJob \in JobIds
  BY JobModelAssumption DEF AnyJob
<1>c. IdleCanceller \in Canceller /\ IdleWaiter \in Waiter
  BY <1>b DEF IdleCanceller, Canceller, IdleWaiter, Waiter, WaitCondition,
     JobState, ActiveState
<1>d. /\ epoch \in Nat /\ epoch \in 0 .. MaxEpoch
      /\ jobs \in JobMap
      /\ admission \in [JobIds -> AdmissionStep]
      /\ canceller \in [Cancellers -> Canceller]
      /\ waiter \in [Waiters -> Waiter]
  BY <1>0, JobRegistryAssumption DEF TypeOK, JobMap
<1>1. ASSUME NEW j \in JobIds, NEW running \in BOOLEAN, register(j, running)
      PROVE  Kept
  <2>1. /\ jobs' = Registered(jobs, j, epoch)
        /\ ~is_registered(jobs, j) /\ register_allowed(jobs, j)
        /\ publish(j) /\ UNCHANGED <<epoch, canceller>>
        /\ admission' = [admission EXCEPT ![j] =
                            IF running THEN "to_starting" ELSE "none"]
    BY <1>1 DEF register
  <2>2. jobs' \in JobMap /\ WithinLimits(jobs') /\ WritersExclude(jobs')
    BY <2>1, <1>0, <1>d, RegisterKeeps DEF JobsInv
  <2>3. /\ \A i \in JobIds \ {j} : jobs'[i] = jobs[i]
        /\ jobs'[j].state = "Queued" /\ jobs'[j].epoch = epoch
    BY <2>1, <1>d DEF Registered, JobMap, Job
  <2>4. RecoveryIsReconcilable' /\ StaleEpochInert'
    BY <2>1, <2>3, <1>0
    DEF JobsInv, RecoveryIsReconcilable, StaleEpochInert, is_registered
  <2>5. waiter' \in [Waiters -> Waiter] /\ NoLostWakeup'
    BY <2>1, <1>d, PublishWakes
  <2>6. admission' \in [JobIds -> AdmissionStep]
    BY <2>1, <1>d DEF AdmissionStep
  <2>7. AdmissionHoldsFence' /\ FailedAdmissionIsTerminal'
    BY <2>1, <2>3, <1>0, <1>d
    DEF AdmissionHoldsFence, FailedAdmissionIsTerminal, job_fence_ok, is_registered
  <2> QED
    BY <2>1, <2>2, <2>4, <2>5, <2>6, <2>7, <1>d DEF JobsInv
<1>2. ASSUME NEW j \in JobIds, NEW s,
             job_fence_ok(j), transition_allowed(jobs, j, s),
             preparation_slot_free(jobs, j, s), SetState(j, s),
             UNCHANGED <<epoch, admission>>,
             canceller' \in [Cancellers -> Canceller]
      PROVE  Kept
  <2>1. /\ JobsInv'
        /\ \A i \in JobIds : is_terminal(jobs[i].state) => jobs'[i] = jobs[i]
        /\ \A i \in JobIds : jobs'[i].epoch = jobs[i].epoch
        /\ \A i \in JobIds : is_registered(jobs, i) => is_registered(jobs', i)
    BY <1>0, <1>2, MovePreserves
  <2>2. waiter' \in [Waiters -> Waiter] /\ NoLostWakeup'
    BY <1>2, <1>d, PublishWakes DEF SetState
  <2>3. AdmissionHoldsFence' /\ FailedAdmissionIsTerminal'
    BY <2>1, <1>0, <1>2, AdmissionKept
  <2> QED
    BY <2>1, <2>2, <2>3, <1>2, <1>d
<1>3. ASSUME NEW j \in JobIds, NEW s \in JobState, transition(j, s) PROVE Kept
  BY <1>2, <1>3, <1>d DEF transition, transition_ok
<1>4. ASSUME NEW j \in JobIds, NEW s \in JobCompletion, seal(j, s) PROVE Kept
  <2>1. preparation_slot_free(jobs, j, s)
    BY DEF preparation_slot_free, JobCompletion, TerminalState
  <2> QED
    BY <1>2, <1>4, <1>d, <2>1 DEF seal, seal_ok
<1>5. ASSUME NEW j \in JobIds, append_output(j) PROVE Kept
  <2>1. /\ UNCHANGED <<epoch, jobs, admission, canceller>> /\ publish(j)
    BY <1>5 DEF append_output
  <2>2. waiter' \in [Waiters -> Waiter] /\ NoLostWakeup'
    BY <2>1, <1>d, PublishWakes
  <2>3. JobsInv' /\ AdmissionHoldsFence' /\ FailedAdmissionIsTerminal'
    BY <2>1, <1>0
    DEF JobsInv, AdmissionHoldsFence, FailedAdmissionIsTerminal,
        RecoveryIsReconcilable, StaleEpochInert, job_fence_ok
  <2> QED
    BY <2>1, <2>2, <2>3, <1>d
<1>6. ASSUME NEW j \in JobIds, reconcile_recovery(j) PROVE Kept
  <2>1. transition_allowed(jobs, j, "Failed") /\ preparation_slot_free(jobs, j, "Failed")
    BY <1>6, EveryActiveStateCanFail
    DEF reconcile_recovery, transition_allowed, preparation_slot_free, ActiveState
  <2> QED
    BY <1>2, <1>6, <1>d, <2>1 DEF reconcile_recovery
<1>7. ASSUME NEW j \in JobIds, register_running_transition(j) PROVE Kept
  <2> DEFINE step == AdmissionNext(j)
  <2>0. /\ admission[j] \in {"to_starting", "to_running"}
        /\ UNCHANGED <<epoch, canceller>>
        /\ \/ /\ transition_ok(j, step.expected, step.next)
              /\ SetState(j, step.next)
              /\ admission' = [admission EXCEPT ![j] = step.done]
           \/ /\ ~transition_ok(j, step.expected, step.next)
              /\ admission' = [admission EXCEPT ![j] = "failing"]
              /\ UNCHANGED <<jobs, waiter>>
    BY <1>7 DEF register_running_transition
  <2>1. step.done \in {"to_running", "none"}
    BY DEF AdmissionNext
  <2>2. CASE /\ transition_ok(j, step.expected, step.next)
             /\ SetState(j, step.next)
             /\ admission' = [admission EXCEPT ![j] = step.done]
    <3>1. /\ JobsInv'
          /\ \A i \in JobIds : is_terminal(jobs[i].state) => jobs'[i] = jobs[i]
          /\ \A i \in JobIds : jobs'[i].epoch = jobs[i].epoch
          /\ \A i \in JobIds : is_registered(jobs, i) => is_registered(jobs', i)
      BY <2>0, <2>2, <1>0, MovePreserves DEF transition_ok
    <3>2. waiter' \in [Waiters -> Waiter] /\ NoLostWakeup'
      BY <2>2, <1>d, PublishWakes DEF SetState
    <3>3. admission' \in [JobIds -> AdmissionStep]
      BY <2>1, <2>2, <1>d DEF AdmissionStep
    <3>4. AdmissionHoldsFence' /\ FailedAdmissionIsTerminal'
      BY <2>0, <2>1, <2>2, <3>1, <1>0, <1>d
      DEF AdmissionHoldsFence, FailedAdmissionIsTerminal, job_fence_ok, is_registered
    <3> QED
      BY <2>0, <3>1, <3>2, <3>3, <3>4, <1>d
  <2>3. CASE /\ admission' = [admission EXCEPT ![j] = "failing"]
             /\ UNCHANGED <<jobs, waiter>>
    <3>1. JobsInv' /\ NoLostWakeup'
      BY <2>0, <2>3, <1>0
      DEF JobsInv, NoLostWakeup, Ready, RecoveryIsReconcilable, StaleEpochInert
    <3>2. admission' \in [JobIds -> AdmissionStep]
      BY <2>3, <1>d DEF AdmissionStep
    <3>3. AdmissionHoldsFence' /\ FailedAdmissionIsTerminal'
      BY <2>0, <2>3, <1>0, <1>d
      DEF AdmissionHoldsFence, FailedAdmissionIsTerminal, job_fence_ok
    <3> QED
      BY <2>0, <2>3, <3>1, <3>2, <3>3, <1>d
  <2> QED
    BY <2>0, <2>2, <2>3
<1>8. ASSUME NEW j \in JobIds, register_running_seal(j) PROVE Kept
  <2>0. /\ admission[j] = "failing"
        /\ admission' = [admission EXCEPT ![j] = "error"]
        /\ UNCHANGED <<epoch, canceller>>
        /\ \/ seal_ok(j, "Failed") /\ SetState(j, "Failed")
           \/ ~seal_ok(j, "Failed") /\ UNCHANGED <<jobs, waiter>>
    BY <1>8 DEF register_running_seal
  <2>1. admission' \in [JobIds -> AdmissionStep]
    BY <2>0, <1>d DEF AdmissionStep
  <2>2. job_fence_ok(j)
    BY <2>0, <1>0 DEF AdmissionHoldsFence
  <2>3. CASE seal_ok(j, "Failed") /\ SetState(j, "Failed")
    <3>1. preparation_slot_free(jobs, j, "Failed")
      BY DEF preparation_slot_free
    <3>2. /\ JobsInv'
          /\ \A i \in JobIds : is_terminal(jobs[i].state) => jobs'[i] = jobs[i]
          /\ \A i \in JobIds : jobs'[i].epoch = jobs[i].epoch
          /\ \A i \in JobIds : is_registered(jobs, i) => is_registered(jobs', i)
          /\ jobs'[j].state = "Failed"
      BY <2>0, <2>3, <3>1, <1>0, MovePreserves DEF seal_ok
    <3>3. waiter' \in [Waiters -> Waiter] /\ NoLostWakeup'
      BY <2>3, <1>d, PublishWakes DEF SetState
    <3>4. AdmissionHoldsFence' /\ FailedAdmissionIsTerminal'
      BY <2>0, <2>2, <3>2, <1>0, <1>d
      DEF AdmissionHoldsFence, FailedAdmissionIsTerminal, job_fence_ok,
          is_registered, is_terminal, TerminalState
    <3> QED
      BY <2>0, <2>1, <3>2, <3>3, <3>4, <1>d
  <2>4. CASE ~seal_ok(j, "Failed") /\ UNCHANGED <<jobs, waiter>>
    <3>1. is_terminal(jobs[j].state)
      <4> SUFFICES ASSUME ~is_terminal(jobs[j].state) PROVE FALSE
        OBVIOUS
      <4>1. jobs[j].state \in ActiveState
        BY <2>2, <1>d, FencedIsActive
      <4>2. transition_allowed(jobs, j, "Failed")
        BY <4>1, EveryActiveStateCanFail DEF transition_allowed
      <4> QED
        BY <2>2, <2>4, <4>2 DEF seal_ok
    <3>2. JobsInv' /\ NoLostWakeup'
      BY <2>0, <2>4, <1>0
      DEF JobsInv, NoLostWakeup, Ready, RecoveryIsReconcilable, StaleEpochInert
    <3>3. AdmissionHoldsFence' /\ FailedAdmissionIsTerminal'
      BY <2>0, <2>2, <2>4, <3>1, <1>0, <1>d
      DEF AdmissionHoldsFence, FailedAdmissionIsTerminal, job_fence_ok
    <3> QED
      BY <2>0, <2>1, <2>4, <3>2, <3>3, <1>d
  <2> QED
    BY <2>0, <2>3, <2>4
<1>9. ASSUME NEW c \in Cancellers, NEW j \in JobIds, request_cancel_status(c, j)
      PROVE  Kept
  <2>1. /\ UNCHANGED <<epoch, jobs, admission, waiter>>
        /\ canceller' = [canceller EXCEPT ![c] =
               [pc |-> "observed", job |-> j, state |-> jobs[j].state]]
        /\ jobs[j].state \in JobState
    BY <1>9 DEF request_cancel_status, JobState, ActiveState
  <2>2. canceller' \in [Cancellers -> Canceller]
    BY <2>1, <1>d DEF Canceller
  <2>3. /\ JobsInv' /\ NoLostWakeup'
        /\ AdmissionHoldsFence' /\ FailedAdmissionIsTerminal'
    BY <2>1, <1>0
    DEF JobsInv, NoLostWakeup, Ready, RecoveryIsReconcilable, StaleEpochInert,
        AdmissionHoldsFence, FailedAdmissionIsTerminal, job_fence_ok
  <2> QED
    BY <2>1, <2>2, <2>3, <1>d
<1>10. ASSUME NEW c \in Cancellers, request_cancel_transition(c) PROVE Kept
  <2> DEFINE j == canceller[c].job
             target == CancelTarget(canceller[c].state)
  <2>0. /\ UNCHANGED <<epoch, admission>>
        /\ canceller' = [canceller EXCEPT ![c] = IdleCanceller]
        /\ j \in JobIds
        /\ \/ transition_ok(j, canceller[c].state, target) /\ SetState(j, target)
           \/ UNCHANGED <<jobs, waiter>>
    BY <1>10, <1>d DEF request_cancel_transition, Canceller
  <2>1. canceller' \in [Cancellers -> Canceller]
    BY <2>0, <1>c, <1>d
  <2>2. CASE transition_ok(j, canceller[c].state, target) /\ SetState(j, target)
    BY <2>0, <2>1, <2>2, <1>2 DEF transition_ok
  <2>3. CASE UNCHANGED <<jobs, waiter>>
    <3>1. /\ JobsInv' /\ NoLostWakeup'
          /\ AdmissionHoldsFence' /\ FailedAdmissionIsTerminal'
      BY <2>0, <2>3, <1>0
      DEF JobsInv, NoLostWakeup, Ready, RecoveryIsReconcilable, StaleEpochInert,
          AdmissionHoldsFence, FailedAdmissionIsTerminal, job_fence_ok
    <3> QED
      BY <2>0, <2>1, <2>3, <3>1, <1>d
  <2> QED
    BY <2>0, <2>2, <2>3
<1>11. ASSUME NEW w \in Waiters, UNCHANGED <<epoch, jobs, admission, canceller>>,
              waiter' \in [Waiters -> Waiter], NoLostWakeup'
       PROVE  Kept
  <2>1. JobsInv' /\ AdmissionHoldsFence' /\ FailedAdmissionIsTerminal'
    BY <1>11, <1>0
    DEF JobsInv, RecoveryIsReconcilable, StaleEpochInert,
        AdmissionHoldsFence, FailedAdmissionIsTerminal, job_fence_ok
  <2> QED
    BY <1>11, <2>1, <1>d
<1>12. ASSUME NEW w \in Waiters, NEW j \in JobIds, NEW condition \in WaitCondition,
              NEW deadline \in BOOLEAN, NEW newer \in BOOLEAN,
              wait_subscribe(w, j, condition, deadline, newer)
       PROVE  Kept
  <2>1. /\ UNCHANGED <<epoch, jobs, admission, canceller>>
        /\ waiter' = [waiter EXCEPT ![w] =
              [pc |-> "check", job |-> j, condition |-> condition,
               deadline |-> deadline, unseen |-> FALSE, newer |-> newer]]
    BY <1>12 DEF wait_subscribe
  <2>2. waiter' \in [Waiters -> Waiter]
    BY <2>1, <1>d DEF Waiter
  <2>3. NoLostWakeup'
    BY <2>1, <1>0, <1>d DEF NoLostWakeup, Ready
  <2> QED
    BY <2>1, <2>2, <2>3, <1>11
<1>13. ASSUME NEW w \in Waiters, WaitStep(w) PROVE Kept
  <2>0. UNCHANGED <<epoch, jobs, admission, canceller>>
    BY <1>13 DEF WaitStep, wait_status, wait_changed, wait_deadline
  <2>1. \/ waiter' = [waiter EXCEPT ![w] = IdleWaiter]
        \/ /\ ~Ready(w)
           /\ waiter' = [waiter EXCEPT ![w].pc = "parked"]
        \/ waiter' = [waiter EXCEPT ![w].pc = "check", ![w].unseen = FALSE]
    BY <1>13 DEF WaitStep, wait_status, wait_changed, wait_deadline
  <2>2. waiter' \in [Waiters -> Waiter]
    BY <2>1, <1>c, <1>d DEF Waiter
  <2>3. NoLostWakeup'
    BY <2>0, <2>1, <1>0, <1>d DEF NoLostWakeup, Ready, IdleWaiter, Waiter
  <2> QED
    BY <2>0, <2>2, <2>3, <1>11
<1>14. ASSUME NEW e \in 0 .. MaxEpoch, restore(e) PROVE Kept
  <2>0. /\ epoch' = e /\ e \in Nat
        /\ jobs' = Restored(jobs, e)
        /\ admission' = [j \in JobIds |-> "none"]
        /\ canceller' = [c \in Cancellers |-> IdleCanceller]
        /\ waiter' = [w \in Waiters |-> IdleWaiter]
    BY <1>14, JobRegistryAssumption DEF restore
  <2>1. /\ jobs' \in JobMap /\ WithinLimits(jobs') /\ WritersExclude(jobs')
        /\ \A j \in JobIds :
              jobs'[j].state \in ActiveState =>
                 /\ jobs'[j].state = "RecoveryRequired"
                 /\ jobs'[j].epoch = e
                 /\ jobs'[j].recovery
    BY <2>0, <1>0, <1>d, RestoreKeeps DEF JobsInv
  <2>2. RecoveryIsReconcilable'
    BY <2>0, <2>1 DEF RecoveryIsReconcilable, ActiveState
  <2>3. StaleEpochInert'
    BY <2>0, <2>1, StatesDisjoint DEF StaleEpochInert, is_registered, JobMap, Job
  <2>4. /\ admission' \in [JobIds -> AdmissionStep]
        /\ canceller' \in [Cancellers -> Canceller]
        /\ waiter' \in [Waiters -> Waiter]
    BY <2>0, <1>c DEF AdmissionStep
  <2>5. AdmissionHoldsFence' /\ FailedAdmissionIsTerminal' /\ NoLostWakeup'
    BY <2>0 DEF AdmissionHoldsFence, FailedAdmissionIsTerminal, NoLostWakeup, IdleWaiter
  <2> QED
    BY <2>0, <2>1, <2>2, <2>3, <2>4, <2>5, <1>14 DEF JobsInv
<1>15. CASE UNCHANGED vars
  <2>1. /\ JobsInv' /\ NoLostWakeup'
        /\ AdmissionHoldsFence' /\ FailedAdmissionIsTerminal'
    BY <1>15, <1>0
    DEF vars, JobsInv, NoLostWakeup, Ready, RecoveryIsReconcilable, StaleEpochInert,
        AdmissionHoldsFence, FailedAdmissionIsTerminal, job_fence_ok
  <2> QED
    BY <2>1, <1>15, <1>d DEF vars
<1> QED
  BY <1>1, <1>3, <1>4, <1>5, <1>6, <1>7, <1>8, <1>9, <1>10, <1>12, <1>13,
     <1>14, <1>15 DEF Next, RegisterRunning

\* The inductive invariant holds in every behaviour of the registry.
THEOREM RegistryInvariant == Spec => []IndInv
<1>1. Init => IndInv
  BY InitEstablishes
<1>2. IndInv /\ [Next]_vars => IndInv'
  BY NextPreserves
<1> QED
  BY <1>1, <1>2, PTL DEF Spec

\* The table of jobs and the tasks that use it keep their types.
THEOREM RegistryTypes == Spec => []TypeOK
<1>1. IndInv => TypeOK
  BY DEF IndInv
<1> QED
  BY <1>1, RegistryInvariant, PTL

\* However the locked steps of register_running, request_cancel, seal and
\* restart interleave, neither limit of the registry is ever exceeded.
THEOREM RegistryLimits == Spec => []LimitsHold
<1>1. IndInv => LimitsHold
  BY DEF IndInv
<1> QED
  BY <1>1, RegistryInvariant, PTL

\* Two active live writers are always processes of a local workspace.
THEOREM RegistryOneLiveWriter == Spec => []OneLiveWriter
<1>1. IndInv => OneLiveWriter
  BY DEF IndInv
<1> QED
  BY <1>1, RegistryInvariant, PTL

\* A job that waits for recovery can always be resolved, also after restarts.
THEOREM RegistryRecoverable == Spec => []RecoveryIsReconcilable
<1>1. IndInv => RecoveryIsReconcilable
  BY DEF IndInv
<1> QED
  BY <1>1, RegistryInvariant, PTL

\* No job of an earlier epoch is alive.
THEOREM RegistryEpochFence == Spec => []StaleEpochInert
<1>1. IndInv => StaleEpochInert
  BY DEF IndInv
<1> QED
  BY <1>1, RegistryInvariant, PTL

\* A register_running call that returned an error left a terminal job behind,
\* whatever other callers did to the job between its locks.
THEOREM RegistryFailedAdmission == Spec => []FailedAdmissionIsTerminal
<1>1. IndInv => FailedAdmissionIsTerminal
  BY DEF IndInv
<1> QED
  BY <1>1, RegistryInvariant, PTL

\* A sleeping waiter whose condition holds has a wake-up on its way.
THEOREM RegistryWakeups == Spec => []NoLostWakeup
<1>1. IndInv => NoLostWakeup
  BY DEF IndInv
<1> QED
  BY <1>1, RegistryInvariant, PTL

\* A lifecycle move changes only its own job.
LEMMA MoveTouchesOne ==
    ASSUME jobs \in JobMap, NEW j \in JobIds, NEW next, ~is_terminal(jobs[j].state),
           SetState(j, next)
    PROVE  \A i \in JobIds : is_terminal(jobs[i].state) => jobs'[i] = jobs[i]
BY DEF SetState, WithState, JobMap

\* No caller of the registry, however stale what it knows, and no restart
\* changes a job that has ended.
THEOREM RegistryTerminalIsFinal == Spec => TerminalIsFinal
<1> DEFINE Final == \A j \in JobIds : is_terminal(jobs[j].state) => jobs'[j] = jobs[j]
<1>1. IndInv /\ [Next]_vars => [Final]_vars
  <2> SUFFICES ASSUME IndInv, Next PROVE Final
    OBVIOUS
  <2>0. jobs \in JobMap
    BY DEF IndInv, TypeOK, JobMap
  <2>1. ASSUME NEW j \in JobIds, NEW running \in BOOLEAN, register(j, running)
        PROVE  Final
    BY <2>0, <2>1, StatesDisjoint
    DEF register, Registered, is_registered, is_terminal, TerminalState, JobState, JobMap
  <2>2. ASSUME NEW j \in JobIds, NEW s \in JobState, transition(j, s) PROVE Final
    BY <2>0, <2>2, MoveTouchesOne DEF transition, transition_ok
  <2>3. ASSUME NEW j \in JobIds, NEW s \in JobCompletion, seal(j, s) PROVE Final
    BY <2>0, <2>3, MoveTouchesOne DEF seal, seal_ok
  <2>4. ASSUME NEW j \in JobIds, reconcile_recovery(j) PROVE Final
    <3>1. ~is_terminal(jobs[j].state)
      BY <2>4 DEF reconcile_recovery, is_terminal, TerminalState
    <3> QED
      BY <2>0, <2>4, <3>1, MoveTouchesOne DEF reconcile_recovery
  <2>5. ASSUME NEW j \in JobIds, RegisterRunning(j) PROVE Final
    <3>1. CASE register_running_transition(j)
      BY <2>0, <3>1, MoveTouchesOne DEF register_running_transition, transition_ok
    <3>2. CASE register_running_seal(j)
      BY <2>0, <3>2, MoveTouchesOne DEF register_running_seal, seal_ok
    <3> QED
      BY <2>5, <3>1, <3>2 DEF RegisterRunning
  <2>6. ASSUME NEW c \in Cancellers, request_cancel_transition(c) PROVE Final
    <3>1. canceller[c].job \in JobIds
      BY DEF IndInv, TypeOK, Canceller
    <3> QED
      BY <2>0, <2>6, <3>1, MoveTouchesOne DEF request_cancel_transition, transition_ok
  <2>7. ASSUME NEW e \in 0 .. MaxEpoch, restore(e) PROVE Final
    <3> SUFFICES ASSUME NEW j \in JobIds, is_terminal(jobs[j].state)
                 PROVE  jobs'[j] = jobs[j]
      OBVIOUS
    <3>1. restored_state(jobs[j], j, e) = jobs[j].state
      BY StatesDisjoint DEF restored_state, is_terminal
    <3>2. jobs[j].state # "RecoveryRequired" /\ jobs[j] \in Job
      BY <2>0 DEF is_terminal, TerminalState, JobMap
    <3>3. jobs'[j] = [jobs[j] EXCEPT !.state = jobs[j].state,
                                     !.recovery = @ \/ jobs[j].state = "RecoveryRequired"]
      BY <2>7, <3>1 DEF restore, Restored
    <3>4. jobs'[j] = [jobs[j] EXCEPT !.state = jobs[j].state, !.recovery = jobs[j].recovery]
      BY <3>2, <3>3 DEF Job
    <3> QED
      BY <3>2, <3>4 DEF Job
  <2>8. CASE UNCHANGED jobs
    BY <2>8
  <2> QED
    BY <2>1, <2>2, <2>3, <2>4, <2>5, <2>6, <2>7, <2>8
    DEF Next, append_output, request_cancel_status, wait_subscribe, WaitStep,
        wait_status, wait_changed, wait_deadline
<1> QED
  BY <1>1, RegistryInvariant, PTL DEF Spec, TerminalIsFinal

\* A cancellation decided on a stale reading never takes a job that has begun
\* to run straight to Cancelled.
THEOREM RegistryCancelHandshake == Spec => CancelHandshake
<1> DEFINE Asks == \A c \in Cancellers :
                      LET j == canceller[c].job IN
                      request_cancel_transition(c) /\ jobs[j].state \in {"Starting", "Running"}
                      => jobs'[j].state \in {jobs[j].state, "CancelRequested"}
<1>1. IndInv => Asks
  <2> SUFFICES ASSUME IndInv, NEW c \in Cancellers, request_cancel_transition(c),
                      NEW j \in JobIds, j = canceller[c].job,
                      jobs[j].state \in {"Starting", "Running"}
               PROVE  jobs'[j].state \in {jobs[j].state, "CancelRequested"}
    BY DEF IndInv, TypeOK, Canceller
  <2>1. jobs \in JobMap
    BY DEF IndInv, TypeOK, JobMap
  <2>2. CASE UNCHANGED jobs
    BY <2>2
  <2>3. CASE /\ transition_ok(j, canceller[c].state, CancelTarget(canceller[c].state))
             /\ SetState(j, CancelTarget(canceller[c].state))
    <3>1. CancelTarget(canceller[c].state) = "CancelRequested"
      BY <2>3 DEF transition_ok, CancelTarget
    <3> QED
      BY <2>1, <2>3, <3>1 DEF SetState, WithState, JobMap, Job
  <2> QED
    BY <2>2, <2>3 DEF request_cancel_transition
<1> QED
  BY <1>1, RegistryInvariant, PTL DEF CancelHandshake
=============================================================================
