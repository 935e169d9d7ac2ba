---------------------- MODULE InMemoryControllerProofs ----------------------
(***************************************************************************)
(* The safety of InMemoryController for every set of operations and jobs,  *)
(* and the proof that it implements WorkspaceContract.                     *)
(***************************************************************************)
EXTENDS InMemoryController, JobModelProofs

\* The part of the invariant that is about the registry.
JobsInv ==
    /\ jobs \in JobMap
    /\ WithinLimits(jobs)
    /\ WritersExclude(jobs)
    /\ \A j \in Active(jobs) : jobs[j].epoch = epoch

\* The inductive invariant: an open fence must be unresolved for reconcile to
\* find it, the holder of the permit must be the active operation for settle
\* to be accepted, and the job list must be current for both.
IndInv ==
    /\ TypeOK
    /\ OnePermit
    /\ FenceNamesUnresolved
    /\ NoForeignWriterRuns
    /\ StatusTracksJobs
    /\ RegistrySound

\* RegistrySound says of the registry what the lemmas of JobModelProofs use.
LEMMA JobsInvMeaning ==
    /\ RegistrySound /\ TypeOK => JobsInv
    /\ JobsInv => RegistrySound
BY DEF RegistrySound, JobsInv, WithinLimits, WritersExclude, TypeOK, JobMap

\* What register_running leaves in the registry when the slot is free, and
\* what it leaves when the slot is taken.
LEMMA AdmissionKeeps ==
    ASSUME NEW js \in JobMap, NEW j \in JobIds, NEW e \in Nat,
           ~is_registered(js, j), register_allowed(js, j),
           WithinLimits(js), WritersExclude(js),
           NEW after,
           \/ /\ preparation_slot_free(Registered(js, j, e), j, "Starting")
              /\ after = WithState(WithState(Registered(js, j, e), j, "Starting"), j, "Running")
           \/ after = WithState(Registered(js, j, e), j, "Failed")
    PROVE  /\ after \in JobMap
           /\ WithinLimits(after) /\ WritersExclude(after)
           /\ \A i \in JobIds \ {j} : after[i] = js[i]
           /\ after[j].epoch = e
           /\ after[j].state \in {"Running", "Failed"}
           /\ after = WithState(Registered(js, j, e), j, "Failed") =>
                 after[j].state = "Failed"
<1> DEFINE queued == Registered(js, j, e)
<1>1. /\ queued \in JobMap /\ WithinLimits(queued) /\ WritersExclude(queued)
  BY RegisterKeeps
<1>2. /\ \A i \in JobIds \ {j} : queued[i] = js[i]
      /\ queued[j].state = "Queued" /\ queued[j].epoch = e
  BY DEF Registered, JobMap
<1> HIDE DEF queued
<1>3. /\ can_transition_to("Queued", "Starting")
      /\ can_transition_to("Queued", "Failed")
      /\ can_transition_to("Starting", "Running")
      /\ {"Starting", "Running", "Failed"} \subseteq JobState
  BY DEF can_transition_to, JobState, ActiveState, TerminalState
<1>4. CASE after = WithState(queued, j, "Failed")
  <2>1. preparation_slot_free(queued, j, "Failed")
    BY DEF preparation_slot_free
  <2>2. WithinLimits(after) /\ WritersExclude(after)
    BY <1>1, <1>2, <1>3, <1>4, <2>1, MoveKeeps
  <2>3. /\ after \in JobMap
        /\ \A i \in JobIds \ {j} : after[i] = queued[i]
        /\ after[j].state = "Failed" /\ after[j].epoch = queued[j].epoch
    <3>1. "Failed" \in JobState
      BY <1>3
    <3>2. /\ WithState(queued, j, "Failed") \in JobMap
          /\ \A i \in JobIds \ {j} : WithState(queued, j, "Failed")[i] = queued[i]
          /\ WithState(queued, j, "Failed")[j].state = "Failed"
          /\ WithState(queued, j, "Failed")[j].epoch = queued[j].epoch
      BY <1>1, <3>1, WithStateFacts
    <3> QED
      BY <1>4, <3>2
  <2> QED
    BY <1>2, <2>2, <2>3
<1>5. CASE /\ preparation_slot_free(queued, j, "Starting")
           /\ after = WithState(WithState(queued, j, "Starting"), j, "Running")
           /\ after # WithState(queued, j, "Failed")
  <2> DEFINE starting == WithState(queued, j, "Starting")
  <2>1. WithinLimits(starting) /\ WritersExclude(starting)
    BY <1>1, <1>2, <1>3, <1>5, MoveKeeps
  <2>2. /\ starting \in JobMap
        /\ \A i \in JobIds \ {j} : starting[i] = queued[i]
        /\ starting[j].state = "Starting" /\ starting[j].epoch = queued[j].epoch
    BY <1>1, <1>3, WithStateFacts
  <2>3. after = WithState(starting, j, "Running")
    BY <1>5
  <2> HIDE DEF starting
  <2>4. preparation_slot_free(starting, j, "Running")
    BY DEF preparation_slot_free
  <2>5. WithinLimits(after) /\ WritersExclude(after)
    BY <1>3, <2>1, <2>2, <2>3, <2>4, MoveKeeps
  <2>6. /\ after \in JobMap
        /\ \A i \in JobIds \ {j} : after[i] = starting[i]
        /\ after[j].state = "Running" /\ after[j].epoch = starting[j].epoch
    <3>1. "Running" \in JobState
      BY <1>3
    <3>2. /\ WithState(starting, j, "Running") \in JobMap
          /\ \A i \in JobIds \ {j} : WithState(starting, j, "Running")[i] = starting[i]
          /\ WithState(starting, j, "Running")[j].state = "Running"
          /\ WithState(starting, j, "Running")[j].epoch = starting[j].epoch
      BY <2>2, <3>1, WithStateFacts
    <3> QED
      BY <2>3, <3>2
  <2> QED
    BY <1>2, <1>5, <2>2, <2>5, <2>6 DEF queued
<1> QED
  BY <1>4, <1>5 DEF queued

\* A legal move of one job keeps the registry's part of the invariant, and
\* keeps a foreign writer that has stopped out of execution.
LEMMA MovePreserves ==
    ASSUME JobsInv, NoForeignWriterRuns, NEW j \in JobIds, NEW next,
           transition_allowed(jobs, j, next), next # "Starting",
           jobs' = WithState(jobs, j, next), UNCHANGED <<epoch, active>>
    PROVE  JobsInv' /\ NoForeignWriterRuns'
<1>1. can_transition_to(jobs[j].state, next)
  BY DEF transition_allowed
<1>2. next \in JobState /\ jobs[j].state \in ActiveState
  BY <1>1, TransitionTable
<1>3. /\ jobs' \in JobMap
      /\ \A i \in JobIds \ {j} : jobs'[i] = jobs[i]
      /\ jobs'[j].state = next
      /\ jobs'[j].epoch = jobs[j].epoch
  BY <1>2, WithStateFacts DEF JobsInv
<1>4. preparation_slot_free(jobs, j, next)
  BY DEF preparation_slot_free
<1>5. WithinLimits(jobs') /\ WritersExclude(jobs')
  BY <1>1, <1>4, MoveKeeps DEF JobsInv
<1>6. Active(jobs') \subseteq Active(jobs)
  BY <1>2, <1>3 DEF Active
<1>7. \A i \in Active(jobs') : jobs'[i].epoch = epoch'
  BY <1>3, <1>6 DEF JobsInv, Active
<1>8. NoForeignWriterRuns'
  <2>1. jobs[j].state \in {"DurabilityPending", "Settling", "RecoveryRequired"}
        /\ next \in ActiveState
        => next \in {"DurabilityPending", "Settling", "RecoveryRequired"}
    BY <1>1 DEF can_transition_to, ActiveState
  <2>2. LiveWriterJobs' \subseteq LiveWriterJobs
    BY <1>6 DEF LiveWriterJobs
  <2>3. SUFFICES ASSUME active # NoOp, NEW i \in LiveWriterJobs'
                 PROVE  \/ ParentOf[i] = active
                        \/ /\ active \in Reconciling
                           /\ jobs'[i].state \in
                                {"DurabilityPending", "Settling", "RecoveryRequired"}
    BY DEF NoForeignWriterRuns
  <2>4. \/ ParentOf[i] = active
        \/ /\ active \in Reconciling
           /\ jobs[i].state \in {"DurabilityPending", "Settling", "RecoveryRequired"}
    BY <2>2, <2>3 DEF NoForeignWriterRuns
  <2>5. i \in JobIds /\ jobs'[i].state \in ActiveState
    BY <2>3 DEF LiveWriterJobs, Active
  <2> QED
    BY <1>3, <2>1, <2>4, <2>5
<1> QED
  BY <1>3, <1>5, <1>7, <1>8 DEF JobsInv

\* Every record has an identifier, and none of them is the missing one.
LEMMA RecordNames ==
    /\ \A o \in Ops : <<"operation", o>> \in RecoveryIds
    /\ \A j \in JobIds : <<"job", j>> \in RecoveryIds
    /\ \A s \in Seeds : <<"seed", s>> \in RecoveryIds
    /\ NoRecovery \notin RecoveryIds
BY NoRecoveryAssumption DEF RecoveryIds

\* A new record is a fence that reconcile can find.
LEMMA FenceRaised ==
    ASSUME NEW r \in RecoveryIds, TypeOK, RequireRecovery(r)
    PROVE  /\ recovery_id' \in RecoveryIds
           /\ recoveries' \in [RecoveryIds -> {"none", "unresolved", "resolved"}]
           /\ recoveries'[recovery_id'] = "unresolved"
           /\ state' = "RecoveryRequired"
BY DEF RequireRecovery, TypeOK

\* The initial state satisfies the inductive invariant.
LEMMA InitEstablishes == Init => IndInv
<1> SUFFICES ASSUME Init PROVE IndInv
  OBVIOUS
<1> USE DEF Init
<1>1. TypeOK
  BY InMemoryAssumption DEF TypeOK, NoJob, Job, JobState
<1>2. Active(jobs) = {} /\ Preparations(jobs) = {}
  BY DEF Active, Preparations, NoJob, ActiveState
<1>3. RegistrySound
  BY <1>2, FS_EmptySet, JobModelAssumption
  DEF RegistrySound, active_count, preparation_count
<1>4. OnePermit /\ FenceNamesUnresolved /\ NoForeignWriterRuns /\ StatusTracksJobs
  BY <1>2, InMemoryAssumption
  DEF OnePermit, FenceNamesUnresolved, NoForeignWriterRuns, StatusTracksJobs
<1> QED
  BY <1>1, <1>3, <1>4 DEF IndInv

\* Every step keeps the inductive invariant.
LEMMA NextPreserves == IndInv /\ [Next]_vars => IndInv'
<1> SUFFICES ASSUME IndInv, [Next]_vars PROVE IndInv'
  OBVIOUS
<1>0. /\ TypeOK /\ OnePermit /\ FenceNamesUnresolved /\ NoForeignWriterRuns
      /\ StatusTracksJobs /\ JobsInv
  BY JobsInvMeaning DEF IndInv
<1> DEFINE Scalars == /\ epoch' \in 0 .. MaxEpoch
                      /\ state' \in {"Ready", "Mutating", "RecoveryRequired"}
                      /\ recovery_id' \in RecoveryIds \cup {NoRecovery}
                      /\ active' \in Ops \cup {NoOp}
                      /\ permit' \in [Ops -> {"unissued", "held", "settled", "gone"}]
                      /\ recoveries' \in [RecoveryIds -> {"none", "unresolved", "resolved"}]
                      /\ OnePermit'
                      /\ FenceNamesUnresolved'
           Registry == NoForeignWriterRuns' /\ StatusTracksJobs' /\ JobsInv'
<1>a. SUFFICES Scalars /\ Registry
  <2>1. jobs' \in [JobIds -> Job] /\ active_jobs' \in SUBSET JobIds
    BY DEF JobsInv, JobMap, StatusTracksJobs, Active
  <2>2. RegistrySound'
    BY DEF JobsInv, RegistrySound, WithinLimits, WritersExclude
  <2> QED
    BY <2>1, <2>2 DEF IndInv, TypeOK
<1>b. UNCHANGED <<epoch, jobs, active_jobs>> /\ active' = active => Registry
  BY <1>0 DEF NoForeignWriterRuns, StatusTracksJobs, JobsInv, LiveWriterJobs, Active,
     WithinLimits, WritersExclude, active_count, preparation_count, Preparations
<1>c. UNCHANGED <<epoch, jobs, active_jobs>> /\ active' = NoOp => Registry
  BY <1>0 DEF NoForeignWriterRuns, StatusTracksJobs, JobsInv, LiveWriterJobs, Active,
     WithinLimits, WritersExclude, active_count, preparation_count, Preparations
<1>d. epoch \in Nat
  BY <1>0, InMemoryAssumption DEF TypeOK
<1>1. ASSUME NEW o \in Ops, begin(o) PROVE Scalars /\ Registry
  <2>1. Scalars
    BY <1>0, <1>1, InMemoryAssumption
    DEF begin, admits_mutation, TypeOK, OnePermit, FenceNamesUnresolved
  <2>2. NoForeignWriterRuns'
    BY <1>0, <1>1 DEF begin, NoForeignWriterRuns, LiveWriterJobs, Active
  <2>3. StatusTracksJobs' /\ JobsInv'
    BY <1>0, <1>1 DEF begin, StatusTracksJobs, JobsInv, Active
  <2> QED
    BY <2>1, <2>2, <2>3
<1>2. ASSUME NEW o \in Ops, NEW indeterminate \in BOOLEAN, settle(o, indeterminate)
      PROVE  Scalars /\ Registry
  <2>1. /\ active = o /\ active' = NoOp
        /\ \E p \in {"settled", "gone"} : permit' = [permit EXCEPT ![o] = p]
        /\ UNCHANGED <<epoch, jobs, active_jobs>>
        /\ RequireRecovery(<<"operation", o>>) \/ SettleReady
    BY <1>0, <1>2 DEF settle, OnePermit
  <2>2. permit' \in [Ops -> {"unissued", "held", "settled", "gone"}] /\ OnePermit'
    BY <1>0, <2>1, InMemoryAssumption DEF TypeOK, OnePermit
  <2>3. CASE RequireRecovery(<<"operation", o>>)
    BY <1>0, <1>c, <2>1, <2>2, <2>3, FenceRaised, RecordNames, InMemoryAssumption
    DEF TypeOK, FenceNamesUnresolved
  <2>4. CASE SettleReady
    BY <1>0, <1>c, <2>1, <2>2, <2>4 DEF SettleReady, TypeOK, FenceNamesUnresolved
  <2> QED
    BY <2>1, <2>3, <2>4
<1>3. ASSUME NEW o \in Ops, mutation_abandoned(o) PROVE Scalars /\ Registry
  <2>1. /\ active = o /\ active' = NoOp /\ permit' = [permit EXCEPT ![o] = "gone"]
        /\ UNCHANGED <<epoch, jobs, active_jobs>>
        /\ RequireRecovery(<<"operation", o>>)
    BY <1>0, <1>3 DEF mutation_abandoned, OnePermit
  <2>2. permit' \in [Ops -> {"unissued", "held", "settled", "gone"}] /\ OnePermit'
    BY <1>0, <2>1, InMemoryAssumption DEF TypeOK, OnePermit
  <2> QED
    BY <1>0, <1>c, <2>1, <2>2, FenceRaised, RecordNames, InMemoryAssumption
    DEF TypeOK, FenceNamesUnresolved
<1>4. ASSUME NEW j \in JobIds, register_job(j) PROVE Scalars /\ Registry
  <2>1. Scalars
    BY <1>0, <1>4 DEF register_job, TypeOK, OnePermit, FenceNamesUnresolved
  <2>2. /\ jobs' \in JobMap
        /\ WithinLimits(jobs') /\ WritersExclude(jobs')
        /\ \A i \in JobIds \ {j} : jobs'[i] = jobs[i]
        /\ jobs'[j].epoch = epoch
        /\ jobs'[j].state \in {"Running", "Failed"}
        /\ jobs' = WithState(Registered(jobs, j, epoch), j, "Failed") =>
              jobs'[j].state = "Failed"
    <3>1. /\ jobs \in JobMap /\ ~is_registered(jobs, j) /\ register_allowed(jobs, j)
          /\ WithinLimits(jobs) /\ WritersExclude(jobs)
          /\ \/ /\ preparation_slot_free(Registered(jobs, j, epoch), j, "Starting")
                /\ jobs' = WithState(WithState(Registered(jobs, j, epoch), j, "Starting"),
                                     j, "Running")
             \/ jobs' = WithState(Registered(jobs, j, epoch), j, "Failed")
      BY <1>0, <1>4 DEF register_job, JobsInv
    <3> QED
      BY <1>d, <3>1, AdmissionKeeps
  <2>3. JobsInv'
    BY <1>0, <1>4, <2>2 DEF register_job, JobsInv, Active
  <2>4. StatusTracksJobs'
    <3>1. active_jobs' = Active(jobs') \/
             (jobs'[j].state = "Failed" /\ active_jobs' = active_jobs)
      BY <1>4, <2>2 DEF register_job, nonterminal_job_ids
    <3>2. jobs'[j].state = "Failed" => Active(jobs') = Active(jobs)
      BY <1>4, <2>2 DEF register_job, is_registered, Active, ActiveState
    <3> QED
      BY <1>0, <3>1, <3>2 DEF StatusTracksJobs
  <2>5. NoForeignWriterRuns'
    <3>1. /\ active' = active
          /\ is_live_writer(j) /\ active # NoOp => ParentOf[j] = active
      BY <1>4 DEF register_job, belongs_to_active
    <3>2. \A i \in LiveWriterJobs' \ {j} : i \in LiveWriterJobs /\ jobs'[i] = jobs[i]
      BY <2>2 DEF LiveWriterJobs, Active
    <3>3. j \in LiveWriterJobs' => is_live_writer(j)
      BY DEF LiveWriterJobs
    <3> QED
      BY <1>0, <3>1, <3>2, <3>3 DEF NoForeignWriterRuns
  <2> QED
    BY <2>1, <2>3, <2>4, <2>5
<1>5. ASSUME NEW j \in JobIds, NEW completion \in JobCompletion, seal_job(j, completion)
      PROVE  Scalars /\ Registry
  <2>1. Registry
    <3>1. completion # "Starting"
      BY DEF JobCompletion, TerminalState
    <3>2. JobsInv' /\ NoForeignWriterRuns'
      BY <1>0, <1>5, <3>1, MovePreserves DEF seal_job
    <3> QED
      BY <1>5, <3>2 DEF seal_job, nonterminal_job_ids, StatusTracksJobs
  <2>2. UNCHANGED <<epoch, active, permit>>
    BY <1>5 DEF seal_job
  <2>3. CASE RequireRecovery(<<"job", j>>)
    BY <1>0, <2>1, <2>2, <2>3, FenceRaised, RecordNames
    DEF TypeOK, OnePermit, FenceNamesUnresolved
  <2>4. CASE UNCHANGED <<state, recovery_id, recoveries>>
    BY <1>0, <2>1, <2>2, <2>4 DEF TypeOK, OnePermit, FenceNamesUnresolved
  <2> QED
    BY <1>5, <2>3, <2>4 DEF seal_job
<1>6. ASSUME NEW r \in RecoveryIds, reconcile(r) PROVE Scalars /\ Registry
  <2>1. UNCHANGED <<epoch, active, permit>> /\ nonterminal_job_ids
    BY <1>6 DEF reconcile
  <2>2. JobsInv' /\ NoForeignWriterRuns'
    <3>1. CASE \E j \in JobIds : AwaitsRecovery(r, j) /\ jobs' = WithState(jobs, j, "Failed")
      <4>1. PICK j \in JobIds : AwaitsRecovery(r, j) /\ jobs' = WithState(jobs, j, "Failed")
        BY <3>1
      <4>2. transition_allowed(jobs, j, "Failed")
        BY <4>1 DEF AwaitsRecovery, transition_allowed, can_transition_to
      <4> QED
        BY <1>0, <2>1, <4>1, <4>2, MovePreserves
    <3>2. CASE UNCHANGED jobs
      BY <1>0, <2>1, <3>2 DEF JobsInv, NoForeignWriterRuns, LiveWriterJobs, Active
    <3> QED
      BY <1>6, <3>1, <3>2 DEF reconcile
  <2>3. Registry
    BY <2>1, <2>2 DEF nonterminal_job_ids, StatusTracksJobs
  <2>4. /\ recoveries[r] = "unresolved"
        /\ recoveries' = [recoveries EXCEPT ![r] = "resolved"]
        /\ PromoteNext(r)
    BY <1>6 DEF reconcile
  <2>5. Scalars
    BY <1>0, <2>1, <2>4, RecordNames
    DEF PromoteNext, Unresolved, TypeOK, OnePermit, FenceNamesUnresolved
  <2> QED
    BY <2>3, <2>5
<1>7. ASSUME NEW s \in Seeds, require_recovery(s) PROVE Scalars /\ Registry
  <2>1. /\ RequireRecovery(<<"seed", s>>)
        /\ UNCHANGED <<epoch, active, permit, jobs, active_jobs>>
        /\ active = NoOp
    BY <1>7 DEF require_recovery
  <2> QED
    BY <1>0, <1>b, <2>1, FenceRaised, RecordNames
    DEF TypeOK, OnePermit, FenceNamesUnresolved
<1>8. CASE rebind
  <2>1. Scalars
    BY <1>0, <1>8, InMemoryAssumption DEF rebind, TypeOK, OnePermit, FenceNamesUnresolved
  <2>2. Registry
    BY <1>0, <1>8 DEF rebind, NoForeignWriterRuns, StatusTracksJobs, JobsInv,
       LiveWriterJobs, Active
  <2> QED
    BY <2>1, <2>2
<1>9. CASE UNCHANGED vars
  BY <1>0, <1>b, <1>9 DEF vars, TypeOK, OnePermit, FenceNamesUnresolved
<1> QED
  BY <1>1, <1>2, <1>3, <1>4, <1>5, <1>6, <1>7, <1>8, <1>9 DEF Next

\* The inductive invariant holds in every reachable state.
THEOREM ControllerInvariant == Spec => []IndInv
BY InitEstablishes, NextPreserves, PTL DEF Spec

\* The state keeps its types: in particular every identifier that begin,
\* register_job and reconcile put into the status is one that was asked for.
THEOREM ControllerTypeOK == Spec => []TypeOK
<1>1. IndInv => TypeOK
  BY DEF IndInv
<1> QED
  BY <1>1, ControllerInvariant, PTL

\* One permit at a time, and never an active operation without its permit:
\* begin, settle and the Drop hook agree on who mutates.
THEOREM ControllerOnePermit == Spec => []OnePermit
<1>1. IndInv => OnePermit
  BY DEF IndInv
<1> QED
  BY <1>1, ControllerInvariant, PTL

\* Every fence names an unresolved record, so no recovery is ever stuck behind
\* an identifier that reconcile cannot find.
THEOREM ControllerFence == Spec => []FenceNamesUnresolved
<1>1. IndInv => FenceNamesUnresolved
  BY DEF IndInv
<1> QED
  BY <1>1, ControllerInvariant, PTL

\* No live writer outside the mutation executes while a mutation is admitted,
\* the local live processes that begin lets be left aside.
THEOREM ControllerNoForeignWriter == Spec => []NoForeignWriterRuns
<1>1. IndInv => NoForeignWriterRuns
  BY DEF IndInv
<1> QED
  BY <1>1, ControllerInvariant, PTL

\* The limits of the registry and the exclusion of live writers survive the
\* controller's own use of the registry, whatever the order of its calls.
THEOREM ControllerRegistry == Spec => []RegistrySound
<1>1. IndInv => RegistrySound
  BY DEF IndInv
<1> QED
  BY <1>1, ControllerInvariant, PTL

\* The published job list is the registry's, also after a failed admission.
THEOREM ControllerJobList == Spec => []StatusTracksJobs
<1>1. IndInv => StatusTracksJobs
  BY DEF IndInv
<1> QED
  BY <1>1, ControllerInvariant, PTL

\* Without a mutation in progress, a step that removes the fence leaves no
\* record unresolved.
THEOREM ControllerPromotion == Spec => FenceOutlivesOneResolution
<1> DEFINE A == state = "RecoveryRequired" /\ active = NoOp /\ state' # "RecoveryRequired"
                   => Unresolved' = {}
<1>1. IndInv /\ [Next]_vars => [A]_vars
  <2> SUFFICES ASSUME IndInv, Next, state = "RecoveryRequired", active = NoOp,
                      state' # "RecoveryRequired"
               PROVE  Unresolved' = {}
    OBVIOUS
  <2>0. TypeOK /\ OnePermit
    BY DEF IndInv
  <2>1. ASSUME NEW o \in Ops PROVE permit[o] # "held"
    BY <2>0, InMemoryAssumption DEF OnePermit
  <2>2. \A o \in Ops : ~mutation_abandoned(o) /\ \A i \in BOOLEAN : ~settle(o, i)
    BY <2>1 DEF mutation_abandoned, settle
  <2>3. \A o \in Ops : ~begin(o)
    BY DEF begin, admits_mutation
  <2>4. \A j \in JobIds : ~register_job(j)
    BY DEF register_job
  <2>5. \A j \in JobIds : \A c \in JobCompletion : ~seal_job(j, c)
    BY DEF seal_job, RequireRecovery
  <2>6. (\A s \in Seeds : ~require_recovery(s)) /\ ~rebind
    BY DEF require_recovery, RequireRecovery, rebind
  <2>7. PICK r \in RecoveryIds : reconcile(r)
    BY <2>2, <2>3, <2>4, <2>5, <2>6 DEF Next
  <2>8. /\ Unresolved \subseteq {r}
        /\ recoveries' = [recoveries EXCEPT ![r] = "resolved"]
    BY <2>7 DEF reconcile, PromoteNext
  <2> QED
    BY <2>0, <2>8 DEF Unresolved, TypeOK
<1> QED
  BY <1>1, ControllerInvariant, PTL DEF Spec, FenceOutlivesOneResolution

\* The controller implements the contract of the WorkspaceController trait:
\* in particular a permit that is dropped, or settled as indeterminate, ends
\* its mutation behind a fence.
THEOREM ControllerRefinesContract == Spec => ImplementsContract
<1>1. Init => C!Init
  BY InMemoryAssumption DEF Init, C!Init
<1> DEFINE Settled == {o \in Ops : permit[o] = "settled"}
           Gone == {o \in Ops : permit[o] = "gone"}
           Fenced == state = "RecoveryRequired"
<1>2. IndInv /\ [Next]_vars => [C!Next]_<<active, Settled, Gone, Fenced>>
  <2> SUFFICES ASSUME IndInv, [Next]_vars
               PROVE  C!Next \/ UNCHANGED <<active, Settled, Gone, Fenced>>
    OBVIOUS
  <2>0. TypeOK /\ OnePermit /\ FenceNamesUnresolved
    BY DEF IndInv
  <2>f. UNCHANGED <<active, Settled, Gone>> /\ Fenced' => C!Next
    BY DEF C!Next, C!Fence
  <2>l. UNCHANGED <<active, Settled, Gone>> /\ Fenced /\ ~Fenced' => C!Next
    BY DEF C!Next, C!Lift
  <2>s. ASSUME NEW o \in Ops, active = o, active' = NoOp, permit[o] = "held",
               permit' = [permit EXCEPT ![o] = "settled"], ~Fenced'
        PROVE  C!Next
    <3>1. C!Settle(o)
      BY <2>0, <2>s DEF C!Settle, C!Ended, TypeOK
    <3> QED
      BY <3>1 DEF C!Next
  <2>e. ASSUME NEW o \in Ops, active = o, active' = NoOp, permit[o] = "held",
               permit' = [permit EXCEPT ![o] = "gone"], Fenced'
        PROVE  C!Next
    <3>1. C!Abandon(o)
      BY <2>0, <2>e DEF C!Abandon, C!Ended, TypeOK
    <3> QED
      BY <3>1 DEF C!Next
  <2>u. UNCHANGED <<active, permit>> /\ (Fenced => Fenced') =>
           C!Next \/ UNCHANGED <<active, Settled, Gone, Fenced>>
    <3>1. UNCHANGED <<active, permit>> => UNCHANGED <<active, Settled, Gone>>
      OBVIOUS
    <3>2. (Fenced => Fenced') => Fenced' \/ UNCHANGED Fenced
      OBVIOUS
    <3> QED
      BY <2>f, <3>1, <3>2
  <2>1. ASSUME NEW o \in Ops, begin(o) PROVE C!Next
    <3>1. UNCHANGED <<Settled, Gone, Fenced>>
      BY <2>0, <2>1 DEF begin, TypeOK, admits_mutation
    <3>2. active = NoOp /\ active' = o /\ ~Fenced /\ o \notin Settled \cup Gone
      BY <2>1 DEF begin, admits_mutation
    <3> QED
      BY <3>1, <3>2 DEF C!Next, C!Admit, C!Ended
  <2>2. ASSUME NEW o \in Ops, mutation_abandoned(o) \/ \E i \in BOOLEAN : settle(o, i)
        PROVE  C!Next
    <3>1. permit[o] = "held" /\ active = o /\ active' = NoOp
      BY <2>0, <2>2 DEF mutation_abandoned, settle, OnePermit
    <3>2. \/ permit' = [permit EXCEPT ![o] = "settled"] /\ ~Fenced'
          \/ permit' = [permit EXCEPT ![o] = "gone"] /\ Fenced'
      BY <2>2, <3>1 DEF mutation_abandoned, settle, SettleReady, RequireRecovery
    <3> QED
      BY <2>s, <2>e, <3>1, <3>2
  <2>3. ASSUME NEW j \in JobIds,
               register_job(j) \/ \E c \in JobCompletion : seal_job(j, c)
        PROVE  C!Next \/ UNCHANGED <<active, Settled, Gone, Fenced>>
    BY <2>3, <2>u DEF register_job, seal_job, RequireRecovery
  <2>4. ASSUME NEW r \in RecoveryIds, reconcile(r)
        PROVE  C!Next \/ UNCHANGED <<active, Settled, Gone, Fenced>>
    <3>1. UNCHANGED <<active, permit, Settled, Gone>>
      BY <2>4 DEF reconcile
    <3> QED
      BY <2>l, <2>u, <3>1
  <2>5. (\E s \in Seeds : require_recovery(s)) \/ rebind =>
           C!Next \/ UNCHANGED <<active, Settled, Gone, Fenced>>
    BY <2>u DEF require_recovery, RequireRecovery, rebind
  <2>6. CASE UNCHANGED vars
    BY <2>6 DEF vars
  <2> QED
    BY <2>1, <2>2, <2>3, <2>4, <2>5, <2>6 DEF Next
<1> QED
  BY <1>1, <1>2, ControllerInvariant, PTL DEF Spec, ImplementsContract, C!Spec
=============================================================================
