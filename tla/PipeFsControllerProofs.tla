----------------------- MODULE PipeFsControllerProofs -----------------------
(***************************************************************************)
(* The safety of PipeFsController for every set of operations, jobs and    *)
(* restart records, with one caller of reconcile at a time, and the proof  *)
(* that it implements WorkspaceContract.                                   *)
(***************************************************************************)
EXTENDS PipeFsController, TLAPS

\* Two overlapping calls of reconcile can clear the active operation of a
\* mutation admitted between them; the theorems are about callers that wait.
OneReconciler == \A c, d \in Reconcilers : c = d

\* The records that only exist while no mutation is in progress.  The others
\* are left by the lease monitor and by jobs, beside a mutation.
Exclusive(r) == r[1] \notin {"lease", "job"}

\* What keeps a second mutation out when the first has lost its place.
DisplacedIsFenced ==
    \A o \in InProgress : active # o =>
        recoveries[<<"lease", o>>] = "unresolved" /\ recovery_id # NoRecovery

\* What keeps mutations out while reconcile settles an old one again.
ExclusiveIsFenced ==
    \A r \in Unresolved : Exclusive(r) => InProgress = {} /\ recovery_id # NoRecovery

\* The record a reconcile works on is still unresolved when it finishes.
ReplayedIsUnresolved ==
    \A c \in Reconcilers : replaying[c] # NoRecovery =>
        replaying[c] \in Unresolved /\ Replayable(replaying[c])

Safe ==
    /\ OneMutationInProgress
    /\ ActiveHasOwner
    /\ ReadyNamesNoFence
    /\ DisplacedIsFenced
    /\ ExclusiveIsFenced
    /\ ReplayedIsUnresolved

\* The inductive invariant.
IndInv == TypeOK /\ Safe

-----------------------------------------------------------------------------
(* Facts about the identifiers of records.                                 *)

LEMMA RecoveryIdFacts ==
    /\ \A o \in Ops : /\ <<"admission", o>> \in RecoveryIds
                      /\ <<"abandoned", o>> \in RecoveryIds
                      /\ <<"settlement", o>> \in RecoveryIds
                      /\ <<"indeterminate", o>> \in RecoveryIds
    /\ \A o \in Ops \cup {NoOp} : <<"lease", o>> \in RecoveryIds
    /\ \A j \in JobIds : <<"job", j>> \in RecoveryIds
    /\ <<"persisted", NoOp>> \in RecoveryIds
    /\ <<"incompatible", NoOp>> \in RecoveryIds
    /\ \A r \in RecoveryIds : r # NoRecovery
BY NoRecoveryAssumption DEF RecoveryIds

LEMMA RecoveryKindFacts ==
    /\ \A r \in RecoveryIds : Replayable(r) => Exclusive(r)
    /\ \A r \in RecoveryIds, o \in Ops \cup {NoOp} :
          Exclusive(r) => r # <<"lease", o>>
    /\ \A j \in JobIds : ~Exclusive(<<"job", j>>)
    /\ \A j \in JobIds, o \in Ops \cup {NoOp} : <<"job", j>> # <<"lease", o>>
    /\ \A o \in Ops \cup {NoOp} : ~Exclusive(<<"lease", o>>)
BY DEF Replayable, Exclusive

-----------------------------------------------------------------------------
(* The three kinds of steps.                                               *)

\* A step that leaves the records and the operations in progress alone.
LEMMA QuietStep ==
    ASSUME IndInv,
           UNCHANGED <<active, recoveries, recovery_id, replaying>>,
           InProgress' = InProgress,
           state' = "Ready" => recovery_id = NoRecovery,
           state' \in {"Mutating", "Settling"} => active # NoOp
    PROVE  Safe'
<1>1. Unresolved' = Unresolved
  BY DEF Unresolved
<1> QED
  BY <1>1 DEF IndInv, Safe, OneMutationInProgress, ActiveHasOwner, ReadyNamesNoFence,
              DisplacedIsFenced, ExclusiveIsFenced, ReplayedIsUnresolved

\* A mutation ends: it was the only one, and nothing is being replayed.
LEMMA EndStep ==
    ASSUME IndInv, NEW o \in InProgress,
           InProgress' = InProgress \ {o},
           UNCHANGED replaying,
           \/ \E r \in RecoveryIds : require_recovery(r)
           \/ /\ active' = NoOp /\ state' = "Ready" /\ recovery_id' = NoRecovery
              /\ UNCHANGED recoveries
           \/ active # o /\ UNCHANGED statusVars
    PROVE  Safe'
<1>1. InProgress' = {}
  BY DEF IndInv, Safe, OneMutationInProgress
<1>2. \A r \in Unresolved : ~Exclusive(r)
  BY DEF IndInv, Safe, ExclusiveIsFenced
<1>3. \A c \in Reconcilers : replaying[c] = NoRecovery
  BY <1>2, RecoveryKindFacts DEF IndInv, Safe, ReplayedIsUnresolved, Unresolved
<1>4. OneMutationInProgress' /\ DisplacedIsFenced' /\ ReplayedIsUnresolved'
  BY <1>1, <1>3 DEF OneMutationInProgress, DisplacedIsFenced, ReplayedIsUnresolved
<1>5. CASE \E r \in RecoveryIds : require_recovery(r)
  BY <1>1, <1>4, <1>5, RecoveryIdFacts
     DEF require_recovery, Safe, ActiveHasOwner, ReadyNamesNoFence, ExclusiveIsFenced
<1>6. CASE /\ active' = NoOp /\ state' = "Ready" /\ recovery_id' = NoRecovery
           /\ UNCHANGED recoveries
  <2>1. Unresolved' = Unresolved
    BY <1>6 DEF Unresolved
  <2> QED
    BY <1>2, <1>4, <1>6, <2>1
       DEF Safe, ActiveHasOwner, ReadyNamesNoFence, ExclusiveIsFenced
<1>7. CASE active # o /\ UNCHANGED statusVars
  <2>1. UNCHANGED <<state, recovery_id, active, recoveries>>
    BY <1>7 DEF statusVars
  <2>2. Unresolved' = Unresolved
    BY <2>1 DEF Unresolved
  <2>3. active = NoOp
    BY <1>7 DEF IndInv, Safe, ActiveHasOwner, OneMutationInProgress
  <2> QED
    BY <1>1, <1>2, <1>4, <2>1, <2>2, <2>3
       DEF IndInv, Safe, ActiveHasOwner, ReadyNamesNoFence, ExclusiveIsFenced
<1> QED
  BY <1>5, <1>6, <1>7

\* A record other than one of the lease is resolved, and the next promoted.
LEMMA ResolveStep ==
    ASSUME IndInv, NEW r \in RecoveryIds,
           \A o \in Ops : r # <<"lease", o>>,
           Resolve(r), promote_next_recovery(r, active),
           UNCHANGED <<active, pc>>,
           \A c \in Reconcilers : replaying'[c] # NoRecovery =>
               replaying'[c] = replaying[c] /\ replaying[c] # r
    PROVE  Safe'
<1> USE RecoveryIdFacts
<1>1. InProgress' = InProgress
  BY DEF InProgress
<1>2. Unresolved' = Unresolved \ {r}
  BY DEF IndInv, TypeOK, Unresolved, Resolve
<1>3. /\ recovery_id' = NoRecovery /\ recovery_id # NoRecovery => Unresolved \subseteq {r}
      /\ state' = "Ready" => recovery_id' = NoRecovery
      /\ state' \in {"Mutating", "Settling"} => active # NoOp
  BY DEF promote_next_recovery, Unresolved, IndInv, Safe, ReadyNamesNoFence, ActiveHasOwner
<1>4. OneMutationInProgress' /\ ActiveHasOwner' /\ ReadyNamesNoFence'
  BY <1>1, <1>3 DEF IndInv, Safe, OneMutationInProgress, ActiveHasOwner, ReadyNamesNoFence
<1>5. DisplacedIsFenced'
  <2> SUFFICES ASSUME NEW o \in InProgress, active # o
               PROVE  /\ recoveries'[<<"lease", o>>] = "unresolved"
                      /\ recovery_id' # NoRecovery
    BY <1>1 DEF DisplacedIsFenced
  <2>1. o \in Ops /\ <<"lease", o>> \in Unresolved /\ recovery_id # NoRecovery
    BY DEF IndInv, Safe, DisplacedIsFenced, InProgress, Unresolved
  <2>2. <<"lease", o>> \in Unresolved'
    BY <1>2, <2>1
  <2>3. recovery_id' # NoRecovery
    BY <1>3, <2>1
  <2> QED
    BY <2>2, <2>3 DEF Unresolved
<1>6. ExclusiveIsFenced'
  BY <1>1, <1>2, <1>3 DEF IndInv, Safe, ExclusiveIsFenced
<1>7. ReplayedIsUnresolved'
  BY <1>2 DEF IndInv, Safe, ReplayedIsUnresolved
<1> QED
  BY <1>4, <1>5, <1>6, <1>7 DEF Safe

-----------------------------------------------------------------------------
(* Types.                                                                  *)

LEMMA JobTypes ==
    ASSUME NEW js \in [JobIds -> Job], NEW j \in JobIds
    PROVE  /\ \A s \in JobState : WithState(js, j, s) \in [JobIds -> Job]
           /\ Registered(js, j, 0) \in [JobIds -> Job]
           /\ WithState(Registered(js, j, 0), j, "Failed") \in [JobIds -> Job]
           /\ WithState(WithState(Registered(js, j, 0), j, "Starting"), j, "Running")
                 \in [JobIds -> Job]
           /\ "Failed" \in JobState
           /\ JobCompletion \subseteq JobState
<1>1. /\ {"Starting", "Running", "Failed"} \subseteq JobState
      /\ JobCompletion \subseteq JobState
  BY DEF JobState, JobCompletion, ActiveState, TerminalState
<1>2. Registered(js, j, 0) \in [JobIds -> Job]
  BY DEF Job, Registered, JobState, ActiveState
<1>3. ASSUME NEW ks \in [JobIds -> Job], NEW s \in JobState
      PROVE  WithState(ks, j, s) \in [JobIds -> Job]
  <2>1. ks[j] \in Job
    OBVIOUS
  <2>2. [ks[j] EXCEPT !.state = s, !.recovery = @ \/ s = "RecoveryRequired"] \in Job
    BY <2>1 DEF Job
  <2> QED
    BY <2>2 DEF WithState
<1> QED
  BY <1>1, <1>2, <1>3

LEMMA StatusTypes ==
    ASSUME TypeOK
    PROVE  /\ \A r \in RecoveryIds : require_recovery(r) =>
                 /\ state' = "Fenced" /\ recovery_id' \in RecoveryIds /\ active' = NoOp
                 /\ recoveries' \in [RecoveryIds -> {"none", "unresolved", "resolved"}]
           /\ \A r \in RecoveryIds : \A b : promote_next_recovery(r, b) =>
                 /\ state' \in {state, "Fenced", "Ready", "Mutating"}
                 /\ recovery_id' \in RecoveryIds \cup {NoRecovery}
           /\ \A r \in RecoveryIds : Resolve(r) =>
                 recoveries' \in [RecoveryIds -> {"none", "unresolved", "resolved"}]
BY DEF TypeOK, require_recovery, promote_next_recovery, Resolve, Unresolved

\* Every step of an operation keeps the types.
LEMMA OperationTypes ==
    ASSUME TypeOK, NEW o \in Ops,
           \/ begin_check(o) \/ begin_refresh(o) \/ begin_denied(o)
           \/ begin_prepare(o) \/ begin_admit(o) \/ begin_mark(o)
           \/ begin_dropped(o) \/ mutation_abandoned(o)
           \/ settle_claim(o) \/ settle_backend(o) \/ settle_finish(o)
    PROVE  TypeOK'
<1> USE RecoveryIdFacts, StatusTypes
    DEF TypeOK, GoTo, statusVars, leaseVars, jobVars, Applying, Admitted
<1>1. CASE begin_check(o)
  BY <1>1 DEF begin_check
<1>2. CASE begin_refresh(o)
  BY <1>2 DEF begin_refresh
<1>3. CASE begin_denied(o)
  BY <1>3 DEF begin_denied
<1>4. CASE begin_prepare(o)
  BY <1>4 DEF begin_prepare
<1>5. CASE begin_admit(o)
  BY <1>5 DEF begin_admit, reopened
<1>6. CASE begin_mark(o)
  BY <1>6 DEF begin_mark
<1>7. CASE begin_dropped(o)
  BY <1>7 DEF begin_dropped
<1>8. CASE mutation_abandoned(o)
  BY <1>8 DEF mutation_abandoned
<1>9. CASE settle_claim(o)
  BY <1>9 DEF settle_claim
<1>10. CASE settle_backend(o)
  BY <1>10 DEF settle_backend
<1>11. CASE settle_finish(o)
  BY <1>11 DEF settle_finish
<1> QED
  BY <1>1, <1>2, <1>3, <1>4, <1>5, <1>6, <1>7, <1>8, <1>9, <1>10, <1>11

\* Every step of a reconcile and of a restart keeps the types.
LEMMA RecoveryTypes ==
    ASSUME TypeOK, NEW r \in RecoveryIds,
           \/ \E c \in Reconcilers : reconcile_start(c, r) \/ reconcile_finish(c)
           \/ require_restart_recovery(r) \/ reconcile_restart_job(r)
    PROVE  TypeOK'
<1> USE RecoveryIdFacts, StatusTypes DEF TypeOK, statusVars, leaseVars, jobVars
<1>1. ASSUME NEW c \in Reconcilers, reconcile_start(c, r) PROVE TypeOK'
  BY <1>1 DEF reconcile_start
<1>2. ASSUME NEW c \in Reconcilers, reconcile_finish(c) PROVE TypeOK'
  BY <1>2 DEF reconcile_finish
<1>3. CASE require_restart_recovery(r)
  BY <1>3 DEF require_restart_recovery
<1>4. CASE reconcile_restart_job(r)
  BY <1>4 DEF reconcile_restart_job
<1> QED
  BY <1>1, <1>2, <1>3, <1>4

\* Every step of a job keeps the types.
LEMMA JobStepTypes ==
    ASSUME TypeOK, NEW j \in JobIds,
           \/ register_job_check(j) \/ register_job_run(j)
           \/ \E completion \in JobCompletion : seal_job(j, completion)
           \/ register_job_recovery(j) \/ reconcile_job(j) \/ reconcile_job_status(j)
    PROVE  TypeOK'
<1>0. jobs \in [JobIds -> Job] /\ calls \in [JobIds -> SUBSET {"admitting", "recording", "resolving"}]
  BY DEF TypeOK
<1>q. ASSUME UNCHANGED <<statusVars, phase, leaseVars, pc, replaying>>,
             jobs' \in [JobIds -> Job],
             \E c \in {"admitting", "recording", "resolving"} :
                Call(j, c) \/ Return(j, c) \/ UNCHANGED calls
      PROVE  TypeOK'
  BY <1>q DEF TypeOK, Call, Return, statusVars, leaseVars
<1>1. CASE register_job_check(j)
  BY <1>0, <1>1, <1>q DEF register_job_check, statusVars, leaseVars
<1>2. CASE register_job_run(j)
  <2>1. jobs' \in [JobIds -> Job]
    BY <1>0, <1>2, JobTypes DEF register_job_run
  <2> QED
    BY <1>2, <1>q, <2>1 DEF register_job_run
<1>3. ASSUME NEW completion \in JobCompletion, seal_job(j, completion) PROVE TypeOK'
  <2>1. jobs' \in [JobIds -> Job]
    BY <1>0, <1>3, JobTypes DEF seal_job
  <2> QED
    BY <1>3, <1>q, <2>1 DEF seal_job
<1>4. CASE register_job_recovery(j)
  BY <1>4, RecoveryIdFacts
     DEF register_job_recovery, TypeOK, Return, leaseVars
<1>5. CASE reconcile_job(j)
  <2>1. jobs' \in [JobIds -> Job]
    BY <1>0, <1>5, JobTypes DEF reconcile_job
  <2> QED
    BY <1>5, <1>q, <2>1 DEF reconcile_job
<1>6. CASE reconcile_job_status(j)
  BY <1>6, RecoveryIdFacts, StatusTypes
     DEF reconcile_job_status, TypeOK, Return, leaseVars
<1> QED
  BY <1>1, <1>2, <1>3, <1>4, <1>5, <1>6

\* Every step of the session and of the lease monitor keeps the types.
LEMMA MonitorTypes ==
    ASSUME TypeOK,
           \/ lease_changes \/ reopen_after_refresh \/ fence_uncertain
           \/ fence_lost_close \/ fence_lost_mark \/ fence_lost_record
    PROVE  TypeOK'
<1> USE RecoveryIdFacts, StatusTypes DEF TypeOK, statusVars, leaseVars, jobVars
<1>1. CASE lease_changes
  BY <1>1 DEF lease_changes
<1>2. CASE reopen_after_refresh
  BY <1>2 DEF reopen_after_refresh
<1>3. CASE fence_uncertain
  BY <1>3 DEF fence_uncertain
<1>4. CASE fence_lost_close
  BY <1>4 DEF fence_lost_close
<1>5. CASE fence_lost_mark
  BY <1>5 DEF fence_lost_mark
<1>6. CASE fence_lost_record
  BY <1>6 DEF fence_lost_record
<1> QED
  BY <1>1, <1>2, <1>3, <1>4, <1>5, <1>6

-----------------------------------------------------------------------------
(* The invariant.                                                          *)

\* An operation that moves between places on the same side of admission.
LEMMA SameSide ==
    ASSUME TypeOK, NEW o \in Ops, NEW place, GoTo(o, place),
           place \in Admitted <=> pc[o] \in Admitted
    PROVE  InProgress' = InProgress
BY DEF TypeOK, GoTo, InProgress

LEMMA OperationSafe ==
    ASSUME IndInv, NEW o \in Ops,
           \/ begin_check(o) \/ begin_refresh(o) \/ begin_denied(o)
           \/ begin_prepare(o) \/ begin_admit(o) \/ begin_mark(o)
           \/ begin_dropped(o) \/ mutation_abandoned(o)
           \/ settle_claim(o) \/ settle_backend(o) \/ settle_finish(o)
    PROVE  Safe'
<1>0. TypeOK /\ ReadyNamesNoFence /\ ActiveHasOwner /\ DisplacedIsFenced
  BY DEF IndInv, Safe
<1>p. \A a, b : (a \in Admitted <=> b \in Admitted) /\ pc[o] = b /\ GoTo(o, a)
                   => InProgress' = InProgress
  BY <1>0, SameSide
<1>e. ASSUME pc[o] \in Admitted, GoTo(o, "settled") \/ GoTo(o, "unsettled")
      PROVE  o \in InProgress /\ InProgress' = InProgress \ {o}
  BY <1>0, <1>e DEF TypeOK, GoTo, InProgress, Admitted
<1>1. CASE begin_check(o)
  <2>1. InProgress' = InProgress
    BY <1>1, <1>p DEF begin_check, Admitted
  <2> QED
    BY <1>0, <1>1, <2>1, QuietStep DEF begin_check, statusVars, ReadyNamesNoFence, ActiveHasOwner
<1>2. CASE begin_refresh(o)
  <2>1. InProgress' = InProgress
    BY <1>2, <1>p DEF begin_refresh, Admitted
  <2> QED
    BY <1>0, <1>2, <2>1, QuietStep DEF begin_refresh, statusVars, ReadyNamesNoFence, ActiveHasOwner
<1>3. CASE begin_denied(o)
  <2>1. InProgress' = InProgress
    BY <1>3, <1>p DEF begin_denied, Admitted
  <2> QED
    BY <1>3, <2>1, QuietStep DEF begin_denied
<1>4. CASE begin_prepare(o)
  <2>1. InProgress' = InProgress
    BY <1>4, <1>p DEF begin_prepare, Admitted
  <2> QED
    BY <1>0, <1>4, <2>1, QuietStep DEF begin_prepare, ReadyNamesNoFence, ActiveHasOwner
<1>5. CASE begin_admit(o)
  <2>1. CASE reopened = "Ready" /\ active = NoOp
    <3>1. recovery_id = NoRecovery
      BY <1>0, <2>1 DEF reopened, ReadyNamesNoFence
    <3>2. InProgress = {}
      BY <2>1, <3>1, <1>0, PipeFsAssumption DEF DisplacedIsFenced, InProgress
    <3>3. \A r \in Unresolved : ~Exclusive(r)
      BY <3>1 DEF IndInv, Safe, ExclusiveIsFenced
    <3>4. /\ active' = o /\ state' = "Mutating" /\ GoTo(o, "admitting")
          /\ UNCHANGED <<recovery_id, recoveries, replaying>>
      BY <1>5, <2>1 DEF begin_admit
    <3>5. InProgress' = {o}
      BY <1>0, <3>2, <3>4 DEF InProgress, GoTo, TypeOK, Admitted
    <3>6. Unresolved' = Unresolved
      BY <3>4 DEF Unresolved
    <3> QED
      BY <3>1, <3>3, <3>4, <3>5, <3>6, PipeFsAssumption
         DEF IndInv, Safe, OneMutationInProgress, ActiveHasOwner, ReadyNamesNoFence,
             DisplacedIsFenced, ExclusiveIsFenced, ReplayedIsUnresolved
  <2>2. CASE ~(reopened = "Ready" /\ active = NoOp)
    <3>1. /\ state' = reopened /\ GoTo(o, "idle") /\ pc[o] = "prepared"
          /\ UNCHANGED <<active, recovery_id, recoveries, replaying>>
      BY <1>5, <2>2 DEF begin_admit
    <3>2. InProgress' = InProgress
      BY <3>1, <1>p DEF Admitted
    <3> QED
      BY <1>0, <3>1, <3>2, QuietStep DEF reopened, ReadyNamesNoFence, ActiveHasOwner
  <2> QED
    BY <2>1, <2>2
<1>6. CASE begin_mark(o)
  <2>1. CASE GoTo(o, "held") /\ UNCHANGED statusVars
    <3>1. InProgress' = InProgress
      BY <1>6, <2>1, <1>p DEF begin_mark, Admitted
    <3> QED
      BY <1>0, <1>6, <2>1, <3>1, QuietStep
         DEF begin_mark, statusVars, ReadyNamesNoFence, ActiveHasOwner
  <2>2. CASE require_recovery(<<"admission", o>>) /\ GoTo(o, "unsettled")
    BY <1>6, <2>2, <1>e, EndStep, RecoveryIdFacts DEF begin_mark, Admitted
  <2> QED
    BY <1>6, <2>1, <2>2 DEF begin_mark
<1>7. CASE begin_dropped(o)
  <2>1. InProgress' = InProgress
    BY <1>7, <1>p DEF begin_dropped, Admitted, Applying
  <2> QED
    BY <1>0, <1>7, <2>1, QuietStep DEF begin_dropped, statusVars, ReadyNamesNoFence, ActiveHasOwner
<1>8. CASE mutation_abandoned(o)
  BY <1>8, <1>e, EndStep, RecoveryIdFacts DEF mutation_abandoned, Admitted
<1>9. CASE settle_claim(o)
  <2>1. CASE active = o
    <3>1. InProgress' = InProgress
      BY <1>9, <2>1, <1>p DEF settle_claim, Admitted
    <3> QED
      BY <1>0, <1>9, <2>1, <3>1, QuietStep, PipeFsAssumption DEF settle_claim
  <2>2. CASE active # o
    BY <1>9, <2>2, <1>e, EndStep DEF settle_claim, Admitted, statusVars
  <2> QED
    BY <2>1, <2>2
<1>10. CASE settle_backend(o)
  <2>1. InProgress' = InProgress
    BY <1>10, <1>p DEF settle_backend, Admitted
  <2> QED
    BY <1>0, <1>10, <2>1, QuietStep DEF settle_backend, statusVars, ReadyNamesNoFence,
          ActiveHasOwner
<1>11. CASE settle_finish(o)
  BY <1>11, <1>e, EndStep, RecoveryIdFacts DEF settle_finish, Admitted
<1> QED
  BY <1>1, <1>2, <1>3, <1>4, <1>5, <1>6, <1>7, <1>8, <1>9, <1>10, <1>11

\* A step that adds a fence without touching the operations.
LEMMA FenceStep ==
    ASSUME IndInv, UNCHANGED <<pc, replaying>>,
           active' \in {active, NoOp},
           \A o \in InProgress : active' # o => recoveries'[<<"lease", o>>] = "unresolved",
           recovery_id' # NoRecovery, state' = "Fenced",
           \A r \in RecoveryIds : recoveries[r] = "unresolved" => recoveries'[r] = "unresolved",
           \A r \in RecoveryIds :
               Exclusive(r) /\ recoveries'[r] = "unresolved" /\ recoveries[r] # "unresolved"
                   => InProgress = {}
    PROVE  Safe'
<1>1. InProgress' = InProgress
  BY DEF InProgress
<1>2. Unresolved \subseteq Unresolved'
  BY DEF Unresolved
<1>3. \A r \in Unresolved' : Exclusive(r) => InProgress = {}
  BY DEF Unresolved, IndInv, Safe, ExclusiveIsFenced
<1> QED
  BY <1>1, <1>2, <1>3
     DEF IndInv, Safe, OneMutationInProgress, ActiveHasOwner, ReadyNamesNoFence,
         DisplacedIsFenced, ExclusiveIsFenced, ReplayedIsUnresolved

LEMMA RecoverySafe ==
    ASSUME IndInv, OneReconciler, NEW r \in RecoveryIds,
           \/ \E c \in Reconcilers : reconcile_start(c, r) \/ reconcile_finish(c)
           \/ require_restart_recovery(r) \/ reconcile_restart_job(r)
    PROVE  Safe'
<1>0. TypeOK /\ ReadyNamesNoFence /\ ActiveHasOwner
  BY DEF IndInv, Safe
<1>1. ASSUME NEW c \in Reconcilers, reconcile_start(c, r) PROVE Safe'
  <2>1. UNCHANGED <<state, recovery_id, active, recoveries, pc>>
    BY <1>1 DEF reconcile_start, statusVars
  <2>2. InProgress' = InProgress /\ Unresolved' = Unresolved
    BY <2>1 DEF InProgress, Unresolved
  <2>3. ReplayedIsUnresolved'
    BY <1>0, <1>1, <2>2
       DEF reconcile_start, IndInv, Safe, ReplayedIsUnresolved, Unresolved, TypeOK
  <2> QED
    BY <2>1, <2>2, <2>3
       DEF IndInv, Safe, OneMutationInProgress, ActiveHasOwner, ReadyNamesNoFence,
           DisplacedIsFenced, ExclusiveIsFenced
<1>2. ASSUME NEW c \in Reconcilers, reconcile_finish(c) PROVE Safe'
  <2>0. /\ UNCHANGED pc
        /\ \A d \in Reconcilers : replaying'[d] = NoRecovery
    BY <1>0, <1>2 DEF reconcile_finish, TypeOK, OneReconciler
  <2>1. CASE Resolve(replaying[c]) /\ active' = NoOp /\ promote_next_recovery(replaying[c], NoOp)
    <3>1. /\ replaying[c] \in RecoveryIds /\ replaying[c] \in Unresolved
          /\ Exclusive(replaying[c])
      BY <1>2, RecoveryKindFacts
         DEF reconcile_finish, IndInv, Safe, ReplayedIsUnresolved, Unresolved
    <3>2. InProgress = {} /\ active = NoOp
      BY <3>1, <1>0 DEF IndInv, Safe, ExclusiveIsFenced, ActiveHasOwner
    <3>3. \A o \in Ops : replaying[c] # <<"lease", o>>
      BY <3>1, RecoveryKindFacts
    <3> QED
      BY <2>0, <2>1, <3>1, <3>2, <3>3, ResolveStep
  <2>2. CASE UNCHANGED statusVars
    <3>1. UNCHANGED <<state, recovery_id, active, recoveries>>
      BY <2>2 DEF statusVars
    <3>2. InProgress' = InProgress /\ Unresolved' = Unresolved
      BY <2>0, <3>1 DEF InProgress, Unresolved
    <3> QED
      BY <2>0, <3>1, <3>2
         DEF IndInv, Safe, OneMutationInProgress, ActiveHasOwner, ReadyNamesNoFence,
             DisplacedIsFenced, ExclusiveIsFenced, ReplayedIsUnresolved
  <2> QED
    BY <1>2, <2>1, <2>2 DEF reconcile_finish
<1>3. CASE require_restart_recovery(r)
  <2>1. InProgress = {}
    BY <1>3 DEF require_restart_recovery, InProgress, Admitted
  <2>2. /\ UNCHANGED <<pc, replaying, active>>
        /\ recoveries' = [recoveries EXCEPT ![r] = "unresolved"]
        /\ r # NoRecovery
    BY <1>3, RecoveryIdFacts DEF require_restart_recovery
  <2>3. \A q \in RecoveryIds : recoveries[q] = "unresolved" => recoveries'[q] = "unresolved"
    BY <1>0, <2>2 DEF TypeOK
  <2>4. recovery_id' # NoRecovery
    BY <1>3, <2>2 DEF require_restart_recovery
  <2>5. CASE state' = "Fenced"
    BY <2>1, <2>2, <2>3, <2>4, <2>5, FenceStep
  <2>6. CASE UNCHANGED state /\ recovery_id # NoRecovery
    <3>1. InProgress' = {} /\ Unresolved \subseteq Unresolved'
      BY <2>1, <2>2, <2>3 DEF InProgress, Unresolved
    <3> QED
      BY <2>1, <2>2, <2>4, <2>6, <3>1
         DEF IndInv, Safe, OneMutationInProgress, ActiveHasOwner, ReadyNamesNoFence,
             DisplacedIsFenced, ExclusiveIsFenced, ReplayedIsUnresolved
  <2> QED
    BY <1>3, <2>5, <2>6 DEF require_restart_recovery
<1>4. CASE reconcile_restart_job(r)
  <2>1. /\ Resolve(r) /\ promote_next_recovery(r, active)
        /\ UNCHANGED <<active, pc, replaying>>
        /\ r[1] = "restart_job"
    BY <1>4 DEF reconcile_restart_job
  <2>2. Exclusive(r) /\ ~Replayable(r)
    BY <2>1 DEF Exclusive, Replayable
  <2>3. \A o \in Ops : r # <<"lease", o>>
    BY <2>2, RecoveryKindFacts
  <2>4. \A c \in Reconcilers : replaying[c] # NoRecovery => replaying[c] # r
    BY <2>2 DEF IndInv, Safe, ReplayedIsUnresolved
  <2> QED
    BY <2>1, <2>3, <2>4, ResolveStep
<1> QED
  BY <1>1, <1>2, <1>3, <1>4

LEMMA JobSafe ==
    ASSUME IndInv, NEW j \in JobIds,
           \/ register_job_check(j) \/ register_job_run(j)
           \/ \E completion \in JobCompletion : seal_job(j, completion)
           \/ register_job_recovery(j) \/ reconcile_job(j) \/ reconcile_job_status(j)
    PROVE  Safe'
<1>0. TypeOK /\ ReadyNamesNoFence /\ ActiveHasOwner
  BY DEF IndInv, Safe
<1>1. CASE \/ register_job_check(j) \/ register_job_run(j)
           \/ \E completion \in JobCompletion : seal_job(j, completion)
           \/ reconcile_job(j)
  <2>1. UNCHANGED <<statusVars, pc, replaying>>
    BY <1>1 DEF register_job_check, register_job_run, seal_job, reconcile_job
  <2>2. UNCHANGED <<state, recovery_id, active, recoveries, replaying>>
    BY <2>1 DEF statusVars
  <2>3. InProgress' = InProgress
    BY <2>1 DEF InProgress
  <2> QED
    BY <1>0, <2>2, <2>3, QuietStep DEF ReadyNamesNoFence, ActiveHasOwner
<1>2. CASE register_job_recovery(j)
  <2>1. /\ UNCHANGED <<pc, replaying, active>>
        /\ recovery_id' = <<"job", j>> /\ state' = "Fenced"
        /\ recoveries' = [recoveries EXCEPT ![<<"job", j>>] =
                             IF @ = "none" THEN "unresolved" ELSE @]
    BY <1>2 DEF register_job_recovery
  <2>2. recovery_id' # NoRecovery
    BY <2>1, RecoveryIdFacts
  <2>3. /\ \A q \in RecoveryIds : recoveries[q] = "unresolved" => recoveries'[q] = "unresolved"
        /\ \A q \in RecoveryIds : q # <<"job", j>> => recoveries'[q] = recoveries[q]
    BY <1>0, <2>1 DEF TypeOK
  <2>4. \A o \in InProgress : active' # o => recoveries'[<<"lease", o>>] = "unresolved"
    BY <2>1, <2>3, RecoveryIdFacts DEF IndInv, Safe, DisplacedIsFenced, InProgress
  <2> QED
    BY <2>1, <2>2, <2>3, <2>4, RecoveryKindFacts, FenceStep
<1>3. CASE reconcile_job_status(j)
  <2>1. /\ Resolve(<<"job", j>>) /\ promote_next_recovery(<<"job", j>>, active)
        /\ UNCHANGED <<active, pc, replaying>>
    BY <1>3 DEF reconcile_job_status
  <2>2. \A o \in Ops : <<"job", j>> # <<"lease", o>>
    BY RecoveryKindFacts
  <2>3. \A c \in Reconcilers : replaying[c] # NoRecovery => replaying[c] # <<"job", j>>
    BY RecoveryKindFacts DEF IndInv, Safe, ReplayedIsUnresolved, Unresolved
  <2> QED
    BY <2>1, <2>2, <2>3, RecoveryIdFacts, ResolveStep
<1> QED
  BY <1>1, <1>2, <1>3

LEMMA MonitorSafe ==
    ASSUME IndInv,
           \/ lease_changes \/ reopen_after_refresh \/ fence_uncertain
           \/ fence_lost_close \/ fence_lost_mark \/ fence_lost_record
    PROVE  Safe'
<1>0. TypeOK /\ ReadyNamesNoFence /\ ActiveHasOwner /\ DisplacedIsFenced
  BY DEF IndInv, Safe
<1>1. UNCHANGED <<pc, replaying>>
  BY DEF lease_changes, reopen_after_refresh, fence_uncertain, fence_lost_close,
         fence_lost_mark, fence_lost_record
<1>2. InProgress' = InProgress
  BY <1>1 DEF InProgress
<1>3. CASE lease_changes \/ reopen_after_refresh \/ fence_uncertain
           \/ fence_lost_close \/ fence_lost_mark
  <2>1. /\ UNCHANGED <<recovery_id, active, recoveries>>
        /\ state' \in {state, "LeaseUncertain", "LeaseLost", "Fenced"}
              \/ (state' = "Ready" /\ recovery_id = NoRecovery)
    BY <1>3 DEF lease_changes, reopen_after_refresh, fence_uncertain, fence_lost_close,
                fence_lost_mark, statusVars
  <2> QED
    BY <1>0, <1>1, <1>2, <2>1, QuietStep DEF ReadyNamesNoFence, ActiveHasOwner
<1>4. CASE fence_lost_record
  <2>1. CASE active # NoOp /\ require_recovery(<<"lease", active>>)
    <3>1. active \in Ops /\ <<"lease", active>> \in RecoveryIds
      BY <1>0, <2>1, RecoveryIdFacts DEF TypeOK
    <3>2. InProgress = {active}
      BY <1>0, <2>1 DEF ActiveHasOwner, IndInv, Safe, OneMutationInProgress
    <3>3. /\ recoveries' = [recoveries EXCEPT ![<<"lease", active>>] = "unresolved"]
          /\ recovery_id' = <<"lease", active>> /\ active' = NoOp /\ state' = "Fenced"
      BY <2>1 DEF require_recovery
    <3>4. /\ recoveries'[<<"lease", active>>] = "unresolved"
          /\ \A r \in RecoveryIds : r # <<"lease", active>> => recoveries'[r] = recoveries[r]
      BY <1>0, <3>1, <3>3 DEF TypeOK
    <3>5. recovery_id' # NoRecovery
      BY <3>1, <3>3, RecoveryIdFacts
    <3>6. \A r \in RecoveryIds : Exclusive(r) => r # <<"lease", active>>
      BY <3>1, RecoveryKindFacts
    <3> QED
      BY <1>1, <3>2, <3>3, <3>4, <3>5, <3>6, FenceStep
  <2>2. CASE active = NoOp /\ recovery_id = NoRecovery /\ require_recovery(<<"lease", NoOp>>)
    <3>1. InProgress = {}
      BY <1>0, <2>2, PipeFsAssumption DEF DisplacedIsFenced, InProgress
    <3>2. <<"lease", NoOp>> \in RecoveryIds /\ <<"lease", NoOp>> # NoRecovery
      BY RecoveryIdFacts
    <3>3. /\ recovery_id' = <<"lease", NoOp>> /\ active' = NoOp /\ state' = "Fenced"
          /\ \A r \in RecoveryIds : recoveries[r] = "unresolved" => recoveries'[r] = "unresolved"
      BY <1>0, <2>2, <3>2 DEF require_recovery, TypeOK
    <3> QED
      BY <1>1, <3>1, <3>2, <3>3, FenceStep
  <2>3. CASE /\ active = NoOp /\ state' \in {"Fenced", "LeaseLost"}
             /\ UNCHANGED <<recovery_id, active, recoveries>>
    BY <1>1, <1>2, <2>3, QuietStep
  <2> QED
    BY <1>4, <2>1, <2>2, <2>3 DEF fence_lost_record
<1> QED
  BY <1>3, <1>4

-----------------------------------------------------------------------------
(* The theorems.                                                           *)

\* The invariant holds in every behaviour in which reconcile is called by one
\* caller at a time.
THEOREM PipeFsInvariant == OneReconciler => (Spec => []IndInv)
<1> SUFFICES ASSUME OneReconciler PROVE Spec => []IndInv
  OBVIOUS
<1>1. Init => IndInv
  <2> SUFFICES ASSUME Init PROVE IndInv
    OBVIOUS
  <2>1. TypeOK
    BY RecoveryIdFacts, JobModelAssumption DEF Init, TypeOK, NoJob, Job, JobState
  <2>2. InProgress = {} /\ \A c \in Reconcilers : replaying[c] = NoRecovery
    BY DEF Init, InProgress, Admitted
  <2>3. Unresolved # {} => recovery_id # NoRecovery
    BY RecoveryIdFacts DEF Init, Unresolved
  <2> QED
    BY <2>1, <2>2, <2>3, RecoveryIdFacts
       DEF Init, IndInv, Safe, OneMutationInProgress, ActiveHasOwner, ReadyNamesNoFence,
           DisplacedIsFenced, ExclusiveIsFenced, ReplayedIsUnresolved
<1>2. IndInv /\ [Next]_vars => IndInv'
  <2> SUFFICES ASSUME IndInv, [Next]_vars PROVE IndInv'
    OBVIOUS
  <2>1. TypeOK
    BY DEF IndInv
  <2>2. CASE UNCHANGED vars
    <3>1. UNCHANGED <<state, recovery_id, active, recoveries, phase, lease, unseen, monitor,
                      pc, replaying, jobs, calls>>
      BY <2>2 DEF vars, statusVars, leaseVars, jobVars
    <3>2. TypeOK'
      BY <2>1, <3>1 DEF TypeOK
    <3>3. InProgress' = InProgress
      BY <3>1 DEF InProgress
    <3> QED
      BY <3>1, <3>2, <3>3, QuietStep DEF IndInv, Safe, ReadyNamesNoFence, ActiveHasOwner
  <2>3. ASSUME NEW o \in Ops,
               \/ begin_check(o) \/ begin_refresh(o) \/ begin_denied(o)
               \/ begin_prepare(o) \/ begin_admit(o) \/ begin_mark(o)
               \/ begin_dropped(o) \/ mutation_abandoned(o)
               \/ settle_claim(o) \/ settle_backend(o) \/ settle_finish(o)
        PROVE  IndInv'
    BY <2>1, <2>3, OperationTypes, OperationSafe DEF IndInv
  <2>4. ASSUME NEW r \in RecoveryIds,
               \/ \E c \in Reconcilers : reconcile_start(c, r) \/ reconcile_finish(c)
               \/ require_restart_recovery(r) \/ reconcile_restart_job(r)
        PROVE  IndInv'
    BY <2>1, <2>4, RecoveryTypes, RecoverySafe DEF IndInv
  <2>5. ASSUME NEW c \in Reconcilers, reconcile_finish(c) PROVE IndInv'
    BY <2>4, <2>5, RecoveryIdFacts
  <2>6. ASSUME NEW j \in JobIds,
               \/ register_job_check(j) \/ register_job_run(j)
               \/ \E completion \in JobCompletion : seal_job(j, completion)
               \/ register_job_recovery(j) \/ reconcile_job(j) \/ reconcile_job_status(j)
        PROVE  IndInv'
    BY <2>1, <2>6, JobStepTypes, JobSafe DEF IndInv
  <2>7. CASE \/ lease_changes \/ reopen_after_refresh \/ fence_uncertain
             \/ fence_lost_close \/ fence_lost_mark \/ fence_lost_record
    BY <2>1, <2>7, MonitorTypes, MonitorSafe DEF IndInv
  <2> QED
    BY <2>2, <2>3, <2>4, <2>5, <2>6, <2>7 DEF Next
<1> QED
  BY <1>1, <1>2, PTL DEF Spec

\* Two mutations are never in progress at once on a PipeFS workspace, with
\* the awaits of begin and the lease monitor in between.
THEOREM PipeFsOneMutation == OneReconciler => (Spec => []OneMutationInProgress)
<1>1. IndInv => OneMutationInProgress
  BY DEF IndInv, Safe
<1> QED
  BY <1>1, PipeFsInvariant, PTL

\* No mutation is stranded: Mutating and Settling have an active operation,
\* and the active operation has a call that will end it.
THEOREM PipeFsActiveHasOwner == OneReconciler => (Spec => []ActiveHasOwner)
<1>1. IndInv => ActiveHasOwner
  BY DEF IndInv, Safe
<1> QED
  BY <1>1, PipeFsInvariant, PTL

\* An operation displaced by the lease monitor has left its record.
THEOREM PipeFsDisplacedIsRecorded == OneReconciler => (Spec => []DisplacedIsRecorded)
<1>1. IndInv => DisplacedIsRecorded
  BY DEF IndInv, Safe, DisplacedIsFenced, DisplacedIsRecorded
<1> QED
  BY <1>1, PipeFsInvariant, PTL

\* No begin and no refresh of the lease reopens a workspace that is fenced.
THEOREM PipeFsReadyNamesNoFence == OneReconciler => (Spec => []ReadyNamesNoFence)
<1>1. IndInv => ReadyNamesNoFence
  BY DEF IndInv, Safe
<1> QED
  BY <1>1, PipeFsInvariant, PTL

\* What an earlier process left unresolved keeps admission closed.
THEOREM PipeFsRestartFence == OneReconciler => (Spec => []RestartFenceHolds)
<1>1. IndInv => RestartFenceHolds
  BY DEF IndInv, Safe, ExclusiveIsFenced, RestartFenceHolds, Exclusive
<1> QED
  BY <1>1, PipeFsInvariant, PTL

Holder == IF InProgress = {} THEN NoOp ELSE CHOOSE o \in InProgress : TRUE

Settled == {o \in Ops : pc[o] = "settled"}
Unsettled == {o \in Ops : pc[o] = "unsettled"}

\* With one mutation at a time, the holder is the operation in progress.
LEMMA HolderFacts ==
    /\ InProgress = {} => Holder = NoOp
    /\ \A o : InProgress = {o} => Holder = o
<1>1. \A o : InProgress = {o} => (CHOOSE p \in InProgress : TRUE) = o
  BY Zenon
<1> QED
  BY <1>1 DEF Holder

\* An operation moves as the contract allows.
LEMMA OperationRefines ==
    ASSUME IndInv, NEW o \in Ops,
           \/ begin_check(o) \/ begin_refresh(o) \/ begin_denied(o)
           \/ begin_prepare(o) \/ begin_admit(o) \/ begin_mark(o)
           \/ begin_dropped(o) \/ mutation_abandoned(o)
           \/ settle_claim(o) \/ settle_backend(o) \/ settle_finish(o)
    PROVE  \/ UNCHANGED <<InProgress, Settled, Unsettled, recovery_id>>
           \/ /\ InProgress = {} /\ InProgress' = {o}
              /\ UNCHANGED <<Settled, Unsettled, recovery_id>>
              /\ recovery_id = NoRecovery /\ o \notin Settled \cup Unsettled
           \/ /\ InProgress = {o} /\ InProgress' = {}
              /\ o \notin Settled \cup Unsettled
              /\ \/ /\ Settled' = Settled \cup {o} /\ UNCHANGED Unsettled
                    /\ recovery_id' = NoRecovery
                 \/ /\ Unsettled' = Unsettled \cup {o} /\ UNCHANGED Settled
                    /\ recovery_id' # NoRecovery
<1>0. TypeOK /\ OneMutationInProgress /\ ReadyNamesNoFence /\ DisplacedIsFenced
  BY DEF IndInv, Safe
<1> DEFINE Ends == /\ InProgress = {o} /\ InProgress' = {}
                   /\ o \notin Settled \cup Unsettled
           Opens == /\ Settled' = Settled \cup {o} /\ UNCHANGED Unsettled
                    /\ recovery_id' = NoRecovery
           Fences == /\ Unsettled' = Unsettled \cup {o} /\ UNCHANGED Settled
                     /\ recovery_id' # NoRecovery
           Same == UNCHANGED <<InProgress, Settled, Unsettled>>
<1>e. ASSUME pc[o] \in Admitted, NEW a \in {"settled", "unsettled"}, GoTo(o, a)
      PROVE  Ends
  <2>1. o \in InProgress /\ InProgress' = InProgress \ {o}
    BY <1>0, <1>e DEF TypeOK, GoTo, InProgress, Admitted
  <2>2. o \notin Settled \cup Unsettled
    BY <1>e DEF Settled, Unsettled, Admitted
  <2> QED
    BY <1>0, <2>1, <2>2 DEF OneMutationInProgress
<1>s. ASSUME pc[o] \in Admitted, GoTo(o, "settled"), recovery_id' = NoRecovery
      PROVE  Ends /\ Opens
  <2>1. Settled' = Settled \cup {o} /\ UNCHANGED Unsettled
    BY <1>0, <1>s DEF TypeOK, GoTo, Settled, Unsettled, Admitted
  <2> QED
    BY <1>e, <1>s, <2>1
<1>u. ASSUME pc[o] \in Admitted, GoTo(o, "unsettled"), recovery_id' # NoRecovery
      PROVE  Ends /\ Fences
  <2>1. Unsettled' = Unsettled \cup {o} /\ UNCHANGED Settled
    BY <1>0, <1>u DEF TypeOK, GoTo, Settled, Unsettled, Admitted
  <2> QED
    BY <1>e, <1>u, <2>1
<1>d. pc[o] \in Admitted /\ active # o => recovery_id # NoRecovery
  BY <1>0 DEF DisplacedIsFenced, InProgress
<1>r. \A w \in {"admission", "abandoned", "indeterminate", "settlement"} :
         require_recovery(<<w, o>>) => recovery_id' # NoRecovery
  BY RecoveryIdFacts DEF require_recovery
<1>m. ASSUME NEW a, GoTo(o, a), a \notin {"settled", "unsettled"},
             pc[o] \notin {"settled", "unsettled"},
             a \in Admitted <=> pc[o] \in Admitted
      PROVE  Same
  BY <1>0, <1>m DEF TypeOK, GoTo, InProgress, Settled, Unsettled
<1>1. CASE \/ begin_check(o) \/ begin_refresh(o) \/ begin_denied(o)
           \/ begin_prepare(o) \/ begin_dropped(o) \/ settle_backend(o)
  <2>1. Same
    BY <1>1, <1>m DEF begin_check, begin_refresh, begin_denied, begin_prepare,
                      begin_dropped, settle_backend, Admitted, Applying
  <2> QED
    BY <1>1, <2>1 DEF begin_check, begin_refresh, begin_denied, begin_prepare,
                      begin_dropped, settle_backend, statusVars
<1>2. CASE begin_admit(o)
  <2>1. CASE reopened = "Ready" /\ active = NoOp
    <3>1. recovery_id = NoRecovery
      BY <1>0, <2>1 DEF reopened, ReadyNamesNoFence
    <3>2. InProgress = {}
      BY <2>1, <3>1, <1>0, PipeFsAssumption DEF DisplacedIsFenced, InProgress
    <3>3. pc[o] = "prepared" /\ GoTo(o, "admitting") /\ UNCHANGED recovery_id
      BY <1>2, <2>1 DEF begin_admit
    <3>4. /\ InProgress' = {o} /\ UNCHANGED <<Settled, Unsettled>>
          /\ o \notin Settled \cup Unsettled
      BY <1>0, <3>2, <3>3 DEF InProgress, GoTo, TypeOK, Admitted, Settled, Unsettled
    <3> QED
      BY <3>1, <3>2, <3>3, <3>4
  <2>2. CASE ~(reopened = "Ready" /\ active = NoOp)
    BY <1>2, <2>2, <1>m DEF begin_admit, Admitted
  <2> QED
    BY <2>1, <2>2
<1>3. CASE begin_mark(o)
  <2>1. pc[o] \in Admitted
    BY <1>3 DEF begin_mark, Admitted
  <2>2. CASE GoTo(o, "held") /\ UNCHANGED statusVars
    <3>1. Same
      BY <1>m, <2>1, <2>2 DEF Admitted
    <3> QED
      BY <2>2, <3>1 DEF statusVars
  <2>3. CASE GoTo(o, "unsettled") /\ require_recovery(<<"admission", o>>)
    BY <1>u, <1>r, <2>1, <2>3
  <2> QED
    BY <1>3, <2>2, <2>3 DEF begin_mark
<1>4. CASE mutation_abandoned(o)
  <2>1. pc[o] \in Admitted /\ GoTo(o, "unsettled")
    BY <1>4 DEF mutation_abandoned, Admitted
  <2>2. recovery_id' # NoRecovery
    BY <1>4, <1>d, <1>r, <2>1 DEF mutation_abandoned, statusVars
  <2> QED
    BY <1>u, <2>1, <2>2
<1>5. CASE settle_claim(o)
  <2>1. pc[o] \in Admitted /\ pc[o] = "held" /\ UNCHANGED recovery_id
    BY <1>5 DEF settle_claim, Admitted
  <2>2. CASE GoTo(o, "settling")
    <3>1. Same
      BY <1>m, <2>1, <2>2 DEF Admitted
    <3> QED
      BY <2>1, <3>1
  <2>3. CASE active # o /\ GoTo(o, "unsettled")
    BY <1>d, <1>u, <2>1, <2>3
  <2> QED
    BY <1>5, <2>2, <2>3 DEF settle_claim
<1>6. CASE settle_finish(o)
  <2>1. pc[o] \in Admitted
    BY <1>6 DEF settle_finish, Admitted
  <2>2. \/ GoTo(o, "settled") /\ recovery_id' = NoRecovery
        \/ GoTo(o, "unsettled") /\ recovery_id' # NoRecovery
    BY <1>6, <1>r DEF settle_finish
  <2> QED
    BY <1>s, <1>u, <2>1, <2>2
<1> QED
  BY <1>1, <1>2, <1>3, <1>4, <1>5, <1>6

\* The PipeFS controller implements the contract of the WorkspaceController
\* trait, with every answer of the server and every change of the lease
\* between its critical sections: a mutation that does not settle, also one
\* that the lease monitor has displaced, ends behind a fence.
THEOREM PipeFsRefinesContract == OneReconciler => (Spec => ImplementsContract)
<1> SUFFICES ASSUME OneReconciler PROVE Spec => ImplementsContract
  OBVIOUS
<1> DEFINE Fenced == recovery_id # NoRecovery
<1>1. Init => C!Init
  <2> SUFFICES ASSUME Init PROVE C!Init
    OBVIOUS
  <2>1. InProgress = {} /\ Settled = {} /\ Unsettled = {}
    BY DEF Init, InProgress, Admitted, Settled, Unsettled
  <2> QED
    BY <2>1 DEF C!Init, Settled, Unsettled
<1>2. IndInv /\ [Next]_vars => [C!Next]_<<Holder, Settled, Unsettled, Fenced>>
  <2> SUFFICES ASSUME IndInv, [Next]_vars
               PROVE  C!Next \/ UNCHANGED <<Holder, Settled, Unsettled, Fenced>>
    OBVIOUS
  <2>h. UNCHANGED InProgress => UNCHANGED Holder
    BY DEF Holder
  <2>q. ASSUME UNCHANGED <<InProgress, Settled, Unsettled>>
        PROVE  C!Next \/ UNCHANGED <<Holder, Settled, Unsettled, Fenced>>
    <3>1. UNCHANGED <<Holder, Settled, Unsettled>>
      BY <2>h, <2>q
    <3>2. CASE Fenced'
      BY <3>1, <3>2 DEF C!Next, C!Fence, Holder, Settled, Unsettled
    <3>3. CASE Fenced /\ ~Fenced'
      BY <3>1, <3>3 DEF C!Next, C!Lift, Holder, Settled, Unsettled
    <3>4. CASE ~Fenced /\ ~Fenced'
      BY <3>1, <3>4
    <3> QED
      BY <3>2, <3>3, <3>4
  <2>p. UNCHANGED pc => UNCHANGED <<InProgress, Settled, Unsettled>>
    BY DEF InProgress, Settled, Unsettled
  <2>1. ASSUME NEW o \in Ops,
               \/ begin_check(o) \/ begin_refresh(o) \/ begin_denied(o)
               \/ begin_prepare(o) \/ begin_admit(o) \/ begin_mark(o)
               \/ begin_dropped(o) \/ mutation_abandoned(o)
               \/ settle_claim(o) \/ settle_backend(o) \/ settle_finish(o)
        PROVE  C!Next \/ UNCHANGED <<Holder, Settled, Unsettled, Fenced>>
    <3>1. CASE UNCHANGED <<InProgress, Settled, Unsettled, recovery_id>>
      BY <2>q, <3>1
    <3>2. CASE /\ InProgress = {} /\ InProgress' = {o}
               /\ UNCHANGED <<Settled, Unsettled, recovery_id>>
               /\ recovery_id = NoRecovery /\ o \notin Settled \cup Unsettled
      <4>1. Holder = NoOp /\ Holder' = o
        BY <3>2, HolderFacts DEF Holder
      <4>2. C!Admit(o)
        BY <3>2, <4>1 DEF C!Admit, C!Ended, Holder, Settled, Unsettled
      <4> QED
        BY <4>2 DEF C!Next
    <3>3. CASE /\ InProgress = {o} /\ InProgress' = {}
               /\ o \notin Settled \cup Unsettled
               /\ \/ /\ Settled' = Settled \cup {o} /\ UNCHANGED Unsettled
                     /\ recovery_id' = NoRecovery
                  \/ /\ Unsettled' = Unsettled \cup {o} /\ UNCHANGED Settled
                     /\ recovery_id' # NoRecovery
      <4>1. Holder = o /\ Holder' = NoOp
        BY <3>3, HolderFacts DEF Holder
      <4>2. C!Settle(o) \/ C!Abandon(o)
        BY <3>3, <4>1 DEF C!Settle, C!Abandon, C!Ended, Holder, Settled, Unsettled
      <4> QED
        BY <4>2 DEF C!Next
    <3> QED
      BY <2>1, <3>1, <3>2, <3>3, OperationRefines
  <2>2. CASE \/ \E c \in Reconcilers :
                   (\E r \in RecoveryIds : reconcile_start(c, r)) \/ reconcile_finish(c)
             \/ \E r \in RecoveryIds : require_restart_recovery(r) \/ reconcile_restart_job(r)
             \/ \E j \in JobIds :
                   \/ register_job_check(j) \/ register_job_run(j)
                   \/ \E completion \in JobCompletion : seal_job(j, completion)
                   \/ register_job_recovery(j)
                   \/ reconcile_job(j) \/ reconcile_job_status(j)
             \/ lease_changes \/ reopen_after_refresh \/ fence_uncertain
             \/ fence_lost_close \/ fence_lost_mark \/ fence_lost_record
    <3>1. UNCHANGED pc
      BY <2>2 DEF reconcile_start, reconcile_finish, require_restart_recovery,
                  reconcile_restart_job, register_job_check, register_job_run, seal_job,
                  register_job_recovery, reconcile_job, reconcile_job_status, lease_changes,
                  reopen_after_refresh, fence_uncertain, fence_lost_close, fence_lost_mark,
                  fence_lost_record
    <3> QED
      BY <2>p, <2>q, <3>1
  <2>3. CASE UNCHANGED vars
    BY <2>p, <2>q, <2>3 DEF vars
  <2> QED
    BY <2>1, <2>2, <2>3 DEF Next
<1>3. OneReconciler => (Spec => []IndInv)
  BY PipeFsInvariant
<1> QED
  BY <1>1, <1>2, <1>3, PTL DEF Spec, ImplementsContract, C!Spec, Holder, Settled, Unsettled

-----------------------------------------------------------------------------
(* The records of jobs.                                                    *)

\* A record of a job is resolved only behind the job's end, and nobody can
\* revive a job that has ended.
JobRecords ==
    \A j \in JobIds :
        /\ "admitting" \in calls[j] => jobs[j].state = "Absent"
        /\ recoveries[<<"job", j>>] = "resolved" \/ "resolving" \in calls[j]
              => is_terminal(jobs[j].state)
        /\ jobs[j].state = "RecoveryRequired" /\ "recording" \notin calls[j]
              => recoveries[<<"job", j>>] = "unresolved"

ReplaysOperations ==
    \A c \in Reconcilers : replaying[c] # NoRecovery => Replayable(replaying[c])

JobInv == TypeOK /\ ReplaysOperations /\ JobRecords

\* A step that touches no job and only records of something else.
LEMMA OtherRecord ==
    ASSUME JobInv, NEW r \in RecoveryIds, r[1] # "job",
           require_recovery(r) \/ Resolve(r) \/ UNCHANGED recoveries
              \/ recoveries' = [recoveries EXCEPT ![r] = "unresolved"],
           UNCHANGED jobVars
    PROVE  JobRecords'
<1>0. \A j \in JobIds : <<"job", j>>[1] = "job"
  OBVIOUS
<1>1. \A j \in JobIds : <<"job", j>> \in RecoveryIds /\ r # <<"job", j>>
  BY <1>0, RecoveryIdFacts
<1>2. \A j \in JobIds : recoveries'[<<"job", j>>] = recoveries[<<"job", j>>]
  BY <1>1 DEF JobInv, TypeOK, require_recovery, Resolve
<1> QED
  BY <1>2 DEF JobInv, JobRecords, jobVars

\* No step of an operation touches a job's record.
LEMMA OperationKeepsRecords ==
    ASSUME JobInv, NEW o \in Ops,
           \/ begin_check(o) \/ begin_refresh(o) \/ begin_denied(o)
           \/ begin_prepare(o) \/ begin_admit(o) \/ begin_mark(o)
           \/ begin_dropped(o) \/ mutation_abandoned(o)
           \/ settle_claim(o) \/ settle_backend(o) \/ settle_finish(o)
    PROVE  ReplaysOperations' /\ JobRecords'
<1> USE DEF jobVars, statusVars
<1>0. UNCHANGED <<replaying, jobVars>>
  BY DEF begin_check, begin_refresh, begin_denied, begin_prepare, begin_admit, begin_mark,
         begin_dropped, mutation_abandoned, settle_claim, settle_backend, settle_finish
<1>1. \/ UNCHANGED recoveries
      \/ \E w \in {"admission", "abandoned", "indeterminate", "settlement"} :
            require_recovery(<<w, o>>)
  BY DEF begin_check, begin_refresh, begin_denied, begin_prepare, begin_admit, begin_mark,
         begin_dropped, mutation_abandoned, settle_claim, settle_backend, settle_finish
<1>2. JobRecords'
  <2>1. CASE UNCHANGED recoveries
    BY <1>0, <2>1 DEF JobInv, JobRecords
  <2>2. ASSUME NEW w \in {"admission", "abandoned", "indeterminate", "settlement"},
               require_recovery(<<w, o>>)
        PROVE  JobRecords'
    BY <1>0, <2>2, OtherRecord, RecoveryIdFacts
  <2> QED
    BY <1>1, <2>1, <2>2
<1> QED
  BY <1>0, <1>2 DEF JobInv, ReplaysOperations

\* A reconcile of an operation and a restart do not touch a job's record.
LEMMA RecoveryKeepsRecords ==
    ASSUME JobInv, NEW r \in RecoveryIds,
           \/ \E c \in Reconcilers : reconcile_start(c, r) \/ reconcile_finish(c)
           \/ require_restart_recovery(r) \/ reconcile_restart_job(r)
    PROVE  ReplaysOperations' /\ JobRecords'
<1> USE DEF jobVars, statusVars
<1>1. ASSUME NEW c \in Reconcilers, reconcile_start(c, r)
      PROVE  ReplaysOperations' /\ JobRecords'
  BY <1>1 DEF reconcile_start, JobInv, JobRecords, ReplaysOperations, TypeOK
<1>2. ASSUME NEW c \in Reconcilers, reconcile_finish(c)
      PROVE  ReplaysOperations' /\ JobRecords'
  <2>1. replaying[c] \in RecoveryIds /\ replaying[c][1] # "job"
    BY <1>2 DEF reconcile_finish, JobInv, TypeOK, ReplaysOperations, Replayable
  <2>2. JobRecords'
    BY <1>2, <2>1, OtherRecord DEF reconcile_finish
  <2> QED
    BY <1>2, <2>2, RecoveryIdFacts DEF reconcile_finish, JobInv, ReplaysOperations, TypeOK
<1>3. CASE require_restart_recovery(r)
  BY <1>3, OtherRecord DEF require_restart_recovery, JobInv, ReplaysOperations
<1>4. CASE reconcile_restart_job(r)
  BY <1>4, OtherRecord DEF reconcile_restart_job, JobInv, ReplaysOperations
<1> QED
  BY <1>1, <1>2, <1>3, <1>4

\* The session and the lease monitor do not touch a job's record.
LEMMA MonitorKeepsRecords ==
    ASSUME JobInv,
           \/ lease_changes \/ reopen_after_refresh \/ fence_uncertain
           \/ fence_lost_close \/ fence_lost_mark \/ fence_lost_record
    PROVE  ReplaysOperations' /\ JobRecords'
<1> USE DEF jobVars, statusVars
<1>1. CASE fence_lost_record
  <2>1. PICK o \in Ops \cup {NoOp} :
           UNCHANGED recoveries \/ require_recovery(<<"lease", o>>)
    BY <1>1 DEF fence_lost_record, JobInv, TypeOK
  <2>2. JobRecords'
    BY <1>1, <2>1, OtherRecord, RecoveryIdFacts DEF fence_lost_record
  <2> QED
    BY <1>1, <2>2 DEF fence_lost_record, JobInv, ReplaysOperations
<1>2. CASE \/ lease_changes \/ reopen_after_refresh \/ fence_uncertain
           \/ fence_lost_close \/ fence_lost_mark
  BY <1>2 DEF lease_changes, reopen_after_refresh, fence_uncertain, fence_lost_close,
              fence_lost_mark, JobInv, JobRecords, ReplaysOperations
<1> QED
  BY <1>1, <1>2

\* A job that moves was not terminal and not absent.
LEMMA MovedJob ==
    ASSUME NEW j \in JobIds, NEW s, transition_allowed(jobs, j, s)
    PROVE  ~is_terminal(jobs[j].state) /\ jobs[j].state # "Absent"
BY DEF transition_allowed, can_transition_to, is_terminal, TerminalState

\* Every step of a job keeps its record in step with its state.
LEMMA JobKeepsRecords ==
    ASSUME JobInv, NEW j \in JobIds,
           \/ register_job_check(j) \/ register_job_run(j)
           \/ \E completion \in JobCompletion : seal_job(j, completion)
           \/ register_job_recovery(j) \/ reconcile_job(j) \/ reconcile_job_status(j)
    PROVE  ReplaysOperations' /\ JobRecords'
<1>0. /\ jobs \in [JobIds -> Job]
      /\ calls \in [JobIds -> SUBSET {"admitting", "recording", "resolving"}]
      /\ recoveries \in [RecoveryIds -> {"none", "unresolved", "resolved"}]
      /\ \A i \in JobIds : <<"job", i>> \in RecoveryIds
      /\ \A i \in JobIds : <<"job", i>> = <<"job", j>> => i = j
      /\ JobRecords
  BY RecoveryIdFacts DEF JobInv, TypeOK
<1>1. ReplaysOperations'
  BY DEF register_job_check, register_job_run, seal_job, register_job_recovery,
         reconcile_job, reconcile_job_status, JobInv, ReplaysOperations
<1>2. CASE register_job_check(j)
  <2>1. /\ \A i \in JobIds \ {j} : calls'[i] = calls[i]
        /\ calls'[j] = calls[j] \cup {"admitting"}
        /\ jobs[j].state = "Absent" /\ UNCHANGED <<jobs, recoveries>>
    BY <1>0, <1>2 DEF register_job_check, Call, is_registered, statusVars
  <2> QED
    BY <1>0, <1>1, <2>1 DEF JobRecords
<1>3. CASE register_job_run(j)
  <2>1. jobs[j].state = "Absent" /\ UNCHANGED recoveries
    BY <1>0, <1>3 DEF register_job_run, JobRecords, statusVars
  <2>2. ~is_terminal("Absent")
    BY DEF is_terminal, TerminalState
  <2>3. /\ \A i \in JobIds \ {j} : jobs'[i] = jobs[i]
        /\ jobs'[j].state \in {"Absent", "Running", "Failed"}
    <3>1. \A s : WithState(Registered(jobs, j, 0), j, s)[j].state = s
      BY <1>0 DEF WithState, Registered
    <3>2. \A s, t : WithState(WithState(Registered(jobs, j, 0), j, s), j, t)[j].state = t
      BY <1>0 DEF WithState, Registered
    <3>3. \A i \in JobIds \ {j} : \A s, t :
             /\ WithState(Registered(jobs, j, 0), j, s)[i] = jobs[i]
             /\ WithState(WithState(Registered(jobs, j, 0), j, s), j, t)[i] = jobs[i]
      BY <1>0 DEF WithState, Registered
    <3> QED
      BY <1>3, <2>1, <3>1, <3>2, <3>3 DEF register_job_run
  <2>4. /\ \A i \in JobIds \ {j} : calls'[i] = calls[i]
        /\ calls'[j] = calls[j] \ {"admitting"}
    BY <1>0, <1>3 DEF register_job_run, Return
  <2> QED
    BY <1>0, <1>1, <2>1, <2>2, <2>3, <2>4 DEF JobRecords
<1>4. ASSUME NEW completion \in JobCompletion, seal_job(j, completion) PROVE JobRecords'
  <2>1. /\ ~is_terminal(jobs[j].state) /\ jobs[j].state # "Absent"
        /\ UNCHANGED recoveries
    BY <1>4, MovedJob DEF seal_job, statusVars
  <2>2. /\ \A i \in JobIds \ {j} : jobs'[i] = jobs[i]
        /\ jobs'[j].state = completion
    BY <1>0, <1>4 DEF seal_job, WithState, Job
  <2>3. /\ \A i \in JobIds \ {j} : calls'[i] = calls[i]
        /\ calls'[j] = IF completion = "RecoveryRequired"
                        THEN calls[j] \cup {"recording"} ELSE calls[j]
    BY <1>0, <1>4 DEF seal_job, Call
  <2>4. /\ "admitting" \notin calls[j] /\ "resolving" \notin calls[j]
        /\ recoveries[<<"job", j>>] # "resolved"
    BY <1>0, <2>1 DEF JobRecords
  <2>5. /\ "admitting" \notin calls'[j] /\ "resolving" \notin calls'[j]
        /\ completion = "RecoveryRequired" => "recording" \in calls'[j]
    BY <2>3, <2>4
  <2> QED
    BY <1>0, <2>1, <2>2, <2>3, <2>4, <2>5 DEF JobRecords
<1>5. CASE register_job_recovery(j)
  <2>1. /\ \A i \in JobIds \ {j} : calls'[i] = calls[i]
        /\ calls'[j] = calls[j] \ {"recording"}
        /\ UNCHANGED jobs
    BY <1>0, <1>5 DEF register_job_recovery, Return
  <2>2. /\ \A i \in JobIds \ {j} : recoveries'[<<"job", i>>] = recoveries[<<"job", i>>]
        /\ recoveries'[<<"job", j>>] =
              IF recoveries[<<"job", j>>] = "none" THEN "unresolved" ELSE recoveries[<<"job", j>>]
    BY <1>0, <1>5 DEF register_job_recovery
  <2>3. ~is_terminal("RecoveryRequired")
    BY DEF is_terminal, TerminalState
  <2> QED
    BY <1>0, <1>1, <2>1, <2>2, <2>3 DEF JobRecords
<1>6. CASE reconcile_job(j)
  <2>1. is_terminal("Failed") /\ ~is_terminal("RecoveryRequired") /\ ~is_terminal("Absent")
    BY DEF is_terminal, TerminalState
  <2>2. /\ \A i \in JobIds \ {j} : jobs'[i] = jobs[i]
        /\ is_terminal(jobs'[j].state)
        /\ jobs[j].state # "Absent"
    <3>1. CASE jobs[j].state = "RecoveryRequired" /\ jobs' = WithState(jobs, j, "Failed")
      <4>1. /\ \A i \in JobIds \ {j} : jobs'[i] = jobs[i]
            /\ jobs'[j].state = "Failed"
        BY <1>0, <3>1 DEF WithState, Job
      <4> QED
        BY <2>1, <3>1, <4>1
    <3>2. CASE is_terminal(jobs[j].state) /\ UNCHANGED jobs
      BY <2>1, <3>2
    <3> QED
      BY <1>6, <3>1, <3>2 DEF reconcile_job
  <2>3. /\ \A i \in JobIds \ {j} : calls'[i] = calls[i]
        /\ calls'[j] = calls[j] \cup {"resolving"}
        /\ UNCHANGED recoveries
    BY <1>0, <1>6 DEF reconcile_job, Call, statusVars
  <2> QED
    BY <1>0, <1>1, <2>1, <2>2, <2>3 DEF JobRecords
<1>7. CASE reconcile_job_status(j)
  <2>1. /\ \A i \in JobIds \ {j} : calls'[i] = calls[i]
        /\ calls'[j] = calls[j] \ {"resolving"}
        /\ "resolving" \in calls[j] /\ UNCHANGED jobs
    BY <1>0, <1>7 DEF reconcile_job_status, Return
  <2>2. \A i \in JobIds \ {j} : recoveries'[<<"job", i>>] = recoveries[<<"job", i>>]
    BY <1>0, <1>7 DEF reconcile_job_status, Resolve
  <2>3. is_terminal(jobs[j].state) /\ ~is_terminal("RecoveryRequired")
    BY <1>0, <2>1 DEF JobRecords, is_terminal, TerminalState
  <2> QED
    BY <1>0, <1>1, <2>1, <2>2, <2>3 DEF JobRecords
<1> QED
  BY <1>1, <1>2, <1>3, <1>4, <1>5, <1>6, <1>7

\* However many callers reconcile: the types, that a backend replay is only
\* ever of an operation, and that a job waiting for recovery, or about to,
\* has its record.
THEOREM PipeFsJobInvariant == Spec => []JobInv
<1>1. Init => JobInv
  <2> SUFFICES ASSUME Init PROVE JobInv
    OBVIOUS
  <2>1. TypeOK
    BY RecoveryIdFacts, JobModelAssumption DEF Init, TypeOK, NoJob, Job, JobState
  <2>2. \A j \in JobIds : recoveries[<<"job", j>>] # "resolved"
    BY RecoveryIdFacts DEF Init
  <2> QED
    BY <2>1, <2>2 DEF Init, JobInv, JobRecords, ReplaysOperations, NoJob
<1>2. JobInv /\ [Next]_vars => JobInv'
  <2> SUFFICES ASSUME JobInv, [Next]_vars PROVE JobInv'
    OBVIOUS
  <2>1. TypeOK
    BY DEF JobInv
  <2>2. CASE UNCHANGED vars
    <3>1. UNCHANGED <<state, recovery_id, active, recoveries, phase, lease, unseen, monitor,
                      pc, replaying, jobs, calls>>
      BY <2>2 DEF vars, statusVars, leaseVars, jobVars
    <3> QED
      BY <3>1 DEF JobInv, TypeOK, JobRecords, ReplaysOperations
  <2>3. ASSUME NEW o \in Ops,
               \/ begin_check(o) \/ begin_refresh(o) \/ begin_denied(o)
               \/ begin_prepare(o) \/ begin_admit(o) \/ begin_mark(o)
               \/ begin_dropped(o) \/ mutation_abandoned(o)
               \/ settle_claim(o) \/ settle_backend(o) \/ settle_finish(o)
        PROVE  JobInv'
    BY <2>1, <2>3, OperationTypes, OperationKeepsRecords DEF JobInv
  <2>4. ASSUME NEW r \in RecoveryIds,
               \/ \E c \in Reconcilers : reconcile_start(c, r) \/ reconcile_finish(c)
               \/ require_restart_recovery(r) \/ reconcile_restart_job(r)
        PROVE  JobInv'
    BY <2>1, <2>4, RecoveryTypes, RecoveryKeepsRecords DEF JobInv
  <2>5. ASSUME NEW c \in Reconcilers, reconcile_finish(c) PROVE JobInv'
    BY <2>4, <2>5, RecoveryIdFacts
  <2>6. ASSUME NEW j \in JobIds,
               \/ register_job_check(j) \/ register_job_run(j)
               \/ \E completion \in JobCompletion : seal_job(j, completion)
               \/ register_job_recovery(j) \/ reconcile_job(j) \/ reconcile_job_status(j)
        PROVE  JobInv'
    BY <2>1, <2>6, JobStepTypes, JobKeepsRecords DEF JobInv
  <2>7. CASE \/ lease_changes \/ reopen_after_refresh \/ fence_uncertain
             \/ fence_lost_close \/ fence_lost_mark \/ fence_lost_record
    BY <2>1, <2>7, MonitorTypes, MonitorKeepsRecords DEF JobInv
  <2> QED
    BY <2>2, <2>3, <2>4, <2>5, <2>6, <2>7 DEF Next
<1> QED
  BY <1>1, <1>2, PTL DEF Spec

\* A job that waits for recovery is addressable once seal_job has returned,
\* however many callers reconcile: register_job_recovery and
\* reconcile_job_recovery never leave it behind a resolved or missing record.
THEOREM PipeFsJobIsRecorded == Spec => []RecoverableJobIsRecorded
<1>1. JobInv => RecoverableJobIsRecorded
  BY DEF JobInv, JobRecords, RecoverableJobIsRecorded
<1> QED
  BY <1>1, PipeFsJobInvariant, PTL

\* The state keeps its types with any number of concurrent callers, through
\* the awaits of begin, settle and reconcile and the lease monitor.
THEOREM PipeFsTypeOK == Spec => []TypeOK
<1>1. JobInv => TypeOK
  BY DEF JobInv
<1> QED
  BY <1>1, PipeFsJobInvariant, PTL
=============================================================================
