-------------------------- MODULE PipeFsController --------------------------
(***************************************************************************)
(* PipeFsWorkspaceController (crates/hi-pipefs/src/controller*.rs): the    *)
(* controller of a workspace whose bytes and transcript live on a remote   *)
(* server, guarded by a writer lease that another machine may take over.   *)
(*                                                                         *)
(* Unlike the in-memory controller, begin, settle and reconcile await the  *)
(* server between their critical sections, and a monitor task pushes       *)
(* changes of the lease into the same state.  An action is one critical    *)
(* section, or one await whose outcome the code branches on; pc[o] is      *)
(* where the calls of operation o are.  Operations stand for one permit;   *)
(* a denied begin has no identity yet and may be called again.             *)
(*                                                                         *)
(* The status labels RecoveryRequired, PendingRemote, Conflict and         *)
(* Incompatible, and the labels recovery_state picks for a named record,   *)
(* are all "Fenced": no code branches on them.  Left out: versions,        *)
(* transcripts and archives (remote calls succeed or fail), the job list   *)
(* of the status, and the job's own registry locks, which JobRegistry has. *)
(***************************************************************************)
EXTENDS JobModel

CONSTANTS
    Ops,          \* operations, each admitted at most once
    ParentOf,     \* JobSpec::parent_operation of every job
    Reconcilers,  \* concurrent callers of reconcile
    Restarts,     \* records found in the control journal at restart
    Causal,       \* PipeFsWriterMode::Causal or ::Compatibility
    NoOp,         \* Option::None for operations
    NoRecovery    \* Option::None for recovery records

ASSUME PipeFsAssumption ==
    /\ NoOp \notin Ops
    /\ ParentOf \in [JobIds -> Ops \cup {NoOp}]
    /\ Causal \in BOOLEAN

\* A record is named by who creates it and for what.
RecoveryIds ==
    {<<w, o>> : w \in {"admission", "abandoned", "settlement", "indeterminate"}, o \in Ops}
        \cup {<<"lease", o>> : o \in Ops \cup {NoOp}}
        \cup {<<"job", j>> : j \in JobIds}
        \cup {<<w, s>> : w \in {"restart_job", "restart_operation"}, s \in Restarts}
        \cup {<<w, NoOp>> : w \in {"persisted", "incompatible"}}

ASSUME NoRecoveryAssumption == NoRecovery \notin RecoveryIds

\* The operation and the execution report are on record, so that reconcile
\* can settle the operation again.
Replayable(r) == r[1] \in {"admission", "settlement", "indeterminate", "persisted"}

\* Where a begin is before it has a permit, and where an admitted operation is.
Applying == {"checked", "refreshed", "prepared", "denied_lost", "denied_uncertain"}
Admitted == {"admitting", "held", "settling", "landed", "committed", "uncommitted"}

VARIABLES
    state,        \* status.state
    recovery_id,  \* status.recovery_id
    active,       \* active operation
    recoveries,   \* the recovery records, per identifier
    phase,        \* PipeFsWorkspace phase: "LeaseLost", or anything else
    lease,        \* the status the session publishes
    unseen,       \* the lease monitor has a change to read
    monitor,      \* where the lease monitor is
    pc,           \* where the calls of every operation are
    replaying,    \* the record every reconciler is settling again
    jobs,         \* the job registry
    calls         \* the job calls between two of their critical sections

statusVars == <<state, recovery_id, active, recoveries>>
leaseVars == <<lease, unseen, monitor>>
jobVars == <<jobs, calls>>
vars == <<statusVars, phase, leaseVars, pc, replaying, jobVars>>

TypeOK ==
    /\ state \in {"Ready", "Mutating", "Settling", "LeaseUncertain",
                  "TranscriptPending", "LeaseLost", "Fenced"}
    /\ recovery_id \in RecoveryIds \cup {NoRecovery}
    /\ active \in Ops \cup {NoOp}
    /\ recoveries \in [RecoveryIds -> {"none", "unresolved", "resolved"}]
    /\ phase \in {"Usable", "LeaseLost"}
    /\ lease \in {"Valid", "Uncertain", "Lost"}
    /\ unseen \in BOOLEAN
    /\ monitor \in {"watching", "closing", "marked_clean", "marked_dirty", "stopped"}
    /\ pc \in [Ops -> {"idle", "settled", "unsettled"} \cup Applying \cup Admitted]
    /\ replaying \in [Reconcilers -> RecoveryIds \cup {NoRecovery}]
    /\ jobs \in [JobIds -> Job]
    /\ calls \in [JobIds -> SUBSET {"admitting", "recording", "resolving"}]

\* The controller starts with the evidence of at most one pending operation,
\* which it can replay or whose writer mode it cannot serve.
Init ==
    /\ \E evidence \in {NoRecovery, <<"persisted", NoOp>>, <<"incompatible", NoOp>>} :
          /\ recovery_id = evidence
          /\ recoveries = [r \in RecoveryIds |->
                              IF r = evidence THEN "unresolved" ELSE "none"]
          /\ state = IF evidence = NoRecovery THEN "Ready" ELSE "Fenced"
    /\ active = NoOp
    /\ phase = "Usable"
    /\ lease = "Valid" /\ unseen = TRUE /\ monitor = "watching"
    /\ pc = [o \in Ops |-> "idle"]
    /\ replaying = [c \in Reconcilers |-> NoRecovery]
    /\ jobs = [j \in JobIds |-> NoJob]
    /\ calls = [j \in JobIds |-> {}]

-----------------------------------------------------------------------------
(* Helpers on the status.                                                  *)

Unresolved == {r \in RecoveryIds : recoveries[r] = "unresolved"}

GoTo(o, place) == pc' = [pc EXCEPT ![o] = place]

\* fn require_recovery: insert a record, make it the fence, and forget the
\* active operation, whichever it is.
require_recovery(r) ==
    /\ recoveries' = [recoveries EXCEPT ![r] = "unresolved"]
    /\ recovery_id' = r
    /\ active' = NoOp
    /\ state' = "Fenced"

\* Mutant of promote_next_recovery: the other records are not looked at.
promote_next_recovery_ready(r, busy) ==
    \/ /\ recovery_id = r
       /\ recovery_id' = NoRecovery
       /\ state' = IF busy = NoOp THEN "Ready" ELSE "Mutating"
    \/ /\ recovery_id # r
       /\ UNCHANGED <<state, recovery_id>>

\* fn promote_next_recovery, run after the record r has been resolved while
\* the active operation becomes busy.
promote_next_recovery(r, busy) ==
    \/ /\ recovery_id = r
       /\ \E next \in Unresolved \ {r} : recovery_id' = next
       /\ state' = "Fenced"
    \/ /\ recovery_id = r /\ Unresolved \subseteq {r}
       /\ recovery_id' = NoRecovery
       /\ state' = IF busy = NoOp THEN "Ready" ELSE "Mutating"
    \/ /\ recovery_id # r
       /\ UNCHANGED <<state, recovery_id>>

Resolve(r) == recoveries' = [recoveries EXCEPT ![r] = "resolved"]

-----------------------------------------------------------------------------
(* begin: check, prove the lease, drain the transcript, admit, mark dirty. *)

\* The states from which begin may try to prove the lease again.
Provable == {"Ready", "LeaseUncertain", "TranscriptPending"}

begin_check(o) ==
    /\ pc[o] = "idle"
    /\ active = NoOp /\ recovery_id = NoRecovery /\ state \in Provable
    /\ GoTo(o, "checked")
    /\ UNCHANGED <<statusVars, phase, leaseVars, replaying, jobVars>>

\* refresh_version can succeed: the session does not know the lease to be
\* lost, and the workspace does not refuse the new lease.
RefreshPossible == lease # "Lost" /\ phase # "LeaseLost"

\* refresh_version, and the reading of the phase when it fails.
begin_refresh(o) ==
    /\ pc[o] = "checked"
    /\ \/ /\ RefreshPossible
          /\ GoTo(o, IF Causal THEN "refreshed" ELSE "prepared")
       \/ phase # "LeaseLost" /\ GoTo(o, "denied_uncertain")
       \/ GoTo(o, "denied_lost")
    /\ UNCHANGED <<statusVars, phase, leaseVars, replaying, jobVars>>

\* The failed proof is written into the status, whatever it says by now.
begin_denied(o) ==
    /\ pc[o] \in {"denied_lost", "denied_uncertain"}
    /\ state' = IF pc[o] = "denied_lost" THEN "LeaseLost" ELSE "LeaseUncertain"
    /\ GoTo(o, "idle")
    /\ UNCHANGED <<recovery_id, active, recoveries, phase, leaseVars, replaying, jobVars>>

begin_prepare(o) ==
    /\ pc[o] = "refreshed"
    /\ \/ GoTo(o, "prepared") /\ UNCHANGED state
       \/ GoTo(o, "idle") /\ state' = "TranscriptPending"
    /\ UNCHANGED <<recovery_id, active, recoveries, phase, leaseVars, replaying, jobVars>>

\* The state after begin has lifted a lease or transcript doubt.
reopened ==
    IF state \in {"LeaseUncertain", "TranscriptPending"} /\ recovery_id = NoRecovery
    THEN "Ready" ELSE state

\* Mutant of begin_admit: the checks made before the awaits are trusted.
begin_admit_unchecked(o) ==
    /\ pc[o] = "prepared"
    /\ active' = o
    /\ state' = "Mutating"
    /\ GoTo(o, "admitting")
    /\ UNCHANGED <<recovery_id, recoveries, phase, leaseVars, replaying, jobVars>>

\* The second critical section; the doubt stays lifted when admission fails.
begin_admit(o) ==
    /\ pc[o] = "prepared"
    /\ \/ /\ reopened = "Ready" /\ active = NoOp
          /\ active' = o
          /\ state' = "Mutating"
          /\ GoTo(o, "admitting")
       \/ /\ ~(reopened = "Ready" /\ active = NoOp)
          /\ state' = reopened
          /\ GoTo(o, "idle")
          /\ UNCHANGED active
    /\ UNCHANGED <<recovery_id, recoveries, phase, leaseVars, replaying, jobVars>>

\* The permit is armed; the intent and the dirty marker are written.
begin_mark(o) ==
    /\ pc[o] = "admitting"
    /\ \/ /\ phase # "LeaseLost"
          /\ GoTo(o, "held")
          /\ UNCHANGED statusVars
       \/ /\ require_recovery(<<"admission", o>>)
          /\ GoTo(o, "unsettled")
    /\ UNCHANGED <<phase, leaseVars, replaying, jobVars>>

\* The caller drops the begin future before there is a permit.
begin_dropped(o) ==
    /\ pc[o] \in Applying
    /\ GoTo(o, "idle")
    /\ UNCHANGED <<statusVars, phase, leaseVars, replaying, jobVars>>

\* Mutant of mutation_abandoned: dropping a permit leaves the status alone.
mutation_abandoned_unfenced(o) ==
    /\ pc[o] \in {"admitting", "held"}
    /\ GoTo(o, "unsettled")
    /\ UNCHANGED <<statusVars, phase, leaseVars, replaying, jobVars>>

\* The armed permit is dropped, inside begin or by its holder.
mutation_abandoned(o) ==
    /\ pc[o] \in {"admitting", "held"}
    /\ GoTo(o, "unsettled")
    /\ \/ active = o /\ require_recovery(<<"abandoned", o>>)
       \/ active # o /\ UNCHANGED statusVars
    /\ UNCHANGED <<phase, leaseVars, replaying, jobVars>>

-----------------------------------------------------------------------------
(* settle: claim the permit, publish to the server, write the outcome.     *)

settle_claim(o) ==
    /\ pc[o] = "held"
    /\ \/ active = o /\ state' = "Settling" /\ GoTo(o, "settling")
       \/ active # o /\ UNCHANGED state /\ GoTo(o, "unsettled")
    /\ UNCHANGED <<recovery_id, active, recoveries, phase, leaseVars, replaying, jobVars>>

\* settle_backend up to the remote commit, which a workspace marked as lost
\* refuses, and from there to the end of the checkpoint, which leaves the
\* workspace clean whatever happened since.  The server may refuse the commit
\* as one of a lost lease.
settle_backend(o) ==
    /\ \/ /\ pc[o] = "settling" /\ RefreshPossible
          /\ GoTo(o, "landed")
          /\ UNCHANGED phase
       \/ /\ pc[o] = "settling"
          /\ GoTo(o, "uncommitted")
          /\ phase' \in {phase, "LeaseLost"}
       \/ /\ pc[o] = "landed"
          /\ GoTo(o, "committed")
          /\ phase' = "Usable"
       \/ /\ pc[o] = "landed"
          /\ GoTo(o, "uncommitted")
          /\ phase' \in {phase, "Usable"}
    /\ UNCHANGED <<statusVars, leaseVars, replaying, jobVars>>

\* Mutant of settle_finish: a settlement that failed opens the workspace.
settle_finish_lenient(o) ==
    /\ pc[o] \in {"committed", "uncommitted"}
    /\ active' = NoOp /\ state' = "Ready" /\ recovery_id' = NoRecovery
    /\ GoTo(o, IF pc[o] = "committed" THEN "settled" ELSE "unsettled")
    /\ UNCHANGED <<recoveries, phase, leaseVars, replaying, jobVars>>

\* Nothing here asks whether the operation is still the active one.
settle_finish(o) ==
    /\ \/ /\ pc[o] = "committed"
          /\ active' = NoOp /\ state' = "Ready" /\ recovery_id' = NoRecovery
          /\ UNCHANGED recoveries
          /\ GoTo(o, "settled")
       \/ /\ \/ pc[o] = "committed" /\ require_recovery(<<"indeterminate", o>>)
             \/ pc[o] = "uncommitted" /\ require_recovery(<<"settlement", o>>)
          /\ GoTo(o, "unsettled")
    /\ UNCHANGED <<phase, leaseVars, replaying, jobVars>>

-----------------------------------------------------------------------------
(* reconcile of operations.                                                *)

\* The record is looked up and the lease is proved; the calls that fail here
\* change nothing.
reconcile_start(c, r) ==
    /\ replaying[c] = NoRecovery
    /\ Replayable(r) /\ recoveries[r] = "unresolved"
    /\ RefreshPossible
    /\ replaying' = [replaying EXCEPT ![c] = r]
    /\ UNCHANGED <<statusVars, phase, leaseVars, pc, jobVars>>

\* The rest of settle_backend, from evidence the workspace already holds:
\* here the phase is not asked for, and every outcome sets it.
reconcile_finish(c) ==
    /\ replaying[c] # NoRecovery
    /\ replaying' = [replaying EXCEPT ![c] = NoRecovery]
    /\ \/ /\ Resolve(replaying[c])
          /\ active' = NoOp
          /\ promote_next_recovery(replaying[c], NoOp)
          /\ phase' = "Usable"
       \/ /\ UNCHANGED statusVars
          /\ phase' \in {"Usable", "LeaseLost"}
    /\ UNCHANGED <<leaseVars, pc, jobVars>>

-----------------------------------------------------------------------------
(* Records found in the control journal at restart.                        *)

\* Called while the session is restored, before the controller is in use.
require_restart_recovery(r) ==
    /\ r[1] \in {"restart_job", "restart_operation"}
    /\ recoveries[r] = "none"
    /\ \A o \in Ops : pc[o] = "idle"
    /\ recoveries' = [recoveries EXCEPT ![r] = "unresolved"]
    /\ \/ recovery_id = NoRecovery /\ recovery_id' = r /\ state' = "Fenced"
       \/ recovery_id # NoRecovery /\ UNCHANGED <<recovery_id, state>>
    /\ UNCHANGED <<active, phase, leaseVars, pc, replaying, jobVars>>

\* A job of an earlier process has no entry in the registry.
reconcile_restart_job(r) ==
    /\ r[1] = "restart_job" /\ recoveries[r] = "unresolved"
    /\ Resolve(r)
    /\ promote_next_recovery(r, active)
    /\ UNCHANGED <<active, phase, leaseVars, pc, replaying, jobVars>>

-----------------------------------------------------------------------------
(* Jobs.                                                                   *)

Call(j, c) == calls' = [calls EXCEPT ![j] = @ \cup {c}]
Return(j, c) == calls' = [calls EXCEPT ![j] = @ \ {c}]

register_job_check(j) ==
    /\ ~is_registered(jobs, j) /\ calls[j] = {}
    /\ ~is_live_writer(j)
    /\ state = "Ready" \/ (active # NoOp /\ ParentOf[j] = active)
    /\ Call(j, "admitting")
    /\ UNCHANGED <<statusVars, phase, leaseVars, pc, replaying, jobs>>

\* The status is not looked at again after its lock was released.
register_job_run(j) ==
    /\ "admitting" \in calls[j]
    /\ Return(j, "admitting")
    /\ LET queued == Registered(jobs, j, 0)
           started == register_allowed(jobs, j) /\ preparation_slot_free(queued, j, "Starting")
       IN
       \/ started /\ jobs' = WithState(WithState(queued, j, "Starting"), j, "Running")
       \/ /\ ~started
          /\ jobs' = IF register_allowed(jobs, j) THEN WithState(queued, j, "Failed") ELSE jobs
    /\ UNCHANGED <<statusVars, phase, leaseVars, pc, replaying>>

\* At most one outcome of a job is on its way to the status.
seal_job(j, completion) ==
    /\ transition_allowed(jobs, j, completion)
    /\ "recording" \notin calls[j]
    /\ jobs' = WithState(jobs, j, completion)
    /\ \/ completion = "RecoveryRequired" /\ Call(j, "recording")
       \/ completion # "RecoveryRequired" /\ UNCHANGED calls
    /\ UNCHANGED <<statusVars, phase, leaseVars, pc, replaying>>

\* Mutant of register_job_recovery: one fence at a time is enough.
register_job_recovery_if_unfenced(j) ==
    LET r == <<"job", j>> IN
    /\ "recording" \in calls[j]
    /\ Return(j, "recording")
    /\ \/ recovery_id # NoRecovery /\ UNCHANGED <<state, recovery_id, recoveries>>
       \/ /\ recovery_id = NoRecovery
          /\ recoveries' = [recoveries EXCEPT ![r] = "unresolved"]
          /\ recovery_id' = r
          /\ state' = "Fenced"
    /\ UNCHANGED <<active, phase, leaseVars, pc, replaying, jobs>>

\* A record that exists is not touched, not even when it is resolved.
register_job_recovery(j) ==
    LET r == <<"job", j>> IN
    /\ "recording" \in calls[j]
    /\ Return(j, "recording")
    /\ recoveries' = [recoveries EXCEPT ![r] = IF @ = "none" THEN "unresolved" ELSE @]
    /\ recovery_id' = r
    /\ state' = "Fenced"
    /\ UNCHANGED <<active, phase, leaseVars, pc, replaying, jobs>>

\* reconcile_job_recovery: the registry first, then the status.
reconcile_job(j) ==
    /\ recoveries[<<"job", j>>] = "unresolved"
    /\ "resolving" \notin calls[j]
    /\ \/ jobs[j].state = "RecoveryRequired" /\ jobs' = WithState(jobs, j, "Failed")
       \/ is_terminal(jobs[j].state) /\ UNCHANGED jobs
    /\ Call(j, "resolving")
    /\ UNCHANGED <<statusVars, phase, leaseVars, pc, replaying>>

reconcile_job_status(j) ==
    /\ "resolving" \in calls[j]
    /\ Return(j, "resolving")
    /\ Resolve(<<"job", j>>)
    /\ promote_next_recovery(<<"job", j>>, active)
    /\ UNCHANGED <<active, phase, leaseVars, pc, replaying, jobs>>

-----------------------------------------------------------------------------
(* The lease monitor and the session that feeds it.                        *)

\* The session publishes what it learns about the lease; a lost lease is lost.
lease_changes ==
    /\ lease # "Lost"
    /\ lease' \in {"Valid", "Uncertain", "Lost"} \ {lease}
    /\ unseen' = TRUE
    /\ UNCHANGED <<statusVars, phase, monitor, pc, replaying, jobVars>>

\* Mutant of reopen_after_refresh: a valid lease is reason enough to reopen.
reopen_after_refresh_fenced ==
    /\ monitor = "watching" /\ unseen /\ lease = "Valid"
    /\ unseen' = FALSE
    /\ state' = IF state = "LeaseUncertain" /\ active = NoOp THEN "Ready" ELSE state
    /\ UNCHANGED <<recovery_id, active, recoveries, phase, lease, monitor, pc, replaying, jobVars>>

reopen_after_refresh ==
    /\ monitor = "watching" /\ unseen /\ lease = "Valid"
    /\ unseen' = FALSE
    /\ state' = IF state = "LeaseUncertain" /\ recovery_id = NoRecovery /\ active = NoOp
                THEN "Ready" ELSE state
    /\ UNCHANGED <<recovery_id, active, recoveries, phase, lease, monitor, pc, replaying, jobVars>>

fence_uncertain ==
    /\ monitor = "watching" /\ unseen /\ lease = "Uncertain"
    /\ unseen' = FALSE
    /\ state' = IF recovery_id = NoRecovery /\ state # "LeaseLost"
                THEN "LeaseUncertain" ELSE state
    /\ UNCHANGED <<recovery_id, active, recoveries, phase, lease, monitor, pc, replaying, jobVars>>

\* fence_lost closes admission, marks the workspace, then records the loss.
fence_lost_close ==
    /\ monitor = "watching" /\ unseen /\ lease = "Lost"
    /\ unseen' = FALSE
    /\ monitor' = "closing"
    /\ state' = IF recovery_id # NoRecovery THEN "Fenced" ELSE "LeaseLost"
    /\ UNCHANGED <<recovery_id, active, recoveries, phase, lease, pc, replaying, jobVars>>

\* A marker that cannot be written counts as evidence of dirty bytes.
fence_lost_mark ==
    /\ monitor = "closing"
    /\ \/ phase' = "LeaseLost" /\ monitor' \in {"marked_clean", "marked_dirty"}
       \/ UNCHANGED phase /\ monitor' = "marked_dirty"
    /\ UNCHANGED <<statusVars, lease, unseen, pc, replaying, jobVars>>

\* Mutant of fence_lost_record: the active operation is not recorded with it.
fence_lost_record_unattributed ==
    /\ monitor \in {"marked_clean", "marked_dirty"}
    /\ monitor' = "stopped"
    /\ require_recovery(<<"lease", NoOp>>)
    /\ UNCHANGED <<phase, lease, unseen, pc, replaying, jobVars>>

\* Mutant of fence_lost_record: some operation is taken to be active.
fence_lost_record_abandoned ==
    /\ monitor \in {"marked_clean", "marked_dirty"}
    /\ monitor' = "stopped"
    /\ require_recovery(<<"abandoned", active>>)
    /\ UNCHANGED <<phase, lease, unseen, pc, replaying, jobVars>>

fence_lost_record ==
    /\ monitor \in {"marked_clean", "marked_dirty"}
    /\ monitor' = "stopped"
    /\ \/ active # NoOp /\ require_recovery(<<"lease", active>>)
       \/ /\ active = NoOp /\ recovery_id # NoRecovery
          /\ state' = "Fenced"
          /\ UNCHANGED <<recovery_id, active, recoveries>>
       \/ /\ active = NoOp /\ recovery_id = NoRecovery /\ monitor = "marked_dirty"
          /\ require_recovery(<<"lease", NoOp>>)
       \/ /\ active = NoOp /\ recovery_id = NoRecovery /\ monitor = "marked_clean"
          /\ state' = "LeaseLost"
          /\ UNCHANGED <<recovery_id, active, recoveries>>
    /\ UNCHANGED <<phase, lease, unseen, pc, replaying, jobVars>>

-----------------------------------------------------------------------------
Next ==
    \/ \E o \in Ops :
          \/ begin_check(o) \/ begin_refresh(o) \/ begin_denied(o)
          \/ begin_prepare(o) \/ begin_admit(o) \/ begin_mark(o)
          \/ begin_dropped(o) \/ mutation_abandoned(o)
          \/ settle_claim(o) \/ settle_backend(o) \/ settle_finish(o)
    \/ \E c \in Reconcilers :
          \/ \E r \in RecoveryIds : reconcile_start(c, r)
          \/ reconcile_finish(c)
    \/ \E r \in RecoveryIds : require_restart_recovery(r) \/ reconcile_restart_job(r)
    \/ \E j \in JobIds :
          \/ register_job_check(j) \/ register_job_run(j)
          \/ \E completion \in JobCompletion : seal_job(j, completion)
          \/ register_job_recovery(j)
          \/ reconcile_job(j) \/ reconcile_job_status(j)
    \/ lease_changes \/ reopen_after_refresh \/ fence_uncertain
    \/ fence_lost_close \/ fence_lost_mark \/ fence_lost_record

Spec == Init /\ [][Next]_vars

-----------------------------------------------------------------------------
(* Properties.                                                             *)

InProgress == {o \in Ops : pc[o] \in Admitted}

\* Two mutations are never in progress at once, not even when the lease
\* monitor has taken the first one's place as active operation away: what
\* keeps the second out is the record that took the place.
OneMutationInProgress == \A o, p \in InProgress : o = p

\* Whoever is active is in progress, so somebody will settle or abandon it,
\* and the status never says Mutating or Settling about nobody.
ActiveHasOwner ==
    /\ active # NoOp => active \in InProgress
    /\ state \in {"Mutating", "Settling"} => active # NoOp

\* An operation in progress that lost its place to the lease monitor has left
\* an unresolved record behind, until it ends itself.
DisplacedIsRecorded ==
    \A o \in InProgress : active # o => recoveries[<<"lease", o>>] = "unresolved"

\* Ready never stands beside a fence: no write of the state that lifts a
\* lease or transcript doubt forgets to look at the record.
ReadyNamesNoFence == state = "Ready" => recovery_id = NoRecovery

\* A job that waits for its recovery can be addressed by it: once seal_job has
\* returned, the record is there and unresolved.
RecoverableJobIsRecorded ==
    \A j \in JobIds :
        jobs[j].state = "RecoveryRequired" /\ "recording" \notin calls[j]
            => recoveries[<<"job", j>>] = "unresolved"

\* While anything an earlier process left is unresolved the workspace stays
\* fenced and nothing is admitted, whichever records are resolved around it.
RestartFenceHolds ==
    (\E r \in Unresolved : r[1] \in {"restart_job", "restart_operation"})
        => recovery_id # NoRecovery /\ InProgress = {}

C == INSTANCE WorkspaceContract
         WITH holder <- IF InProgress = {} THEN NoOp ELSE CHOOSE o \in InProgress : TRUE,
              settled <- {o \in Ops : pc[o] = "settled"},
              unsettled <- {o \in Ops : pc[o] = "unsettled"},
              fenced <- (recovery_id # NoRecovery)

\* The controller implements the contract of the WorkspaceController trait,
\* although the server answers between its critical sections: mutations are
\* admitted one at a time and never through a fence, each ends at most once,
\* an acknowledged settlement opens the workspace, and a mutation that ends in
\* any other way (a failed admission, a dropped permit, a permit whose place
\* the lease monitor took, a settlement that fails or stays in doubt) ends
\* behind a fence.
ImplementsContract == C!Spec

\* Once the monitor has fenced the loss of the lease, the controller never
\* says Ready again.  The code does not guarantee it.
LostLeaseStaysClosed == monitor = "stopped" => state # "Ready"
=============================================================================
