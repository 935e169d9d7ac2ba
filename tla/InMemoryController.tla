------------------------- MODULE InMemoryController -------------------------
(***************************************************************************)
(* InMemoryWorkspaceController (crates/hi-workspace/src/in_memory.rs): the *)
(* controller of a local workspace.  It admits one mutation at a time,     *)
(* hands out a permit for it, registers the jobs that run beside it, and   *)
(* closes admission behind a recovery record whenever the effects of a     *)
(* mutation or of a writer job cannot be proven settled.                   *)
(*                                                                         *)
(* Every method holds the mutex from its first check to its last           *)
(* assignment, so every method is one action; what interleaves are the     *)
(* calls of the turn that holds the permit, of the job supervisors, of the *)
(* recovery command and of rebind.                                         *)
(*                                                                         *)
(* Left out: the workspace version (a settled change advances it, nothing  *)
(* here reads it) and the transient status Settling, which settle replaces *)
(* before it releases the lock.                                            *)
(***************************************************************************)
EXTENDS JobModel

CONSTANTS
    Ops,          \* operation identifiers, each used once
    Reconciling,  \* the operations whose intent is a reconciliation
    ParentOf,     \* JobSpec::parent_operation of every job
    Seeds,        \* recovery records found by an earlier process
    NoOp,         \* Option::None for operations
    NoRecovery,   \* Option::None for recovery records
    MaxEpoch      \* bound on the epochs a behaviour goes through

ASSUME InMemoryAssumption ==
    /\ Reconciling \subseteq Ops
    /\ NoOp \notin Ops
    /\ ParentOf \in [JobIds -> Ops \cup {NoOp}]
    /\ MaxEpoch \in Nat

\* A recovery record is named by what it is about: the operation that was
\* abandoned or left unsettled, the job that crashed, or a seeded record.
RecoveryIds ==
    (({"operation"} \X Ops) \cup ({"job"} \X JobIds)) \cup ({"seed"} \X Seeds)

ASSUME NoRecoveryAssumption == NoRecovery \notin RecoveryIds

VARIABLES
    epoch,        \* binding.epoch; a rebind also issues a new binding id
    state,        \* status.state
    recovery_id,  \* status.recovery_id
    active,       \* active_operation
    permit,       \* the MutationPermit of every operation: settled by a definite
                  \* outcome, or gone in any other way
    jobs,         \* the job registry
    active_jobs,  \* status.active_jobs
    recoveries    \* the recovery records, per identifier

vars == <<epoch, state, recovery_id, active, permit, jobs, active_jobs, recoveries>>

TypeOK ==
    /\ epoch \in 0 .. MaxEpoch
    /\ state \in {"Ready", "Mutating", "RecoveryRequired"}
    /\ recovery_id \in RecoveryIds \cup {NoRecovery}
    /\ active \in Ops \cup {NoOp}
    /\ permit \in [Ops -> {"unissued", "held", "settled", "gone"}]
    /\ jobs \in [JobIds -> Job]
    /\ active_jobs \in SUBSET JobIds
    /\ recoveries \in [RecoveryIds -> {"none", "unresolved", "resolved"}]

Init ==
    /\ epoch = 0
    /\ state = "Ready"
    /\ recovery_id = NoRecovery
    /\ active = NoOp
    /\ permit = [o \in Ops |-> "unissued"]
    /\ jobs = [j \in JobIds |-> NoJob]
    /\ active_jobs = {}
    /\ recoveries = [r \in RecoveryIds |-> "none"]

-----------------------------------------------------------------------------
admits_mutation == state = "Ready"

\* The jobs that block admission: live writers other than local processes.
LiveWriterJobs ==
    {j \in Active(jobs) : is_live_writer(j) /\ ~is_local_live_process(j)}

Unresolved == {r \in RecoveryIds : recoveries[r] = "unresolved"}

\* Mutant of RequireRecovery: the record is announced and never stored.
RequireRecovery_unrecorded(r) ==
    /\ recovery_id' = r
    /\ state' = "RecoveryRequired"
    /\ UNCHANGED recoveries

\* Insert an unresolved record and make it the current fence.
RequireRecovery(r) ==
    /\ recoveries' = [recoveries EXCEPT ![r] = "unresolved"]
    /\ recovery_id' = r
    /\ state' = "RecoveryRequired"

\* Mutant of nonterminal_job_ids: read before the registry is updated.
nonterminal_job_ids_before == active_jobs' = Active(jobs)

\* status.active_jobs is refreshed from the registry.
nonterminal_job_ids == active_jobs' = Active(jobs')

-----------------------------------------------------------------------------
(* Mutations.                                                              *)

begin(o) ==
    /\ permit[o] = "unissued"
    /\ admits_mutation
    /\ active = NoOp
    /\ \/ LiveWriterJobs = {}
       \/ /\ o \in Reconciling
          /\ \A j \in LiveWriterJobs : jobs[j].state = "DurabilityPending"
    /\ active' = o
    /\ state' = "Mutating"
    /\ permit' = [permit EXCEPT ![o] = "held"]
    /\ UNCHANGED <<epoch, recovery_id, jobs, active_jobs, recoveries>>

\* Mutant of SettleReady: an early return between Settling and Ready.
SettleReady_early_return ==
    /\ state' = "Settling"
    /\ UNCHANGED <<recovery_id, recoveries>>

\* The definite end of settle opens the workspace again.
SettleReady ==
    /\ state' = "Ready"
    /\ recovery_id' = NoRecovery
    /\ UNCHANGED recoveries

\* settle claims the permit, which disarms its Drop hook, and then takes the
\* lock; only the owner of the permit sees the moment between the two.  A
\* permit that is not the active operation's changes nothing.
settle(o, indeterminate) ==
    /\ permit[o] = "held"
    /\ \/ /\ active = o /\ ~indeterminate
          /\ permit' = [permit EXCEPT ![o] = "settled"]
          /\ active' = NoOp
          /\ SettleReady
       \/ /\ active = o /\ indeterminate
          /\ permit' = [permit EXCEPT ![o] = "gone"]
          /\ active' = NoOp
          /\ RequireRecovery(<<"operation", o>>)
       \/ /\ active # o
          /\ permit' = [permit EXCEPT ![o] = "gone"]
          /\ UNCHANGED <<state, recovery_id, active, recoveries>>
    /\ UNCHANGED <<epoch, jobs, active_jobs>>

\* Mutant of mutation_abandoned: the hook forgets the active operation.
mutation_abandoned_still_active(o) ==
    /\ permit[o] = "held"
    /\ permit' = [permit EXCEPT ![o] = "gone"]
    /\ RequireRecovery(<<"operation", o>>)
    /\ UNCHANGED <<epoch, active, jobs, active_jobs>>

\* Mutant of mutation_abandoned: the dropped permit opens the workspace again.
mutation_abandoned_reopens(o) ==
    /\ permit[o] = "held"
    /\ permit' = [permit EXCEPT ![o] = "gone"]
    /\ active' = NoOp
    /\ SettleReady
    /\ UNCHANGED <<epoch, jobs, active_jobs>>

\* An unclaimed permit is dropped: the turn was cancelled or panicked.
mutation_abandoned(o) ==
    /\ permit[o] = "held"
    /\ permit' = [permit EXCEPT ![o] = "gone"]
    /\ IF active = o
       THEN active' = NoOp /\ RequireRecovery(<<"operation", o>>)
       ELSE UNCHANGED <<state, recovery_id, active, recoveries>>
    /\ UNCHANGED <<epoch, jobs, active_jobs>>

-----------------------------------------------------------------------------
(* Jobs.                                                                   *)

\* Mutant of belongs_to_active: any parent will do.
belongs_to_active_any(j) == active # NoOp /\ ParentOf[j] # NoOp

belongs_to_active(j) == active # NoOp /\ ParentOf[j] = active

\* register_running inside the controller's lock: all its steps or none.  A
\* candidate without a free slot is left behind as Failed, and the denial is
\* returned before the status is refreshed.
register_job(j) ==
    /\ ~is_registered(jobs, j)
    /\ admits_mutation \/ belongs_to_active(j)
    /\ is_live_writer(j) /\ active # NoOp => belongs_to_active(j)
    /\ register_allowed(jobs, j)
    /\ LET queued == Registered(jobs, j, epoch) IN
       \/ /\ preparation_slot_free(queued, j, "Starting")
          /\ jobs' = WithState(WithState(queued, j, "Starting"), j, "Running")
          /\ nonterminal_job_ids
       \/ /\ ~preparation_slot_free(queued, j, "Starting")
          /\ jobs' = WithState(queued, j, "Failed")
          /\ UNCHANGED active_jobs
    /\ UNCHANGED <<epoch, state, recovery_id, active, permit, recoveries>>

\* A job of an earlier binding is not in the registry any more.
seal_job(j, completion) ==
    /\ jobs[j].epoch = epoch
    /\ transition_allowed(jobs, j, completion)
    /\ jobs' = WithState(jobs, j, completion)
    /\ \/ completion = "RecoveryRequired" /\ RequireRecovery(<<"job", j>>)
       \/ /\ completion # "RecoveryRequired"
          /\ UNCHANGED <<state, recovery_id, recoveries>>
    /\ nonterminal_job_ids
    /\ UNCHANGED <<epoch, active, permit>>

-----------------------------------------------------------------------------
(* Recovery and rebind.                                                    *)

\* The job that the record is about still waits for recovery.
AwaitsRecovery(r, j) ==
    r = <<"job", j>> /\ jobs[j].epoch = epoch /\ jobs[j].state = "RecoveryRequired"

\* Mutant of PromoteNext: the resolved record is taken for the only one.
PromoteNext_ready(r) ==
    IF recovery_id = r
    THEN /\ recovery_id' = NoRecovery
         /\ state' = IF active # NoOp THEN "Mutating" ELSE "Ready"
    ELSE UNCHANGED <<state, recovery_id>>

\* Resolving the current record promotes another unresolved one, if any.
PromoteNext(r) ==
    \/ /\ recovery_id = r
       /\ \E next \in Unresolved \ {r} : recovery_id' = next
       /\ state' = "RecoveryRequired"
    \/ /\ recovery_id = r /\ Unresolved \subseteq {r}
       /\ recovery_id' = NoRecovery
       /\ state' = IF active # NoOp THEN "Mutating" ELSE "Ready"
    \/ /\ recovery_id # r
       /\ UNCHANGED <<state, recovery_id>>

\* The job of a job record fails if it still waits for recovery; the error of
\* the registry is ignored otherwise.
reconcile(r) ==
    /\ recoveries[r] = "unresolved"
    /\ recoveries' = [recoveries EXCEPT ![r] = "resolved"]
    /\ \/ \E j \in JobIds : AwaitsRecovery(r, j) /\ jobs' = WithState(jobs, j, "Failed")
       \/ (\A j \in JobIds : ~AwaitsRecovery(r, j)) /\ UNCHANGED jobs
    /\ nonterminal_job_ids
    /\ PromoteNext(r)
    /\ UNCHANGED <<epoch, active, permit>>

\* A record of the current binding, found by an earlier process.
require_recovery(s) ==
    /\ active = NoOp
    /\ Active(jobs) = {}
    /\ recoveries[<<"seed", s>>] = "none"
    /\ RequireRecovery(<<"seed", s>>)
    /\ UNCHANGED <<epoch, active, permit, jobs, active_jobs>>

\* A new binding with an empty registry; the recovery records are kept.  The
\* jobs of the old registry are all terminal and carry the old epoch, which
\* is how the model tells that the new registry does not know them.
rebind ==
    /\ active = NoOp
    /\ Active(jobs) = {}
    /\ admits_mutation
    /\ epoch < MaxEpoch
    /\ epoch' = epoch + 1
    /\ UNCHANGED <<state, recovery_id, active, permit, jobs, active_jobs, recoveries>>

Next ==
    \/ \E o \in Ops :
          \/ begin(o)
          \/ \E indeterminate \in BOOLEAN : settle(o, indeterminate)
          \/ mutation_abandoned(o)
    \/ \E j \in JobIds :
          \/ register_job(j)
          \/ \E completion \in JobCompletion : seal_job(j, completion)
    \/ \E r \in RecoveryIds : reconcile(r)
    \/ \E s \in Seeds : require_recovery(s)
    \/ rebind

Spec == Init /\ [][Next]_vars

-----------------------------------------------------------------------------
(* Properties.                                                             *)

\* The permit that a turn holds is always the active operation's, and there
\* is no active operation without its permit: Mutating is never stranded and
\* two turns never mutate at once.
OnePermit == \A o \in Ops : permit[o] = "held" <=> active = o

\* Admission is closed exactly while a record is named, the named record is
\* unresolved (so reconcile can lift the fence), and Ready means idle.
FenceNamesUnresolved ==
    /\ state = "RecoveryRequired" <=> recovery_id # NoRecovery
    /\ recovery_id # NoRecovery => recoveries[recovery_id] = "unresolved"
    /\ state = "Mutating" => active # NoOp
    /\ state = "Ready" => active = NoOp

\* While a mutation holds the permit, no live writer that counts for admission
\* executes outside it: a writer that may race it is its own child, or has
\* stopped and only waits for the durability that a reconciliation provides.
\* Local live processes do not count, as in begin: they write the working tree
\* directly and beside every mutation.
NoForeignWriterRuns ==
    active # NoOp =>
        \A j \in LiveWriterJobs :
            \/ ParentOf[j] = active
            \/ /\ active \in Reconciling
               /\ jobs[j].state \in {"DurabilityPending", "Settling", "RecoveryRequired"}

\* The job list of the published status is the registry's.
StatusTracksJobs == active_jobs = Active(jobs)

\* The limits and the exclusion of live writers survive the controller's own
\* use of the registry.
RegistrySound ==
    /\ active_count(jobs) <= MaxActiveJobs
    /\ preparation_count(jobs) <= MaxPreparations
    /\ \A i, j \in Active(jobs) :
          i # j /\ is_live_writer(i) /\ is_live_writer(j) =>
              is_local_live_process(i) /\ is_local_live_process(j)
    /\ \A j \in Active(jobs) : jobs[j].epoch = epoch

\* With no mutation running, the fence goes away only when every record is
\* resolved: "resolving the current record promotes the next unresolved
\* record instead of prematurely returning to Ready".
FenceOutlivesOneResolution ==
    [][state = "RecoveryRequired" /\ active = NoOp /\ state' # "RecoveryRequired"
          => Unresolved' = {}]_vars

C == INSTANCE WorkspaceContract
         WITH holder <- active,
              settled <- {o \in Ops : permit[o] = "settled"},
              unsettled <- {o \in Ops : permit[o] = "gone"},
              fenced <- (state = "RecoveryRequired")

\* The controller implements the contract of the WorkspaceController trait:
\* mutations are admitted one at a time and never through a fence, each ends
\* at most once, a definite settlement opens the workspace, and a mutation
\* that is dropped or settled as indeterminate ends behind a fence.
ImplementsContract == C!Spec

\* A workspace with an unresolved record never admits a mutation.
UnresolvedRecoveryKeepsFence == state = "Ready" => Unresolved = {}
=============================================================================
