------------------------------ MODULE JobModel ------------------------------
(***************************************************************************)
(* The vocabulary of workspace jobs shared by every controller of `hi':    *)
(* the lifecycle states of a job and the legal moves between them          *)
(* (crates/hi-workspace/src/model.rs), the classification of a job by its  *)
(* specification and the limits of the registry                            *)
(* (crates/hi-workspace/src/job_registry*.rs).                             *)
(*                                                                         *)
(* A job identifier is a fresh UUID handed out together with the           *)
(* specification of the job, so the model fixes the specification of every *)
(* identifier in the constant SpecOf; a theorem holds for each choice.     *)
(***************************************************************************)
EXTENDS Naturals, FiniteSets

CONSTANTS
    JobIds,            \* the identifiers registered in one behaviour
    SpecOf,            \* [JobIds -> JobSpec]
    LocalAuthority,    \* TRUE: WorkspaceAuthority::Local, FALSE: PipeFS
    MaxPreparations,   \* JobRegistryLimits::max_preparations
    MaxActiveJobs      \* JobRegistryLimits::max_active_jobs

JobKind == {"Process", "ReadAgent", "WriteCandidate", "Hook", "Compaction"}

EffectScope == {"ReadOnly", "CandidateOnly", "LiveWriter"}

JobSpec == [kind : JobKind, effect_scope : EffectScope]

ASSUME JobModelAssumption ==
    /\ IsFiniteSet(JobIds) /\ JobIds # {}
    /\ SpecOf \in [JobIds -> JobSpec]
    /\ LocalAuthority \in BOOLEAN
    /\ MaxPreparations \in Nat \ {0}
    /\ MaxActiveJobs \in Nat \ {0}

TerminalState == {"Succeeded", "Failed", "Cancelled", "Orphaned", "Stale"}

ActiveState ==
    {"Queued", "Starting", "Running", "ReadyToMerge", "Merging", "Settling",
     "CancelRequested", "DurabilityPending", "RecoveryRequired"}

JobState == ActiveState \cup TerminalState

\* The states a seal may ask for (enum JobCompletion, fn completion_state).
JobCompletion ==
    TerminalState \cup {"ReadyToMerge", "Merging", "Settling",
                        "DurabilityPending", "RecoveryRequired"}

\* "Absent" marks an identifier that no registry has handed out yet.
Job == [state : JobState \cup {"Absent"}, epoch : Nat, recovery : BOOLEAN]

NoJob == [state |-> "Absent", epoch |-> 0, recovery |-> FALSE]

is_terminal(s) == s \in TerminalState

can_transition_to(from, to) ==
    \/ /\ from = "Queued"
       /\ to \in {"Starting", "Cancelled", "Failed", "Orphaned"}
    \/ /\ from = "Starting"
       /\ to \in {"Running", "CancelRequested", "Cancelled", "Failed", "Orphaned"}
    \/ /\ from = "Running"
       /\ to \in {"ReadyToMerge", "Settling", "CancelRequested", "Succeeded",
                  "Failed", "Cancelled", "DurabilityPending",
                  "RecoveryRequired", "Orphaned"}
    \/ /\ from = "ReadyToMerge"
       /\ to \in {"Merging", "Cancelled", "Failed", "Stale"}
    \/ /\ from = "Merging"
       /\ to \in {"Settling", "Failed", "RecoveryRequired", "Stale"}
    \/ /\ from = "Settling"
       /\ to \in {"Succeeded", "Failed", "Cancelled", "DurabilityPending",
                  "RecoveryRequired"}
    \/ /\ from = "CancelRequested"
       /\ to \in {"Settling", "Cancelled", "Failed", "DurabilityPending",
                  "RecoveryRequired", "Orphaned"}
    \/ /\ from = "DurabilityPending"
       /\ to \in {"Settling", "Succeeded", "Failed", "RecoveryRequired"}
    \/ /\ from = "RecoveryRequired"
       /\ to \in {"Settling", "Succeeded", "Failed", "Cancelled", "Stale"}

-----------------------------------------------------------------------------
(* Classification of a job by its specification.                           *)

is_live_writer(j) == SpecOf[j].effect_scope = "LiveWriter"

is_candidate(j) ==
    \/ SpecOf[j].kind = "WriteCandidate"
    \/ SpecOf[j].effect_scope = "CandidateOnly"

is_write_job(j) == is_candidate(j) \/ is_live_writer(j)

is_local_live_process(j) ==
    LocalAuthority /\ SpecOf[j].kind = "Process" /\ is_live_writer(j)

\* Mutant of live_writers_conflict: one local process is enough.
live_writers_conflict_either(incoming, existing) ==
    /\ is_live_writer(existing)
    /\ ~(is_local_live_process(incoming) \/ is_local_live_process(existing))

live_writers_conflict(incoming, existing) ==
    /\ is_live_writer(existing)
    /\ ~(is_local_live_process(incoming) /\ is_local_live_process(existing))

-----------------------------------------------------------------------------
(* Functions of the registry's job map (a function from JobIds to Job).    *)

is_registered(jobs, j) == jobs[j].state # "Absent"

\* The jobs that are registered and not terminal.
Active(jobs) == {j \in JobIds : jobs[j].state \in ActiveState}

active_count(jobs) == Cardinality(Active(jobs))

\* The candidates that occupy a preparation slot.
Preparations(jobs) ==
    {j \in JobIds : is_candidate(j) /\ jobs[j].state \in {"Starting", "Running"}}

preparation_count(jobs) == Cardinality(Preparations(jobs))

\* A candidate or a live writer succeeds only by way of Settling.
transition_allowed(jobs, j, next) ==
    /\ can_transition_to(jobs[j].state, next)
    /\ next = "Succeeded" /\ is_write_job(j) => jobs[j].state = "Settling"

\* Mutant of WithState: no recovery identity is assigned.
WithState_no_identity(jobs, j, next) == [jobs EXCEPT ![j].state = next]

\* Entering RecoveryRequired gives the job its recovery identity, once.
WithState(jobs, j, next) ==
    [jobs EXCEPT ![j].state = next,
                 ![j].recovery = @ \/ next = "RecoveryRequired"]

\* The map with a freshly registered job.
Registered(jobs, j, epoch) ==
    [jobs EXCEPT ![j] =
        [state |-> "Queued", epoch |-> epoch, recovery |-> FALSE]]

register_allowed(jobs, j) ==
    /\ active_count(jobs) < MaxActiveJobs
    /\ is_live_writer(j) =>
          \A i \in Active(jobs) : ~live_writers_conflict(j, i)

\* Mutant of preparation_slot_free: off by one.
preparation_slot_free_plus_one(jobs, j, next) ==
    next = "Starting" /\ is_candidate(j) =>
        preparation_count(jobs) <= MaxPreparations

preparation_slot_free(jobs, j, next) ==
    next = "Starting" /\ is_candidate(j) =>
        preparation_count(jobs) < MaxPreparations

\* Mutant of restored_state: the binding of the job is not compared.
restored_state_any_epoch(job, j, epoch) ==
    IF job.state \notin ActiveState THEN job.state
    ELSE IF is_write_job(j) /\ ~is_local_live_process(j)
         THEN "RecoveryRequired" ELSE "Orphaned"

\* Mutant of restored_state: terminal jobs are settled again.
restored_state_all(job, j, epoch) ==
    IF job.state = "Absent" THEN job.state
    ELSE IF job.epoch # epoch
         THEN IF is_write_job(j) THEN "Stale" ELSE "Orphaned"
    ELSE IF is_write_job(j) /\ ~is_local_live_process(j)
         THEN "RecoveryRequired" ELSE "Orphaned"

\* What a job becomes when the harness restarts under the given epoch.
restored_state(job, j, epoch) ==
    IF job.state \notin ActiveState THEN job.state
    ELSE IF job.epoch # epoch
         THEN IF is_write_job(j) THEN "Stale" ELSE "Orphaned"
    ELSE IF is_write_job(j) /\ ~is_local_live_process(j)
         THEN "RecoveryRequired" ELSE "Orphaned"

\* The map a restarted registry holds.
Restored(jobs, epoch) ==
    [j \in JobIds |->
        LET next == restored_state(jobs[j], j, epoch) IN
        [jobs[j] EXCEPT !.state = next,
                        !.recovery = @ \/ next = "RecoveryRequired"]]
=============================================================================
