--------------------------- MODULE JobModelProofs ---------------------------
(***************************************************************************)
(* Facts about the functions of the job map that every registry rests on:  *)
(* what a lifecycle move, a registration and a restart do to the set of    *)
(* active jobs, to the preparation slots and to the live writers.          *)
(***************************************************************************)
EXTENDS JobModel, FiniteSetTheorems, TLAPS

JobMap == [JobIds -> Job]

\* The limits of the registry, as a predicate of the job map.
WithinLimits(jobs) ==
    /\ active_count(jobs) <= MaxActiveJobs
    /\ preparation_count(jobs) <= MaxPreparations

\* The exclusion of live writers, as a predicate of the job map.
WritersExclude(jobs) ==
    \A i, j \in Active(jobs) :
        i # j /\ is_live_writer(i) /\ is_live_writer(j) =>
            is_local_live_process(i) /\ is_local_live_process(j)

\* The states are strings, so terminal, active and absent are exclusive.
LEMMA StatesDisjoint ==
    /\ ActiveState \cap TerminalState = {}
    /\ "Absent" \notin JobState
    /\ \A s \in JobState : is_terminal(s) <=> s \notin ActiveState
BY DEF ActiveState, TerminalState, JobState, is_terminal

\* can_transition_to leads from a non-terminal state to a state, never leads
\* to Queued, and leads to Running only from Starting.
LEMMA TransitionTable ==
    ASSUME NEW from, NEW to, can_transition_to(from, to)
    PROVE  /\ from \in ActiveState
           /\ to \in JobState
           /\ to # "Queued"
           /\ to = "Running" => from = "Starting"
BY DEF can_transition_to, ActiveState, TerminalState, JobState

\* Every non-terminal state can fail: the seal that register_running falls
\* back on is always legal.
LEMMA EveryActiveStateCanFail ==
    \A s \in ActiveState : can_transition_to(s, "Failed")
BY DEF can_transition_to, ActiveState

\* What one lifecycle move changes in the map.
LEMMA WithStateFacts ==
    ASSUME NEW jobs \in JobMap, NEW j \in JobIds, NEW next \in JobState
    PROVE  /\ WithState(jobs, j, next) \in JobMap
           /\ \A i \in JobIds \ {j} : WithState(jobs, j, next)[i] = jobs[i]
           /\ WithState(jobs, j, next)[j].state = next
           /\ WithState(jobs, j, next)[j].epoch = jobs[j].epoch
           /\ next = "RecoveryRequired" => WithState(jobs, j, next)[j].recovery
BY DEF WithState, JobMap, Job

\* Sets of jobs are finite, so a subset is no larger.
LEMMA SubsetCount ==
    ASSUME NEW S \in SUBSET JobIds, NEW T \in SUBSET S
    PROVE  /\ Cardinality(T) \in Nat /\ Cardinality(S) \in Nat
           /\ Cardinality(T) <= Cardinality(S)
<1>1. IsFiniteSet(JobIds)
  BY JobModelAssumption
<1>2. IsFiniteSet(S)
  BY <1>1, FS_Subset
<1>3. IsFiniteSet(T) /\ Cardinality(T) <= Cardinality(S)
  BY <1>2, FS_Subset
<1> QED
  BY <1>2, <1>3, FS_CardinalityType

\* One more job makes the count at most one larger.
LEMMA AddCount ==
    ASSUME NEW S \in SUBSET JobIds, NEW x \in JobIds,
           NEW T \in SUBSET (S \cup {x})
    PROVE  /\ Cardinality(T) \in Nat /\ Cardinality(S) \in Nat
           /\ Cardinality(T) <= Cardinality(S) + 1
<1>1. IsFiniteSet(S)
  BY JobModelAssumption, FS_Subset
<1>2. Cardinality(S) \in Nat /\ Cardinality(S \cup {x}) <= Cardinality(S) + 1
  <2>1. Cardinality(S) \in Nat
    BY <1>1, FS_CardinalityType
  <2>2. Cardinality(S \cup {x}) =
           IF x \in S THEN Cardinality(S) ELSE Cardinality(S) + 1
    BY <1>1, FS_AddElement
  <2> QED
    BY <2>1, <2>2
<1>3. Cardinality(T) \in Nat /\ Cardinality(T) <= Cardinality(S \cup {x})
  BY SubsetCount
<1>4. Cardinality(S \cup {x}) \in Nat
  BY SubsetCount, S \cup {x} \in SUBSET JobIds, S \cup {x} \in SUBSET (S \cup {x})
<1> QED
  BY <1>2, <1>3, <1>4

\* A lifecycle move activates no job, so it keeps both limits provided it
\* respects the preparation slot, and it keeps the exclusion of live writers.
LEMMA MoveKeeps ==
    ASSUME NEW jobs \in JobMap, NEW j \in JobIds, NEW next,
           can_transition_to(jobs[j].state, next),
           WithinLimits(jobs), WritersExclude(jobs),
           preparation_slot_free(jobs, j, next)
    PROVE  /\ Active(WithState(jobs, j, next)) \subseteq Active(jobs)
           /\ WithinLimits(WithState(jobs, j, next))
           /\ WritersExclude(WithState(jobs, j, next))
<1> DEFINE after == WithState(jobs, j, next)
<1>0. /\ jobs[j].state \in ActiveState
      /\ next \in JobState
      /\ next = "Running" => jobs[j].state = "Starting"
  BY TransitionTable
<1>1. /\ after \in JobMap
      /\ \A i \in JobIds \ {j} : after[i] = jobs[i]
      /\ after[j].state = next
  BY <1>0, WithStateFacts
<1> HIDE DEF after
<1>2. Active(after) \subseteq Active(jobs)
  BY <1>0, <1>1 DEF Active
<1>3. active_count(after) <= MaxActiveJobs
  <2>1. /\ active_count(after) \in Nat /\ active_count(jobs) \in Nat
        /\ active_count(after) <= active_count(jobs)
    BY <1>2, SubsetCount, Active(jobs) \in SUBSET JobIds DEF active_count, Active
  <2> QED
    BY <2>1, JobModelAssumption DEF WithinLimits
<1>4. preparation_count(after) <= MaxPreparations
  <2>1. CASE next = "Starting" /\ is_candidate(j)
    <3>1. Preparations(after) \in SUBSET (Preparations(jobs) \cup {j})
      BY <1>1 DEF Preparations
    <3>2. Preparations(jobs) \in SUBSET JobIds
      BY DEF Preparations
    <3>3. /\ preparation_count(after) \in Nat /\ preparation_count(jobs) \in Nat
          /\ preparation_count(after) <= preparation_count(jobs) + 1
      BY <3>1, <3>2, AddCount DEF preparation_count
    <3>4. preparation_count(jobs) < MaxPreparations
      BY <2>1 DEF preparation_slot_free
    <3> QED
      BY <3>3, <3>4, JobModelAssumption
  <2>2. CASE ~(next = "Starting" /\ is_candidate(j))
    <3>1. Preparations(after) \in SUBSET Preparations(jobs)
      BY <1>0, <1>1, <2>2 DEF Preparations
    <3>2. Preparations(jobs) \in SUBSET JobIds
      BY DEF Preparations
    <3>3. /\ preparation_count(after) \in Nat /\ preparation_count(jobs) \in Nat
          /\ preparation_count(after) <= preparation_count(jobs)
      BY <3>1, <3>2, SubsetCount DEF preparation_count
    <3> QED
      BY <3>3, JobModelAssumption DEF WithinLimits
  <2> QED
    BY <2>1, <2>2
<1>5. WritersExclude(after)
  BY <1>2 DEF WritersExclude
<1> QED
  BY <1>2, <1>3, <1>4, <1>5 DEF after, WithinLimits

\* A registration that register_allowed admits keeps both limits and the
\* exclusion of live writers.
LEMMA RegisterKeeps ==
    ASSUME NEW jobs \in JobMap, NEW j \in JobIds, NEW epoch \in Nat,
           ~is_registered(jobs, j), register_allowed(jobs, j),
           WithinLimits(jobs), WritersExclude(jobs)
    PROVE  /\ Registered(jobs, j, epoch) \in JobMap
           /\ WithinLimits(Registered(jobs, j, epoch))
           /\ WritersExclude(Registered(jobs, j, epoch))
<1> DEFINE after == Registered(jobs, j, epoch)
<1>1. /\ after \in JobMap
      /\ \A i \in JobIds \ {j} : after[i] = jobs[i]
      /\ after[j].state = "Queued"
  BY DEF Registered, JobMap, Job, JobState, ActiveState
<1> HIDE DEF after
<1>2. Active(after) \in SUBSET (Active(jobs) \cup {j})
  BY <1>1 DEF Active
<1>3. active_count(after) <= MaxActiveJobs
  <2>1. /\ active_count(after) \in Nat /\ active_count(jobs) \in Nat
        /\ active_count(after) <= active_count(jobs) + 1
    BY <1>2, AddCount, Active(jobs) \in SUBSET JobIds DEF active_count, Active
  <2>2. active_count(jobs) < MaxActiveJobs
    BY DEF register_allowed
  <2> QED
    BY <2>1, <2>2, JobModelAssumption
<1>4. preparation_count(after) <= MaxPreparations
  <2>1. Preparations(after) \in SUBSET Preparations(jobs)
    BY <1>1 DEF Preparations
  <2>2. /\ preparation_count(after) \in Nat /\ preparation_count(jobs) \in Nat
        /\ preparation_count(after) <= preparation_count(jobs)
    BY <2>1, SubsetCount, Preparations(jobs) \in SUBSET JobIds
    DEF preparation_count, Preparations
  <2> QED
    BY <2>2, JobModelAssumption DEF WithinLimits
<1>5. WritersExclude(after)
  <2>1. is_live_writer(j) =>
           \A i \in Active(jobs) : is_live_writer(i) =>
              is_local_live_process(i) /\ is_local_live_process(j)
    BY DEF register_allowed, live_writers_conflict
  <2> QED
    BY <1>2, <2>1 DEF WritersExclude
<1> QED
  BY <1>1, <1>3, <1>4, <1>5 DEF after, WithinLimits

\* A restart keeps terminal jobs as they are, activates no job, leaves no
\* preparation running, and leaves alive only jobs of the new epoch that wait
\* for recovery.
LEMMA RestoreKeeps ==
    ASSUME NEW jobs \in JobMap, NEW e \in Nat,
           WithinLimits(jobs), WritersExclude(jobs)
    PROVE  /\ Restored(jobs, e) \in JobMap
           /\ WithinLimits(Restored(jobs, e))
           /\ WritersExclude(Restored(jobs, e))
           /\ \A j \in JobIds :
                 /\ Restored(jobs, e)[j].state \in ActiveState =>
                       /\ Restored(jobs, e)[j].state = "RecoveryRequired"
                       /\ Restored(jobs, e)[j].epoch = e
                       /\ Restored(jobs, e)[j].recovery
                 /\ is_terminal(jobs[j].state) =>
                       Restored(jobs, e)[j].state = jobs[j].state
<1> DEFINE after == Restored(jobs, e)
<1>1. \A j \in JobIds :
         /\ restored_state(jobs[j], j, e) \in JobState \cup {"Absent"}
         /\ jobs[j].state \notin ActiveState =>
               restored_state(jobs[j], j, e) = jobs[j].state
         /\ restored_state(jobs[j], j, e) \in ActiveState =>
               /\ jobs[j].state \in ActiveState
               /\ restored_state(jobs[j], j, e) = "RecoveryRequired"
               /\ jobs[j].epoch = e
  BY DEF restored_state, JobState, ActiveState, TerminalState, JobMap, Job
<1>2. /\ after \in JobMap
      /\ \A j \in JobIds :
            /\ after[j].state = restored_state(jobs[j], j, e)
            /\ after[j].epoch = jobs[j].epoch
            /\ after[j].state = "RecoveryRequired" => after[j].recovery
  BY <1>1 DEF Restored, JobMap, Job
<1> HIDE DEF after
<1>3. Active(after) \in SUBSET Active(jobs) /\ Preparations(after) = {}
  BY <1>1, <1>2 DEF Active, Preparations, ActiveState, TerminalState, JobState
<1>4. active_count(after) <= MaxActiveJobs
  <2>1. /\ active_count(after) \in Nat /\ active_count(jobs) \in Nat
        /\ active_count(after) <= active_count(jobs)
    BY <1>3, SubsetCount, Active(jobs) \in SUBSET JobIds DEF active_count, Active
  <2> QED
    BY <2>1, JobModelAssumption DEF WithinLimits
<1>5. preparation_count(after) <= MaxPreparations
  BY <1>3, FS_EmptySet, JobModelAssumption DEF preparation_count
<1>6. WritersExclude(after)
  BY <1>3 DEF WritersExclude
<1>7. \A j \in JobIds : is_terminal(jobs[j].state) => after[j].state = jobs[j].state
  BY <1>1, <1>2, StatesDisjoint DEF is_terminal
<1> QED
  BY <1>1, <1>2, <1>4, <1>5, <1>6, <1>7 DEF after, WithinLimits, ActiveState
=============================================================================
