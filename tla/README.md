# Workspace coordination in hi: TLA+ models, checks and proofs

`hi` is a coding agent. Its turns, tools, background processes and detached
write agents all change one workspace, and its documentation
(`docs/harness-v2.md`) puts one rule above the rest: a result is not successful
until its workspace effects and its transcript record have reached a known
settlement state. The code behind that rule is a small number of state machines
shared by many asynchronous callers and resumed by later processes. This project
models them, from the job table up to the control journal and down to the renames
that put a batch of files in place, checks the models with TLC and proves their
safety with TLAPS: every invariant, every action property and every refinement
that a passing run checks is also a theorem. A last model follows a request to
the model providers, which is the other place where callers compete.

Paths below are relative to `crates/`.

## 1. Inventory

### The parts that carry the rule

| Part | State | Operations | Callers and neighbours |
|---|---|---|---|
| Job registry (`hi-workspace/src/job_registry*.rs`, `model.rs`) | table of jobs (state, epoch, recovery identity, revision), limits, a watch channel | `register`, `register_running`, `transition`, `seal`, `request_cancel`, `append_output`, `reconcile_recovery`, `restore`, `wait` | owned by both controllers; supervisors, cancel commands and waiters call it concurrently |
| Workspace contract (`hi-workspace/src/controller.rs`) | a permit per mutation, claimed once or abandoned by `Drop` | the `WorkspaceController` trait | every host talks to this trait only |
| In-memory controller (`hi-workspace/src/in_memory*.rs`) | status, active operation, recovery records, registry, epoch, one mutex | `begin`, `settle`, permit drop, `register_job`, `seal_job`, `reconcile`, `require_recovery`, `rebind` | the controller of local sessions |
| PipeFS controller (`hi-pipefs/src/controller*.rs`) | the same, plus evidence of a pending checkpoint | the same, with awaits on the server between critical sections; a lease monitor task | shares its status with the monitor; its bytes with `PipeFsWorkspace` |
| PipeFS workspace (`hi-pipefs/src/workspace.rs`) | phase, lease, dirty and lease-lost markers, checkpoints, archives | `update_lease`, `mark_dirty`, checkpoint, `mark_lease_lost` | called by the PipeFS controller |
| Journaled decorator (`hi-control/src/workspace_journal*.rs`) | journal health, a publication fence for the operation and for each job, a bounded writer queue | wraps every trait method | wraps either controller; runs `settle`, `register_job` and `seal_job` as owned tasks |
| Restart reconciliation (`hi-control/src/workspace_restart.rs`) | the persisted jobs, operations and recoveries | `reconcile_jobs_after_restart`, local discard | feeds `require_recovery` / `require_restart_recovery` |
| File transactions (`hi-tools/src/transaction.rs`) | stages, backups and a journal file per batch, beside the targets | `MutationPlan::new_with_state`, `commit`, `rollback`, `recover_pending` | the file tools; every process that opens the workspace; the user's editor shares the files |
| Provider requests (`hi-ai/src/concurrency.rs`, `fallback.rs`, `circuit_breaker.rs`) | slots and an adaptive limit, a breaker per backend | `acquire`, `record_result`, permit drop, `check`, `record`, the chain of `stream` | foreground turns and auxiliary requests, each cancelled by dropping its future |

The controllers, the decorator and the restart pass are exported libraries: at
this commit only tests construct them, and the decorator is the only code that
calls a controller. The limiter and the fallback chain are library code of
`hi-ai`. The models take the callers as free choices.

What is hard here: callers of the registry interleave between its short
critical sections; `begin`, `settle` and `reconcile` of the PipeFS controller
read, await and write back; the lease can be doubted or lost at any await; a
permit can vanish with a cancelled future; two jobs or an operation and a job
may need recovery together; a restart finds what the last process left; a commit
of the journal may be applied although its caller was told that it failed; a
process may die between any two renames of a batch, or of its rollback; the
limit of a provider moves under the requests it has admitted.

What makes each part correct:

* registry: the limits and the exclusion of live writers hold at every instant;
  nothing of an old epoch is alive; what waits for recovery can be recovered; a
  failed admission leaves nothing behind; what has ended does not change; no
  waiter sleeps through what it waits for;
* controllers: one mutation at a time and never through a fence; every admitted
  mutation ends exactly once, and one that does not settle ends behind a fence;
  a fence names something that `reconcile` can resolve and goes away only with
  the last of them; no foreign writer runs beside a mutation (a local process
  may, the code allows it);
* journal and restart: an effect is never reported settled without its record,
  and a restart rebuilds the fences whatever it interrupted;
* file transactions: a batch happens whole or not at all, on the files it was
  planned on, and no preimage is lost;
* providers: reserved slots stay reserved, every request ends, usage is never
  dropped, and a backend that recovers is used again.

### The rest of the repository

The workflow engine (`hi-workflow`), the sentinel supervisor (`hi-sentinel`,
`hi-liveness`), the control store (`hi-control/src/lib.rs`) and the agent
runtime (`hi-agent-runtime`) keep state of their own and are independent of the
workspace core. The harness, the terminal UI, the tools and the command line
call the controllers. Providers, remote clients, parsers, diff algorithms, the
RSI control plane, evaluation and support crates are I/O, text processing or
validation of records. `PROJECT.json` lists them all, with the reason for each
that is not modelled, and it lists the hazards of the code by line. Of some
260 000 lines of Rust the models cover the few thousand that decide about shared
and persistent state.

## 2. Modules

```
JobModel ──────────────┬── JobRegistry ──────────── MCJobRegistry
   │                   ├── InMemoryController ───── MCInMemoryController
   │                   └── PipeFsController ─────── MCPipeFsController
   │                          │ both INSTANCE WorkspaceContract
JobModelProofs ────────┬── JobRegistryProofs
                       └── InMemoryControllerProofs
PipeFsControllerProofs

JournaledController ── JournalRestart ───────────── MCJournalRestart
                          └── JournalRestartProofs
FileTransaction ─────────────────────────────────── MCFileTransaction
   │ INSTANCE AtomicFiles  └── FileTransactionProofs
ProviderRequests ────────────────────────────────── MCProviderRequests
                          └── ProviderRequestsProofs
```

* **JobModel**: the vocabulary of a job (kind, effect scope, lifecycle states,
  `can_transition_to`) and the functions of the job map that the registry's
  methods are made of: registration, a lifecycle move, the two limits, the
  conflict of live writers, what a restart makes of a job. The operators take
  the job map as an argument, so the registry and both controllers use the same
  definitions.
* **JobRegistry**: one action per critical section. `register_running` is a
  registration, two transitions and the seal of its error path;
  `request_cancel` is a reading and a transition; `wait` is a subscription, a
  status read and a sleep with a wake-up flag (`unseen`) as the tokio watch
  channel has. `restore` is the end of the process and the start of the next
  one under the same or a later epoch. A revision is kept only as far as a
  waiter can tell (`newer`).
* **WorkspaceContract**: the abstract specification of the trait: `Admit`,
  `Settle`, `Abandon`, `Fence`, `Lift` over who holds the workspace, which
  operations ended with a definite settlement, which ended in any other way, and
  whether admission is closed. The two endings are told apart by the outcome of
  the operation, not by the state they leave: an operation that is dropped, fails
  or stays indeterminate has no ending but `Abandon`, which fences, so a
  controller that went back to `Ready` after it would not be an implementation.
  Both controllers keep the outcome in their own state (`permit` and `pc`), where
  the code's branch decides it.
* **InMemoryController**: one action per method, since every method holds the
  mutex throughout. `permit` follows the `MutationPermit` value; `recoveries` is
  a record per cause. The registry's steps are composed into the action that
  calls them.
* **PipeFsController**: one action per critical section or per await whose
  outcome the code branches on. `pc[o]` is where the calls of operation `o` are;
  `calls[j]` which job calls are between two of their locks; `monitor` where the
  lease monitor is; `lease` and `unseen` what the session has published and the
  monitor has not read; `phase` whether the workspace refuses as lost. The
  server answers as it likes. All labels of a fenced state are one value, because
  no code branches on them.
* **JournaledController**: the decorator, over an inner controller reduced to
  what its answers are (who is admitted, which recoveries are open, the version
  of the binding). Of the inner controller only the contract is used that both
  implement: it admits one operation at a time. An open record does not keep it
  closed, since that is not so (the run `local_fence_lifted`). On PipeFS the lease
  monitor may take the place of the active operation at any moment (`FenceLost`);
  its `settle` is then answered `Incompatible` without a recovery, and the journal
  calls it Failed (`ClaimPermit`, `SettlementRow`). A settlement may also be
  indeterminate although its bytes have landed. Recoveries have four kinds of
  identifier: the stable one of the restart pass, the ones the inner controller
  makes up for a settlement or a job, the one of a job whose publication failed
  (`JournalRecovery`), and the one of an operation that was given up before it had
  an execution (`Inert`), which PipeFS never recovers.
  `op_pc` and `job_pc` say between which two awaits a call is;
  `op_row`, `job_row`, `rec_row` are the tables of the journal, `unlinked` the
  recoveries recorded without an operation or a job, whose link the store later
  refuses to change. `Required` stands for every status of a recovery that is not
  decided, and `reported` keeps only the answers that claim a publication. A
  closure handed to the writer is one step; the two that
  commit several rows (`work`) take one step per commit. A commit is applied,
  fails, or is applied and its acknowledgement lost.
* **JournalRestart**: extends it with the death of the process at any point, the
  pass of `reconcile_jobs_after_restart` commit by commit, the report that fences
  the next inner controller, and `discard_local_restart_recovery`.
* **AtomicFiles**: what `MutationPlan` promises: a batch is planned on what it
  saw and applied whole to exactly that, or dropped.
* **FileTransaction**: one action per file-system call of `commit`, `rollback`
  and `recover_pending`. `target`, `stage` and `backup` are the files, `journal`
  the recovery journal of each batch, `process` stands for the process
  identifiers by which recovery tells a live owner from a dead one. The
  refinement maps the files to what recovery would make of them now
  (`Restored`): a batch takes effect when its seal replaces the journal.
* **ProviderRequests**: the limiter, the chain and the breakers composed, one
  action from await to await. `woken` is the set of `Notified` futures that
  `notify_waiters` has reached. The limit adapts or stays, as configured. An
  answer is a class, in which the explicit retry contract of an error is folded:
  a rate limit that must not be retried (`quota`) throttles the limiter but
  touches neither breaker nor chain. Cool-downs, probe time-outs and the age of the
  breaker's samples are free choices.

Three facts about the callers are built in. `settle` is not cancelled halfway,
because the journaled decorator, the only code that calls it, runs it as an
owned task (`hi-control/src/workspace_journal.rs:382`). The same job is not
sealed twice at once, because the decorator rejects a second seal while one is
pending (`workspace_journal_job.rs:102`; `SealJob` of JournaledController).
Restart records are added before the controller is in use.

## 3. Runs

| Run | Instance | Question |
|---|---|---|
| `jobs_admission` | two candidates, one reader; one preparation slot, two places | do the limits hold, does a failed admission end its job, does an ended job stay ended, with every interleaving of the three critical sections of `register_running`? |
| `jobs_restart` | a local process and a hook, both live writers; a canceller; two epochs | do writers exclude each other, do restarts leave only inert or recoverable jobs, does a stale cancellation respect the handshake? |
| `jobs_waiting` | one candidate, a canceller, a waiter, with fairness | is a wake-up ever lost; does `wait` return? |
| `local` | a mutation and a reconciliation, a hook and two candidates of the mutation, one slot, two places, a seeded record, one rebind | permits, fences, writers, the published job list, promotion of records, and refinement of the contract |
| `pipefs` | two operations, one reconciler, a candidate and a refused live writer, the two kinds of restart record, causal mode | one mutation at a time, no stranded mutation, records of displaced operations, no reopening of a fence, restart fences, jobs that can be addressed, and refinement of the contract, with the lease changing freely |
| `journal` | two operations, or an operation and a job of each kind, both policies, one commit that fails or loses its acknowledgement, two crashes, leases lost under the active operation (1.4 million states) | is what was published recorded, does the restart pass account for every effect wherever the processes before it died, are decisions written before the lifecycles they end, and resolutions last? |
| `file_transaction` | two batches, two paths (one file present, one absent), three processes in turn, one edit, with fairness | is a batch atomic across errors and crashes (refinement of AtomicFiles), can every preimage be found, is an interrupted commit resolved? |
| `provider` | three requests in four configurations (two backends and two slots; one backend and three slots; auxiliary requests only; a limit that does not adapt), with fairness | are reserved slots kept while the limit moves, is a waiter forgotten, does every request end, is usage carried, is a backend ever locked out? |

Four runs expect a violation; each states what a document or a comment says and
exhibits the behaviour of the code that disagrees:

| Run | What happens |
|---|---|
| `local_fence_lifted` | a hook of a running mutation is sealed as crashed and fences the workspace; when the mutation settles, `settle` writes `Ready` although the record is unresolved |
| `pipefs_lost_lease_reopened` | one operation and no candidate: the lease is lost while a commit that has already landed is being acknowledged; `fence_lost` takes the operation's place and records the loss, then `settle` writes `Ready` over it, and the record stays unresolved without a fence |
| `journal_admission_open` | a PipeFS `begin` looks at the journal's health before its await; another commit fails meanwhile (in the trace the outcome of reconciling the record of a lost lease), the closure that would record the admission skips it, and the permit is returned |
| `file_seal_unsynced` | the seal's rename takes effect, the directory sync after it fails, and the rollback runs under a journal that says Committed; a crash in it makes recovery delete the backups |

The invariants that do hold are stated so that these behaviours are visible and
not excluded: `FenceOutlivesOneResolution`, for example, is about a controller
without a mutation in progress, and `EffectsAccounted` about the operations whose
admission was recorded (the others are in `bare`). `EffectsAccounted` and
`FailedOnlyOnDecision` name one exception each, the same: a PipeFS operation
whose place the lease monitor took (`stale`) ends as Failed in the journal with no
recovery and no decision (`workspace_projection.rs:609`,
`workspace_journal.rs:553-580`), and a restart finds nothing of it there; the
marker that `mark_lease_lost` left in the PipeFS workspace is what remains. The
documents of the repository do not speak of that case, so it is a hazard and not
a finding; that there is no other way to an undecided Failed is what the two
properties say.

Two more behaviours were met while modelling and are described under their
hazards: a `begin` of the PipeFS controller lifts a doubt that is younger than
its proof of the lease (`controller.rs:406`), and a job sealed as crashed a
second time while its first recovery is resolved leaves a fence that names a
resolved record (`controller_state.rs:231`).

**Bounds.** Two operations are the least for which one can be admitted in place
of the other, and no step looks at more than two. Three jobs for two places and
two candidates for one slot put both limits at their boundary. Two epochs give
a job of the current and of an earlier epoch. An identifier is used once, as in
the code, where it is a fresh UUID; TLC therefore reaches the end of every
behaviour, and every model but the registry stops there (`CHECK_DEADLOCK FALSE`;
the registry can always be restored). In the journal one failed commit and two
crashes are the least for which a crash falls into the pass that cleans up after
a failure and a crash. Of the process after the last crash only the pass is
followed (what comes after a pass is seen in the process before it). A second
failure only leads to a journal that has already failed. In a file transaction three processes let one die in a commit and the
next one in the recovery of it, two paths give a batch that is half moved, and
one present and one absent file give every kind of entry (replace, delete,
create). In the provider run the sample minimum, the recovery streak and the
probes of a breaker are one, so that every transition is reached with three
requests; the third configuration has only auxiliary requests, which is what
could fill the reserved slot. What small bounds cannot show is proved for all
values where there are proofs. Symmetry is used for the two candidates
of `local`, which have the same specification and parent, and for the two
operations of `journal`; elsewhere the identifiers differ in what they stand
for, or there is a liveness property.

**Premises of `file_transaction`.** Four constants are FALSE in the passing run
and TRUE in `file_seal_unsynced`. `SyncMayFail`: a journal write may fail after
its rename, which breaks the promise (the violation above). `RollbackMayFail`: a
step of a rollback fails in a living process; the code then keeps everything and
reports the journal's path, and the batch stays in doubt until the next process.
`EditInDoubt`: the user saves a file that a commit is moving or that an
interrupted commit waits to put back; rollback removes what it finds at the
target before it restores the backup (`transaction.rs:1003-1009`), so the edit is
lost. `EditCreated`: the user creates the very file that a batch in hand is about
to create; a rollback would remove it. With one of the last three TRUE, TLC
refutes `ImplementsAtomicFiles`, with the first `NoPreimageStranded`; other files
may be edited at any time, also while a batch is in doubt.

**Fairness.** `jobs_waiting`: weak fairness of a waiting task; it is a tokio task,
and a task that has been woken is polled again. `file_transaction`: weak fairness
of the steps of a process and of the next start, that is, a running process goes
on to its next call and the user opens the workspace again; nobody has to plan a
batch. `provider`: weak fairness of the steps of each request (tasks are polled;
`RequestProgress` ends a stream that makes no progress) and of the two timers.
Cancellers, supervisors, crashes, restarts, the server, the lease and further
requests are never assumed to act.

Every property of a passing run has a mutant in its module: a definition beside
the one it changes, named after it, that makes the mistake a careless edit of
the Rust code would make (a dropped check, an off-by-one limit, a missing
notification, a swapped order). TLC finds the property violated in each.

## 4. Proofs

The theorems hold for every value of the constants: all sets of jobs, operations,
records, batches and requests, every assignment of specifications and parents,
all limits, any number of files, processes, failed commits and crashes. The
assumptions are those named in the modules: `JobModelAssumption` (a non-empty
finite set of jobs, specifications of the right type, positive limits as
`with_limits` demands), `JobRegistryAssumption`, `InMemoryAssumption`,
`PipeFsAssumption` and `NoRecoveryAssumption` (a missing identifier is not an
identifier), `JournalAssumption` and `RestartAssumption` (operations and jobs
are different things), `FileTransactionAssumption` (a batch names at least one
file), `ProviderAssumption` (finitely many requests, and fewer reserved slots
than slots, as `ProviderConcurrencyConfig::validate` demands). Where a theorem
needs a premise about the environment it is part of its statement, as
`OneReconciler`, `~SyncMayFail` and `Reliable` below.

* **JobModelProofs** holds the lemmas on the job map: a legal move activates no
  job, so it keeps the active limit, and it keeps the preparation limit when it
  asks for its slot (`MoveKeeps`); an admitted registration adds one to a count
  that was below its limit and no conflicting writer (`RegisterKeeps`); a
  restart only removes (`RestoreKeeps`); every active state may fail
  (`EveryActiveStateCanFail`).
* **JobRegistryProofs**: the properties are inductive together with
  `AdmissionHoldsFence` (an admission in progress holds a registered job of the
  current epoch). That conjunct is what makes the error path sound: the seal of
  `register_running` can only be refused because the job is already terminal.
  Proved: `TypeOK`, `LimitsHold`, `OneLiveWriter`, `RecoveryIsReconcilable`,
  `StaleEpochInert`, `FailedAdmissionIsTerminal`, `NoLostWakeup`, and the
  action properties `TerminalIsFinal` and `CancelHandshake`.
* **InMemoryControllerProofs**: the invariants of the run are inductive as a
  conjunction, together with `RegistrySound` (the limits, the exclusion of live
  writers and the epoch of active jobs, under the controller's own calls). `OnePermit` ties the permit to the active operation, without
  which a drop could not be told from a late one; `FenceNamesUnresolved` is
  what a promotion restores. Proved: the type invariant and all other
  invariants of the run, `FenceOutlivesOneResolution`, and that every step is a step of
  `WorkspaceContract` or a stutter.
* **PipeFsControllerProofs**: `OneMutationInProgress` is not inductive, because
  the lease monitor takes the active operation away while it is running. Two
  facts carry it: `DisplacedIsFenced` (a displaced operation has left an
  unresolved lease record and a fence) and `ExclusiveIsFenced` (the records that
  `reconcile` may replay only exist while nothing is in progress), together with
  `ReplayedIsUnresolved`. They need the premise `OneReconciler`: two overlapping
  calls of `reconcile` for one record could clear an operation admitted between
  them (`hi-pipefs/src/controller.rs:736`), if the server accepts the second
  replay. Proved under it: the invariants of `pipefs` and the refinement of
  `WorkspaceContract`. `TypeOK` and `RecoverableJobIsRecorded` are proved without
  the premise from an invariant of their own, `JobInv`: a job's record is
  resolved only behind the job's end, and no call revives a job that has ended.

* **ProviderRequestsProofs**: `SlotsBounded` counts, so the proof is about
  cardinalities: `Counted` says that `in_flight` and `auxiliary_in_flight` are the
  numbers of permits that exist, a permit whose release is still a spawned task
  among them. `FloorKept` (the adaptive limit never falls below the productive
  floor) makes the rounding in `acquire` change nothing; if it could raise the
  limit there, it would free a slot without waking anybody. With it
  `NoForgottenWaiter` is inductive, since the other steps that free a slot or
  raise the limit notify all waiters. `UsageCarried` needs `Charged`: the attempts of a request are the
  backends it has left behind, one more while a stream is open, and all but the
  open one are in its usage. Proved: the four invariants of the run.
* **FileTransactionProofs**, in three layers. The types hold with every kind of
  error. `NoPreimageStranded` is proved under `~SyncMayFail` alone, that is, also
  when a rollback fails and when the user edits or creates the files of a batch. It is
  inductive with `Untouched`, `Journaled` (what the process does to a batch is
  what its journal says; `RollbackIsJournaled`, which the run
  `file_seal_unsynced` refutes without the premise, is a part of it) and
  `PassedRestored` (the entries that a rollback has passed hold no preimage,
  unless its error keeps the journal). The refinement of AtomicFiles is proved
  under `Reliable`, the four premises of the passing run. It needs `OneInDoubt`
  (at most one batch is neither undone nor sealed, and where the process is says
  which), `Progress` (how far the two loops of renames are),
  `CreatedAreAbsent` (a file that the batch in doubt creates and still has
  staged is not there yet) and `Undoing` (how far a rollback is). With them a rename, a restored
  backup, a removed stage and the start of a rollback leave what recovery would
  make of the files as it is, so each is a stutter; the seal is the one step that
  applies a batch.
* **JournalRestartProofs**: none of the properties is inductive, because the
  inner controller, the callers, the writer and the pass each know a part. The
  invariant says what the journal cannot contain yet, by where the caller is
  (`OpAhead`); that an operation which the inner controller settled has no
  recovery of its own there (`OpSettled`); that an operation is known to the inner
  controller by its stable recovery or by one that the journal has linked, not
  both (`OneRecovery`); that the record of a mutation that was given up names no
  operation (`InertUnlinked`); that only PipeFS takes the place of an operation
  away (`KeepsPlace`); that a stable recovery is recorded, and linked, before
  the inner controller hears of it (`StableLinked`); what the writer has done of
  the commits it is in the middle of (`Repairing`, `Resolving`, `Discarding`);
  and that during the pass nothing of the old process is left (`Restarting`).
  `OneRecovery` is what `ResolutionIsLast` rests on: a resolution takes the other
  recoveries of the operation with it, and would take the stable one before the
  operation's row has ended. `EffectsRecorded` and `FailedLinked` (a lifecycle that
  ended as Failed has a linked recovery, or is an operation that lost its place)
  then give `EffectsAccounted` at the end of the pass. Every step is also shown to satisfy
  `StepFacts`, from which the two action properties follow. Proved: `TypeOK`,
  `PublishedIsRecorded`, `EffectsAccounted`, `FailedOnlyOnDecision` and
  `ResolutionIsLast`, under both policies.

Only model-checked: the liveness properties `WaiterReturns`, `DoubtResolved`,
`Served` and `NotLockedOut`, since fairness and `ENABLED` are out of the prover's
reach; and the four violations, which are counterexamples. The inductive
invariants were themselves checked by TLC on the instances of section 3 before
they were proved.

## 5. Not modelled

Within the modelled parts: contents (versions, digests, transcripts, archives,
output bytes, artifacts, messages); `barrier` and the getters, which change
nothing; the job list of the PipeFS status, which no decision reads; the label
of a fenced state; the writer's queue and the death of its thread; jobs of an
earlier epoch in the journal (`Stale`); file modes, symlinks and directory trees
of a batch, two processes that recover one journal at the same time, and process
identifiers that are reused; the retries inside a provider adapter. Outside them,
the components listed as `not_modelled`: most of the repository is rendering,
protocol adapters, parsing, text processing, test harnesses and validation of
records, sequential code over data that a model would have to repeat.
`FileOperationLock` has no caller. Hazards that no property covers have a note
saying why.

## 6. Plan

Done: the job registry, both controllers, their contract and their proofs; the
control journal and its restart pass; file transactions and their abstract
specification; provider requests; and the proofs of all their safety properties.

Next, in this order:

1. Proofs about what the liveness properties rest on: that a process which is
   not idle has a step it can take, as an invariant over the guards.
2. The premises of `controller` calls in section 2 as theorems of a composition
   in which the decorator wraps the PipeFS controller.
3. `PipeFsWorkspace`: phases, markers and checkpoints across crashes, as a
   refinement of what `PipeFsController` assumes of `phase`.
4. Operators for pure code: output truncation (`job_output.rs`) and the
   validation of candidates (`verified_candidate.rs`).

The workflow engine and the sentinel are separate developments of the same
size.
