--------------------------- MODULE FileTransaction ---------------------------
(***************************************************************************)
(* MutationPlan and its recovery journal (crates/hi-tools/src/             *)
(* transaction.rs): a batch of file changes is staged beside its targets,  *)
(* announced in a journal, moved into place with backup renames, sealed by *)
(* rewriting the journal, and cleaned up.  An error rolls it back; a crash *)
(* leaves a journal that the next process of the workspace rolls back or   *)
(* cleans up before it plans anything itself.                              *)
(*                                                                         *)
(* Every action is one file-system call (or a read-only group of them), so *)
(* that a crash falls between any two.  A crash is the death of the        *)
(* process: what was renamed stays renamed.  One process uses the          *)
(* workspace at a time; process numbers stand for process identifiers that *)
(* are not reused.                                                         *)
(*                                                                         *)
(* Left out: changes that change nothing, file modes, symlinks and         *)
(* directory trees (a Content is whatever read_node compares), created     *)
(* parent directories, the journal directory, active_index (written, never *)
(* read), and the plans that new_with_state refuses for the form of their  *)
(* paths or modes.                                                         *)
(***************************************************************************)
EXTENDS Naturals

CONSTANTS
    Txns,          \* transaction identifiers, each used once
    NoTxn,         \* no transaction
    NumFiles,      \* number of paths; a batch lists its changes in this order
    Absent,        \* no file at this path
    Original,      \* what the files hold at first
    Edited,        \* what the user's editor saves
    Initial,       \* the files of the workspace at first
    MaxProcesses,  \* bound on the processes that use the workspace in turn
    MaxEdits,      \* bound on the editor's saves
    SyncMayFail,   \* a journal write may fail after its rename took effect
    RollbackMayFail, \* a step of a rollback may fail
    EditCreated,   \* the editor may create a file that the batch creates too
    EditInDoubt    \* the editor may save a file that a commit is moving, or that
                   \* an interrupted commit waits to put back

Files == 1 .. NumFiles
Contents == {Absent, Original, Edited} \cup Txns
Image == [Files -> Contents]

ASSUME FileTransactionAssumption ==
    /\ NumFiles \in Nat \ {0}
    /\ MaxProcesses \in Nat
    /\ MaxEdits \in Nat
    /\ SyncMayFail \in BOOLEAN
    /\ RollbackMayFail \in BOOLEAN
    /\ EditCreated \in BOOLEAN
    /\ EditInDoubt \in BOOLEAN
    /\ {Absent, Original, Edited, NoTxn} \cap Txns = {}
    /\ Absent # Original /\ Absent # Edited
    /\ Initial \in Image

\* The journal of one transaction: owner_pid, phase, and of every entry
\* whether it has a stage and whether it has a backup (before_exists).
NoJournal == [phase |-> "none", owner |-> 0, staged |-> {}, backed |-> {}]
Journal ==
    [phase : {"Prepared", "Committing", "Committed"},
     owner : 1 .. MaxProcesses,
     staged : SUBSET Files,
     backed : SUBSET Files] \cup {NoJournal}

Nowhere == [f \in Files |-> Absent]
NoPlan == [before |-> Nowhere, after |-> Nowhere]

VARIABLES
    target,    \* the files of the workspace
    stage,     \* the staged postimages, per transaction and path
    backup,    \* the preimages moved aside, per transaction and path
    journal,   \* the recovery journal of every transaction
    process,   \* the process that uses the workspace, or used it last
    pc,        \* where that process is; "down" when there is none
    txn,       \* the transaction it commits, or recovers
    index,     \* the entry it is at
    todo,      \* the journals recover_pending has still to look at
    resume,    \* where recover_pending returns to
    errored,   \* rollback collected an error
    plan,      \* before and after of the transaction in hand, unsealed
    outcome,   \* of every transaction: not planned yet, tried, or sealed
    edits      \* how often the editor has saved

vars == <<target, stage, backup, journal, process, pc, txn, index, todo, resume,
          errored, plan, outcome, edits>>

TypeOK ==
    /\ target \in Image
    /\ stage \in [Txns -> Image]
    /\ backup \in [Txns -> Image]
    /\ journal \in [Txns -> Journal]
    /\ process \in 0 .. MaxProcesses
    /\ pc \in {"down", "recover", "idle", "plan", "commit", "stage", "prepare", "mark",
               "verify", "backup", "install", "seal", "clean", "undo", "restore", "unstage"}
    /\ txn \in Txns \cup {NoTxn}
    /\ index \in 0 .. NumFiles
    /\ todo \in SUBSET Txns
    /\ resume \in {"idle", "plan"}
    /\ errored \in BOOLEAN
    /\ plan \in [before : Image, after : Image]
    /\ outcome \in [Txns -> {"new", "tried", "sealed"}]
    /\ edits \in 0 .. MaxEdits

Init ==
    /\ target = Initial
    /\ stage = [t \in Txns |-> Nowhere]
    /\ backup = [t \in Txns |-> Nowhere]
    /\ journal = [t \in Txns |-> NoJournal]
    /\ process = 0
    /\ pc = "down"
    /\ txn = NoTxn
    /\ index = 0
    /\ todo = {}
    /\ resume = "idle"
    /\ errored = FALSE
    /\ plan = NoPlan
    /\ outcome = [t \in Txns |-> "new"]
    /\ edits = 0

-----------------------------------------------------------------------------
(* The file system.                                                        *)

\* The changes that are actionable, and those whose journal entries carry a
\* stage, and a backup.
Actionable == {f \in Files : plan.before[f] # plan.after[f]}
Staged == {f \in Actionable : plan.after[f] # Absent}
Backed == {f \in Actionable : plan.before[f] # Absent}

process_is_alive(t) == journal[t].owner = process

verify_preimage == \A f \in Actionable : target[f] = plan.before[f]

\* How write_journal can end.  "unsynced": the new journal is in place, but
\* syncing its directory failed and the caller sees an error.
JournalWrite == {"ok", "failed"} \cup (IF SyncMayFail THEN {"unsynced"} ELSE {})

write_journal(t, phase, o) ==
    journal' = IF o = "failed"
               THEN journal
               ELSE [journal EXCEPT ![t] = [phase |-> phase, owner |-> process,
                                            staged |-> Staged, backed |-> Backed]]

\* commit and recover_pending return to their caller.
Return ==
    /\ txn' = NoTxn
    /\ index' = 0
    /\ errored' = FALSE
    /\ plan' = NoPlan
    /\ UNCHANGED <<resume, todo>>

\* cleanup_prepared_entries, and the error is returned: the targets were not
\* touched.  A stage that cannot be removed is never looked at again.
AbandonStages(t) ==
    /\ stage' = [stage EXCEPT ![t] = Nowhere]
    /\ pc' = "idle"
    /\ Return

Goto(p, i) ==
    /\ pc' = p
    /\ index' = i
    /\ UNCHANGED <<txn, errored, resume, todo, plan>>

-----------------------------------------------------------------------------
(* Recovery and planning.                                                  *)

\* A process opens the workspace: recover_workspace_transactions.
Start ==
    /\ pc = "down"
    /\ process < MaxProcesses
    /\ process' = process + 1
    /\ todo' = {t \in Txns : journal[t] # NoJournal}
    /\ pc' = "recover"
    /\ resume' = "idle"
    /\ UNCHANGED <<target, stage, backup, journal, txn, index, errored, plan, outcome, edits>>

\* new_with_state recovers before it reads any preimage.
NewPlan ==
    /\ pc = "idle"
    /\ \E t \in Txns : outcome[t] = "new"
    /\ todo' = {t \in Txns : journal[t] # NoJournal}
    /\ pc' = "recover"
    /\ resume' = "plan"
    /\ UNCHANGED <<target, stage, backup, journal, process, txn, index, errored, plan, outcome, edits>>

\* Mutant of recover_pending: a committing transaction is only cleaned up.
recover_pending_forward(t) ==
    /\ pc = "recover"
    /\ t \in todo
    /\ todo' = todo \ {t}
    /\ IF process_is_alive(t)
       THEN UNCHANGED <<pc, txn, index>>
       ELSE /\ txn' = t
            /\ pc' = "clean"
            /\ index' = 1
    /\ UNCHANGED <<target, stage, backup, journal, process, resume, errored, plan, outcome, edits>>

\* One journal of the directory.
recover_pending(t) ==
    /\ pc = "recover"
    /\ t \in todo
    /\ todo' = todo \ {t}
    /\ IF process_is_alive(t)
       THEN UNCHANGED <<pc, txn, index>>
       ELSE /\ txn' = t
            /\ IF journal[t].phase = "Committing"
               THEN pc' = "undo" /\ index' = NumFiles
               ELSE pc' = "clean" /\ index' = 1
    /\ UNCHANGED <<target, stage, backup, journal, process, resume, errored, plan, outcome, edits>>

RecoverDone ==
    /\ pc = "recover"
    /\ todo = {}
    /\ pc' = resume
    /\ resume' = "idle"
    /\ UNCHANGED <<target, stage, backup, journal, process, txn, index, todo, errored,
                   plan, outcome, edits>>

\* Every preimage is read and every postimage computed; writes put the
\* transaction's own content, a deletion needs a file.  Or new_with_state
\* refuses (CreateOnly, ExistingOnly, a digest that does not match).
Plan(t, after) ==
    /\ pc = "plan"
    /\ outcome[t] = "new"
    /\ outcome' = [outcome EXCEPT ![t] = "tried"]
    /\ after # target
    /\ plan' = [before |-> target, after |-> after]
    /\ txn' = t
    /\ pc' = "commit"
    /\ UNCHANGED <<target, stage, backup, journal, process, index, todo, resume,
                   errored, edits>>

PlanRefused ==
    /\ pc = "plan"
    /\ pc' = "idle"
    /\ UNCHANGED <<target, stage, backup, journal, process, txn, index, todo, resume,
                   errored, plan, outcome, edits>>

-----------------------------------------------------------------------------
(* commit.                                                                 *)

VerifyFirst ==
    /\ pc = "commit"
    /\ IF verify_preimage
       THEN Goto("stage", 0)
       ELSE pc' = "idle" /\ Return
    /\ UNCHANGED <<target, stage, backup, journal, process, outcome, edits>>

\* The loop that stages the postimages, one file after the other; a crash in
\* the middle of it leaves stages that no journal names.
StageEntries ==
    /\ pc = "stage"
    /\ \/ /\ stage' = [stage EXCEPT ![txn] = [f \in Files |->
                          IF f \in Staged THEN plan.after[f] ELSE Absent]]
          /\ Goto("prepare", 0)
       \/ AbandonStages(txn)
    /\ UNCHANGED <<target, backup, journal, process, outcome, edits>>

Prepare ==
    /\ pc = "prepare"
    /\ \E o \in JournalWrite :
           /\ write_journal(txn, "Prepared", o)
           /\ IF o = "ok"
              THEN Goto("mark", 0) /\ UNCHANGED stage
              ELSE AbandonStages(txn)
    /\ UNCHANGED <<target, backup, process, outcome, edits>>

\* The journal of an abandoned attempt is removed, if that succeeds.
Mark ==
    /\ pc = "mark"
    /\ \/ /\ write_journal(txn, "Committing", "ok")
          /\ Goto("verify", 0)
          /\ UNCHANGED stage
       \/ /\ AbandonStages(txn)
          /\ \/ journal' = [journal EXCEPT ![txn] = NoJournal]
             \/ \E o \in JournalWrite \ {"ok"} : write_journal(txn, "Committing", o)
    /\ UNCHANGED <<target, backup, process, outcome, edits>>

\* Mutant of VerifyAgain: the second comparison is left out.
VerifyAgain_skipped ==
    /\ pc = "verify"
    /\ Goto("backup", 1)
    /\ UNCHANGED <<target, stage, backup, journal, process, outcome, edits>>

VerifyAgain ==
    /\ pc = "verify"
    /\ IF verify_preimage THEN Goto("backup", 1) ELSE Goto("undo", NumFiles)
    /\ UNCHANGED <<target, stage, backup, journal, process, outcome, edits>>

MoveToBackup ==
    /\ pc = "backup"
    /\ \/ IF index \in Backed
          THEN /\ target[index] # Absent
               /\ backup' = [backup EXCEPT ![txn][index] = target[index]]
               /\ target' = [target EXCEPT ![index] = Absent]
               /\ Goto("install", index)
          ELSE UNCHANGED <<target, backup>> /\ Goto("install", index)
       \/ /\ index \in Actionable
          /\ UNCHANGED <<target, backup>>
          /\ Goto("undo", NumFiles)
    /\ UNCHANGED <<stage, journal, process, outcome, edits>>

\* The stage is renamed over the target; the rename, or the sync after it,
\* can fail.
Install ==
    /\ pc = "install"
    /\ \E installed, failed \in BOOLEAN :
           /\ installed \/ failed
           /\ failed => index \in Actionable
           /\ IF installed /\ index \in Staged
              THEN /\ target' = [target EXCEPT ![index] = stage[txn][index]]
                   /\ stage' = [stage EXCEPT ![txn][index] = Absent]
              ELSE UNCHANGED <<target, stage>>
           /\ IF failed
              THEN Goto("undo", NumFiles)
              ELSE IF index < NumFiles THEN Goto("backup", index + 1) ELSE Goto("seal", 0)
    /\ UNCHANGED <<backup, journal, process, outcome, edits>>

\* Mutant of Seal: an error while sealing is reported without a rollback.
Seal_no_rollback ==
    /\ pc = "seal"
    /\ \E o \in JournalWrite :
           /\ write_journal(txn, "Committed", o)
           /\ outcome' = IF o = "ok" THEN [outcome EXCEPT ![txn] = "sealed"] ELSE outcome
           /\ pc' = IF o = "ok" THEN "clean" ELSE "idle"
    /\ index' = 1
    /\ plan' = NoPlan
    /\ UNCHANGED <<target, stage, backup, process, txn, errored, resume, todo, edits>>

Seal ==
    /\ pc = "seal"
    /\ \E o \in JournalWrite :
           /\ write_journal(txn, "Committed", o)
           /\ outcome' = IF o = "ok" THEN [outcome EXCEPT ![txn] = "sealed"] ELSE outcome
           /\ IF o = "ok" THEN pc' = "clean" /\ index' = 1 ELSE pc' = "undo" /\ index' = NumFiles
    /\ plan' = NoPlan
    /\ UNCHANGED <<target, stage, backup, process, txn, errored, resume, todo, edits>>

\* The caller of commit, or recover_pending, goes on.
Finish ==
    /\ pc' = IF process_is_alive(txn) THEN "idle" ELSE "recover"
    /\ Return

\* Mutant of Clean: the loop runs one entry too far.
Clean_off_by_one ==
    /\ pc = "clean"
    /\ stage' = [stage EXCEPT ![txn][index] = Absent]
    /\ backup' = [backup EXCEPT ![txn][index] =
                      IF journal[txn].phase = "Committed" THEN Absent ELSE @]
    /\ IF index <= NumFiles
       THEN Goto("clean", index + 1) /\ UNCHANGED journal
       ELSE /\ \E j \in {NoJournal, journal[txn]} : journal' = [journal EXCEPT ![txn] = j]
            /\ Finish
    /\ UNCHANGED <<target, process, outcome, edits>>

\* Artefacts of a sealed (or, in recovery, of a merely prepared) transaction
\* are removed, then its journal; every error is ignored.
Clean ==
    /\ pc = "clean"
    /\ stage' = [stage EXCEPT ![txn][index] = Absent]
    /\ backup' = [backup EXCEPT ![txn][index] =
                      IF journal[txn].phase = "Committed" THEN Absent ELSE @]
    /\ IF index < NumFiles
       THEN Goto("clean", index + 1) /\ UNCHANGED journal
       ELSE /\ \E j \in {NoJournal, journal[txn]} : journal' = [journal EXCEPT ![txn] = j]
            /\ Finish
    /\ UNCHANGED <<target, process, outcome, edits>>

-----------------------------------------------------------------------------
(* rollback.                                                               *)

RollbackStep == {"ok"} \cup (IF RollbackMayFail THEN {"failed"} ELSE {})

\* The next entry, in reverse order.
Previous(failed) ==
    /\ errored' = (errored \/ failed)
    /\ IF index > 1
       THEN pc' = "undo" /\ index' = index - 1
       ELSE pc' = "unstage" /\ index' = 1
    /\ UNCHANGED <<txn, resume, todo, plan>>

Undo ==
    /\ pc = "undo"
    /\ \E o \in RollbackStep :
           LET remove == target' = IF o = "ok" THEN [target EXCEPT ![index] = Absent] ELSE target
           IN  IF index \in journal[txn].backed /\ backup[txn][index] # Absent
               THEN /\ remove
                    /\ errored' = (errored \/ o = "failed")
                    /\ pc' = "restore"
                    /\ UNCHANGED <<txn, index, resume, todo, plan>>
               ELSE IF /\ index \in journal[txn].staged \ journal[txn].backed
                       /\ stage[txn][index] = Absent
               THEN remove /\ Previous(o = "failed" /\ target[index] # Absent)
               ELSE UNCHANGED target /\ Previous(FALSE)
    /\ UNCHANGED <<stage, backup, journal, process, outcome, edits>>

Restore ==
    /\ pc = "restore"
    /\ \E o \in RollbackStep :
           /\ IF o = "ok"
              THEN /\ target' = [target EXCEPT ![index] = backup[txn][index]]
                   /\ backup' = [backup EXCEPT ![txn][index] = Absent]
              ELSE UNCHANGED <<target, backup>>
           /\ Previous(o = "failed")
    /\ UNCHANGED <<stage, journal, process, outcome, edits>>

\* Without errors the stages and the journal go; with one, everything is kept
\* for the next process.  A recovery that fails refuses the plan.
Unstage ==
    /\ pc = "unstage"
    /\ IF errored
       THEN /\ pc' = "idle"
            /\ Return
            /\ UNCHANGED <<stage, journal>>
       ELSE /\ stage' = [stage EXCEPT ![txn][index] = Absent]
            /\ IF index < NumFiles
               THEN Goto("unstage", index + 1) /\ UNCHANGED journal
               ELSE \E o \in RollbackStep :
                        /\ journal' = IF o = "ok" THEN [journal EXCEPT ![txn] = NoJournal]
                                      ELSE journal
                        /\ IF o = "ok" THEN Finish ELSE pc' = "idle" /\ Return
    /\ UNCHANGED <<target, backup, process, outcome, edits>>

-----------------------------------------------------------------------------
(* The world around.                                                       *)

\* The process ends, at whatever point it is.
Crash ==
    /\ pc # "down"
    /\ process < MaxProcesses
    /\ pc' = "down"
    /\ txn' = NoTxn
    /\ index' = 0
    /\ todo' = {}
    /\ resume' = "idle"
    /\ errored' = FALSE
    /\ plan' = NoPlan
    /\ UNCHANGED <<target, stage, backup, journal, process, outcome, edits>>

\* The transactions that are being committed or were interrupted in it.
Committing == {t \in Txns : journal[t].phase = "Committing"}

\* The transactions whose targets may be on the move: their journal says
\* Committing and they are past their last comparison, or interrupted.
InDoubt ==
    {t \in Committing : ~(pc = "verify" /\ txn = t)}

\* The files that a journal lists.
Entries(t) == journal[t].staged \cup journal[t].backed

\* The user saves or deletes a file at any time.  Rollback takes no notice of
\* what it finds at a target: it removes it and puts the backup back.  Whether
\* the user may save the very files that a batch in doubt lists is a constant.
Edit(f, c) ==
    /\ edits < MaxEdits
    /\ EditInDoubt \/ \A t \in InDoubt : f \notin Entries(t)
    /\ EditCreated \/ f \notin Staged \ Backed
    /\ target[f] # c
    /\ target' = [target EXCEPT ![f] = c]
    /\ edits' = edits + 1
    /\ UNCHANGED <<stage, backup, journal, process, pc, txn, index, todo, resume,
                   errored, plan, outcome>>

Step ==
    \/ Start \/ NewPlan \/ RecoverDone \/ PlanRefused
    \/ \E t \in Txns : recover_pending(t)
    \/ \E t \in Txns, after \in [Files -> Contents] :
           (\A f \in Files : after[f] \in {Absent, t, target[f]}) /\ Plan(t, after)
    \/ VerifyFirst \/ StageEntries \/ Prepare \/ Mark \/ VerifyAgain
    \/ MoveToBackup \/ Install \/ Seal \/ Clean
    \/ Undo \/ Restore \/ Unstage

Next ==
    \/ Step
    \/ Crash
    \/ \E f \in Files, c \in {Absent, Edited} : Edit(f, c)

Spec == Init /\ [][Next]_vars

\* A process that is running goes on to its next system call, and the user
\* opens the workspace again.  Nobody has to plan anything.
Fairness == WF_vars(Step)

FairSpec == Spec /\ Fairness

-----------------------------------------------------------------------------
(* Properties.                                                             *)

\* What the workspace holds once the interrupted transaction is rolled back.
RolledBack(t) ==
    [f \in Files |->
        IF f \in journal[t].backed /\ backup[t][f] # Absent THEN backup[t][f]
        ELSE IF f \in journal[t].staged \ journal[t].backed /\ stage[t][f] = Absent
        THEN Absent
        ELSE target[f]]

Restored ==
    IF Committing = {} THEN target ELSE RolledBack(CHOOSE t \in Committing : TRUE)

Atomic == INSTANCE AtomicFiles WITH files <- Restored

\* MutationPlan doc (transaction.rs:230-234): whatever error happens in commit,
\* and wherever in commit, rollback or recovery the process dies, what the
\* workspace holds once it is recovered changes only by whole batches, each
\* applied to the very files it was planned on, and by the user's edits.  It
\* takes a rollback that meets no error, journal writes that fail before their
\* rename, and a user who leaves alone the files of a batch in doubt and those
\* it creates (RollbackMayFail, SyncMayFail, EditInDoubt, EditCreated all
\* FALSE): rollback would remove such an edit (transaction.rs:1003-1018).
ImplementsAtomicFiles == Atomic!Spec

\* rollback keeps the journal as the only map from backups to targets
\* (transaction.rs:1036-1038): a preimage moved aside is never left behind
\* without a journal that leads back to it, unless its batch was sealed.
NoPreimageStranded ==
    \A t \in Txns : \A f \in Files :
        backup[t][f] # Absent =>
            \/ outcome[t] = "sealed"
            \/ journal[t].phase = "Committing" /\ f \in journal[t].backed

\* recover_workspace_transactions runs when a workspace is opened and before
\* every plan: an interrupted commit does not stay in doubt for ever.
DoubtResolved ==
    \A t \in Txns : (journal[t].phase = "Committing") ~> (journal[t].phase # "Committing")

\* The comment on a failed seal (transaction.rs:636-637), "The durable state
\* still says `committing`": whenever a batch is being rolled back, a crash
\* would find a journal that says so.  The code does not guarantee it.
RollbackIsJournaled ==
    pc \in {"undo", "restore"} => journal[txn].phase = "Committing"
=============================================================================
