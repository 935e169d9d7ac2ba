------------------------ MODULE FileTransactionProofs ------------------------
(***************************************************************************)
(* Proofs about FileTransaction, for every set of transactions and number  *)
(* of files and processes: the state keeps its types, no preimage is left  *)
(* without a journal that leads back to it, and the transactions implement *)
(* AtomicFiles.                                                            *)
(***************************************************************************)
EXTENDS FileTransaction, TLAPS

-----------------------------------------------------------------------------
(* Types.                                                                  *)

\* Where the process has a transaction in hand, and where it goes over the
\* entries of one.
InHand == {"commit", "stage", "prepare", "mark", "verify", "backup", "install", "seal",
           "clean", "undo", "restore", "unstage"}
InLoop == {"backup", "install", "clean", "undo", "restore", "unstage"}

Shape ==
    /\ pc # "down" => process # 0
    /\ pc \in InHand => txn \in Txns
    /\ pc \in InLoop => index \in Files

TypeInv == TypeOK /\ Shape

\* One file of one transaction is moved: what is where afterwards.
LEMMA SetCell ==
    ASSUME NEW m \in [Txns -> Image], NEW t \in Txns, NEW f \in Files, NEW c \in Contents
    PROVE  LET n == [m EXCEPT ![t][f] = c] IN
           /\ n \in [Txns -> Image]
           /\ n[t][f] = c
           /\ \A g \in Files \ {f} : n[t][g] = m[t][g]
           /\ \A u \in Txns \ {t} : n[u] = m[u]
BY DEF Image

LEMMA SetFile ==
    ASSUME NEW i \in Image, NEW f \in Files, NEW c \in Contents
    PROVE  LET n == [i EXCEPT ![f] = c] IN
           n \in Image /\ n[f] = c /\ \A g \in Files \ {f} : n[g] = i[g]
BY DEF Image

LEMMA ImageFacts ==
    /\ Absent \in Contents /\ Edited \in Contents
    /\ Nowhere \in Image /\ \A f \in Files : Nowhere[f] = Absent
    /\ NoPlan \in [before : Image, after : Image]
    /\ NoJournal \in Journal
    /\ 1 \in Files /\ NumFiles \in Files /\ NumFiles \in Nat \ {0}
BY FileTransactionAssumption DEF Contents, Nowhere, Image, NoPlan, Journal, Files

\* A journal that write_journal puts in place, or the one that was there.
LEMMA JournalWritten ==
    ASSUME TypeInv, pc # "down", NEW t \in Txns,
           NEW p \in {"Prepared", "Committing", "Committed"}, NEW o, write_journal(t, p, o)
    PROVE  journal' \in [Txns -> Journal]
<1>1. Staged \in SUBSET Files /\ Backed \in SUBSET Files
  BY DEF Staged, Backed, Actionable
<1>2. process \in 1 .. MaxProcesses
  BY FileTransactionAssumption DEF TypeInv, TypeOK, Shape
<1>3. [phase |-> p, owner |-> process, staged |-> Staged, backed |-> Backed] \in Journal
  BY <1>1, <1>2 DEF Journal
<1> QED
  BY <1>3 DEF write_journal, TypeInv, TypeOK

LEMMA RecoverTypes ==
    ASSUME TypeInv,
           \/ Start \/ NewPlan \/ RecoverDone \/ PlanRefused
           \/ \E t \in Txns : recover_pending(t)
           \/ \E t \in Txns, after \in [Files -> Contents] : Plan(t, after)
    PROVE  TypeInv'
<1>0. TypeOK /\ Shape
  BY DEF TypeInv
<1>1. CASE Start
  BY <1>0, <1>1, FileTransactionAssumption DEF Start, TypeInv, TypeOK, Shape, InHand, InLoop
<1>2. CASE NewPlan \/ PlanRefused
  BY <1>0, <1>2 DEF NewPlan, PlanRefused, TypeInv, TypeOK, Shape, InHand, InLoop
<1>3. CASE RecoverDone
  BY <1>0, <1>3 DEF RecoverDone, TypeInv, TypeOK, Shape, InHand, InLoop
<1>4. ASSUME NEW t \in Txns, recover_pending(t) PROVE TypeInv'
  BY <1>0, <1>4, ImageFacts DEF recover_pending, TypeInv, TypeOK, Shape, InHand, InLoop, Files
<1>5. ASSUME NEW t \in Txns, NEW after \in [Files -> Contents], Plan(t, after) PROVE TypeInv'
  BY <1>0, <1>5 DEF Plan, TypeInv, TypeOK, Shape, InHand, InLoop, Image
<1> QED
  BY <1>1, <1>2, <1>3, <1>4, <1>5

\* The locals of commit and recover_pending.
LocalsOK ==
    /\ txn \in Txns \cup {NoTxn}
    /\ index \in 0 .. NumFiles
    /\ todo \in SUBSET Txns
    /\ resume \in {"idle", "plan"}
    /\ errored \in BOOLEAN
    /\ plan \in [before : Image, after : Image]

DiskOK ==
    /\ target \in Image
    /\ stage \in [Txns -> Image]
    /\ backup \in [Txns -> Image]
    /\ journal \in [Txns -> Journal]
    /\ outcome \in [Txns -> {"new", "tried", "sealed"}]

LEMMA ReturnTypes ==
    ASSUME TypeInv, Return
    PROVE  LocalsOK'
<1>1. NoPlan \in [before : Image, after : Image] /\ 0 \in 0 .. NumFiles
  BY ImageFacts
<1>2. /\ txn' = NoTxn /\ index' = 0 /\ errored' = FALSE /\ plan' = NoPlan
      /\ UNCHANGED <<resume, todo>>
  BY DEF Return
<1> QED
  BY <1>1, <1>2 DEF TypeInv, TypeOK, LocalsOK

LEMMA GotoTypes ==
    ASSUME TypeInv, NEW p, NEW i \in 0 .. NumFiles, Goto(p, i)
    PROVE  LocalsOK' /\ pc' = p /\ index' = i /\ txn' = txn
BY DEF TypeInv, TypeOK, Goto, LocalsOK

\* A call returns, or goes on with the entry or the phase that follows.
LEMMA StepTypes ==
    ASSUME TypeInv, LocalsOK', DiskOK', UNCHANGED <<process, edits>>, pc # "down",
           \/ pc' \in {"idle", "recover"}
           \/ pc' \in InHand \ InLoop /\ txn' \in Txns
           \/ pc' \in InLoop /\ txn' \in Txns /\ index' \in Files
    PROVE  TypeInv'
BY DEF TypeInv, TypeOK, Shape, LocalsOK, DiskOK, InHand, InLoop

LEMMA PrepareTypes ==
    ASSUME TypeInv, VerifyFirst \/ StageEntries \/ Prepare \/ Mark \/ VerifyAgain
    PROVE  TypeInv'
<1>0. TypeOK /\ Shape
  BY DEF TypeInv
<1>1. 0 \in 0 .. NumFiles /\ 1 \in 0 .. NumFiles /\ NumFiles \in 0 .. NumFiles
  BY ImageFacts
<1>2. /\ pc \in {"commit", "stage", "prepare", "mark", "verify"} /\ txn \in Txns /\ DiskOK
      /\ UNCHANGED <<target, backup, process, outcome, edits>>
  BY <1>0 DEF VerifyFirst, StageEntries, Prepare, Mark, VerifyAgain, TypeOK, Shape, InHand, DiskOK
<1>3. [stage EXCEPT ![txn] = Nowhere] \in [Txns -> Image]
  BY <1>2, ImageFacts DEF DiskOK
<1>4. CASE VerifyFirst
  <2>1. UNCHANGED <<stage, journal>> /\ (Goto("stage", 0) \/ (pc' = "idle" /\ Return))
    BY <1>4 DEF VerifyFirst
  <2>2. DiskOK'
    BY <1>2, <2>1 DEF DiskOK
  <2> QED
    BY <1>1, <1>2, <2>1, <2>2, ReturnTypes, GotoTypes, StepTypes DEF InHand, InLoop
<1>5. CASE VerifyAgain
  <2>1. UNCHANGED <<stage, journal>> /\ (Goto("backup", 1) \/ Goto("undo", NumFiles))
    BY <1>5 DEF VerifyAgain
  <2>2. DiskOK'
    BY <1>2, <2>1 DEF DiskOK
  <2> QED
    BY <1>1, <1>2, <2>1, <2>2, ImageFacts, GotoTypes, StepTypes DEF InHand, InLoop
<1>6. CASE StageEntries
  <2>1. [f \in Files |-> IF f \in Staged THEN plan.after[f] ELSE Absent] \in Image
    BY <1>0, ImageFacts DEF Image, TypeOK
  <2>2. /\ UNCHANGED journal /\ stage' \in [Txns -> Image]
        /\ Goto("prepare", 0) \/ (pc' = "idle" /\ Return)
    BY <1>2, <1>3, <1>6, <2>1 DEF StageEntries, AbandonStages, DiskOK
  <2>3. DiskOK'
    BY <1>2, <2>2 DEF DiskOK
  <2> QED
    BY <1>1, <1>2, <2>2, <2>3, ReturnTypes, GotoTypes, StepTypes DEF InHand, InLoop
<1>7. CASE Prepare
  <2>1. journal' \in [Txns -> Journal]
    BY <1>2, <1>7, JournalWritten DEF Prepare
  <2>2. /\ stage' \in [Txns -> Image]
        /\ Goto("mark", 0) \/ (pc' = "idle" /\ Return)
    BY <1>2, <1>3, <1>7 DEF Prepare, AbandonStages, DiskOK
  <2>3. DiskOK'
    BY <1>2, <2>1, <2>2 DEF DiskOK
  <2> QED
    BY <1>1, <1>2, <2>2, <2>3, ReturnTypes, GotoTypes, StepTypes DEF InHand, InLoop
<1>8. CASE Mark
  <2>1. journal' \in [Txns -> Journal]
    <3>1. \/ \E o : write_journal(txn, "Committing", o)
          \/ journal' = [journal EXCEPT ![txn] = NoJournal]
      BY <1>8 DEF Mark
    <3>2. CASE \E o : write_journal(txn, "Committing", o)
      BY <1>2, <3>2, JournalWritten
    <3>3. CASE journal' = [journal EXCEPT ![txn] = NoJournal]
      BY <1>2, <3>3, ImageFacts DEF DiskOK
    <3> QED
      BY <3>1, <3>2, <3>3
  <2>2. /\ stage' \in [Txns -> Image]
        /\ Goto("verify", 0) \/ (pc' = "idle" /\ Return)
    BY <1>2, <1>3, <1>8 DEF Mark, AbandonStages, DiskOK
  <2>3. DiskOK'
    BY <1>2, <2>1, <2>2 DEF DiskOK
  <2> QED
    BY <1>1, <1>2, <2>2, <2>3, ReturnTypes, GotoTypes, StepTypes DEF InHand, InLoop
<1> QED
  BY <1>4, <1>5, <1>6, <1>7, <1>8

LEMMA MoveTypes ==
    ASSUME TypeInv, MoveToBackup \/ Install \/ Seal
    PROVE  TypeInv'
<1>0. TypeOK /\ Shape
  BY DEF TypeInv
<1>1. /\ 0 \in 0 .. NumFiles /\ 1 \in 0 .. NumFiles /\ NumFiles \in 0 .. NumFiles
      /\ \A i \in Files : i \in 0 .. NumFiles /\ (i < NumFiles => i + 1 \in Files)
  BY ImageFacts DEF Files
<1>2. /\ pc \in {"backup", "install", "seal"} /\ txn \in Txns /\ DiskOK
      /\ pc # "seal" => index \in Files
      /\ UNCHANGED <<process, edits>>
  BY <1>0 DEF MoveToBackup, Install, Seal, TypeOK, Shape, InHand, InLoop, DiskOK
<1>3. CASE MoveToBackup
  <2>1. /\ index \in Files /\ UNCHANGED <<stage, journal, outcome>>
        /\ Goto("install", index) \/ Goto("undo", NumFiles)
        /\ \/ UNCHANGED <<target, backup>>
           \/ /\ backup' = [backup EXCEPT ![txn][index] = target[index]]
              /\ target' = [target EXCEPT ![index] = Absent]
    BY <1>2, <1>3 DEF MoveToBackup
  <2>2. target[index] \in Contents
    BY <1>2, <2>1 DEF DiskOK, Image
  <2>3. DiskOK'
    BY <1>2, <2>1, <2>2, SetCell, SetFile, ImageFacts DEF DiskOK
  <2> QED
    BY <1>1, <1>2, <2>1, <2>3, ImageFacts, GotoTypes, StepTypes DEF InHand, InLoop
<1>4. CASE Install
  <2>1. /\ index \in Files /\ UNCHANGED <<backup, journal, outcome>>
        /\ \/ Goto("undo", NumFiles)
           \/ index < NumFiles /\ Goto("backup", index + 1)
           \/ Goto("seal", 0)
        /\ \/ UNCHANGED <<target, stage>>
           \/ /\ target' = [target EXCEPT ![index] = stage[txn][index]]
              /\ stage' = [stage EXCEPT ![txn][index] = Absent]
    BY <1>2, <1>4 DEF Install
  <2>2. stage[txn][index] \in Contents
    BY <1>2, <2>1 DEF DiskOK, Image
  <2>3. DiskOK'
    BY <1>2, <2>1, <2>2, SetCell, SetFile, ImageFacts DEF DiskOK
  <2> QED
    BY <1>1, <1>2, <2>1, <2>3, ImageFacts, GotoTypes, StepTypes DEF InHand, InLoop
<1>5. CASE Seal
  <2>1. journal' \in [Txns -> Journal]
    BY <1>2, <1>5, JournalWritten DEF Seal
  <2>2. /\ UNCHANGED <<target, stage, backup, txn, errored, resume, todo>> /\ plan' = NoPlan
        /\ outcome' \in [Txns -> {"new", "tried", "sealed"}]
        /\ (pc' = "clean" /\ index' = 1) \/ (pc' = "undo" /\ index' = NumFiles)
    BY <1>2, <1>5 DEF Seal, DiskOK
  <2>3. DiskOK'
    BY <1>2, <2>1, <2>2 DEF DiskOK
  <2>4. LocalsOK'
    BY <1>0, <1>1, <2>2, ImageFacts DEF TypeOK, LocalsOK
  <2> QED
    BY <1>2, <2>2, <2>3, <2>4, ImageFacts, StepTypes DEF InHand, InLoop
<1> QED
  BY <1>3, <1>4, <1>5

LEMMA RollbackTypes ==
    ASSUME TypeInv, Clean \/ Undo \/ Restore \/ Unstage
    PROVE  TypeInv'
<1>0. TypeOK /\ Shape
  BY DEF TypeInv
<1>1. /\ 1 \in 0 .. NumFiles
      /\ \A i \in Files : /\ i \in 0 .. NumFiles
                          /\ i < NumFiles => i + 1 \in Files
                          /\ i > 1 => i - 1 \in Files
  BY ImageFacts DEF Files
<1>2. /\ pc \in {"clean", "undo", "restore", "unstage"} /\ txn \in Txns /\ index \in Files
      /\ DiskOK /\ UNCHANGED <<process, outcome, edits>>
  BY <1>0 DEF Clean, Undo, Restore, Unstage, TypeOK, Shape, InHand, InLoop, DiskOK
<1>3. [stage EXCEPT ![txn][index] = Absent] \in [Txns -> Image]
  BY <1>2, SetCell, ImageFacts DEF DiskOK
<1>4. [journal EXCEPT ![txn] = NoJournal] \in [Txns -> Journal]
  BY <1>2, ImageFacts DEF DiskOK
<1>5. ASSUME NEW failed \in BOOLEAN, Previous(failed)
      PROVE  LocalsOK' /\ pc' \in InLoop /\ txn' \in Txns /\ index' \in Files
  <2>1. /\ errored' = (errored \/ failed) /\ UNCHANGED <<txn, resume, todo, plan>>
        /\ (pc' = "undo" /\ index > 1 /\ index' = index - 1) \/ (pc' = "unstage" /\ index' = 1)
    BY <1>5 DEF Previous
  <2>2. errored' \in BOOLEAN
    BY <1>0, <2>1 DEF TypeOK
  <2>3. index' \in Files /\ pc' \in InLoop
    BY <1>1, <1>2, <2>1, ImageFacts DEF InLoop
  <2> QED
    BY <1>0, <1>1, <1>2, <2>1, <2>2, <2>3 DEF TypeOK, LocalsOK
<1>6. CASE Clean
  <2> DEFINE left == IF journal[txn].phase = "Committed" THEN Absent ELSE backup[txn][index]
  <2>1. /\ backup' = [backup EXCEPT ![txn][index] = left]
        /\ stage' \in [Txns -> Image] /\ UNCHANGED target
        /\ \/ index < NumFiles /\ Goto("clean", index + 1)
           \/ pc' \in {"idle", "recover"} /\ Return
    BY <1>3, <1>6 DEF Clean, Finish
  <2>2. left \in Contents
    BY <1>2, ImageFacts DEF DiskOK, Image
  <2> HIDE DEF left
  <2>3. backup' \in [Txns -> Image]
    BY <1>2, <2>1, <2>2, SetCell DEF DiskOK
  <2>4. journal' \in [Txns -> Journal]
    BY <1>2, <1>4, <1>6 DEF Clean, DiskOK
  <2>5. DiskOK'
    BY <1>2, <2>1, <2>3, <2>4 DEF DiskOK
  <2> QED
    BY <1>1, <1>2, <2>1, <2>5, ReturnTypes, GotoTypes, StepTypes DEF InHand, InLoop
<1>7. CASE Undo
  <2>1. /\ UNCHANGED <<stage, backup, journal>>
        /\ UNCHANGED target \/ target' = [target EXCEPT ![index] = Absent]
        /\ \/ /\ pc' = "restore" /\ UNCHANGED <<txn, index, resume, todo, plan>>
              /\ errored' \in BOOLEAN
           \/ \E failed \in BOOLEAN : Previous(failed)
    BY <1>0, <1>7 DEF Undo, TypeOK
  <2>2. DiskOK'
    BY <1>2, <2>1, SetFile, ImageFacts DEF DiskOK
  <2>3. CASE /\ pc' = "restore" /\ UNCHANGED <<txn, index, resume, todo, plan>>
             /\ errored' \in BOOLEAN
    <3>1. LocalsOK'
      BY <1>0, <2>3 DEF TypeOK, LocalsOK
    <3> QED
      BY <1>2, <2>2, <2>3, <3>1, StepTypes DEF InHand, InLoop
  <2>4. CASE \E failed \in BOOLEAN : Previous(failed)
    BY <1>2, <1>5, <2>2, <2>4, StepTypes
  <2> QED
    BY <2>1, <2>3, <2>4
<1>8. CASE Restore
  <2>1. /\ UNCHANGED <<stage, journal>> /\ \E failed \in BOOLEAN : Previous(failed)
        /\ \/ UNCHANGED <<target, backup>>
           \/ /\ target' = [target EXCEPT ![index] = backup[txn][index]]
              /\ backup' = [backup EXCEPT ![txn][index] = Absent]
    BY <1>8 DEF Restore
  <2>2. backup[txn][index] \in Contents
    BY <1>2 DEF DiskOK, Image
  <2>3. DiskOK'
    BY <1>2, <2>1, <2>2, SetFile, SetCell, ImageFacts DEF DiskOK
  <2> QED
    BY <1>2, <1>5, <2>1, <2>3, StepTypes
<1>9. CASE Unstage
  <2>1. /\ UNCHANGED <<target, backup>> /\ stage' \in [Txns -> Image]
        /\ journal' \in [Txns -> Journal]
        /\ \/ index < NumFiles /\ Goto("unstage", index + 1)
           \/ pc' \in {"idle", "recover"} /\ Return
    BY <1>2, <1>3, <1>4, <1>9 DEF Unstage, Finish, DiskOK
  <2>2. DiskOK'
    BY <1>2, <2>1 DEF DiskOK
  <2> QED
    BY <1>1, <1>2, <2>1, <2>2, ReturnTypes, GotoTypes, StepTypes DEF InHand, InLoop
<1> QED
  BY <1>6, <1>7, <1>8, <1>9

LEMMA InitTypes ==
    ASSUME Init
    PROVE  TypeInv
<1>1. /\ 0 \in 0 .. NumFiles /\ 0 \in 0 .. MaxProcesses /\ 0 \in 0 .. MaxEdits
      /\ Initial \in Image
  BY FileTransactionAssumption
<1>2. DiskOK
  BY <1>1, ImageFacts DEF Init, DiskOK
<1>3. LocalsOK
  BY <1>1, ImageFacts DEF Init, LocalsOK
<1> QED
  BY <1>1, <1>2, <1>3 DEF Init, TypeInv, TypeOK, LocalsOK, DiskOK, Shape, InHand, InLoop

LEMMA StepKeepsTypes ==
    ASSUME TypeInv, [Next]_vars
    PROVE  TypeInv'
<1>0. TypeOK /\ Shape
  BY DEF TypeInv
<1>1. CASE Step
  BY <1>1, RecoverTypes, PrepareTypes, MoveTypes, RollbackTypes DEF Step
<1>2. CASE Crash
  <2>1. /\ txn' = NoTxn /\ index' = 0 /\ todo' = {} /\ resume' = "idle" /\ errored' = FALSE
        /\ plan' = NoPlan /\ pc' = "down"
        /\ UNCHANGED <<target, stage, backup, journal, process, outcome, edits>>
    BY <1>2 DEF Crash
  <2>2. LocalsOK'
    <3>1. 0 \in 0 .. NumFiles /\ NoPlan \in [before : Image, after : Image]
      BY ImageFacts
    <3> QED
      BY <2>1, <3>1 DEF LocalsOK
  <2> QED
    BY <1>0, <2>1, <2>2 DEF TypeInv, TypeOK, LocalsOK, Shape, InHand, InLoop
<1>3. ASSUME NEW f \in Files, NEW c \in {Absent, Edited}, Edit(f, c) PROVE TypeInv'
  <2>1. target' \in Image
    BY <1>0, <1>3, SetFile, ImageFacts DEF Edit, TypeOK
  <2>2. edits' \in 0 .. MaxEdits
    BY <1>0, <1>3, FileTransactionAssumption DEF Edit, TypeOK
  <2> QED
    BY <1>0, <1>3, <2>1, <2>2 DEF Edit, TypeInv, TypeOK, Shape
<1>4. CASE UNCHANGED vars
  BY <1>0, <1>4 DEF vars, TypeInv, TypeOK, Shape
<1> QED
  BY <1>1, <1>2, <1>3, <1>4 DEF Next

\* In every state: whatever fails, and wherever the process ends.
THEOREM TransactionTypes == Spec => []TypeInv
BY InitTypes, StepKeepsTypes, PTL DEF Spec

\* The files, the journals and the locals of commit and recover_pending keep
\* their types: the loops stay within the entries, and a journal always names
\* the process that wrote it.
THEOREM TransactionTypeOK == Spec => []TypeOK
<1>1. TypeInv => TypeOK
  BY DEF TypeInv
<1> QED
  BY <1>1, TransactionTypes, PTL

-----------------------------------------------------------------------------
(* No preimage is stranded.                                                *)

\* The journal of the transaction that moves files: commit wrote it for the
\* plan it has in hand.
OwnJournal ==
    [phase |-> "Committing", owner |-> process, staged |-> Staged, backed |-> Backed]

\* A transaction that has not touched anything yet.
Untouched ==
    /\ \A t \in Txns : outcome[t] = "new" => journal[t] = NoJournal /\ backup[t] = Nowhere
    /\ pc \in {"commit", "stage", "prepare", "mark"} =>
           outcome[txn] = "tried" /\ backup[txn] = Nowhere

\* What the process does to a transaction is what its journal says.
Journaled ==
    /\ pc \in {"verify", "backup", "install", "seal"} => journal[txn] = OwnJournal
    /\ pc = "clean" => journal[txn].phase # "Committing"
    /\ RollbackIsJournaled

\* The entries that rollback has passed hold no preimage, unless an error
\* keeps the journal.
PassedRestored ==
    /\ pc \in {"undo", "restore"} =>
           \A f \in Files : f > index /\ backup[txn][f] # Absent =>
               errored \/ outcome[txn] = "sealed"
    /\ pc = "unstage" =>
           \A f \in Files : backup[txn][f] # Absent => errored \/ outcome[txn] = "sealed"

StrandInv == TypeInv /\ NoPreimageStranded /\ Untouched /\ Journaled /\ PassedRestored


StrandFacts == NoPreimageStranded /\ Untouched /\ Journaled /\ PassedRestored

\* Where no transaction is in hand, only what is on disk counts.
LEMMA AtRest ==
    ASSUME NoPreimageStranded', pc' \in {"down", "idle", "plan", "recover"},
           \A t \in Txns : outcome'[t] = "new" => journal'[t] = NoJournal /\ backup'[t] = Nowhere
    PROVE  StrandFacts'
BY DEF StrandFacts, Untouched, Journaled, PassedRestored, RollbackIsJournaled

LEMMA QuietKeeps ==
    ASSUME StrandInv, UNCHANGED <<backup, journal, outcome>>,
           pc' \in {"down", "idle", "plan", "recover"}
    PROVE  StrandFacts'
BY AtRest DEF StrandInv, NoPreimageStranded, Untouched

LEMMA RecoverKeeps ==
    ASSUME StrandInv, \/ Start \/ NewPlan \/ RecoverDone \/ PlanRefused \/ Crash
                      \/ \E t \in Txns : recover_pending(t)
    PROVE  StrandFacts'
<1>0. TypeOK /\ NoPreimageStranded /\ Untouched
  BY DEF StrandInv, TypeInv
<1>1. UNCHANGED <<backup, journal, outcome>>
  BY DEF Start, NewPlan, RecoverDone, PlanRefused, Crash, recover_pending
<1>2. CASE Start \/ NewPlan \/ RecoverDone \/ PlanRefused \/ Crash
  <2>1. pc' \in {"down", "idle", "plan", "recover"}
    BY <1>0, <1>2 DEF Start, NewPlan, RecoverDone, PlanRefused, Crash, TypeOK
  <2> QED
    BY <1>1, <2>1, QuietKeeps
<1>3. ASSUME NEW t \in Txns, recover_pending(t) PROVE StrandFacts'
  <2>1. CASE process_is_alive(t)
    <3>1. pc' = "recover"
      BY <1>3, <2>1 DEF recover_pending
    <3> QED
      BY <1>1, <3>1, QuietKeeps
  <2>2. CASE ~process_is_alive(t) /\ journal[t].phase = "Committing"
    <3>1. txn' = t /\ pc' = "undo" /\ index' = NumFiles
      BY <1>3, <2>2 DEF recover_pending
    <3>2. \A f \in Files : ~(f > index')
      BY <3>1, ImageFacts DEF Files
    <3> QED
      BY <1>0, <1>1, <2>2, <3>1, <3>2 DEF StrandFacts, NoPreimageStranded, Untouched,
            Journaled, PassedRestored, RollbackIsJournaled
  <2>3. CASE ~process_is_alive(t) /\ journal[t].phase # "Committing"
    <3>1. txn' = t /\ pc' = "clean"
      BY <1>3, <2>3 DEF recover_pending
    <3> QED
      BY <1>0, <1>1, <2>3, <3>1 DEF StrandFacts, NoPreimageStranded, Untouched, Journaled,
            PassedRestored, RollbackIsJournaled
  <2> QED
    BY <2>1, <2>2, <2>3
<1> QED
  BY <1>2, <1>3

\* Up to the first rename nothing is moved aside.
LEMMA PrepareKeeps ==
    ASSUME StrandInv,
           \/ \E t \in Txns, after \in [Files -> Contents] : Plan(t, after)
           \/ VerifyFirst \/ StageEntries \/ Prepare \/ Mark
    PROVE  StrandFacts'
<1>0. TypeOK /\ Shape /\ NoPreimageStranded /\ Untouched
  BY DEF StrandInv, TypeInv
<1>1. ASSUME NEW t \in Txns, NEW after \in [Files -> Contents], Plan(t, after)
      PROVE  StrandFacts'
  <2>1. /\ outcome[t] = "new" /\ outcome'[t] = "tried" /\ txn' = t /\ pc' = "commit"
        /\ \A u \in Txns \ {t} : outcome'[u] = outcome[u]
        /\ UNCHANGED <<backup, journal>>
    BY <1>0, <1>1 DEF Plan, TypeOK
  <2> QED
    BY <1>0, <2>1 DEF StrandFacts, NoPreimageStranded, Untouched, Journaled, PassedRestored,
          RollbackIsJournaled
<1>2. CASE VerifyFirst \/ StageEntries \/ Prepare \/ Mark
  <2>1. /\ pc \in {"commit", "stage", "prepare", "mark"} /\ UNCHANGED <<backup, outcome>>
        /\ txn \in Txns /\ outcome[txn] = "tried" /\ backup[txn] = Nowhere
    BY <1>0, <1>2 DEF VerifyFirst, StageEntries, Prepare, Mark, Untouched, Shape, InHand
  <2>2. \A t \in Txns \ {txn} : journal'[t] = journal[t]
    BY <1>0, <1>2, <2>1 DEF VerifyFirst, StageEntries, Prepare, Mark, TypeOK, write_journal
  <2>3. NoPreimageStranded'
    BY <1>0, <2>1, <2>2, ImageFacts DEF NoPreimageStranded
  <2>4. \A t \in Txns : outcome'[t] = "new" => journal'[t] = NoJournal /\ backup'[t] = Nowhere
    BY <1>0, <2>1, <2>2 DEF Untouched
  <2>5. CASE pc' = "idle"
    BY <2>3, <2>4, <2>5, AtRest
  <2>6. CASE pc' \in {"stage", "prepare", "mark"} /\ txn' = txn
    BY <2>1, <2>3, <2>4, <2>6 DEF StrandFacts, Untouched, Journaled, PassedRestored,
          RollbackIsJournaled
  <2>7. CASE Mark /\ write_journal(txn, "Committing", "ok") /\ Goto("verify", 0)
    <3>1. /\ journal'[txn] = [phase |-> "Committing", owner |-> process, staged |-> Staged,
                              backed |-> Backed]
          /\ pc' = "verify" /\ txn' = txn /\ UNCHANGED <<process, plan>>
      BY <1>0, <2>1, <2>7 DEF Mark, Goto, write_journal, TypeOK
    <3>2. journal'[txn'] = OwnJournal'
      BY <3>1 DEF OwnJournal, Staged, Backed, Actionable
    <3> QED
      BY <2>3, <2>4, <3>1, <3>2 DEF StrandFacts, Untouched, Journaled, PassedRestored,
            RollbackIsJournaled
  <2> QED
    BY <1>2, <2>5, <2>6, <2>7 DEF VerifyFirst, StageEntries, Prepare, Mark, Goto, AbandonStages
<1> QED
  BY <1>1, <1>2

\* The renames: a preimage is moved aside only under a journal that names it.
LEMMA MoveKeeps ==
    ASSUME StrandInv, ~SyncMayFail, VerifyAgain \/ MoveToBackup \/ Install \/ Seal
    PROVE  StrandFacts'
<1>0. TypeOK /\ Shape /\ NoPreimageStranded /\ Untouched /\ Journaled
  BY DEF StrandInv, TypeInv
<1>1. /\ pc \in {"verify", "backup", "install", "seal"} /\ txn \in Txns /\ txn' = txn
      /\ journal[txn] = OwnJournal /\ journal[txn].phase = "Committing"
      /\ journal[txn].backed = Backed /\ process' = process
      /\ pc \in {"backup", "install"} => index \in Files
  BY <1>0 DEF VerifyAgain, MoveToBackup, Install, Seal, Goto, Shape, InHand, InLoop, Journaled,
        OwnJournal
<1>2. \A f \in Files : ~(f > NumFiles)
  BY ImageFacts DEF Files
<1>3. journal[txn] # NoJournal
  BY <1>1 DEF NoJournal
<1>4. CASE VerifyAgain \/ MoveToBackup \/ Install
  <2>1. /\ UNCHANGED <<journal, outcome, plan>>
        /\ \/ pc' \in {"backup", "install", "seal"}
           \/ pc' = "undo" /\ index' = NumFiles
        /\ OwnJournal' = OwnJournal
    BY <1>1, <1>4 DEF VerifyAgain, MoveToBackup, Install, Goto, OwnJournal, Staged, Backed,
          Actionable
  <2>2. /\ \A t \in Txns \ {txn} : backup'[t] = backup[t]
        /\ \A f \in Files : backup'[txn][f] = backup[txn][f] \/ f \in Backed
    <3>1. CASE UNCHANGED backup
      BY <3>1
    <3>2. CASE /\ index \in Backed /\ pc = "backup"
               /\ backup' = [backup EXCEPT ![txn][index] = target[index]]
      <4>1. index \in Files /\ target[index] \in Contents /\ backup \in [Txns -> Image]
        BY <1>0, <1>1, <3>2 DEF TypeOK, Image
      <4> QED
        BY <1>1, <3>2, <4>1, SetCell
    <3> QED
      BY <1>4, <3>1, <3>2 DEF VerifyAgain, MoveToBackup, Install
  <2>3. NoPreimageStranded'
    BY <1>0, <1>1, <2>1, <2>2 DEF NoPreimageStranded
  <2>4. Untouched'
    BY <1>0, <1>1, <1>3, <2>1, <2>2 DEF Untouched
  <2>5. Journaled'
    BY <1>1, <2>1 DEF Journaled, RollbackIsJournaled
  <2>6. PassedRestored'
    BY <1>2, <2>1 DEF PassedRestored
  <2> QED
    BY <2>3, <2>4, <2>5, <2>6 DEF StrandFacts
<1>5. CASE Seal
  <2>1. PICK o \in JournalWrite :
            /\ write_journal(txn, "Committed", o)
            /\ outcome' = IF o = "ok" THEN [outcome EXCEPT ![txn] = "sealed"] ELSE outcome
            /\ IF o = "ok" THEN pc' = "clean" /\ index' = 1 ELSE pc' = "undo" /\ index' = NumFiles
    BY <1>5 DEF Seal
  <2>2. backup' = backup
    BY <1>5 DEF Seal
  <2>3. CASE o = "ok"
    <3>1. /\ journal'[txn].phase = "Committed" /\ outcome'[txn] = "sealed" /\ pc' = "clean"
          /\ \A t \in Txns \ {txn} : journal'[t] = journal[t] /\ outcome'[t] = outcome[t]
      BY <1>0, <1>1, <2>1, <2>3 DEF write_journal, TypeOK
    <3> QED
      BY <1>0, <1>1, <2>2, <3>1 DEF StrandFacts, NoPreimageStranded, Untouched, Journaled,
            PassedRestored, RollbackIsJournaled
  <2>4. CASE o = "failed"
    <3>1. UNCHANGED <<journal, outcome>> /\ pc' = "undo" /\ index' = NumFiles
      BY <2>1, <2>4 DEF write_journal
    <3> QED
      BY <1>0, <1>1, <1>2, <2>2, <3>1 DEF StrandFacts, NoPreimageStranded, Untouched,
            Journaled, PassedRestored, RollbackIsJournaled
  <2> QED
    BY <2>1, <2>3, <2>4 DEF JournalWrite
<1> QED
  BY <1>4, <1>5

\* The journal goes when no preimage depends on it.
LEMMA CleanKeeps ==
    ASSUME StrandInv, Clean
    PROVE  StrandFacts'
<1>0. TypeOK /\ Shape /\ NoPreimageStranded /\ Untouched /\ Journaled
  BY DEF StrandInv, TypeInv
<1>1. /\ pc = "clean" /\ txn \in Txns /\ index \in Files /\ UNCHANGED outcome
      /\ journal[txn].phase # "Committing"
  BY <1>0 DEF Clean, Shape, InHand, InLoop, Journaled
<1>2. /\ \A t \in Txns \ {txn} : backup'[t] = backup[t] /\ journal'[t] = journal[t]
      /\ \A f \in Files : backup'[txn][f] \in {Absent, backup[txn][f]}
      /\ journal'[txn] \in {NoJournal, journal[txn]}
  <2> DEFINE left == IF journal[txn].phase = "Committed" THEN Absent ELSE backup[txn][index]
  <2>1. backup' = [backup EXCEPT ![txn][index] = left]
    BY DEF Clean
  <2>2. left \in {Absent, backup[txn][index]} /\ left \in Contents
    BY <1>0, <1>1, ImageFacts DEF TypeOK, Image
  <2> HIDE DEF left
  <2>3. backup \in [Txns -> Image] /\ journal \in [Txns -> Journal]
    BY <1>0 DEF TypeOK
  <2>4. /\ backup'[txn][index] = left
        /\ \A g \in Files \ {index} : backup'[txn][g] = backup[txn][g]
        /\ \A t \in Txns \ {txn} : backup'[t] = backup[t]
    BY <1>1, <2>1, <2>2, <2>3, SetCell
  <2>5. /\ \A t \in Txns \ {txn} : journal'[t] = journal[t]
        /\ journal'[txn] \in {NoJournal, journal[txn]}
    BY <1>1, <2>3 DEF Clean
  <2> QED
    BY <2>2, <2>4, <2>5
<1>3. outcome[txn] # "sealed" => \A f \in Files : backup[txn][f] = Absent
  BY <1>0, <1>1 DEF NoPreimageStranded
<1>4. NoPreimageStranded'
  BY <1>0, <1>1, <1>2, <1>3 DEF NoPreimageStranded
<1>5. \A t \in Txns : outcome'[t] = "new" => journal'[t] = NoJournal /\ backup'[t] = Nowhere
  <2>1. ASSUME outcome[txn] = "new" PROVE journal'[txn] = NoJournal /\ backup'[txn] = Nowhere
    <3>1. journal[txn] = NoJournal /\ backup[txn] = Nowhere
      BY <1>0, <1>1, <2>1 DEF Untouched
    <3>2. backup'[txn] \in Image /\ \A f \in Files : backup'[txn][f] = Absent
      BY <1>1, <1>2, <3>1, ImageFacts, StepKeepsTypes DEF StrandInv, Next, Step, TypeInv, TypeOK
    <3>3. backup'[txn] = Nowhere
      BY <3>2 DEF Nowhere, Image
    <3> QED
      BY <1>2, <3>1, <3>3
  <2> QED
    BY <1>0, <1>1, <1>2, <2>1 DEF Untouched
<1>6. CASE pc' \in {"idle", "recover"}
  BY <1>4, <1>5, <1>6, AtRest
<1>7. CASE Goto("clean", index + 1) /\ UNCHANGED journal
  BY <1>1, <1>4, <1>5, <1>7 DEF StrandFacts, Goto, Untouched, Journaled, PassedRestored,
        RollbackIsJournaled
<1> QED
  BY <1>6, <1>7 DEF Clean, Finish

\* Rollback restores every preimage it passes, or remembers an error.
LEMMA RollbackKeeps ==
    ASSUME StrandInv, Undo \/ Restore \/ Unstage
    PROVE  StrandFacts'
<1>0. /\ TypeOK /\ Shape /\ NoPreimageStranded /\ Untouched /\ Journaled /\ PassedRestored
      /\ RollbackIsJournaled
  BY DEF StrandInv, TypeInv, Journaled
<1>1. /\ pc \in {"undo", "restore", "unstage"} /\ txn \in Txns /\ index \in Files
      /\ UNCHANGED outcome
  BY <1>0 DEF Undo, Restore, Unstage, Shape, InHand, InLoop
<1>2. index \in Nat /\ \A f \in Files : f \in Nat /\ f >= 1
  BY <1>1 DEF Files
<1>3. CASE Undo
  <2>1. UNCHANGED <<backup, journal>>
    BY <1>3 DEF Undo
  <2>2. NoPreimageStranded' /\ Untouched'
    BY <1>0, <1>1, <1>3, <2>1 DEF NoPreimageStranded, Untouched, Undo, Previous
  <2>3. journal[txn].phase = "Committing"
    BY <1>0, <1>3 DEF RollbackIsJournaled, Undo
  <2>4. CASE pc' = "restore" /\ UNCHANGED <<txn, index>> /\ (errored => errored')
    BY <1>0, <1>3, <2>1, <2>2, <2>3, <2>4, <1>1 DEF StrandFacts, Journaled, PassedRestored,
          RollbackIsJournaled, Undo
  <2>5. ASSUME NEW failed, Previous(failed),
               ~(index \in journal[txn].backed /\ backup[txn][index] # Absent)
        PROVE  StrandFacts'
    <3>1. backup[txn][index] # Absent => outcome[txn] = "sealed"
      BY <1>0, <1>1, <2>5 DEF NoPreimageStranded
    <3>2. \A f \in Files : f >= index /\ backup[txn][f] # Absent =>
              errored \/ outcome[txn] = "sealed"
      BY <1>0, <1>2, <1>3, <3>1 DEF PassedRestored, Undo
    <3>3. /\ errored => errored'
          /\ txn' = txn
          /\ \/ pc' = "undo" /\ index' = index - 1
             \/ pc' = "unstage" /\ ~(index > 1)
      BY <2>5 DEF Previous
    <3>4. PassedRestored'
      <4>1. \A f \in Files : f >= index /\ backup'[txn][f] # Absent =>
                errored' \/ outcome'[txn] = "sealed"
        BY <1>1, <2>1, <3>2, <3>3
      <4> QED
        BY <1>2, <3>3, <4>1 DEF PassedRestored
    <3>5. Journaled'
      BY <2>1, <2>3, <3>3 DEF Journaled, RollbackIsJournaled
    <3> QED
      BY <2>2, <3>4, <3>5 DEF StrandFacts
  <2> QED
    BY <1>3, <2>4, <2>5 DEF Undo
<1>4. CASE Restore
  <2>1. PICK o \in RollbackStep :
            /\ IF o = "ok"
               THEN backup' = [backup EXCEPT ![txn][index] = Absent]
               ELSE UNCHANGED backup
            /\ Previous(o = "failed")
    BY <1>4 DEF Restore
  <2>2. UNCHANGED journal /\ pc = "restore" /\ journal[txn].phase = "Committing"
    BY <1>0, <1>4 DEF Restore, RollbackIsJournaled
  <2>3. /\ \A t \in Txns \ {txn} : backup'[t] = backup[t]
        /\ \A f \in Files \ {index} : backup'[txn][f] = backup[txn][f]
        /\ backup'[txn][index] # Absent => o # "ok"
        /\ backup'[txn][index] # Absent => backup[txn][index] # Absent
    <3>1. CASE o = "ok"
      <4>1. backup \in [Txns -> Image] /\ Absent \in Contents
        BY <1>0, ImageFacts DEF TypeOK
      <4>2. backup' = [backup EXCEPT ![txn][index] = Absent]
        BY <2>1, <3>1
      <4> QED
        BY <1>1, <4>1, <4>2, SetCell
    <3>2. CASE o # "ok"
      BY <2>1, <3>2
    <3> QED
      BY <3>1, <3>2
  <2>4. /\ errored' = (errored \/ o = "failed") /\ txn' = txn
        /\ \/ pc' = "undo" /\ index' = index - 1
           \/ pc' = "unstage" /\ ~(index > 1)
    BY <2>1 DEF Previous
  <2>5. o = "ok" \/ o = "failed"
    BY DEF RollbackStep
  <2>6. NoPreimageStranded'
    BY <1>0, <1>1, <2>2, <2>3 DEF NoPreimageStranded
  <2>7. Untouched'
    <3>1. journal[txn] # NoJournal
      BY <2>2 DEF NoJournal
    <3> QED
      BY <1>0, <1>1, <2>2, <2>3, <2>4, <3>1 DEF Untouched
  <2>8. Journaled'
    BY <2>2, <2>4 DEF Journaled, RollbackIsJournaled
  <2>9. \A f \in Files : f >= index /\ backup'[txn][f] # Absent =>
            errored' \/ outcome'[txn] = "sealed"
    <3>1. ASSUME NEW f \in Files, f >= index, backup'[txn][f] # Absent
          PROVE  errored' \/ outcome'[txn] = "sealed"
      <4>1. CASE f = index
        BY <2>3, <2>4, <2>5, <3>1, <4>1
      <4>2. CASE f # index
        <5>1. f > index
          BY <1>2, <3>1, <4>2
        <5>2. errored \/ outcome[txn] = "sealed"
          BY <1>0, <2>2, <2>3, <3>1, <4>2, <5>1 DEF PassedRestored
        <5> QED
          BY <1>1, <2>4, <5>2
      <4> QED
        BY <4>1, <4>2
    <3> QED
      BY <3>1
  <2>10. PassedRestored'
    BY <1>2, <2>4, <2>9 DEF PassedRestored
  <2> QED
    BY <2>6, <2>7, <2>8, <2>10 DEF StrandFacts
<1>5. CASE Unstage
  <2>1. /\ UNCHANGED backup /\ pc = "unstage"
        /\ \A t \in Txns \ {txn} : journal'[t] = journal[t]
        /\ \/ journal' = journal
           \/ ~errored /\ journal'[txn] = NoJournal
    BY <1>0, <1>1, <1>5 DEF Unstage, TypeOK
  <2>2. NoPreimageStranded'
    BY <1>0, <1>1, <2>1 DEF NoPreimageStranded, PassedRestored
  <2>3. \A t \in Txns : outcome'[t] = "new" => journal'[t] = NoJournal /\ backup'[t] = Nowhere
    BY <1>0, <1>1, <2>1 DEF Untouched
  <2>4. CASE pc' \in {"idle", "recover"}
    BY <2>2, <2>3, <2>4, AtRest
  <2>5. CASE Goto("unstage", index + 1) /\ UNCHANGED journal
    BY <1>0, <1>1, <2>1, <2>2, <2>3, <2>5 DEF StrandFacts, Goto, Untouched, Journaled,
          PassedRestored, RollbackIsJournaled
  <2> QED
    BY <1>5, <2>4, <2>5 DEF Unstage, Finish
<1> QED
  BY <1>3, <1>4, <1>5

\* The invariant holds whatever the editor does and whichever step of a
\* rollback fails, as long as a journal write that fails leaves the old
\* journal in place.
THEOREM TransactionInvariant == ~SyncMayFail => (Spec => []StrandInv)
<1> SUFFICES ASSUME ~SyncMayFail PROVE Spec => []StrandInv
  OBVIOUS
<1>1. Init => StrandInv
  <2> SUFFICES ASSUME Init PROVE StrandInv
    OBVIOUS
  <2>1. NoPreimageStranded /\ Untouched /\ Journaled /\ PassedRestored
    BY ImageFacts DEF Init, NoPreimageStranded, Untouched, Journaled, PassedRestored,
          RollbackIsJournaled
  <2> QED
    BY <2>1, InitTypes DEF StrandInv
<1>2. ASSUME StrandInv, [Next]_vars PROVE StrandInv'
  <2>1. TypeInv'
    BY <1>2, StepKeepsTypes DEF StrandInv
  <2>2. CASE Step \/ Crash
    <3>1. StrandFacts'
      BY <1>2, <2>2, RecoverKeeps, PrepareKeeps, MoveKeeps, CleanKeeps, RollbackKeeps DEF Step
    <3> QED
      BY <2>1, <3>1 DEF StrandInv, StrandFacts
  <2>3. CASE UNCHANGED vars \/ \E f \in Files, c \in {Absent, Edited} : Edit(f, c)
    <3>1. UNCHANGED <<backup, journal, outcome, process, pc, txn, index, errored, plan>>
      BY <2>3 DEF vars, Edit
    <3> QED
      BY <1>2, <2>1, <3>1 DEF StrandInv, NoPreimageStranded, Untouched, Journaled, PassedRestored,
            RollbackIsJournaled, OwnJournal, Staged, Backed, Actionable
  <2> QED
    BY <1>2, <2>2, <2>3 DEF Next
<1> QED
  BY <1>1, <1>2, PTL DEF Spec

\* A preimage that commit has moved aside is never left behind without the
\* journal that leads back to it, unless its batch was sealed: for every
\* batch, number of files, crash and failing rollback step.
THEOREM TransactionNoPreimageStranded == ~SyncMayFail => (Spec => []NoPreimageStranded)
<1>1. StrandInv => NoPreimageStranded
  BY DEF StrandInv
<1> QED
  BY <1>1, TransactionInvariant, PTL

\* What the comment on a failed seal claims does hold when a failed journal
\* write leaves the old journal in place: a rollback is always journaled.
THEOREM TransactionRollbackIsJournaled == ~SyncMayFail => (Spec => []RollbackIsJournaled)
<1>1. StrandInv => RollbackIsJournaled
  BY DEF StrandInv, Journaled
<1> QED
  BY <1>1, TransactionInvariant, PTL

-----------------------------------------------------------------------------
(* The refinement.                                                         *)

\* At most one transaction is in doubt, and the process has it in hand, or
\* the pass over the journals will come to it.
OneInDoubt ==
    /\ errored = FALSE
    /\ \A t \in Txns : journal[t].owner <= process
    /\ \A t, u \in Committing : t = u
    /\ \A t \in Committing :
           \/ pc = "down"
           \/ t = txn /\ pc \in {"verify", "backup", "install", "seal", "undo", "restore", "unstage"}
           \/ /\ t \in todo /\ pc \in {"recover", "clean"} /\ journal[t].owner # process
              /\ pc = "clean" => journal[txn].owner # process
    /\ pc = "unstage" => journal[txn].phase = "Committing"
    /\ pc \in {"down", "recover", "idle", "plan", "clean"} => plan = NoPlan

\* The staged postimage of an entry.
Postimage(f) == IF f \in Staged THEN plan.after[f] ELSE Absent

\* How an entry of the plan can be: as the plan found it, moved aside, in
\* place.
Ahead(f) ==
    /\ f \in Actionable => target[f] = plan.before[f]
    /\ backup[txn][f] = Absent /\ stage[txn][f] = Postimage(f)
Aside(f) ==
    /\ f \in Actionable => target[f] = Absent
    /\ f \in Backed => backup[txn][f] = plan.before[f]
    /\ stage[txn][f] = Postimage(f)
InPlace(f) ==
    /\ f \in Actionable => target[f] = plan.after[f]
    /\ f \in Backed => backup[txn][f] = plan.before[f]
    /\ stage[txn][f] = Absent

Progress ==
    /\ pc \in {"commit", "stage", "prepare", "mark", "verify"} =>
           \A f \in Staged \ Backed : target[f] = Absent
    /\ pc \in {"prepare", "mark", "verify"} => \A f \in Files : stage[txn][f] = Postimage(f)
    /\ pc = "verify" => backup[txn] = Nowhere
    /\ pc = "backup" => \A f \in Files : IF f < index THEN InPlace(f) ELSE Ahead(f)
    /\ pc = "install" =>
           /\ Aside(index)
           /\ \A f \in Files : (f < index => InPlace(f)) /\ (f > index => Ahead(f))
    /\ pc = "seal" => \A f \in Files : InPlace(f)

\* A file that a transaction in doubt creates and has not created yet is not
\* there: nobody else creates it.
CreatedAreAbsent ==
    \A t \in Committing : \A f \in journal[t].staged \ journal[t].backed :
        stage[t][f] # Absent => target[f] = Absent

\* The entries that rollback has passed are as they were.
Undone(f) ==
    /\ f \in journal[txn].backed => backup[txn][f] = Absent
    /\ f \in journal[txn].staged \ journal[txn].backed => target[f] = Absent
Undoing ==
    /\ pc \in {"undo", "restore"} => \A f \in Files : f > index => Undone(f)
    /\ pc = "restore" => index \in journal[txn].backed /\ backup[txn][index] # Absent
    /\ pc = "unstage" => \A f \in Files : Undone(f)

RefInv == StrandInv /\ OneInDoubt /\ Progress /\ CreatedAreAbsent /\ Undoing

RefFacts == OneInDoubt /\ Progress /\ CreatedAreAbsent /\ Undoing

\* A failed journal write leaves the old journal in place, a rollback meets
\* no error, nobody else creates the files that a batch creates, and nobody
\* saves the files of a batch in doubt.
Reliable == ~SyncMayFail /\ ~RollbackMayFail /\ ~EditCreated /\ ~EditInDoubt

\* Before the journal says Committing nothing is in doubt.
LEMMA NothingInDoubt ==
    ASSUME OneInDoubt, pc \in {"idle", "plan", "commit", "stage", "prepare", "mark"}
    PROVE  Committing = {}
BY DEF OneInDoubt

\* While files are moved, forth or back, their transaction is.
LEMMA OwnInDoubt ==
    ASSUME StrandInv, OneInDoubt,
           pc \in {"verify", "backup", "install", "seal", "undo", "restore", "unstage"}
    PROVE  Committing = {txn} /\ txn \in Txns
<1>1. txn \in Txns
  BY DEF StrandInv, TypeInv, Shape, InHand
<1>2. journal[txn].phase = "Committing"
  BY DEF StrandInv, Journaled, RollbackIsJournaled, OwnJournal, OneInDoubt
<1> QED
  BY <1>1, <1>2 DEF OneInDoubt, Committing

\* What a path holds once transaction t is rolled back.
BackAt(t, f) ==
    IF f \in journal[t].backed /\ backup[t][f] # Absent THEN backup[t][f]
    ELSE IF f \in journal[t].staged \ journal[t].backed /\ stage[t][f] = Absent THEN Absent
    ELSE target[f]

LEMMA RestoredIs ==
    /\ Committing = {} => Restored = target
    /\ \A t \in Txns : Committing = {t} => Restored = [f \in Files |-> BackAt(t, f)]
<1>1. \A t \in Txns : RolledBack(t) = [f \in Files |-> BackAt(t, f)]
  BY DEF RolledBack, BackAt
<1>2. \A t : (CHOOSE u \in {t} : TRUE) = t
  OBVIOUS
<1> QED
  BY <1>1, <1>2 DEF Restored

LEMMA RestoredIsNext ==
    /\ Committing' = {} => Restored' = target'
    /\ \A t \in Txns : Committing' = {t} => Restored' = [f \in Files |-> BackAt(t, f)']
<1>1. \A t \in Txns : RolledBack(t)' = [f \in Files |-> BackAt(t, f)']
  BY DEF RolledBack, BackAt
<1>2. \A t : (CHOOSE u \in {t} : TRUE) = t
  OBVIOUS
<1> QED
  BY <1>1, <1>2 DEF Restored

\* The ways in which a step leaves what the workspace holds after a recovery
\* as it is: nothing is in doubt, the same transaction is, one comes into
\* doubt, and one goes out of it.
LEMMA RestoredKept ==
    ASSUME target \in Image, target' \in Image,
           \/ Committing = {} /\ Committing' = {} /\ target' = target
           \/ \E t \in Txns : /\ Committing = {t} /\ Committing' = {t}
                              /\ \A f \in Files : BackAt(t, f)' = BackAt(t, f)
           \/ \E t \in Txns : /\ Committing = {} /\ Committing' = {t}
                              /\ \A f \in Files : BackAt(t, f)' = target[f]
           \/ \E t \in Txns : /\ Committing = {t} /\ Committing' = {}
                              /\ \A f \in Files : target'[f] = BackAt(t, f)
    PROVE  Restored' = Restored
<1>0. target = [f \in Files |-> target[f]] /\ target' = [f \in Files |-> target'[f]]
  BY DEF Image
<1>1. CASE Committing = {} /\ Committing' = {} /\ target' = target
  BY <1>1, RestoredIs, RestoredIsNext
<1>2. ASSUME NEW t \in Txns, Committing = {t}, Committing' = {t},
             \A f \in Files : BackAt(t, f)' = BackAt(t, f)
      PROVE  Restored' = Restored
  BY <1>2, RestoredIs, RestoredIsNext
<1>3. ASSUME NEW t \in Txns, Committing = {}, Committing' = {t},
             \A f \in Files : BackAt(t, f)' = target[f]
      PROVE  Restored' = Restored
  BY <1>0, <1>3, RestoredIs, RestoredIsNext
<1>4. ASSUME NEW t \in Txns, Committing = {t}, Committing' = {},
             \A f \in Files : target'[f] = BackAt(t, f)
      PROVE  Restored' = Restored
  BY <1>0, <1>4, RestoredIs, RestoredIsNext
<1> QED
  BY <1>1, <1>2, <1>3, <1>4

LEMMA DiskQuiet ==
    ASSUME UNCHANGED <<target, stage, backup, journal>>
    PROVE  Restored' = Restored
BY DEF Restored, RolledBack, Committing

\* Where no transaction is in hand, neither progress nor rollback is.
LEMMA RefAtRest ==
    ASSUME pc' \in {"down", "idle", "plan", "recover"}, OneInDoubt', CreatedAreAbsent'
    PROVE  RefFacts'
BY DEF RefFacts, Progress, Undoing

LEMMA RefRecover ==
    ASSUME RefInv, \/ Start \/ NewPlan \/ RecoverDone \/ PlanRefused \/ Crash
                   \/ \E t \in Txns : recover_pending(t)
    PROVE  RefFacts' /\ Restored' = Restored
<1>0. /\ TypeOK /\ Shape /\ StrandInv /\ OneInDoubt /\ CreatedAreAbsent
  BY DEF RefInv, StrandInv, TypeInv
<1>1. UNCHANGED <<target, stage, backup, journal, edits>> /\ Committing' = Committing
  BY DEF Start, NewPlan, RecoverDone, PlanRefused, Crash, recover_pending, Committing
<1>2. Restored' = Restored
  BY <1>1, DiskQuiet
<1>3. CreatedAreAbsent'
  BY <1>0, <1>1 DEF CreatedAreAbsent
<1>4. /\ \A t \in Txns : journal[t].owner \in Nat
      /\ \A t \in Committing : journal[t] # NoJournal
      /\ process \in Nat
  <2>1. process \in Nat
    BY <1>0, FileTransactionAssumption DEF TypeOK
  <2>2. \A t \in Txns : journal[t].owner \in Nat
    <3>1. \A j \in Journal : j.owner \in 1 .. MaxProcesses \/ j.owner = 0
      BY DEF Journal, NoJournal
    <3>2. \A n \in 1 .. MaxProcesses : n \in Nat
      BY FileTransactionAssumption
    <3>3. \A t \in Txns : journal[t] \in Journal
      BY <1>0 DEF TypeOK
    <3>4. 0 \in Nat
      OBVIOUS
    <3> QED
      BY <3>1, <3>2, <3>3, <3>4, Zenon
  <2> QED
    BY <2>1, <2>2 DEF Committing, NoJournal
<1>5. CASE Start
  <2>1. /\ pc = "down" /\ pc' = "recover" /\ process' = process + 1 /\ UNCHANGED <<errored, plan>>
        /\ Committing \subseteq todo'
    BY <1>4, <1>5 DEF Start, Committing
  <2>2. OneInDoubt'
    <3>1. \A t \in Txns : journal'[t].owner <= process' /\ journal'[t].owner # process'
      BY <1>0, <1>1, <1>4, <2>1 DEF OneInDoubt
    <3>2. Committing \subseteq Txns
      BY DEF Committing
    <3> QED
      BY <1>0, <1>1, <2>1, <3>1, <3>2 DEF OneInDoubt
  <2> QED
    BY <1>2, <1>3, <2>1, <2>2, RefAtRest
<1>6. CASE NewPlan \/ PlanRefused
  <2>1. /\ pc \in {"idle", "plan"} /\ pc' \in {"recover", "idle"}
        /\ UNCHANGED <<errored, plan, process>>
    BY <1>6 DEF NewPlan, PlanRefused
  <2>2. Committing = {}
    BY <1>0, <2>1, NothingInDoubt
  <2>3. OneInDoubt'
    BY <1>0, <1>1, <2>1, <2>2 DEF OneInDoubt
  <2> QED
    BY <1>2, <1>3, <2>1, <2>3, RefAtRest
<1>7. CASE RecoverDone
  <2>1. /\ pc = "recover" /\ todo = {} /\ pc' \in {"idle", "plan"}
        /\ UNCHANGED <<errored, plan, process>>
    BY <1>0, <1>7 DEF RecoverDone, TypeOK
  <2>2. Committing = {}
    BY <1>0, <2>1 DEF OneInDoubt
  <2>3. OneInDoubt'
    BY <1>0, <1>1, <2>1, <2>2 DEF OneInDoubt
  <2> QED
    BY <1>2, <1>3, <2>1, <2>3, RefAtRest
<1>8. CASE Crash
  <2>1. pc' = "down" /\ errored' = FALSE /\ plan' = NoPlan /\ UNCHANGED process
    BY <1>8 DEF Crash
  <2>2. OneInDoubt'
    BY <1>0, <1>1, <2>1 DEF OneInDoubt
  <2> QED
    BY <1>2, <1>3, <2>1, <2>2, RefAtRest
<1>9. ASSUME NEW t \in Txns, recover_pending(t) PROVE RefFacts'
  <2>0. /\ pc = "recover" /\ UNCHANGED <<errored, plan, process>> /\ todo' = todo \ {t}
    BY <1>9 DEF recover_pending
  <2>1. CASE process_is_alive(t)
    <3>1. pc' = "recover" /\ t \notin Committing
      BY <1>0, <1>9, <2>0, <2>1 DEF recover_pending, process_is_alive, OneInDoubt
    <3>2. OneInDoubt'
      BY <1>0, <1>1, <2>0, <3>1 DEF OneInDoubt
    <3> QED
      BY <1>3, <3>1, <3>2, RefAtRest
  <2>2. CASE ~process_is_alive(t) /\ journal[t].phase = "Committing"
    <3>1. txn' = t /\ pc' = "undo" /\ index' = NumFiles
      BY <1>9, <2>2 DEF recover_pending
    <3>2. OneInDoubt'
      BY <1>0, <1>1, <2>0, <2>2, <3>1 DEF OneInDoubt, Committing
    <3>3. Progress'
      BY <3>1 DEF Progress
    <3>4. Undoing'
      BY <3>1, ImageFacts DEF Undoing, Files
    <3> QED
      BY <1>3, <3>2, <3>3, <3>4 DEF RefFacts
  <2>3. CASE ~process_is_alive(t) /\ journal[t].phase # "Committing"
    <3>1. txn' = t /\ pc' = "clean"
      BY <1>9, <2>3 DEF recover_pending
    <3>2. OneInDoubt'
      BY <1>0, <1>1, <2>0, <2>3, <3>1 DEF OneInDoubt, Committing, process_is_alive
    <3>3. Progress' /\ Undoing'
      BY <3>1 DEF Progress, Undoing
    <3> QED
      BY <1>3, <3>2, <3>3 DEF RefFacts
  <2> QED
    BY <2>1, <2>2, <2>3
<1> QED
  BY <1>2, <1>5, <1>6, <1>7, <1>8, <1>9

LEMMA SamePlan ==
    ASSUME UNCHANGED plan
    PROVE  /\ Actionable' = Actionable /\ Staged' = Staged /\ Backed' = Backed
           /\ \A f \in Files : Postimage(f)' = Postimage(f)
BY DEF Actionable, Staged, Backed, Postimage

\* A plan is made of what the files hold.
LEMMA RefPlan ==
    ASSUME RefInv, NEW t \in Txns, NEW after \in [Files -> Contents], Plan(t, after)
    PROVE  RefFacts' /\ Restored' = Restored /\ Restored = target /\ plan = NoPlan
<1>0. TypeOK /\ StrandInv /\ OneInDoubt
  BY DEF RefInv, StrandInv, TypeInv
<1>1. /\ pc = "plan" /\ pc' = "commit" /\ txn' = t /\ plan' = [before |-> target, after |-> after]
      /\ UNCHANGED <<target, stage, backup, journal, process, errored>>
  BY DEF Plan
<1>2. Committing = {} /\ Committing' = {}
  BY <1>0, <1>1, NothingInDoubt DEF Committing
<1>3. OneInDoubt'
  BY <1>0, <1>1, <1>2 DEF OneInDoubt
<1>4. Progress'
  BY <1>1 DEF Progress, Staged, Backed, Actionable
<1>5. CreatedAreAbsent' /\ Undoing'
  BY <1>1, <1>2 DEF CreatedAreAbsent, Undoing
<1> QED
  BY <1>0, <1>1, <1>2, <1>3, <1>4, <1>5, DiskQuiet, RestoredIs DEF RefFacts, OneInDoubt

\* Until the journal says Committing, stages and journals come and go without
\* an effect on what the workspace holds; when it does, every staged file is
\* still in its stage and nothing has been moved.
LEMMA RefPrepare ==
    ASSUME RefInv, Reliable, VerifyFirst \/ StageEntries \/ Prepare \/ Mark
    PROVE  RefFacts' /\ Restored' = Restored
<1>0. /\ TypeOK /\ Shape /\ StrandInv /\ OneInDoubt /\ Progress /\ Untouched /\ TypeInv'
  BY StepKeepsTypes DEF RefInv, StrandInv, TypeInv, Next, Step
<1>1. /\ pc \in {"commit", "stage", "prepare", "mark"} /\ txn \in Txns
      /\ UNCHANGED <<target, backup, process>> /\ backup[txn] = Nowhere
      /\ target \in Image /\ errored = FALSE
  BY <1>0 DEF VerifyFirst, StageEntries, Prepare, Mark, Shape, InHand, Untouched, TypeOK, OneInDoubt
<1>2. Committing = {}
  BY <1>0, <1>1, NothingInDoubt
<1>3. /\ \A t \in Txns \ {txn} : journal'[t] = journal[t]
      /\ \/ journal'[txn] \in {journal[txn], NoJournal}
         \/ journal'[txn] = [phase |-> "Prepared", owner |-> process, staged |-> Staged,
                             backed |-> Backed]
         \/ /\ journal'[txn] = [phase |-> "Committing", owner |-> process, staged |-> Staged,
                                backed |-> Backed]
            /\ pc = "mark" /\ Goto("verify", 0) /\ UNCHANGED stage
      /\ (pc' = "idle" /\ Return) \/ UNCHANGED <<txn, plan, errored>>
  BY <1>0, <1>1 DEF VerifyFirst, StageEntries, Prepare, Mark, write_journal, TypeOK, Goto,
        AbandonStages, Reliable, JournalWrite
<1>4. \A t \in Txns : journal'[t].owner <= process'
  <2>1. process \in Nat
    BY <1>0, FileTransactionAssumption DEF TypeOK
  <2>2. \A t \in Txns : journal[t].owner <= process
    BY <1>0 DEF OneInDoubt
  <2>3. journal'[txn].owner \in {journal[txn].owner, 0, process}
    BY <1>3 DEF NoJournal
  <2> QED
    BY <1>1, <1>3, <2>1, <2>2, <2>3
<1>5. errored' = FALSE
  BY <1>1, <1>3 DEF Return
<1>6. CASE Committing' = {}
  <2>1. Restored' = Restored
    BY <1>1, <1>2, <1>6, RestoredIs, RestoredIsNext
  <2>2. CreatedAreAbsent'
    BY <1>6 DEF CreatedAreAbsent
  <2>3. CASE pc' = "idle" /\ Return
    <3>1. OneInDoubt'
      BY <1>4, <1>5, <1>6, <2>3 DEF OneInDoubt, Return
    <3> QED
      BY <2>1, <2>2, <2>3, <3>1, RefAtRest
  <2>4. CASE UNCHANGED <<txn, plan>> /\ pc' \in {"stage", "prepare", "mark"}
    <3>1. OneInDoubt'
      BY <1>4, <1>5, <1>6, <2>4 DEF OneInDoubt
    <3>2. Staged' = Staged /\ Backed' = Backed /\ \A f \in Files : Postimage(f)' = Postimage(f)
      BY <2>4, SamePlan
    <3>3. pc' \in {"prepare", "mark"} => \A f \in Files : stage'[txn][f] = Postimage(f)
      <4>1. CASE StageEntries /\ pc' = "prepare"
        <5>1. stage' = [stage EXCEPT ![txn] = [f \in Files |->
                            IF f \in Staged THEN plan.after[f] ELSE Absent]]
          BY <4>1 DEF StageEntries, AbandonStages
        <5>2. stage'[txn] = [f \in Files |-> IF f \in Staged THEN plan.after[f] ELSE Absent]
          BY <1>0, <1>1, <5>1 DEF TypeOK
        <5> QED
          BY <5>2 DEF Postimage
      <4>2. CASE Prepare /\ pc' = "mark"
        BY <1>0, <4>2 DEF Prepare, AbandonStages, Progress
      <4> QED
        BY <2>4, <4>1, <4>2 DEF VerifyFirst, StageEntries, Prepare, Mark, Goto, AbandonStages
    <3>4. Progress'
      BY <1>0, <1>1, <2>4, <3>2, <3>3 DEF Progress
    <3>5. Undoing'
      BY <2>4 DEF Undoing
    <3> QED
      BY <2>1, <2>2, <3>1, <3>4, <3>5 DEF RefFacts
  <2>5. CASE Mark /\ pc' = "verify"
    <3>1. journal'[txn].phase = "Committing"
      BY <1>0, <1>1, <2>5 DEF Mark, AbandonStages, write_journal, TypeOK
    <3> QED
      BY <1>1, <1>6, <3>1 DEF Committing
  <2> QED
    BY <1>3, <2>3, <2>4, <2>5 DEF VerifyFirst, StageEntries, Prepare, Mark, Goto, AbandonStages
<1>7. CASE Committing' # {}
  <2>1. /\ journal'[txn] = [phase |-> "Committing", owner |-> process, staged |-> Staged,
                            backed |-> Backed]
        /\ pc = "mark" /\ Goto("verify", 0) /\ UNCHANGED stage
    BY <1>2, <1>3, <1>7 DEF Committing, NoJournal
  <2>2. Committing' = {txn}
    BY <1>1, <1>2, <1>3, <2>1 DEF Committing
  <2>3. pc' = "verify" /\ UNCHANGED <<txn, plan>>
    BY <2>1 DEF Goto
  <2>4. /\ \A f \in Files : backup[txn][f] = Absent
        /\ \A f \in Files : stage[txn][f] = Postimage(f)
        /\ \A f \in Staged \ Backed : target[f] = Absent
        /\ \A f \in Staged : plan.after[f] # Absent
    BY <1>0, <1>1, <2>1, ImageFacts DEF Progress, Staged
  <2>t. PICK t \in Txns : t = txn
    BY <1>1
  <2>5. \A f \in Files : BackAt(t, f)' = target[f]
    BY <1>1, <2>1, <2>4, <2>t DEF BackAt, Postimage
  <2>6. Restored' = Restored
    <3>1. target' \in Image /\ target \in Image
      BY <1>1
    <3> QED
      BY <1>2, <2>2, <2>5, <2>t, <3>1, RestoredKept
  <2>7. OneInDoubt'
    BY <1>4, <1>5, <2>2, <2>3 DEF OneInDoubt
  <2>8. Progress'
    <3>1. Staged' = Staged /\ Backed' = Backed /\ \A f \in Files : Postimage(f)' = Postimage(f)
      BY <2>3, SamePlan
    <3> QED
      BY <1>1, <2>1, <2>3, <2>4, <3>1 DEF Progress
  <2>9. CreatedAreAbsent'
    BY <1>1, <2>1, <2>2, <2>4 DEF CreatedAreAbsent
  <2>10. Undoing'
    BY <2>3 DEF Undoing
  <2> QED
    BY <2>6, <2>7, <2>8, <2>9, <2>10 DEF RefFacts
<1> QED
  BY <1>6, <1>7

\* An entry that a commit has come to, at whatever point it is: a rollback
\* puts the preimage back.
Moving(f) == Ahead(f) \/ Aside(f) \/ InPlace(f)

LEMMA PreimageComesBack ==
    ASSUME NEW t \in Txns, t = txn, journal[t] = OwnJournal, NEW f \in Files, Moving(f)
    PROVE  /\ BackAt(t, f) = IF f \in Actionable THEN plan.before[f] ELSE target[f]
           /\ f \in Staged \ Backed /\ stage[t][f] # Absent => target[f] = Absent
<1>1. /\ journal[t].staged = Staged /\ journal[t].backed = Backed
      /\ f \in Backed => f \in Actionable /\ plan.before[f] # Absent
      /\ f \in Staged => f \in Actionable /\ plan.after[f] # Absent
      /\ f \in Actionable \ Backed => plan.before[f] = Absent /\ f \in Staged
  BY DEF OwnJournal, Staged, Backed, Actionable
<1>2. CASE Ahead(f)
  BY <1>1, <1>2 DEF BackAt, Ahead, Postimage
<1>3. CASE Aside(f)
  BY <1>1, <1>3 DEF BackAt, Aside, Postimage
<1>4. CASE InPlace(f)
  BY <1>1, <1>4 DEF BackAt, InPlace
<1> QED
  BY <1>2, <1>3, <1>4 DEF Moving

LEMMA PreimageComesBackNext ==
    ASSUME NEW t \in Txns, t = txn', journal'[t] = OwnJournal', NEW f \in Files, Moving(f)'
    PROVE  /\ BackAt(t, f)' = IF f \in Actionable' THEN plan'.before[f] ELSE target'[f]
           /\ f \in Staged' \ Backed' /\ stage'[t][f] # Absent => target'[f] = Absent
<1>1. /\ journal'[t].staged = Staged' /\ journal'[t].backed = Backed'
      /\ f \in Backed' => f \in Actionable' /\ plan'.before[f] # Absent
      /\ f \in Staged' => f \in Actionable' /\ plan'.after[f] # Absent
      /\ f \in Actionable' \ Backed' => plan'.before[f] = Absent /\ f \in Staged'
  BY DEF OwnJournal, Staged, Backed, Actionable
<1>2. CASE Ahead(f)'
  BY <1>1, <1>2 DEF BackAt, Ahead, Postimage
<1>3. CASE Aside(f)'
  BY <1>1, <1>3 DEF BackAt, Aside, Postimage
<1>4. CASE InPlace(f)'
  BY <1>1, <1>4 DEF BackAt, InPlace
<1> QED
  BY <1>2, <1>3, <1>4 DEF Moving

\* A step of the commit loop that moves entries of its plan only.
LEMMA MovingKeeps ==
    ASSUME RefInv, pc \in {"backup", "install"}, pc' \in {"backup", "install", "seal", "undo"},
           UNCHANGED <<journal, process, txn, plan, errored>>, target' \in Image,
           \A f \in Files : Moving(f)',
           \A f \in Files \ Actionable : target'[f] = target[f]
    PROVE  OneInDoubt' /\ CreatedAreAbsent' /\ Restored' = Restored
<1>0. StrandInv /\ OneInDoubt /\ Progress /\ TypeOK /\ Shape
  BY DEF RefInv, StrandInv, TypeInv
<1>1. Committing = {txn} /\ txn \in Txns /\ journal[txn] = OwnJournal
  BY <1>0, OwnInDoubt DEF StrandInv, Journaled
<1>2. PICK t \in Txns : t = txn
  BY <1>1
<1>3. Committing' = {t} /\ Committing = {t}
  BY <1>1, <1>2 DEF Committing
<1>4. Actionable' = Actionable /\ Staged' = Staged /\ Backed' = Backed
  BY SamePlan
<1>5. OwnJournal' = OwnJournal
  BY <1>4 DEF OwnJournal
<1>6. \A f \in Files : Moving(f)
  BY <1>0 DEF Progress, Moving, Files, Shape, InLoop
<1>7. ASSUME NEW f \in Files
      PROVE  /\ BackAt(t, f)' = BackAt(t, f)
             /\ f \in Staged \ Backed /\ stage'[t][f] # Absent => target'[f] = Absent
  BY <1>1, <1>2, <1>4, <1>5, <1>6, PreimageComesBack, PreimageComesBackNext
<1>8. Restored' = Restored
  BY <1>0, <1>3, <1>7, RestoredKept DEF TypeOK
<1>9. CreatedAreAbsent'
  <2>1. journal'[t].staged = Staged /\ journal'[t].backed = Backed
    BY <1>1, <1>2 DEF OwnJournal
  <2>2. Staged \subseteq Files
    BY DEF Staged, Actionable
  <2> QED
    BY <1>3, <1>7, <2>1, <2>2 DEF CreatedAreAbsent
<1>10. OneInDoubt'
  BY <1>0, <1>1, <1>2, <1>3 DEF OneInDoubt
<1> QED
  BY <1>8, <1>9, <1>10

\* Every entry goes from ahead to aside to in place, and a step that fails
\* leaves it at one of the three.
LEMMA RefMove ==
    ASSUME RefInv, VerifyAgain \/ MoveToBackup \/ Install
    PROVE  RefFacts' /\ Restored' = Restored
<1>0. /\ TypeOK /\ Shape /\ StrandInv /\ OneInDoubt /\ Progress /\ CreatedAreAbsent
      /\ target' \in Image
  BY StepKeepsTypes DEF RefInv, StrandInv, TypeInv, Next, Step, TypeOK
<1>1. /\ pc \in {"verify", "backup", "install"} /\ txn \in Txns
      /\ UNCHANGED <<journal, process, txn, plan, errored>>
  BY <1>0 DEF VerifyAgain, MoveToBackup, Install, Goto, Shape, InHand
<1>2. /\ Actionable' = Actionable /\ Staged' = Staged /\ Backed' = Backed
      /\ \A f \in Files : Postimage(f)' = Postimage(f)
  BY <1>1, SamePlan
<1>3. pc' = "undo" => Progress'
  BY DEF Progress
<1>4. pc' = "undo" /\ index' = NumFiles => Undoing'
  BY ImageFacts DEF Undoing, Files
<1>5. pc' \in {"backup", "install", "seal"} => Undoing'
  BY DEF Undoing
<1>t. /\ target \in Image /\ stage \in [Txns -> Image] /\ backup \in [Txns -> Image]
      /\ Absent \in Contents
  BY <1>0, ImageFacts DEF TypeOK
<1>6. CASE VerifyAgain
  <2>1. UNCHANGED <<target, stage, backup, journal>> /\ pc = "verify"
    BY <1>6 DEF VerifyAgain
  <2>2. Restored' = Restored /\ CreatedAreAbsent'
    BY <1>0, <2>1, DiskQuiet DEF CreatedAreAbsent, Committing
  <2>3. Committing = {txn} /\ Committing' = {txn}
    BY <1>0, <2>1, OwnInDoubt DEF Committing
  <2>4. OneInDoubt'
    BY <1>0, <1>1, <1>6, <2>1, <2>3 DEF OneInDoubt, VerifyAgain, Goto
  <2>5. CASE verify_preimage
    <3>1. pc' = "backup" /\ index' = 1
      BY <1>6, <2>5 DEF VerifyAgain, Goto
    <3>2. \A f \in Files : Ahead(f)
      BY <1>0, <2>1, <2>5, ImageFacts DEF Ahead, verify_preimage, Progress
    <3>3. \A f \in Files : Ahead(f)'
      BY <1>1, <1>2, <2>1, <3>2 DEF Ahead
    <3>4. Progress'
      BY <3>1, <3>3 DEF Progress, Files
    <3> QED
      BY <1>5, <2>2, <2>4, <3>1, <3>4 DEF RefFacts
  <2>6. CASE ~verify_preimage
    <3>1. pc' = "undo" /\ index' = NumFiles
      BY <1>6, <2>6 DEF VerifyAgain, Goto
    <3> QED
      BY <1>3, <1>4, <2>2, <2>4, <3>1 DEF RefFacts
  <2> QED
    BY <2>5, <2>6
<1>7. CASE MoveToBackup
  <2>1. /\ pc = "backup" /\ index \in Files /\ UNCHANGED stage
        /\ \A f \in Files : IF f < index THEN InPlace(f) ELSE Ahead(f)
    BY <1>0, <1>7 DEF MoveToBackup, Shape, InLoop, Progress
  <2>2. Ahead(index)
    BY <2>1 DEF Files
  <2>3. CASE pc' = "install" /\ index' = index
    <3>1. /\ \A g \in Files \ {index} : target'[g] = target[g] /\ backup'[txn][g] = backup[txn][g]
          /\ index \notin Actionable => target'[index] = target[index]
          /\ index \in Backed => /\ target'[index] = Absent
                                 /\ backup'[txn][index] = target[index]
          /\ index \notin Backed => UNCHANGED <<target, backup>>
      <4>1. CASE index \in Backed
        <5>1. /\ backup' = [backup EXCEPT ![txn][index] = target[index]]
              /\ target' = [target EXCEPT ![index] = Absent]
          BY <1>7, <2>3, <4>1 DEF MoveToBackup, Goto
        <5>2. index \in Actionable /\ target[index] \in Contents
          BY <1>t, <2>1, <4>1 DEF Backed, Image
        <5> QED
          BY <1>1, <1>t, <2>1, <4>1, <5>1, <5>2, SetCell, SetFile
      <4>2. CASE index \notin Backed
        BY <1>7, <2>3, <4>2 DEF MoveToBackup, Goto
      <4> QED
        BY <4>1, <4>2
    <3>2. Aside(index)'
      <4>1. index \in Actionable \ Backed => plan.before[index] = Absent
        BY DEF Backed
      <4>2. Backed \subseteq Actionable
        BY DEF Backed
      <4> QED
        BY <1>1, <1>2, <2>1, <2>2, <2>3, <3>1, <4>1, <4>2 DEF Aside, Ahead
    <3>3. \A f \in Files : (f < index => InPlace(f)') /\ (f > index => Ahead(f)')
      <4>1. \A f \in Files : f < index \/ f > index => f # index
        BY <2>1 DEF Files
      <4>2. \A f \in Files : f > index => ~(f < index)
        BY <2>1 DEF Files
      <4>3. \A f \in Files \ {index} : (InPlace(f) => InPlace(f)') /\ (Ahead(f) => Ahead(f)')
        BY <1>1, <1>2, <2>1, <3>1 DEF InPlace, Ahead
      <4> QED
        BY <2>1, <4>1, <4>2, <4>3
    <3>4. Progress'
      BY <2>3, <3>2, <3>3 DEF Progress
    <3>5. \A f \in Files : Moving(f)'
      BY <2>1, <2>3, <3>2, <3>3 DEF Moving, Files
    <3>6. \A f \in Files \ Actionable : target'[f] = target[f]
      BY <3>1
    <3>7. OneInDoubt' /\ CreatedAreAbsent' /\ Restored' = Restored
      BY <1>0, <1>1, <2>1, <2>3, <3>5, <3>6, MovingKeeps
    <3> QED
      BY <1>5, <2>3, <3>4, <3>7 DEF RefFacts
  <2>4. CASE pc' = "undo" /\ index' = NumFiles /\ UNCHANGED <<target, backup>>
    <3>1. \A f \in Files : Moving(f)'
      BY <1>1, <1>2, <2>1, <2>4 DEF Moving, InPlace, Ahead, Aside
    <3>2. OneInDoubt' /\ CreatedAreAbsent' /\ Restored' = Restored
      BY <1>0, <1>1, <2>1, <2>4, <3>1, MovingKeeps
    <3> QED
      BY <1>3, <1>4, <2>4, <3>2 DEF RefFacts
  <2> QED
    BY <1>7, <2>3, <2>4 DEF MoveToBackup, Goto
<1>8. CASE Install
  <2>1. /\ pc = "install" /\ index \in Files /\ UNCHANGED backup /\ Aside(index)
        /\ \A f \in Files : (f < index => InPlace(f)) /\ (f > index => Ahead(f))
    BY <1>0, <1>8 DEF Install, Shape, InLoop, Progress
  <2>i. PICK i \in Files : i = index
    BY <2>1
  <2>2. PICK installed \in BOOLEAN, failed \in BOOLEAN :
           /\ installed \/ failed
           /\ failed => index \in Actionable
           /\ IF installed /\ index \in Staged
              THEN /\ target' = [target EXCEPT ![index] = stage[txn][index]]
                   /\ stage' = [stage EXCEPT ![txn][index] = Absent]
              ELSE UNCHANGED <<target, stage>>
           /\ IF failed
              THEN Goto("undo", NumFiles)
              ELSE IF index < NumFiles THEN Goto("backup", index + 1) ELSE Goto("seal", 0)
    BY <1>8 DEF Install
  <2>3. /\ \A g \in Files \ {i} : target'[g] = target[g] /\ stage'[txn][g] = stage[txn][g]
        /\ i \notin Actionable => target'[i] = target[i]
        /\ IF installed /\ i \in Staged
           THEN target'[i] = stage[txn][i] /\ stage'[txn][i] = Absent
           ELSE UNCHANGED <<target, stage>>
    <3>1. CASE installed /\ i \in Staged
      <4>1. /\ target' = [target EXCEPT ![i] = stage[txn][i]]
            /\ stage' = [stage EXCEPT ![txn][i] = Absent]
        BY <2>2, <2>i, <3>1
      <4>2. i \in Actionable /\ stage[txn][i] \in Contents
        BY <1>1, <1>t, <3>1 DEF Staged, Image
      <4>3. /\ target'[i] = stage[txn][i]
            /\ \A g \in Files \ {i} : target'[g] = target[g]
        BY <1>t, <4>1, <4>2, SetFile
      <4>4. /\ stage'[txn][i] = Absent
            /\ \A g \in Files \ {i} : stage'[txn][g] = stage[txn][g]
        BY <1>1, <1>t, <4>1, SetCell
      <4> QED
        BY <3>1, <4>2, <4>3, <4>4
    <3>2. CASE ~(installed /\ i \in Staged)
      BY <2>2, <2>i, <3>2
    <3> QED
      BY <3>1, <3>2
  <2>4. installed => InPlace(i)'
    <3>1. /\ i \in Actionable \ Staged => plan.after[i] = Absent
          /\ Postimage(i) = IF i \in Staged THEN plan.after[i] ELSE Absent
          /\ Staged \subseteq Actionable
      BY DEF Staged, Postimage
    <3>2. Aside(i)
      BY <2>1, <2>i
    <3>3. CASE i \in Staged
      BY <1>1, <1>2, <2>1, <2>3, <3>1, <3>2, <3>3 DEF InPlace, Aside
    <3>4. CASE i \notin Staged
      BY <1>1, <1>2, <2>1, <2>3, <3>1, <3>2, <3>4 DEF InPlace, Aside
    <3> QED
      BY <3>3, <3>4
  <2>5. ~installed => Aside(i)'
    BY <1>1, <1>2, <2>1, <2>3, <2>i DEF Aside
  <2>6. \A f \in Files : (f < i => InPlace(f)') /\ (f > i => Ahead(f)')
    <3>1. \A f \in Files : f < i \/ f > i => f # i
      BY DEF Files
    <3>2. \A f \in Files \ {i} : (InPlace(f) => InPlace(f)') /\ (Ahead(f) => Ahead(f)')
      BY <1>1, <1>2, <2>1, <2>3 DEF InPlace, Ahead
    <3> QED
      BY <2>1, <2>i, <3>1, <3>2
  <2>7. \A f \in Files : Moving(f)'
    BY <2>4, <2>5, <2>6 DEF Moving, Files
  <2>8. \A f \in Files \ Actionable : target'[f] = target[f]
    BY <2>3
  <2>9. pc' \in {"backup", "seal", "undo"}
    BY <2>2 DEF Goto
  <2>10. OneInDoubt' /\ CreatedAreAbsent' /\ Restored' = Restored
    BY <1>0, <1>1, <2>1, <2>7, <2>8, <2>9, MovingKeeps
  <2>11. CASE failed
    <3>1. pc' = "undo" /\ index' = NumFiles
      BY <2>2, <2>11 DEF Goto
    <3> QED
      BY <1>3, <1>4, <2>10, <3>1 DEF RefFacts
  <2>12. CASE ~failed /\ index < NumFiles
    <3>1. pc' = "backup" /\ index' = i + 1 /\ installed
      BY <2>2, <2>12, <2>i DEF Goto
    <3>2. \A f \in Files : IF f < i + 1 THEN InPlace(f)' ELSE Ahead(f)'
      BY <2>4, <2>6, <3>1 DEF Files
    <3>3. Progress'
      BY <3>1, <3>2 DEF Progress
    <3> QED
      BY <1>5, <2>9, <2>10, <3>1, <3>3 DEF RefFacts
  <2>13. CASE ~failed /\ ~(index < NumFiles)
    <3>1. pc' = "seal" /\ installed
      BY <2>2, <2>13 DEF Goto
    <3>2. \A f \in Files : InPlace(f)'
      BY <2>4, <2>6, <2>13, <2>i, <3>1, ImageFacts DEF Files
    <3>3. Progress'
      BY <3>1, <3>2 DEF Progress
    <3> QED
      BY <1>5, <2>9, <2>10, <3>1, <3>3 DEF RefFacts
  <2> QED
    BY <2>2, <2>11, <2>12, <2>13
<1> QED
  BY <1>6, <1>7, <1>8

\* The abstract Apply: the files of the batch hold their preimages, and then
\* all of them their postimages.
Applied ==
    /\ \A f \in Actionable : Restored[f] = plan.before[f]
    /\ Restored' = [f \in Files |-> IF f \in Actionable THEN plan.after[f] ELSE Restored[f]]

\* The seal is the point at which the whole batch takes effect; a seal that
\* fails changes nothing.
LEMMA RefSeal ==
    ASSUME RefInv, Reliable, Seal
    PROVE  RefFacts' /\ (Restored' = Restored \/ Applied)
<1>0. /\ TypeOK /\ Shape /\ StrandInv /\ OneInDoubt /\ Progress /\ CreatedAreAbsent
  BY DEF RefInv, StrandInv, TypeInv
<1>1. /\ pc = "seal" /\ txn \in Txns /\ Committing = {txn} /\ journal[txn] = OwnJournal
      /\ \A f \in Files : InPlace(f)
  BY <1>0, OwnInDoubt DEF Seal, StrandInv, Journaled, Progress
<1>2. plan' = NoPlan /\ UNCHANGED <<target, stage, backup, process, txn, errored>>
  BY DEF Seal
<1>3. PICK o \in {"ok", "failed"} :
          /\ write_journal(txn, "Committed", o)
          /\ IF o = "ok" THEN pc' = "clean" /\ index' = 1 ELSE pc' = "undo" /\ index' = NumFiles
  BY DEF Seal, Reliable, JournalWrite
<1>4. CASE o = "failed"
  <2>1. UNCHANGED journal /\ pc' = "undo" /\ index' = NumFiles
    BY <1>3, <1>4 DEF write_journal
  <2>2. Restored' = Restored /\ CreatedAreAbsent' /\ Committing' = {txn}
    BY <1>0, <1>1, <1>2, <2>1, DiskQuiet DEF CreatedAreAbsent, Committing
  <2>3. OneInDoubt'
    BY <1>0, <1>1, <1>2, <2>1, <2>2 DEF OneInDoubt
  <2>4. Progress' /\ Undoing'
    BY <2>1, ImageFacts DEF Progress, Undoing, Files
  <2> QED
    BY <2>2, <2>3, <2>4 DEF RefFacts
<1>5. CASE o = "ok"
  <2>1. /\ journal' = [journal EXCEPT ![txn] = [phase |-> "Committed", owner |-> process,
                                                staged |-> Staged, backed |-> Backed]]
        /\ pc' = "clean"
    BY <1>3, <1>5 DEF write_journal
  <2>2. /\ \A t \in Txns \ {txn} : journal'[t] = journal[t]
        /\ journal'[txn].phase = "Committed" /\ journal'[txn].owner = process
    BY <1>0, <1>1, <2>1 DEF TypeOK
  <2>3. Committing' = {}
    BY <1>1, <2>2 DEF Committing
  <2>4. process \in Nat
    BY <1>0, FileTransactionAssumption DEF TypeOK
  <2>5. OneInDoubt'
    <3>1. \A t \in Txns : journal'[t].owner <= process
      BY <1>0, <2>2, <2>4 DEF OneInDoubt
    <3> QED
      BY <1>0, <1>2, <2>1, <2>3, <3>1 DEF OneInDoubt
  <2>6. Progress' /\ Undoing' /\ CreatedAreAbsent'
    BY <2>1, <2>3 DEF Progress, Undoing, CreatedAreAbsent
  <2>7. PICK t \in Txns : t = txn
    BY <1>1
  <2>8. \A f \in Files : BackAt(t, f) = IF f \in Actionable THEN plan.before[f] ELSE target[f]
    BY <1>1, <2>7, PreimageComesBack DEF Moving
  <2>9. Restored = [f \in Files |-> IF f \in Actionable THEN plan.before[f] ELSE target[f]]
    BY <1>1, <2>7, <2>8, RestoredIs
  <2>10. Restored' = target /\ target = [f \in Files |-> target[f]]
    BY <1>0, <1>2, <2>3, RestoredIsNext DEF TypeOK, Image
  <2>11. Actionable \subseteq Files
    BY DEF Actionable
  <2>12. Applied
    BY <1>1, <2>9, <2>10, <2>11 DEF Applied, InPlace
  <2> QED
    BY <2>5, <2>6, <2>12 DEF RefFacts
<1> QED
  BY <1>4, <1>5

\* What is cleaned up belongs to no transaction in doubt.
LEMMA RefClean ==
    ASSUME RefInv, Clean
    PROVE  RefFacts' /\ Restored' = Restored
<1>0. /\ TypeOK /\ Shape /\ StrandInv /\ OneInDoubt /\ CreatedAreAbsent
  BY DEF RefInv, StrandInv, TypeInv
<1>1. /\ pc = "clean" /\ txn \in Txns /\ index \in Files /\ txn \notin Committing
      /\ UNCHANGED <<target, process>> /\ target \in Image
  BY <1>0 DEF Clean, Shape, InHand, InLoop, StrandInv, Journaled, Committing, TypeOK
<1>2. /\ \A t \in Txns \ {txn} : /\ stage'[t] = stage[t] /\ backup'[t] = backup[t]
                                 /\ journal'[t] = journal[t]
      /\ journal'[txn] \in {NoJournal, journal[txn]}
  <2> DEFINE left == IF journal[txn].phase = "Committed" THEN Absent ELSE backup[txn][index]
  <2>1. /\ backup' = [backup EXCEPT ![txn][index] = left]
        /\ stage' = [stage EXCEPT ![txn][index] = Absent]
    BY DEF Clean
  <2>2. left \in Contents
    BY <1>0, <1>1, ImageFacts DEF TypeOK, Image
  <2> HIDE DEF left
  <2>3. /\ backup \in [Txns -> Image] /\ stage \in [Txns -> Image]
        /\ journal \in [Txns -> Journal] /\ Absent \in Contents
    BY <1>0, ImageFacts DEF TypeOK
  <2>4. \A t \in Txns \ {txn} : stage'[t] = stage[t] /\ backup'[t] = backup[t]
    BY <1>1, <2>1, <2>2, <2>3, SetCell
  <2>5. /\ \A t \in Txns \ {txn} : journal'[t] = journal[t]
        /\ journal'[txn] \in {NoJournal, journal[txn]}
    BY <1>1, <2>3 DEF Clean
  <2> QED
    BY <2>4, <2>5
<1>3. Committing' = Committing
  BY <1>1, <1>2 DEF Committing, NoJournal
<1>4. \A t \in Committing : t \in Txns \ {txn}
  BY <1>1 DEF Committing
<1>5. Restored' = Restored
  <2>1. CASE Committing = {}
    BY <1>1, <1>3, <2>1, RestoredKept
  <2>2. ASSUME NEW t \in Committing PROVE Restored' = Restored
    <3>1. Committing = {t} /\ t \in Txns /\ t # txn
      BY <1>0, <1>4, <2>2 DEF OneInDoubt
    <3>2. \A f \in Files : BackAt(t, f)' = BackAt(t, f)
      BY <1>1, <1>2, <3>1 DEF BackAt
    <3>3. target' \in Image
      BY <1>1
    <3> QED
      BY <1>1, <1>3, <3>1, <3>2, <3>3, RestoredKept
  <2> QED
    BY <2>1, <2>2
<1>6. CreatedAreAbsent'
  BY <1>0, <1>1, <1>2, <1>3, <1>4 DEF CreatedAreAbsent
<1>7. \A t \in Txns : journal'[t].owner <= process'
  <2>1. process \in Nat /\ \A t \in Txns : journal[t].owner <= process
    BY <1>0, FileTransactionAssumption DEF TypeOK, OneInDoubt
  <2>2. journal'[txn].owner \in {0, journal[txn].owner}
    BY <1>2 DEF NoJournal
  <2> QED
    BY <1>1, <1>2, <2>1, <2>2
<1>8. CASE Goto("clean", index + 1)
  <2>1. pc' = "clean" /\ UNCHANGED <<txn, errored, todo, plan, journal>>
    BY <1>1, <1>8 DEF Goto, Clean, Finish
  <2>2. OneInDoubt'
    BY <1>0, <1>1, <1>3, <2>1 DEF OneInDoubt
  <2>3. Progress' /\ Undoing'
    BY <2>1 DEF Progress, Undoing
  <2> QED
    BY <1>5, <1>6, <2>2, <2>3 DEF RefFacts
<1>9. CASE Finish
  <2>1. /\ plan' = NoPlan /\ errored' = FALSE /\ UNCHANGED todo
        /\ pc' = IF process_is_alive(txn) THEN "idle" ELSE "recover"
    BY <1>9 DEF Finish, Return
  <2>2. \A t \in Committing : /\ t \in todo /\ journal[t].owner # process
                              /\ journal[txn].owner # process
    BY <1>0, <1>1, <1>4 DEF OneInDoubt
  <2>3. pc' = "recover" \/ (pc' = "idle" /\ Committing = {})
    BY <2>1, <2>2 DEF process_is_alive
  <2>4. OneInDoubt'
    <3>1. \A t \in Committing' : t \in todo' /\ pc' = "recover" /\ journal'[t].owner # process'
      BY <1>1, <1>2, <1>3, <1>4, <2>1, <2>2, <2>3
    <3>2. \A t, u \in Committing' : t = u
      BY <1>0, <1>3 DEF OneInDoubt
    <3>3. pc' # "unstage" /\ pc' # "clean"
      BY <2>3
    <3> QED
      BY <1>7, <2>1, <3>1, <3>2, <3>3 DEF OneInDoubt
  <2> QED
    BY <1>5, <1>6, <2>3, <2>4, RefAtRest
<1> QED
  BY <1>8, <1>9 DEF Clean

\* Rollback goes on with the same transaction.
LEMMA StillInDoubt ==
    ASSUME RefInv, pc \in {"undo", "restore", "unstage"}, pc' \in {"undo", "restore", "unstage"},
           UNCHANGED <<journal, process, txn>>, errored' = FALSE
    PROVE  /\ OneInDoubt' /\ Progress'
           /\ Committing = {txn} /\ Committing' = {txn} /\ txn \in Txns
<1>0. StrandInv /\ OneInDoubt
  BY DEF RefInv
<1>1. Committing = {txn} /\ txn \in Txns
  BY <1>0, OwnInDoubt
<1>2. Committing' = {txn} /\ journal'[txn].phase = "Committing"
  BY <1>1 DEF Committing
<1>3. OneInDoubt'
  BY <1>0, <1>2 DEF OneInDoubt
<1> QED
  BY <1>1, <1>2, <1>3 DEF Progress

\* Rollback goes on to the entry before, or to the stages.
LEMMA PreviousUndone ==
    ASSUME index \in Files, errored = FALSE, Previous(FALSE),
           \A f \in Files : f >= index => Undone(f)'
    PROVE  Undoing' /\ pc' \in {"undo", "unstage"} /\ errored' = FALSE /\ txn' = txn
<1>1. \A f \in Files : f \in Nat /\ f >= 1
  BY DEF Files
<1>2. CASE index > 1
  <2>1. pc' = "undo" /\ index' = index - 1
    BY <1>2 DEF Previous
  <2>2. \A f \in Files : f > index - 1 => f >= index
    BY <1>1
  <2> QED
    BY <2>1, <2>2 DEF Undoing, Previous
<1>3. CASE ~(index > 1)
  <2>1. pc' = "unstage"
    BY <1>3 DEF Previous
  <2>2. \A f \in Files : f >= index
    BY <1>1, <1>3
  <2> QED
    BY <2>1, <2>2 DEF Undoing, Previous
<1> QED
  BY <1>2, <1>3

\* An entry that is rolled back holds what it will hold.
LEMMA UndoneIsBack ==
    ASSUME NEW t \in Txns, t = txn, NEW f \in Files, Undone(f)
    PROVE  BackAt(t, f) = target[f]
BY DEF Undone, BackAt

LEMMA RefUndo ==
    ASSUME RefInv, Reliable, Undo
    PROVE  RefFacts' /\ Restored' = Restored
<1>0. /\ TypeOK /\ Shape /\ StrandInv /\ OneInDoubt /\ CreatedAreAbsent /\ Undoing
      /\ target' \in Image
  BY StepKeepsTypes DEF RefInv, StrandInv, TypeInv, Next, Step, TypeOK
<1>1. /\ pc = "undo" /\ txn \in Txns /\ index \in Files /\ errored = FALSE
      /\ UNCHANGED <<stage, backup, journal, process>>
      /\ \A f \in Files : f > index => Undone(f)
      /\ target \in Image /\ Absent \in Contents
  BY <1>0, ImageFacts DEF Undo, Shape, InHand, InLoop, OneInDoubt, Undoing, TypeOK
<1>t. PICK t \in Txns : t = txn
  BY <1>1
<1>i. PICK i \in Files : i = index
  BY <1>1
<1> DEFINE moved == i \in journal[t].backed /\ backup[t][i] # Absent
           created == i \in journal[t].staged \ journal[t].backed /\ stage[t][i] = Absent
           remove == target' = [target EXCEPT ![i] = Absent]
<1>2. IF moved
      THEN /\ remove /\ errored' = FALSE /\ pc' = "restore"
           /\ UNCHANGED <<txn, index, plan>>
      ELSE /\ IF created THEN remove ELSE UNCHANGED target
           /\ Previous(FALSE)
  <2>1. \A o \in RollbackStep : o = "ok"
    BY DEF Reliable, RollbackStep
  <2>2. (errored \/ "ok" = "failed") = FALSE
    BY <1>1
  <2>3. ("ok" = "failed" /\ target[index] # Absent) = FALSE
    OBVIOUS
  <2>4. CASE moved
    BY <1>t, <1>i, <2>1, <2>2, <2>4 DEF Undo
  <2>5. CASE ~moved /\ created
    <3>1. remove /\ Previous("ok" = "failed" /\ target[index] # Absent)
      BY <1>t, <1>i, <2>1, <2>5 DEF Undo
    <3> QED
      BY <2>3, <2>5, <3>1
  <2>6. CASE ~moved /\ ~created
    BY <1>t, <1>i, <2>1, <2>6 DEF Undo
  <2> QED
    BY <2>4, <2>5, <2>6
<1>r. remove => target'[i] = Absent /\ \A f \in Files \ {i} : target'[f] = target[f]
  BY <1>1, SetFile
<1>s. remove \/ UNCHANGED target
  BY <1>2
<1>p. txn' = txn
  BY <1>2 DEF Previous
<1> HIDE DEF remove
<1>3. txn' = txn /\ \A f \in Files \ {i} : target'[f] = target[f]
  BY <1>r, <1>s, <1>p
<1>4. \A f \in Files \ {i} : Undone(f) => Undone(f)'
  BY <1>1, <1>3 DEF Undone
<1>5. \A f \in Files : f > i => Undone(f)'
  <2>1. \A f \in Files : f > i => f # i
    BY DEF Files
  <2> QED
    BY <1>1, <1>4, <1>i, <2>1
<1>6. txn \in Committing
  BY <1>0, <1>1, OwnInDoubt
<1>7. \A f \in Files : BackAt(t, f)' = BackAt(t, f)
  <2>1. \A f \in Files \ {i} : BackAt(t, f)' = BackAt(t, f)
    BY <1>1, <1>3 DEF BackAt
  <2>2. BackAt(t, i)' = BackAt(t, i)
    <3>1. CASE moved
      BY <1>1, <3>1 DEF BackAt
    <3>2. CASE ~moved /\ created
      BY <1>1, <3>2 DEF BackAt
    <3>3. CASE ~moved /\ ~created
      BY <1>1, <1>2, <3>3 DEF BackAt
    <3> QED
      BY <3>1, <3>2, <3>3
  <2> QED
    BY <2>1, <2>2
<1>8. ~moved => Undone(i)'
  <2>1. CASE ~moved /\ created
    <3>1. target'[i] = Absent
      BY <1>2, <1>r, <2>1
    <3> QED
      BY <1>1, <1>3, <1>t, <2>1, <3>1 DEF Undone
  <2>2. CASE ~moved /\ ~created
    <3>1. i \in journal[t].staged \ journal[t].backed => target[i] = Absent
      BY <1>0, <1>6, <1>t, <2>2 DEF CreatedAreAbsent
    <3> QED
      BY <1>1, <1>2, <1>3, <1>t, <2>2, <3>1 DEF Undone
  <2> QED
    BY <2>1, <2>2
<1>9. /\ Undoing' /\ pc' \in {"undo", "restore", "unstage"} /\ errored' = FALSE
  <2>1. CASE moved
    <3>1. pc' = "restore" /\ index' = i /\ errored' = FALSE
      BY <1>2, <1>i, <2>1
    <3>2. i \in journal'[txn'].backed /\ backup'[txn'][i] # Absent
      BY <1>1, <1>3, <1>t, <2>1
    <3> QED
      BY <1>5, <3>1, <3>2 DEF Undoing
  <2>2. CASE ~moved
    <3>1. \A f \in Files : f >= index => Undone(f)'
      <4>1. \A f \in Files : f >= i => f = i \/ f > i
        BY DEF Files
      <4> QED
        BY <1>5, <1>8, <1>i, <2>2, <4>1
    <3>2. Previous(FALSE)
      BY <1>2, <2>2
    <3> QED
      BY <1>1, <3>1, <3>2, PreviousUndone
  <2> QED
    BY <2>1, <2>2
<1>10. /\ OneInDoubt' /\ Progress' /\ Committing = {t} /\ Committing' = {t}
  BY <1>1, <1>3, <1>9, <1>t, StillInDoubt
<1>11. Restored' = Restored
  BY <1>0, <1>1, <1>7, <1>10, RestoredKept
<1>12. CreatedAreAbsent'
  <2>1. \A f \in Files : target'[f] = Absent \/ target'[f] = target[f]
    BY <1>3, <1>r, <1>s
  <2>2. journal[t].staged \subseteq Files
    BY <1>0 DEF TypeOK, Journal, NoJournal
  <2> QED
    BY <1>0, <1>1, <1>10, <2>1, <2>2 DEF CreatedAreAbsent
<1> QED
  BY <1>9, <1>10, <1>11, <1>12 DEF RefFacts

LEMMA RefRestore ==
    ASSUME RefInv, Reliable, Restore
    PROVE  RefFacts' /\ Restored' = Restored
<1>0. /\ TypeOK /\ Shape /\ StrandInv /\ OneInDoubt /\ CreatedAreAbsent /\ Undoing
      /\ target' \in Image
  BY StepKeepsTypes DEF RefInv, StrandInv, TypeInv, Next, Step, TypeOK
<1>1. /\ pc = "restore" /\ txn \in Txns /\ index \in Files /\ errored = FALSE
      /\ UNCHANGED <<stage, journal, process>>
      /\ \A f \in Files : f > index => Undone(f)
      /\ index \in journal[txn].backed /\ backup[txn][index] # Absent
      /\ target \in Image /\ backup \in [Txns -> Image] /\ Absent \in Contents
  BY <1>0, ImageFacts DEF Restore, Shape, InHand, InLoop, OneInDoubt, Undoing, TypeOK
<1>t. PICK t \in Txns : t = txn
  BY <1>1
<1>i. PICK i \in Files : i = index
  BY <1>1
<1>2. /\ target' = [target EXCEPT ![i] = backup[t][i]]
      /\ backup' = [backup EXCEPT ![t][i] = Absent]
      /\ Previous(FALSE)
  <2>1. \A o \in RollbackStep : o = "ok"
    BY DEF Reliable, RollbackStep
  <2>2. ("ok" = "failed") = FALSE
    OBVIOUS
  <2>3. Previous("ok" = "failed")
    BY <2>1 DEF Restore
  <2>4. Previous(FALSE)
    BY <2>2, <2>3
  <2> QED
    BY <1>t, <1>i, <2>1, <2>4 DEF Restore
<1>3. backup[t][i] \in Contents
  BY <1>1 DEF Image
<1>4. target'[i] = backup[t][i] /\ \A f \in Files \ {i} : target'[f] = target[f]
  BY <1>1, <1>2, <1>3, SetFile
<1>5. backup'[t][i] = Absent /\ \A f \in Files \ {i} : backup'[t][f] = backup[t][f]
  BY <1>1, <1>2, SetCell
<1>6. txn' = t /\ txn = t
  BY <1>2, <1>t DEF Previous
<1>7. \A f \in Files : f >= index => Undone(f)'
  <2>1. \A f \in Files \ {i} : Undone(f) => Undone(f)'
    BY <1>1, <1>4, <1>5, <1>6 DEF Undone
  <2>2. Undone(i)'
    BY <1>1, <1>5, <1>6, <1>i DEF Undone
  <2>3. \A f \in Files : f >= i => f = i \/ (f > i /\ f # i)
    BY DEF Files
  <2> QED
    BY <1>1, <1>i, <2>1, <2>2, <2>3
<1>8. Undoing' /\ pc' \in {"undo", "unstage"} /\ errored' = FALSE
  BY <1>1, <1>2, <1>7, PreviousUndone
<1>9. OneInDoubt' /\ Progress' /\ Committing = {t} /\ Committing' = {t}
  BY <1>1, <1>6, <1>8, StillInDoubt
<1>10. \A f \in Files : BackAt(t, f)' = BackAt(t, f)
  <2>1. \A f \in Files \ {i} : BackAt(t, f)' = BackAt(t, f)
    BY <1>1, <1>4, <1>5 DEF BackAt
  <2>2. i \in journal[t].backed /\ backup[t][i] # Absent
    BY <1>1, <1>6, <1>i
  <2>3. BackAt(t, i)' = BackAt(t, i)
    BY <1>1, <1>4, <1>5, <2>2 DEF BackAt
  <2> QED
    BY <2>1, <2>3
<1>11. Restored' = Restored
  BY <1>0, <1>1, <1>9, <1>10, RestoredKept
<1>12. CreatedAreAbsent'
  <2>1. journal[t].staged \subseteq Files
    BY <1>0 DEF TypeOK, Journal, NoJournal
  <2>2. i \in journal[t].backed
    BY <1>1, <1>6, <1>i
  <2> QED
    BY <1>0, <1>1, <1>4, <1>9, <2>1, <2>2 DEF CreatedAreAbsent
<1> QED
  BY <1>8, <1>9, <1>11, <1>12 DEF RefFacts

\* When every entry is rolled back, the stages and the journal are not needed
\* any more.
LEMMA RefUnstage ==
    ASSUME RefInv, Reliable, Unstage
    PROVE  RefFacts' /\ Restored' = Restored
<1>0. /\ TypeOK /\ Shape /\ StrandInv /\ OneInDoubt /\ CreatedAreAbsent /\ Undoing
  BY DEF RefInv, StrandInv, TypeInv
<1>1. /\ pc = "unstage" /\ txn \in Txns /\ index \in Files /\ errored = FALSE
      /\ UNCHANGED <<target, backup, process>>
      /\ \A f \in Files : Undone(f)
      /\ target \in Image /\ stage \in [Txns -> Image] /\ Absent \in Contents
  BY <1>0, ImageFacts DEF Unstage, Shape, InHand, InLoop, OneInDoubt, Undoing, TypeOK
<1>t. PICK t \in Txns : t = txn
  BY <1>1
<1>2. /\ stage' = [stage EXCEPT ![txn][index] = Absent]
      /\ \/ Goto("unstage", index + 1) /\ UNCHANGED journal
         \/ journal' = [journal EXCEPT ![txn] = NoJournal] /\ Finish
  <2>1. \A o \in RollbackStep : o = "ok"
    BY DEF Reliable, RollbackStep
  <2> QED
    BY <1>1, <2>1 DEF Unstage
<1>3. \A f \in Files : BackAt(t, f) = target[f]
  BY <1>1, <1>t, UndoneIsBack
<1>4. Committing = {t}
  BY <1>0, <1>1, <1>t, OwnInDoubt
<1>5. CASE Goto("unstage", index + 1) /\ UNCHANGED journal
  <2>1. pc' = "unstage" /\ txn' = txn /\ errored' = FALSE
    BY <1>1, <1>5 DEF Goto
  <2>2. OneInDoubt' /\ Progress' /\ Committing' = {t}
    BY <1>1, <1>5, <1>t, <2>1, StillInDoubt
  <2>3. \A f \in Files : Undone(f)'
    BY <1>1, <1>5, <2>1 DEF Undone
  <2>4. Undoing'
    BY <2>1, <2>3 DEF Undoing
  <2>5. \A f \in Files : BackAt(t, f)' = target[f]
    BY <1>1, <1>5, <1>t DEF Undone, BackAt
  <2>6. target' \in Image
    BY <1>1
  <2>7. Restored' = Restored
    BY <1>1, <1>3, <1>4, <2>2, <2>5, <2>6, RestoredKept
  <2>8. CreatedAreAbsent'
    <3>1. journal[t].staged \subseteq Files
      BY <1>0 DEF TypeOK, Journal, NoJournal
    <3> QED
      BY <1>1, <1>5, <1>t, <2>2, <3>1 DEF CreatedAreAbsent, Undone
  <2> QED
    BY <2>2, <2>4, <2>7, <2>8 DEF RefFacts
<1>6. CASE journal' = [journal EXCEPT ![txn] = NoJournal] /\ Finish
  <2>1. /\ plan' = NoPlan /\ errored' = FALSE /\ pc' \in {"idle", "recover"}
    BY <1>6 DEF Finish, Return
  <2>2. /\ journal'[t] = NoJournal
        /\ \A u \in Txns \ {t} : journal'[u] = journal[u]
    BY <1>0, <1>6, <1>t DEF TypeOK
  <2>3. Committing' = {}
    BY <1>4, <2>2 DEF Committing, NoJournal
  <2>4. \A u \in Txns : journal'[u].owner <= process'
    <3>1. process \in Nat /\ \A u \in Txns : journal[u].owner <= process
      BY <1>0, FileTransactionAssumption DEF TypeOK, OneInDoubt
    <3>2. journal'[t].owner = 0
      BY <2>2 DEF NoJournal
    <3> QED
      BY <1>1, <2>2, <3>1, <3>2
  <2>5. OneInDoubt'
    BY <2>1, <2>3, <2>4 DEF OneInDoubt
  <2>6. CreatedAreAbsent'
    BY <2>3 DEF CreatedAreAbsent
  <2>7. Restored' = Restored
    <3>1. target' \in Image /\ \A f \in Files : target'[f] = BackAt(t, f)
      BY <1>1, <1>3
    <3> QED
      BY <1>1, <1>4, <2>3, <3>1, RestoredKept
  <2> QED
    BY <2>1, <2>5, <2>6, <2>7, RefAtRest
<1> QED
  BY <1>2, <1>5, <1>6

\* The editor saves only what no transaction has on the move: a save is a save
\* of what the workspace will hold after a recovery.
LEMMA RefEdit ==
    ASSUME RefInv, Reliable, NEW g \in Files, NEW c \in {Absent, Edited}, Edit(g, c)
    PROVE  RefFacts' /\ Restored' = [Restored EXCEPT ![g] = c]
<1>0. /\ TypeOK /\ Shape /\ StrandInv /\ OneInDoubt /\ Progress /\ CreatedAreAbsent /\ Undoing
  BY DEF RefInv, StrandInv, TypeInv
<1>1. /\ target' = [target EXCEPT ![g] = c] /\ g \notin Staged \ Backed
      /\ \A t \in InDoubt : g \notin Entries(t)
      /\ UNCHANGED <<stage, backup, journal, process, pc, txn, index, todo, errored, plan>>
      /\ target \in Image /\ c \in Contents
  BY <1>0, ImageFacts DEF Edit, Reliable, TypeOK
<1>2. /\ target'[g] = c /\ \A f \in Files \ {g} : target'[f] = target[f]
      /\ target' \in Image
  BY <1>1 DEF Image
<1>3. Committing' = Committing /\ Committing \subseteq Txns
  BY <1>1 DEF Committing
<1>4. \A t \in Committing : (pc = "verify" /\ txn = t) \/ g \notin Entries(t)
  BY <1>1 DEF InDoubt
<1>5. OneInDoubt'
  BY <1>0, <1>1, <1>3 DEF OneInDoubt
<1>6. Staged' = Staged /\ Backed' = Backed /\ \A f \in Files : Postimage(f)' = Postimage(f)
  BY <1>1, SamePlan
<1>7. pc \in {"backup", "install", "seal", "undo", "restore", "unstage"} =>
         g \notin Entries(txn)
  BY <1>0, <1>4, OwnInDoubt
<1>8. Undoing'
  <2>1. pc \in {"undo", "restore", "unstage"} =>
           \A f \in Files : Undone(f) => Undone(f)'
    BY <1>1, <1>2, <1>7 DEF Undone, Entries
  <2> QED
    BY <1>0, <1>1, <2>1 DEF Undoing
<1>9. Progress'
  <2>1. \A f \in Staged \ Backed : target'[f] = target[f]
    BY <1>1, <1>2 DEF Staged, Actionable
  <2>2. CASE pc \in {"backup", "install", "seal"}
    <3>1. g \notin Staged \cup Backed
      BY <1>0, <1>7, <2>2, OwnInDoubt DEF StrandInv, Journaled, OwnJournal, Entries
    <3>2. g \notin Actionable
      BY <3>1 DEF Staged, Backed, Actionable
    <3>3. Actionable' = Actionable
      BY <1>1 DEF Actionable
    <3>4. \A f \in Files : /\ Ahead(f) => Ahead(f)'
                           /\ Aside(f) => Aside(f)'
                           /\ InPlace(f) => InPlace(f)'
      BY <1>1, <1>2, <1>6, <3>2, <3>3 DEF Ahead, Aside, InPlace
    <3>5. pc = "install" => index \in Files
      BY <1>0 DEF Shape, InLoop
    <3> QED
      BY <1>0, <1>1, <2>2, <3>4, <3>5 DEF Progress
  <2>3. CASE pc \notin {"backup", "install", "seal"}
    BY <1>0, <1>1, <1>6, <2>1, <2>3 DEF Progress
  <2> QED
    BY <2>2, <2>3
<1>10. CASE Committing = {}
  <2>1. Restored = target /\ Restored' = target'
    BY <1>3, <1>10, RestoredIs, RestoredIsNext
  <2>2. CreatedAreAbsent'
    BY <1>3, <1>10 DEF CreatedAreAbsent
  <2> QED
    BY <1>1, <1>5, <1>8, <1>9, <2>1, <2>2 DEF RefFacts
<1>11. ASSUME NEW t \in Committing, pc = "verify" /\ txn = t
       PROVE  RefFacts' /\ Restored' = [Restored EXCEPT ![g] = c]
  <2>1. t \in Txns /\ txn = t /\ pc = "verify" /\ Committing = {t} /\ Committing' = {t}
    BY <1>0, <1>3, <1>11 DEF OneInDoubt
  <2>2. journal[t].staged = Staged /\ journal[t].backed = Backed
    BY <1>0, <2>1 DEF StrandInv, Journaled, OwnJournal
  <2>3. /\ \A f \in Files : backup[t][f] = Absent
        /\ \A f \in Staged : stage[t][f] # Absent
    <3>1. \A f \in Staged : f \in Files /\ plan.after[f] # Absent
      BY DEF Staged, Actionable
    <3>2. backup[t] = Nowhere /\ \A f \in Files : stage[t][f] = Postimage(f)
      BY <1>0, <2>1 DEF Progress
    <3> QED
      BY <3>1, <3>2, ImageFacts DEF Postimage
  <2>4. \A f \in Files : BackAt(t, f) = target[f] /\ BackAt(t, f)' = target'[f]
    BY <1>1, <2>2, <2>3 DEF BackAt
  <2>5. Restored = target /\ Restored' = target'
    <3>1. Restored = [f \in Files |-> target[f]] /\ Restored' = [f \in Files |-> target'[f]]
      BY <2>1, <2>4, RestoredIs, RestoredIsNext
    <3> QED
      BY <1>1, <1>2, <3>1 DEF Image
  <2>6. CreatedAreAbsent'
    <3>1. \A f \in Staged \ Backed : f \in Files \ {g}
      BY <1>1 DEF Staged, Actionable
    <3> QED
      BY <1>0, <1>1, <1>2, <2>1, <2>2, <3>1 DEF CreatedAreAbsent
  <2> QED
    BY <1>1, <1>5, <1>8, <1>9, <2>5, <2>6 DEF RefFacts
<1>12. ASSUME NEW t \in Committing, g \notin Entries(t)
       PROVE  RefFacts' /\ Restored' = [Restored EXCEPT ![g] = c]
  <2>1. t \in Txns /\ Committing = {t} /\ Committing' = {t}
    BY <1>0, <1>3, <1>12 DEF OneInDoubt
  <2>2. /\ BackAt(t, g) = target[g] /\ BackAt(t, g)' = c
        /\ \A f \in Files \ {g} : BackAt(t, f)' = BackAt(t, f)
    BY <1>1, <1>2, <1>12 DEF BackAt, Entries
  <2>3. /\ Restored = [f \in Files |-> BackAt(t, f)]
        /\ Restored' = [f \in Files |-> BackAt(t, f)']
    BY <2>1, RestoredIs, RestoredIsNext
  <2>4. Restored' = [Restored EXCEPT ![g] = c]
    BY <2>2, <2>3
  <2>5. CreatedAreAbsent'
    <3>1. \A f \in journal[t].staged \ journal[t].backed : f # g
      BY <1>12 DEF Entries
    <3>2. journal[t].staged \subseteq Files
      BY <1>0, <2>1 DEF TypeOK, Journal, NoJournal
    <3> QED
      BY <1>0, <1>1, <1>2, <2>1, <3>1, <3>2 DEF CreatedAreAbsent
  <2> QED
    BY <1>5, <1>8, <1>9, <2>4, <2>5 DEF RefFacts
<1> QED
  BY <1>4, <1>10, <1>11, <1>12

LEMMA InitRef ==
    ASSUME Init
    PROVE  RefInv /\ Atomic!Init
<1>1. NoPreimageStranded /\ Untouched /\ Journaled /\ PassedRestored
  BY ImageFacts DEF Init, NoPreimageStranded, Untouched, Journaled, PassedRestored,
        RollbackIsJournaled
<1>2. Committing = {}
  BY DEF Init, Committing, NoJournal
<1>3. \A t \in Txns : journal[t].owner <= process
  <2>1. process = 0 /\ \A t \in Txns : journal[t].owner = 0
    BY DEF Init, NoJournal
  <2>2. 0 <= 0
    OBVIOUS
  <2> QED
    BY <2>1, <2>2, Zenon
<1>4. OneInDoubt /\ Progress /\ CreatedAreAbsent /\ Undoing
  BY <1>2, <1>3 DEF Init, OneInDoubt, Progress, CreatedAreAbsent, Undoing
<1>5. Restored = target /\ target \in Image
  BY <1>2, RestoredIs, FileTransactionAssumption DEF Init
<1> QED
  BY <1>1, <1>4, <1>5, InitTypes DEF RefInv, StrandInv, Init, Atomic!Init, Atomic!Image, Image

\* Every step keeps the invariant, and is a step of AtomicFiles or none.
LEMMA StepRefines ==
    ASSUME RefInv, StrandInv', Reliable, [Next]_vars
    PROVE  RefInv' /\ (Atomic!Next \/ UNCHANGED <<Restored, plan, edits>>)
<1> SUFFICES RefFacts' /\ (Atomic!Next \/ UNCHANGED <<Restored, plan, edits>>)
  BY DEF RefInv, RefFacts
<1>1. ASSUME RefFacts', Restored' = Restored, plan' \in {plan, NoPlan}, edits' = edits
      PROVE  RefFacts' /\ (Atomic!Next \/ UNCHANGED <<Restored, plan, edits>>)
  BY <1>1 DEF Atomic!Next, Atomic!Drop
<1>2. ASSUME \/ Start \/ NewPlan \/ RecoverDone \/ PlanRefused \/ Crash
             \/ \E t \in Txns : recover_pending(t)
      PROVE  RefFacts' /\ (Atomic!Next \/ UNCHANGED <<Restored, plan, edits>>)
  <2>1. plan' \in {plan, NoPlan} /\ edits' = edits
    BY <1>2 DEF Start, NewPlan, RecoverDone, PlanRefused, Crash, recover_pending
  <2> QED
    BY <1>1, <1>2, <2>1, RefRecover
<1>3. ASSUME VerifyFirst \/ StageEntries \/ Prepare \/ Mark
      PROVE  RefFacts' /\ (Atomic!Next \/ UNCHANGED <<Restored, plan, edits>>)
  <2>1. plan' \in {plan, NoPlan} /\ edits' = edits
    BY <1>3 DEF VerifyFirst, StageEntries, Prepare, Mark, Goto, AbandonStages, Return
  <2> QED
    BY <1>1, <1>3, <2>1, RefPrepare
<1>4. ASSUME VerifyAgain \/ MoveToBackup \/ Install \/ Clean
      PROVE  RefFacts' /\ (Atomic!Next \/ UNCHANGED <<Restored, plan, edits>>)
  <2>1. plan' \in {plan, NoPlan} /\ edits' = edits
    BY <1>4 DEF VerifyAgain, MoveToBackup, Install, Clean, Goto, Finish, Return
  <2> QED
    BY <1>1, <1>4, <2>1, RefMove, RefClean
<1>5. ASSUME Undo \/ Restore \/ Unstage
      PROVE  RefFacts' /\ (Atomic!Next \/ UNCHANGED <<Restored, plan, edits>>)
  <2>1. plan' \in {plan, NoPlan} /\ edits' = edits
    BY <1>5 DEF Undo, Restore, Unstage, Previous, Goto, Finish, Return
  <2> QED
    BY <1>1, <1>5, <2>1, RefUndo, RefRestore, RefUnstage
<1>6. ASSUME NEW t \in Txns, NEW after \in [Files -> Contents], Plan(t, after)
      PROVE  RefFacts' /\ (Atomic!Next \/ UNCHANGED <<Restored, plan, edits>>)
  <2>1. RefFacts' /\ Restored' = Restored /\ Restored = target /\ plan = NoPlan
    BY <1>6, RefPlan
  <2>2. plan' = [before |-> Restored, after |-> after] /\ edits' = edits
    BY <1>6, <2>1 DEF Plan
  <2>3. Atomic!Plan
    BY <2>1, <2>2 DEF Atomic!Plan, Atomic!Image
  <2> QED
    BY <2>1, <2>3 DEF Atomic!Next
<1>7. ASSUME Seal
      PROVE  RefFacts' /\ (Atomic!Next \/ UNCHANGED <<Restored, plan, edits>>)
  <2>1. plan' = NoPlan /\ edits' = edits
    BY <1>7 DEF Seal
  <2>2. RefFacts' /\ (Restored' = Restored \/ Applied)
    BY <1>7, RefSeal
  <2>3. CASE Restored' = Restored
    BY <1>1, <2>1, <2>2, <2>3
  <2>4. CASE Applied /\ plan # NoPlan
    <3>1. Atomic!Apply
      BY <2>1, <2>4 DEF Atomic!Apply, Applied, Actionable
    <3> QED
      BY <2>2, <3>1 DEF Atomic!Next
  <2>5. CASE Applied /\ plan = NoPlan
    <3>1. Actionable = {}
      BY <2>5 DEF Actionable, NoPlan
    <3>2. Restored' = [f \in Files |-> Restored[f]]
      BY <2>5, <3>1 DEF Applied
    <3>3. Restored = [f \in Files |-> Restored[f]]
      <4>1. TypeOK /\ StrandInv /\ OneInDoubt /\ pc = "seal"
        BY <1>7 DEF RefInv, StrandInv, TypeInv, Seal
      <4>2. Committing = {txn} /\ txn \in Txns
        BY <4>1, OwnInDoubt
      <4> QED
        BY <4>2, RestoredIs
    <3> QED
      BY <1>1, <2>1, <2>2, <3>2, <3>3
  <2> QED
    BY <2>2, <2>3, <2>4, <2>5
<1>8. ASSUME NEW g \in Files, NEW c \in {Absent, Edited}, Edit(g, c)
      PROVE  RefFacts' /\ (Atomic!Next \/ UNCHANGED <<Restored, plan, edits>>)
  <2>1. RefFacts' /\ Restored' = [Restored EXCEPT ![g] = c]
    BY <1>8, RefEdit
  <2>2. plan' = plan /\ edits' = edits + 1 /\ c \in Contents
    BY <1>8, ImageFacts DEF Edit
  <2>3. Atomic!Edit(g, c)
    BY <2>1, <2>2 DEF Atomic!Edit
  <2> QED
    BY <2>1, <2>2, <2>3 DEF Atomic!Next
<1>9. ASSUME UNCHANGED vars
      PROVE  RefFacts' /\ (Atomic!Next \/ UNCHANGED <<Restored, plan, edits>>)
  <2>1. UNCHANGED <<target, stage, backup, journal, process, pc, txn, index, todo, errored, plan,
                    edits>>
    BY <1>9 DEF vars
  <2>2. Restored' = Restored
    BY <2>1, DiskQuiet
  <2>3. Committing' = Committing
    BY <2>1 DEF Committing
  <2>4. Actionable' = Actionable /\ Staged' = Staged /\ Backed' = Backed
        /\ \A f \in Files : Postimage(f)' = Postimage(f)
    BY <2>1, SamePlan
  <2>5. OneInDoubt' /\ CreatedAreAbsent' /\ Undoing'
    BY <2>1, <2>3 DEF RefInv, OneInDoubt, CreatedAreAbsent, Undoing, Undone
  <2>6. /\ \A f \in Files : Ahead(f)' = Ahead(f) /\ InPlace(f)' = InPlace(f)
        /\ Aside(index)' = Aside(index)
    BY <2>1 DEF Ahead, InPlace, Aside, Postimage, Staged, Backed, Actionable
  <2>7. Progress'
    BY <2>1, <2>4, <2>6 DEF RefInv, Progress
  <2> QED
    BY <2>1, <2>2, <2>5, <2>7 DEF RefFacts
<1> QED
  BY <1>2, <1>3, <1>4, <1>5, <1>6, <1>7, <1>8, <1>9 DEF Next, Step

\* Without failing rollbacks, a rollback is exact: at every point the preimage
\* of each file of the batch in doubt is where a recovery looks for it.
THEOREM TransactionRollbackInvariant == Reliable => (Spec => []RefInv)
<1> SUFFICES ASSUME Reliable PROVE Spec => []RefInv
  OBVIOUS
<1>1. Init => RefInv
  BY InitRef
<1>2. RefInv /\ StrandInv' /\ [Next]_vars => RefInv'
  BY StepRefines
<1>3. Spec => []StrandInv
  BY TransactionInvariant DEF Reliable
<1> QED
  BY <1>1, <1>2, <1>3, PTL DEF Spec

\* The transactions implement AtomicFiles: whatever error happens in commit,
\* and wherever in commit, rollback or recovery the process dies, what the
\* workspace holds once it is recovered changes by whole batches, each applied
\* to the files it was planned on, and by the editor's saves.  The premise
\* rules out errors inside a rollback and saves of the files that a batch in
\* doubt lists, which rollback would remove.
THEOREM TransactionImplementsAtomicFiles == Reliable => (Spec => ImplementsAtomicFiles)
<1> SUFFICES ASSUME Reliable PROVE Spec => ImplementsAtomicFiles
  OBVIOUS
<1>1. Init => Atomic!Init
  BY InitRef
<1>2. RefInv /\ StrandInv' /\ [Next]_vars => [Atomic!Next]_<<Restored, plan, edits>>
  BY StepRefines
<1>3. Spec => []StrandInv
  BY TransactionInvariant DEF Reliable
<1>4. Spec => []RefInv
  BY TransactionRollbackInvariant
<1> QED
  BY <1>1, <1>2, <1>3, <1>4, PTL DEF Spec, ImplementsAtomicFiles, Atomic!Spec, Atomic!vars
=============================================================================
