----------------------------- MODULE AtomicFiles -----------------------------
(***************************************************************************)
(* What MutationPlan (crates/hi-tools/src/transaction.rs) promises its     *)
(* callers: a batch of file changes is applied whole or not at all, on     *)
(* exactly the files the plan was computed from.  Files also change under  *)
(* the hands of an editor that knows nothing of transactions.              *)
(***************************************************************************)
EXTENDS Naturals

CONSTANTS
    Files,     \* the paths of the workspace
    Contents,  \* what a path can hold, its absence included
    NoPlan     \* no batch is planned

VARIABLES
    files,     \* the content of every path
    plan,      \* the preimage and the postimage of the planned batch
    edits      \* how often the editor has saved

vars == <<files, plan, edits>>

Image == [Files -> Contents]

Init ==
    /\ files \in Image
    /\ plan = NoPlan
    /\ edits = 0

\* A plan records what it saw and what it wants.
Plan ==
    /\ plan = NoPlan
    /\ plan' \in [before : {files}, after : Image]
    /\ UNCHANGED <<files, edits>>

\* The batch fails, or the process that holds it ends: nothing happened.
Drop ==
    /\ plan' = NoPlan
    /\ UNCHANGED <<files, edits>>

\* The whole batch at once.  Every path it changes still holds its preimage;
\* the others are left alone.
Apply ==
    LET changed == {f \in Files : plan.before[f] # plan.after[f]} IN
    /\ plan # NoPlan
    /\ \A f \in changed : files[f] = plan.before[f]
    /\ files' = [f \in Files |-> IF f \in changed THEN plan.after[f] ELSE files[f]]
    /\ plan' = NoPlan
    /\ UNCHANGED edits

Edit(f, c) ==
    /\ edits' = edits + 1
    /\ files' = [files EXCEPT ![f] = c]
    /\ UNCHANGED plan

Next ==
    \/ Plan
    \/ Drop
    \/ Apply
    \/ \E f \in Files, c \in Contents : Edit(f, c)

Spec == Init /\ [][Next]_vars
=============================================================================
