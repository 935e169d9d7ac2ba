------------------------- MODULE WorkspaceContract -------------------------
(***************************************************************************)
(* What the WorkspaceController trait promises to the harness              *)
(* (crates/hi-workspace/src/controller.rs), whichever controller stands    *)
(* behind it: a mutation is admitted only when no other one is in progress *)
(* and no recovery fences the workspace, every admitted mutation ends at   *)
(* most once, and one that ends without a settlement leaves the workspace  *)
(* fenced.                                                                 *)
(***************************************************************************)
CONSTANTS
    Ops,    \* operation identifiers, each admitted at most once
    NoOp    \* no operation

VARIABLES
    holder,     \* the operation in progress
    settled,    \* the operations that ended with a definite settlement
    unsettled,  \* the operations that ended in any other way
    fenced      \* admission is closed until a recovery is reconciled

Ended == settled \cup unsettled

\* An earlier process may have left something to recover.
Init == holder = NoOp /\ settled = {} /\ unsettled = {} /\ fenced \in BOOLEAN

Admit(o) ==
    /\ holder = NoOp /\ ~fenced /\ o \notin Ended
    /\ holder' = o
    /\ UNCHANGED <<settled, unsettled, fenced>>

\* A settled mutation leaves the workspace open.
Settle(o) ==
    /\ holder = o /\ o \notin Ended
    /\ holder' = NoOp
    /\ settled' = settled \cup {o}
    /\ fenced' = FALSE
    /\ UNCHANGED unsettled

\* A mutation that is dropped, or whose effects are unknown, has no other
\* ending than a fence.
Abandon(o) ==
    /\ holder = o /\ o \notin Ended
    /\ holder' = NoOp
    /\ unsettled' = unsettled \cup {o}
    /\ fenced' = TRUE
    /\ UNCHANGED settled

\* A job or the loss of the writer lease left something to recover.
Fence == fenced' = TRUE /\ UNCHANGED <<holder, settled, unsettled>>

Lift == fenced /\ fenced' = FALSE /\ UNCHANGED <<holder, settled, unsettled>>

Next ==
    \/ \E o \in Ops : Admit(o) \/ Settle(o) \/ Abandon(o)
    \/ Fence
    \/ Lift

Spec == Init /\ [][Next]_<<holder, settled, unsettled, fenced>>
=============================================================================
