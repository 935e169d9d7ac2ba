------------------------- MODULE MCPipeFsController -------------------------
(***************************************************************************)
(* Small instances of PipeFsController.                                    *)
(***************************************************************************)
EXTENDS PipeFsController, TLC

CONSTANTS o1, o2, c1, h1

Candidate == [kind |-> "WriteCandidate", effect_scope |-> "CandidateOnly"]
HookWriter == [kind |-> "Hook", effect_scope |-> "LiveWriter"]

\* A candidate that the mutation o1 starts, and a live writer, which the
\* controller never admits.
BothJobs == {c1, h1}
BothSpec == c1 :> Candidate @@ h1 :> HookWriter
BothParent == c1 :> o1 @@ h1 :> NoOp

\* The live writer alone: no job ever runs.
OneJob == {h1}
OneSpec == h1 :> HookWriter
OneParent == h1 :> NoOp
=============================================================================
