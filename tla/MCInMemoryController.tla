------------------------ MODULE MCInMemoryController ------------------------
(***************************************************************************)
(* Small instances of InMemoryController.                                  *)
(***************************************************************************)
EXTENDS InMemoryController, TLC

CONSTANTS o1, o2, c1, c2, h1, h2

Candidate == [kind |-> "WriteCandidate", effect_scope |-> "CandidateOnly"]
HookWriter == [kind |-> "Hook", effect_scope |-> "LiveWriter"]

\* A hook and two candidates that the mutation o1 starts: two candidates for
\* one preparation slot, three jobs for two places.  For the operation o2 the
\* hook is a foreign writer.
LocalJobs == {h1, c1, c2}
LocalSpec == h1 :> HookWriter @@ c1 :> Candidate @@ c2 :> Candidate
LocalParent == [j \in LocalJobs |-> o1]

\* The candidates are alike, and no property names one.
Candidates == Permutations({c1, c2})

\* A hook that the mutation o1 starts and a writer that nobody started.
WriterJobs == {h1, h2}
WriterSpec == h1 :> HookWriter @@ h2 :> HookWriter
WriterParent == h1 :> o1 @@ h2 :> NoOp
=============================================================================
