--------------------------- MODULE MCJobRegistry ---------------------------
(***************************************************************************)
(* Small instances of JobRegistry: a few jobs of the kinds that compete    *)
(* for a slot.                                                             *)
(***************************************************************************)
EXTENDS JobRegistry, TLC

CONSTANTS c1, c2, r1, p1, h1

Candidate == [kind |-> "WriteCandidate", effect_scope |-> "CandidateOnly"]
Reader == [kind |-> "ReadAgent", effect_scope |-> "ReadOnly"]
Process == [kind |-> "Process", effect_scope |-> "LiveWriter"]
HookWriter == [kind |-> "Hook", effect_scope |-> "LiveWriter"]

\* Two candidates for one preparation slot, three jobs for two places.
MCJobsAdmission == {c1, c2, r1}
MCSpecAdmission == c1 :> Candidate @@ c2 :> Candidate @@ r1 :> Reader

\* A local process, which restarts forget, and a hook, which they fence; both
\* ask to write to the live workspace.
MCJobsWriters == {p1, h1}
MCSpecWriters == p1 :> Process @@ h1 :> HookWriter

\* One candidate, for the run about waiting.
MCJobsWaiting == {c1}
MCSpecWaiting == c1 :> Candidate
=============================================================================
