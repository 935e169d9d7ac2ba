-------------------------- MODULE MCJournalRestart --------------------------
(***************************************************************************)
(* JournalRestart with two operations, or with an operation and a job.     *)
(***************************************************************************)
EXTENDS JournalRestart, TLC

CONSTANTS o1, o2, j1

TwoAtATime == {{o1, o2}, {o1, j1}, {o2, j1}}

\* The operations are alike, and so are the workloads and the properties.
Operations == Permutations({o1, o2})
=============================================================================
