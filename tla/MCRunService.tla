---------------------------- MODULE MCRunService ----------------------------
(* Small instances of RunService for TLC.                                  *)
EXTENDS RunService, TLC

\* Runs are interchangeable within their origin.
RunSymmetry == Permutations(ApiRuns) \cup Permutations(SchedRuns)
=============================================================================
