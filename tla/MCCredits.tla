----------------------------- MODULE MCCredits -----------------------------
(***************************************************************************)
(* Model values for Credits.  The ids of jobs and workers are never        *)
(* compared with a constant.                                               *)
(***************************************************************************)
EXTENDS Credits, TLC

CONSTANTS j1, j2, w1, w2, c1

TwoJobs    == {j1, j2}
TwoWorkers == {w1, w2}
OneClerk   == {c1}

Symmetry == Permutations(TwoJobs) \cup Permutations(TwoWorkers)
=============================================================================
