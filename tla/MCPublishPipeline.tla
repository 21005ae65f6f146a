------------------------- MODULE MCPublishPipeline -------------------------
(***************************************************************************)
(* Model values for PublishPipeline.  Workers are interchangeable: their   *)
(* ids are never compared.                                                 *)
(***************************************************************************)
EXTENDS PublishPipeline, TLC

CONSTANTS w1, w2, u1, u2

OneWorker  == {w1}
TwoWorkers == {w1, w2}
OneSession == {u1}
TwoSessions == {u1, u2}

WorkerSymmetry  == Permutations(TwoWorkers)
=============================================================================
