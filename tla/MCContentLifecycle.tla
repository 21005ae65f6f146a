------------------------ MODULE MCContentLifecycle ------------------------
(***************************************************************************)
(* Model values for the drafts of ContentLifecycle.  Drafts are            *)
(* interchangeable: the handlers never compare their ids.                  *)
(***************************************************************************)
EXTENDS ContentLifecycle, TLC

CONSTANTS d1, d2

OneDraft  == {d1}
TwoDrafts == {d1, d2}

Symmetry == Permutations(TwoDrafts)
=============================================================================
