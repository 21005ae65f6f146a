------------------------------ MODULE MCSessions ------------------------------
(***************************************************************************)
(* Model values for Sessions: two requests at a time, three tokens.        *)
(***************************************************************************)
EXTENDS Sessions, TLC

CONSTANTS h1, h2, t1, t2, t3

TwoRequests == {h1, h2}
ThreeTokens == {t1, t2, t3}

Symmetry == Permutations(TwoRequests) \cup Permutations(ThreeTokens)
=============================================================================
