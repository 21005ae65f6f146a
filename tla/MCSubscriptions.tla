-------------------------- MODULE MCSubscriptions --------------------------
(***************************************************************************)
(* Model values for Subscriptions: two purchases, so that one may be       *)
(* bought over the other, one override, and two requests that overlap.     *)
(***************************************************************************)
EXTENDS Subscriptions, TLC

CONSTANTS p1, p2, o1, h1, h2

TwoPurchases == {p1, p2}
OneOverride  == {o1}
TwoHandlers  == {h1, h2}

Symmetry == Permutations(TwoPurchases) \cup Permutations(TwoHandlers)
=============================================================================
