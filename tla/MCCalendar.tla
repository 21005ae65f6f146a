------------------------------ MODULE MCCalendar ------------------------------
(***************************************************************************)
(* Model values for Calendar.  Slots are interchangeable, and so are       *)
(* approvals.                                                              *)
(***************************************************************************)
EXTENDS Calendar, TLC

CONSTANTS s1, s2, a1, a2

TwoSlots     == {s1, s2}
TwoApprovals == {a1, a2}

Symmetry == Permutations(TwoSlots) \cup Permutations(TwoApprovals)
=============================================================================
