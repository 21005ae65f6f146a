---------------------------- MODULE MCWorkspaces ----------------------------
(***************************************************************************)
(* Model values for Workspaces: an owner, an admin and one more, a plan    *)
(* that allows one member, and two requests that overlap.                  *)
(***************************************************************************)
EXTENDS Workspaces, TLC

CONSTANTS u1, u2, u3, s1, s2

ThreeUsers  == {u1, u2, u3}
TwoSessions == {s1, s2}

Symmetry == Permutations(ThreeUsers) \cup Permutations(TwoSessions)
=============================================================================
