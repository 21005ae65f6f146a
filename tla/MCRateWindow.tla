---------------------------- MODULE MCRateWindow ----------------------------
(***************************************************************************)
(* Model values for RateWindow: three workers whose pipelines may run in   *)
(* another order than their clocks were read.                              *)
(***************************************************************************)
EXTENDS RateWindow, TLC

CONSTANTS c1, c2, c3

ThreeWorkers == {c1, c2, c3}

Symmetry == Permutations(ThreeWorkers)
=============================================================================
