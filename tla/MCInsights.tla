------------------------------ MODULE MCInsights ------------------------------
(***************************************************************************)
(* Two accounts with a post each: the row of one may break the session the *)
(* metrics of the other are flushed in.                                    *)
(***************************************************************************)
EXTENDS Insights, TLC

CONSTANTS a1, a2, p1, p2

TwoAccounts == {a1, a2}
TwoPosts    == {p1, p2}

Owner == p1 :> a1 @@ p2 :> a2

\* The second hour of a Monday and the first of a Sunday.
Published ==
  p1 :> [day |-> 0, hour |-> 1] @@ p2 :> [day |-> 6, hour |-> 0]
=============================================================================
