---------------------------- MODULE Entitlements ----------------------------
(***************************************************************************)
(* What the billing service promises about each purchase: a purchase that  *)
(* Stripe has charged becomes a subscription once, with its credits, and   *)
(* from then on the subscription changes only to what Stripe has reported  *)
(* of it, or is superseded by another plan.  Subscriptions implements it.  *)
(***************************************************************************)
EXTENDS Naturals

CONSTANT Purchases    \* Stripe subscriptions

VARIABLES
  reported,    \* what Stripe has reported of each purchase
  standing,    \* status of the subscription of each purchase, "none" before it
  granted      \* allocations of the credits of each purchase

vars == <<reported, standing, granted>>

Notices  == {"checkout", "paid", "failed", "deleted"}
Standing == {"ACTIVE", "PAST_DUE", "CANCELLED"}

\* The status that a report of an invoice or of the end stands for.
Reads(report) ==
  CASE report = "paid"    -> "ACTIVE"
    [] report = "failed"  -> "PAST_DUE"
    [] report = "deleted" -> "CANCELLED"

Init ==
  /\ reported = [p \in Purchases |-> {}]
  /\ standing = [p \in Purchases |-> "none"]
  /\ granted = [p \in Purchases |-> 0]

Report(p, reports) ==
  /\ reported' = [reported EXCEPT ![p] = @ \cup reports]
  /\ UNCHANGED <<standing, granted>>

\* The purchases of S lose their place to a newer plan.
Superseded(S) == [q \in Purchases |-> IF q \in S THEN "CANCELLED" ELSE standing[q]]

Activate(p, S) ==
  /\ "checkout" \in reported[p]
  /\ standing[p] = "none"
  /\ \A q \in S : standing[q] # "none"
  /\ standing' = [Superseded(S) EXCEPT ![p] = "ACTIVE"]
  /\ granted' = [granted EXCEPT ![p] = @ + 1]
  /\ UNCHANGED reported

Follow(p, report) ==
  /\ report \in reported[p] \ {"checkout"}
  /\ standing[p] # "none"
  /\ standing' = [standing EXCEPT ![p] = Reads(report)]
  /\ UNCHANGED <<reported, granted>>

Supersede(S) ==
  /\ \A q \in S : standing[q] # "none"
  /\ standing' = Superseded(S)
  /\ UNCHANGED <<reported, granted>>

Next ==
  \/ \E p \in Purchases, reports \in SUBSET Notices : Report(p, reports)
  \/ \E p \in Purchases, S \in SUBSET Purchases : Activate(p, S)
  \/ \E p \in Purchases, report \in Notices : Follow(p, report)
  \/ \E S \in SUBSET Purchases : Supersede(S)

Spec == Init /\ [][Next]_vars
=============================================================================
