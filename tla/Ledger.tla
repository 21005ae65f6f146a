------------------------------- MODULE Ledger -------------------------------
(***************************************************************************)
(* The credits of a workspace as its ledger shows them: a balance, and the *)
(* entries that explain it.  Whoever changes the balance has read it some  *)
(* time before, and replaces whatever it is by then; every change but an   *)
(* expiry comes with one entry, and a job has one deduction at most.       *)
(*                                                                         *)
(* Credits, with its jobs, messages, retries, locks and lost workers,      *)
(* implements it: nothing else than the age of a reading is wrong with it. *)
(***************************************************************************)
EXTENDS Integers

CONSTANTS Jobs, Cost, Initial, Monthly, FreePlan, Grant

VARIABLES
  balance,
  pending,      \* balances read by transactions that may still write
  given,        \* Initial, and the amounts of the positive entries
  charged,      \* deductions of each job
  refunded      \* refunds of each job

entries == <<given, charged, refunded>>
vars    == <<balance, pending, entries>>

Init ==
  /\ balance = Initial /\ given = Initial
  /\ pending = {}
  /\ charged = [j \in Jobs |-> 0]
  /\ refunded = [j \in Jobs |-> 0]

\* Transactions read the balance, or end without writing it.
Look ==
  /\ pending' \in SUBSET (pending \cup {balance})
  /\ UNCHANGED <<balance, entries>>

Charge(j) ==
  /\ charged[j] = 0
  /\ \E read \in pending : read >= Cost /\ balance' = read - Cost
  /\ charged' = [charged EXCEPT ![j] = 1]
  /\ UNCHANGED <<given, refunded>>

Refund(j) ==
  /\ \E read \in pending : balance' = read + Cost
  /\ refunded' = [refunded EXCEPT ![j] = @ + 1]
  /\ given' = given + Cost
  /\ UNCHANGED charged

\* A reset or a grant that finds nothing to change leaves what is there by now.
Reset ==
  /\ balance' = Monthly \/ (Monthly \in pending /\ balance' = balance)
  /\ given' = given + Monthly
  /\ UNCHANGED <<charged, refunded>>

Add ==
  /\ \/ \E read \in pending : balance' = read + Grant
     \/ Grant = 0 /\ balance' = balance
  /\ given' = given + Grant
  /\ UNCHANGED <<charged, refunded>>

Expire ==
  /\ \E read \in pending : read > FreePlan
  /\ balance' = FreePlan
  /\ UNCHANGED entries

Write ==
  /\ pending' \subseteq pending
  /\ (\E j \in Jobs : Charge(j) \/ Refund(j)) \/ Reset \/ Add \/ Expire

Next == Look \/ Write

Spec == Init /\ [][Next]_vars
=============================================================================
