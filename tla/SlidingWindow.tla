---------------------------- MODULE SlidingWindow ----------------------------
(***************************************************************************)
(* What the rate limit of the Instagram client promises of the calls of    *)
(* one account, in whatever order they are decided: no window holds more   *)
(* than MaxCalls admitted calls, and a call is refused only if MaxCalls    *)
(* other calls were made in the window before it.  RateWindow implements   *)
(* it.                                                                     *)
(***************************************************************************)
EXTENDS Integers, FiniteSets

CONSTANTS Times,       \* when calls may be made
          Window,      \* time over which calls are counted
          MaxDelay,    \* time that may pass until a call is decided
          MaxCalls     \* calls that a window may hold

VARIABLES
  made,       \* times of the calls that were decided
  admitted    \* times of those that were admitted

vars == <<made, admitted>>

\* The calls of S in the window of the given length that ends at t.
In(S, t, length) == {c \in S : t - length < c /\ c <= t}

\* A call that is decided late may not see the oldest calls of its window any
\* more: what is bounded is a window that is shorter by the delay.
Bounded(S) == \A t \in Times : Cardinality(In(S, t, Window - MaxDelay)) <= MaxCalls

Init == made = {} /\ admitted = {}

Admit(c) ==
  /\ c \notin made
  /\ Bounded(admitted \cup {c})
  /\ made' = made \cup {c}
  /\ admitted' = admitted \cup {c}

Refuse(c) ==
  /\ c \notin made
  /\ Cardinality({m \in made : c - Window < m}) >= MaxCalls
  /\ made' = made \cup {c}
  /\ UNCHANGED admitted

Next == \E c \in Times : Admit(c) \/ Refuse(c)

Spec == Init /\ [][Next]_vars
=============================================================================
