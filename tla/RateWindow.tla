------------------------------ MODULE RateWindow ------------------------------
(***************************************************************************)
(* The sliding window in Redis that limits the calls of one Instagram      *)
(* account: the workers that publish for it read their clocks, and their   *)
(* pipelines run at Redis one at a time, in any order.                     *)
(***************************************************************************)
EXTENDS Integers, FiniteSets

CONSTANTS Callers,     \* workers that publish posts of the account
          Window,      \* 3600 s
          MaxDelay,    \* bound: time between reading the clock and the pipeline
          MaxCalls,    \* INSTAGRAM_RATE_LIMIT_PER_HOUR
          MaxTime,     \* bound: the last instant
          NotCalling

Times == 0 .. MaxTime

ASSUME RateWindowAssumption ==
  /\ Window \in Nat /\ MaxDelay \in 1 .. Window
  /\ MaxCalls \in Nat /\ MaxTime \in Nat
  /\ NotCalling \notin Times

VARIABLES
  clock,       \* the time
  calling,     \* time that each caller has read, if its pipeline has not run yet
  entries,     \* the sorted set at Redis, its members being their scores
  touched,     \* when the expiry of its key was set
  made,        \* history: times of the calls that were decided
  admitted     \* history: times of the calls that were let through

rateVars == <<clock, calling, entries, touched, made, admitted>>

RateInit ==
  /\ clock = 0
  /\ calling = [c \in Callers |-> NotCalling]
  /\ entries = {}
  /\ touched = 0
  /\ made = {}
  /\ admitted = {}

----------------------------------------------------------------------------
\* Time passes, and leaves no call behind that takes longer than MaxDelay.
Advance ==
  /\ clock < MaxTime
  /\ \A c \in Callers : calling[c] # NotCalling => clock < calling[c] + MaxDelay
  /\ clock' = clock + 1

Tick == Advance /\ UNCHANGED <<calling, entries, touched, made, admitted>>

\* A caller reads its clock; no two readings are the same.
ReadClock(c) ==
  /\ calling[c] = NotCalling
  /\ Advance
  /\ calling' = [calling EXCEPT ![c] = clock]
  /\ UNCHANGED <<entries, touched, made, admitted>>

\* What ZCARD counts: the key expires a second after the window of its last
\* call, and the entries up to the start of the window are removed first.
Present(now) == {e \in entries : clock <= touched + Window /\ now - Window < e}

\* Fault: a call is counted before it is compared, and the limit is exceeded.
Passes_OffByOne(now) == Cardinality(Present(now)) <= MaxCalls

Passes(now) == Cardinality(Present(now)) < MaxCalls

\* The pipeline runs as one: it removes, counts and adds, the call that it
\* refuses as well.
CheckRateLimit(c) ==
  LET now == calling[c] IN
  /\ now # NotCalling
  /\ entries' = Present(now) \cup {now}
  /\ touched' = clock
  /\ made' = made \cup {now}
  /\ admitted' = IF Passes(now) THEN admitted \cup {now} ELSE admitted
  /\ calling' = [calling EXCEPT ![c] = NotCalling]
  /\ UNCHANGED clock

RateNext ==
  \/ Tick
  \/ \E c \in Callers : ReadClock(c)
  \/ \E c \in Callers : CheckRateLimit(c)

RateSpec == RateInit /\ [][RateNext]_rateVars

----------------------------------------------------------------------------
(***************************************************************************)
(* Properties                                                              *)
(***************************************************************************)
\* Every variable keeps its type; what Redis holds are calls that were made
\* (InstagramGraphClient._check_rate_limit).
RateTypeOK ==
  /\ clock \in Times
  /\ calling \in [Callers -> Times \cup {NotCalling}]
  /\ made \subseteq Times
  /\ entries \subseteq made
  /\ touched \in Times
  /\ admitted \subseteq made

Promise == INSTANCE SlidingWindow

\* The pipelines implement the promise of SlidingWindow, although they run in
\* another order than their clocks were read and drop what others still count:
\* no window exceeds the limit, and nobody is refused without reason.
WindowKept == Promise!Spec
=============================================================================
