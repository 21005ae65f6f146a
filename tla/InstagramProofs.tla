--------------------------- MODULE InstagramProofs ---------------------------
(***************************************************************************)
(* Proofs about the two components that live on Instagram's answers:       *)
(* RateWindow, which implements SlidingWindow for every number of callers  *)
(* and every window, limit and delay; and Insights, for any accounts and   *)
(* posts and days of any length.  The two share no state; the definitions  *)
(* of RateWindow that every module has carry its name.                     *)
(***************************************************************************)
EXTENDS RateWindow, Insights, FiniteSetTheorems, TLAPS

----------------------------------------------------------------------------
(***************************************************************************)
(* RateWindow: types                                                       *)
(***************************************************************************)
LEMMA PresentIsMade == ASSUME RateTypeOK, NEW n PROVE Present(n) \subseteq entries
BY DEF Present

\* Every variable keeps its type, whatever the workers do.
THEOREM RateTypeCorrect == RateSpec => []RateTypeOK
<1>1. RateInit => RateTypeOK
  BY RateWindowAssumption DEF RateInit, RateTypeOK, Times
<1>2. RateTypeOK /\ [RateNext]_rateVars => RateTypeOK'
  <2> SUFFICES ASSUME RateTypeOK, [RateNext]_rateVars PROVE RateTypeOK'
    OBVIOUS
  <2>1. CASE Tick
    BY <2>1, RateWindowAssumption DEF Tick, Advance, RateTypeOK, Times
  <2>2. ASSUME NEW c \in Callers, ReadClock(c) PROVE RateTypeOK'
    BY <2>2, RateWindowAssumption DEF ReadClock, Advance, RateTypeOK, Times
  <2>3. ASSUME NEW c \in Callers, CheckRateLimit(c) PROVE RateTypeOK'
    <3>1. calling[c] \in Times
      BY <2>3 DEF CheckRateLimit, RateTypeOK
    <3>2. Present(calling[c]) \subseteq made
      BY PresentIsMade DEF RateTypeOK
    <3>3. (entries \subseteq made /\ made \subseteq Times)'
      BY <2>3, <3>1, <3>2 DEF CheckRateLimit, RateTypeOK
    <3>4. (admitted \subseteq made)'
      BY <2>3, <3>1 DEF CheckRateLimit, RateTypeOK
    <3>5. (calling \in [Callers -> Times \cup {NotCalling}])'
      BY <2>3 DEF CheckRateLimit, RateTypeOK
    <3> QED BY <2>3, <3>3, <3>4, <3>5 DEF CheckRateLimit, RateTypeOK
  <2>4. CASE UNCHANGED rateVars
    BY <2>4 DEF rateVars, RateTypeOK
  <2> QED BY <2>1, <2>2, <2>3, <2>4 DEF RateNext
<1> QED BY <1>1, <1>2, PTL DEF RateSpec

----------------------------------------------------------------------------
(***************************************************************************)
(* The invariant                                                           *)
(***************************************************************************)
\* Two calls have different times; a time was read before now, and not longer
\* ago than the delay if its pipeline has not run.
CallsApart ==
  /\ \A c \in Callers : calling[c] # NotCalling =>
       /\ calling[c] < clock /\ clock <= calling[c] + MaxDelay
       /\ calling[c] \notin made
       /\ \A d \in Callers : calling[d] = calling[c] => d = c
  /\ \A m \in made : m < clock

\* The key lives as long as one of its entries is in the window.
KeyAlive == touched <= clock /\ \A e \in entries : e <= touched

\* A call that Redis has forgotten is older than the window of any call whose
\* clock is read from now on.
Forgotten == \A m \in made : m \in entries \/ m + Window < clock

Inv == RateTypeOK /\ CallsApart /\ KeyAlive /\ Forgotten

LEMMA StepInv == ASSUME Inv, [RateNext]_rateVars, RateTypeOK' PROVE Inv'
<1> USE RateWindowAssumption DEF Times, Inv
<1>1. CASE Tick
  BY <1>1, SMT DEF Tick, Advance, RateTypeOK, CallsApart, KeyAlive, Forgotten
<1>2. ASSUME NEW c \in Callers, ReadClock(c) PROVE Inv'
  <2>1. CallsApart'
    <3> SUFFICES ASSUME NEW b \in Callers, calling'[b] # NotCalling
                 PROVE /\ calling'[b] < clock' /\ clock' <= calling'[b] + MaxDelay
                       /\ calling'[b] \notin made'
                       /\ \A d \in Callers : calling'[d] = calling'[b] => d = b
      BY <1>2, SMT DEF ReadClock, Advance, RateTypeOK, CallsApart
    <3>1. CASE b = c
      <4>1. calling'[b] = clock /\ clock' = clock + 1 /\ made' = made /\ clock \in Nat
        BY <1>2, <3>1 DEF ReadClock, Advance, RateTypeOK
      <4>2. clock + 1 <= clock + MaxDelay
        BY <4>1, SMT
      <4>3. clock \notin made
        BY <4>1, SMT DEF CallsApart
      <4> QED BY <1>2, <3>1, <4>1, <4>2, <4>3, SMT DEF ReadClock, RateTypeOK, CallsApart
    <3>2. CASE b # c
      BY <1>2, <3>2, SMT DEF ReadClock, Advance, RateTypeOK, CallsApart
    <3> QED BY <3>1, <3>2
  <2>2. KeyAlive' /\ Forgotten'
    BY <1>2, SMT DEF ReadClock, Advance, RateTypeOK, KeyAlive, Forgotten
  <2> QED BY <2>1, <2>2
<1>3. ASSUME NEW c \in Callers, CheckRateLimit(c) PROVE Inv'
  <2> DEFINE n == calling[c]
  <2>1. n \in Times /\ n < clock /\ clock <= n + MaxDelay
    BY <1>3 DEF CheckRateLimit, RateTypeOK, CallsApart
  <2>2. CallsApart'
    BY <1>3, <2>1, SMT DEF CheckRateLimit, RateTypeOK, CallsApart
  <2>3. KeyAlive'
    BY <1>3, <2>1, SMT DEF CheckRateLimit, RateTypeOK, CallsApart, KeyAlive, Present
  <2>4. ASSUME NEW m \in made PROVE m \in entries' \/ m + Window < clock'
    BY <1>3, <2>1, <2>4, SMT DEF CheckRateLimit, RateTypeOK, KeyAlive, Forgotten, Present
  <2>5. Forgotten'
    BY <1>3, <2>4 DEF CheckRateLimit, Forgotten
  <2> QED BY <2>2, <2>3, <2>5
<1>4. CASE UNCHANGED rateVars
  BY <1>4 DEF rateVars, RateTypeOK, CallsApart, KeyAlive, Forgotten
<1> QED BY <1>1, <1>2, <1>3, <1>4 DEF RateNext

\* The invariant behind the refinement: no two calls share a time, and Redis
\* forgets no call that a later one has to count.
THEOREM InvHolds == RateSpec => []Inv
<1>1. RateInit => Inv
  BY RateWindowAssumption DEF RateInit, Inv, RateTypeOK, CallsApart, KeyAlive, Forgotten, Times
<1>2. Inv /\ [RateNext]_rateVars /\ RateTypeOK' => Inv'
  BY StepInv
<1> QED BY <1>1, <1>2, RateTypeCorrect, PTL DEF RateSpec

----------------------------------------------------------------------------
(***************************************************************************)
(* The refinement                                                          *)
(***************************************************************************)
LEMMA TimesFinite == IsFiniteSet(Times)
BY FS_Interval, RateWindowAssumption DEF Times

LEMMA SmallerCount ==
  ASSUME NEW S \in SUBSET Times, NEW T \in SUBSET S
  PROVE  Cardinality(T) \in Nat /\ Cardinality(S) \in Nat /\ Cardinality(T) <= Cardinality(S)
BY TimesFinite, FS_Subset, FS_CardinalityType

LEMMA OneMore ==
  ASSUME NEW S, NEW x, IsFiniteSet(S)
  PROVE  Cardinality(S \cup {x}) <= Cardinality(S) + 1
<1>1. Cardinality(S) \in Nat
  BY FS_CardinalityType
<1>2. Cardinality(S \cup {x}) = IF x \in S THEN Cardinality(S) ELSE Cardinality(S) + 1
  BY FS_AddElement
<1> QED BY <1>1, <1>2, SMT

\* The instance of SlidingWindow counts as this module does.
LEMMA SameCount == ASSUME NEW S PROVE Promise!Cardinality(S) = Cardinality(S)
BY DEF Promise!Cardinality, Cardinality

LEMMA BoundedMeans ==
  ASSUME NEW S
  PROVE  Promise!Bounded(S) <=>
           \A t \in Times : Cardinality(Promise!In(S, t, Window - MaxDelay)) <= MaxCalls
BY SameCount DEF Promise!Bounded

\* A window that ends at or after the call of c holds, besides that call, only
\* calls that the pipeline of c counts.
LEMMA WindowIsPresent ==
  ASSUME Inv, NEW c \in Callers, CheckRateLimit(c), NEW t \in Times,
         t - (Window - MaxDelay) < calling[c], calling[c] <= t
  PROVE  Promise!In(admitted \cup {calling[c]}, t, Window - MaxDelay)
           \subseteq Present(calling[c]) \cup {calling[c]}
<1> USE RateWindowAssumption DEF Times
<1>1. calling[c] \in Times /\ clock <= calling[c] + MaxDelay
  BY DEF Inv, CheckRateLimit, RateTypeOK, CallsApart
<1>2. ASSUME NEW a \in admitted, t - (Window - MaxDelay) < a
      PROVE  a \in Present(calling[c])
  <2>1. a \in made /\ a \in Times
    BY DEF Inv, RateTypeOK
  <2>2. calling[c] - Window + MaxDelay < a
    BY <1>1, <1>2, <2>1, SMT
  <2>3. clock < a + Window
    BY <1>1, <2>1, <2>2, SMT DEF Inv, RateTypeOK
  <2>4. a \in entries
    BY <2>1, <2>3, SMT DEF Inv, RateTypeOK, Forgotten
  <2>5. clock <= touched + Window
    BY <2>1, <2>3, <2>4, SMT DEF Inv, RateTypeOK, KeyAlive
  <2>6. calling[c] - Window < a
    BY <1>1, <2>1, <2>2, SMT
  <2> QED BY <2>4, <2>5, <2>6 DEF Present
<1> QED BY <1>2 DEF Promise!In

LEMMA AdmitKeepsBound ==
  ASSUME Inv, Promise!Bounded(admitted), NEW c \in Callers, CheckRateLimit(c),
         Passes(calling[c])
  PROVE  Promise!Bounded(admitted \cup {calling[c]})
<1> DEFINE n == calling[c]
           length == Window - MaxDelay
<1> USE RateWindowAssumption
<1>1. n \in Times /\ admitted \subseteq Times /\ Present(n) \subseteq Times
  BY DEF Inv, CheckRateLimit, RateTypeOK, Present
<1> SUFFICES ASSUME NEW t \in Times
             PROVE  Cardinality(Promise!In(admitted \cup {n}, t, length)) <= MaxCalls
  BY BoundedMeans
<1>2. CASE t - length < n /\ n <= t
  <2>1. Promise!In(admitted \cup {n}, t, length) \subseteq Present(n) \cup {n}
    BY <1>2, WindowIsPresent
  <2>2. IsFiniteSet(Present(n)) /\ Cardinality(Present(n)) \in Nat
    BY <1>1, TimesFinite, FS_Subset, FS_CardinalityType
  <2>3. Cardinality(Present(n) \cup {n}) <= Cardinality(Present(n)) + 1
    BY <2>2, OneMore
  <2>4. Cardinality(Present(n)) < MaxCalls
    BY DEF Passes
  <2>5. /\ Cardinality(Promise!In(admitted \cup {n}, t, length)) \in Nat
        /\ Cardinality(Present(n) \cup {n}) \in Nat
        /\ Cardinality(Promise!In(admitted \cup {n}, t, length)) <= Cardinality(Present(n) \cup {n})
    BY <1>1, <2>1, SmallerCount
  <2> QED BY <2>2, <2>3, <2>4, <2>5, SMT
<1>3. CASE ~(t - length < n /\ n <= t)
  <2>1. Promise!In(admitted \cup {n}, t, length) = Promise!In(admitted, t, length)
    BY <1>3 DEF Promise!In
  <2> QED BY <2>1, BoundedMeans
<1> QED BY <1>2, <1>3

LEMMA RefuseHasReason ==
  ASSUME Inv, NEW c \in Callers, CheckRateLimit(c), ~Passes(calling[c])
  PROVE  Cardinality({m \in made : calling[c] - Window < m}) >= MaxCalls
<1> DEFINE n == calling[c]
           M == {m \in made : n - Window < m}
<1>1. Present(n) \subseteq M /\ M \subseteq Times
  BY DEF Inv, RateTypeOK, Present
<1>2. Cardinality(Present(n)) \in Nat /\ Cardinality(M) \in Nat /\ Cardinality(Present(n)) <= Cardinality(M)
  BY <1>1, SmallerCount
<1>3. ~(Cardinality(Present(n)) < MaxCalls)
  BY DEF Passes
<1> QED BY <1>2, <1>3, RateWindowAssumption, SMT

Simulates == Inv /\ Promise!Bounded(admitted)

LEMMA StepSimulates ==
  ASSUME Simulates, Inv', [RateNext]_rateVars
  PROVE  [Promise!Next]_(Promise!vars) /\ Promise!Bounded(admitted)'
<1>1. CASE Tick
  BY <1>1 DEF Tick, Promise!vars, Simulates, Promise!Bounded, Promise!In
<1>2. ASSUME NEW c \in Callers, ReadClock(c)
      PROVE  [Promise!Next]_(Promise!vars) /\ Promise!Bounded(admitted)'
  BY <1>2 DEF ReadClock, Promise!vars, Simulates, Promise!Bounded, Promise!In
<1>3. ASSUME NEW c \in Callers, CheckRateLimit(c)
      PROVE  [Promise!Next]_(Promise!vars) /\ Promise!Bounded(admitted)'
  <2> DEFINE n == calling[c]
  <2>1. n \in Times /\ n \notin made
    BY <1>3 DEF Simulates, Inv, CheckRateLimit, RateTypeOK, CallsApart
  <2>2. made' = made \cup {n}
    BY <1>3 DEF CheckRateLimit
  <2>3. CASE Passes(n)
    <3>1. admitted' = admitted \cup {n}
      BY <1>3, <2>3 DEF CheckRateLimit
    <3>2. Promise!Bounded(admitted \cup {n})
      BY <1>3, <2>3, AdmitKeepsBound DEF Simulates
    <3>3. Promise!Bounded(admitted)'
      BY <3>1, <3>2 DEF Promise!Bounded, Promise!In
    <3>4. Promise!Admit(n)
      BY <2>1, <2>2, <3>1, <3>2 DEF Promise!Admit
    <3> QED BY <2>1, <3>3, <3>4 DEF Promise!Next
  <2>4. CASE ~Passes(n)
    <3>1. UNCHANGED admitted
      BY <1>3, <2>4 DEF CheckRateLimit
    <3>2. Promise!Refuse(n)
      BY <1>3, <2>1, <2>2, <2>4, <3>1, RefuseHasReason, SameCount DEF Promise!Refuse, Simulates
    <3> QED BY <2>1, <3>1, <3>2 DEF Promise!Next, Simulates, Promise!Bounded, Promise!In
  <2> QED BY <2>3, <2>4
<1>4. CASE UNCHANGED rateVars
  BY <1>4 DEF rateVars, Promise!vars, Simulates, Promise!Bounded, Promise!In
<1> QED BY <1>1, <1>2, <1>3, <1>4 DEF RateNext

\* The rate limit implements its promise: whatever the order of the pipelines,
\* no window exceeds the limit and no call is refused without reason.
THEOREM WindowKeptHolds == RateSpec => WindowKept
<1>1. RateInit => Promise!Init
  BY DEF RateInit, Promise!Init
<1>2. RateInit => Promise!Bounded(admitted)
  <2> SUFFICES ASSUME RateInit, NEW t \in Times
               PROVE  Cardinality(Promise!In(admitted, t, Window - MaxDelay)) <= MaxCalls
    BY BoundedMeans
  <2>1. Promise!In(admitted, t, Window - MaxDelay) = {}
    BY DEF RateInit, Promise!In
  <2> QED BY <2>1, FS_EmptySet, RateWindowAssumption
<1>3. Inv /\ Inv' /\ Promise!Bounded(admitted) /\ [RateNext]_rateVars
        => [Promise!Next]_(Promise!vars) /\ Promise!Bounded(admitted)'
  BY StepSimulates DEF Simulates
<1> QED BY <1>1, <1>2, <1>3, InvHolds, PTL DEF RateSpec, WindowKept, Promise!Spec

----------------------------------------------------------------------------
(***************************************************************************)
(* Insights                                                                *)
(***************************************************************************)
\* Whatever the day and the hour, the next occurrence of a slot falls on its day
\* of the week, later than now, and at most a week ahead.
LEMMA NextOccurrence ==
  ASSUME NEW slot \in Slots, NEW now \in Slots
  PROVE  LET days == DaysAhead(slot, now)
         IN  /\ (now.day + days) % 7 = slot.day
             /\ now.hour < days * Hours + slot.hour
             /\ days * Hours + slot.hour <= now.hour + 7 * Hours
<1> DEFINE gap == (slot.day + 7 - now.day) % 7
           days == DaysAhead(slot, now)
<1>1. /\ slot.day \in 0 .. 6 /\ now.day \in 0 .. 6
      /\ slot.hour \in 0 .. Hours - 1 /\ now.hour \in 0 .. Hours - 1
      /\ Hours \in Nat \ {0}
  BY InsightsAssumption DEF Slots
<1>2. gap \in 0 .. 6 /\ (now.day + gap) % 7 = slot.day
  BY <1>1, SMT
<1>3. days = IF gap = 0 /\ now.hour >= slot.hour THEN 7 ELSE gap
  BY DEF DaysAhead
<1>4. days \in 0 .. 7 /\ (now.day + days) % 7 = slot.day
  BY <1>1, <1>2, <1>3, SMT
<1>5. days \in {0, 1, 2, 3, 4, 5, 6, 7}
  BY <1>4
<1>6. days = 0 => now.hour < slot.hour
  BY <1>1, <1>2, <1>3
<1>7. days = 7 => slot.hour <= now.hour
  BY <1>1, <1>2, <1>3
<1>8. now.hour < days * Hours + slot.hour /\ days * Hours + slot.hour <= now.hour + 7 * Hours
  BY <1>1, <1>5, <1>6, <1>7, SMT
<1> QED BY <1>4, <1>8

\* Every variable keeps its type; a post gets one candidate at most.
THEOREM InsightsTypeCorrect == Spec => []TypeOK
<1> USE InsightsAssumption
<1>1. Init => TypeOK
  BY DEF Init, TypeOK, IdleSync, IdleCompute
<1>2. TypeOK /\ [Next]_vars => TypeOK'
  <2> SUFFICES ASSUME TypeOK, [Next]_vars PROVE TypeOK'
    OBVIOUS
  <2>1. CASE SyncStart
    BY <2>1 DEF SyncStart, Selected, IdleSync, TypeOK
  <2>2. CASE SyncFails
    BY <2>2 DEF SyncFails, IdleSync, TypeOK
  <2>3. CASE SyncDies
    BY <2>3 DEF SyncDies, IdleSync, IdleCompute, TypeOK
  <2>4. CASE SyncCommit
    <3>1. {AccountOf[p] : p \in sync.posts} \subseteq Accounts
      BY DEF TypeOK
    <3> QED BY <2>4, <3>1 DEF SyncCommit, TypeOK
  <2>5. CASE SyncEnds
    BY <2>5 DEF SyncEnds, IdleSync, TypeOK
  <2>6. ASSUME NEW p \in Posts, FetchOrStore(p) PROVE TypeOK'
    <3>1. CASE FetchFails(p)
      BY <3>1 DEF FetchFails, TypeOK
    <3>2. CASE StoreMetrics(p)
      <4>1. sync' \in {[sync EXCEPT !.pc = "broken"],
                      [sync EXCEPT !.todo = @ \ {p}, !.stored = @ \cup {p}]}
        BY <3>2 DEF StoreMetrics
      <4> QED BY <3>2, <4>1 DEF StoreMetrics, TypeOK
    <3> QED BY <2>6, <3>1, <3>2 DEF FetchOrStore
  <2>7. ASSUME NEW a \in Accounts, NEW x \in Computers, Read(x, a)
        PROVE  compute' \in [Computers -> [pc : {"idle", "open"}, account : Accounts \cup {"none"},
                                    new : SUBSET Slots]]
    <3>1. Measured(a) \subseteq Slots
      BY DEF Measured
    <3> QED BY <2>7, <3>1 DEF Read, TypeOK
  <2>8. ASSUME NEW a \in Accounts, ComputeNext(a) PROVE TypeOK'
    BY <2>7, <2>8 DEF ComputeNext, Computers, TypeOK
  <2>9. CASE Scan
    BY <2>9 DEF Scan, TypeOK
  <2>10. ASSUME NEW a \in Accounts, Connect(a) \/ Disconnect(a)
         PROVE  TypeOK'
    BY <2>10 DEF Connect, Disconnect, TypeOK
  <2>11. ASSUME NEW a \in Accounts, Request(a) PROVE TypeOK'
    BY <2>7, <2>11 DEF Request, Computers, TypeOK
  <2>12. ASSUME NEW p \in Posts, Age(p) PROVE TypeOK'
    BY <2>12 DEF Age, TypeOK
  <2>13. ASSUME NEW x \in Computers, Compute(x) PROVE TypeOK'
    BY <2>13 DEF Compute, IdleCompute, TypeOK
  <2>14. CASE UNCHANGED vars
    BY <2>14 DEF vars, TypeOK
  <2> QED
    BY <2>1, <2>2, <2>3, <2>4, <2>5, <2>6, <2>8, <2>9, <2>10, <2>11, <2>12, <2>13, <2>14
    DEF Next, Sync
<1> QED BY <1>1, <1>2, PTL DEF Spec

\* The time that is suggested for a slot is the slot's next.
THEOREM NextIsNextHolds == Spec => []NextIsNext
<1>1. TypeOK => NextIsNext
  BY NextOccurrence DEF NextIsNext, TypeOK
<1> QED BY <1>1, InsightsTypeCorrect, PTL
=============================================================================
