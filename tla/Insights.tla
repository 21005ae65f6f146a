------------------------------- MODULE Insights -------------------------------
(***************************************************************************)
(* What is learned from published posts: the job that fetches their        *)
(* insights every six hours into post_metrics, and goes on to the optimal  *)
(* time slots of their accounts; the request that computes the slots on    *)
(* demand; and the weekly scan for evergreen candidates.                   *)
(*                                                                         *)
(* The job works through all posts in one session.  An error of Instagram  *)
(* skips a post; an error of the database leaves the session unusable for  *)
(* everything after it, the commit included.                               *)
(***************************************************************************)
EXTENDS Naturals, FiniteSets

CONSTANTS Accounts, Posts,
          AccountOf,     \* account of each post
          SlotOf,        \* hour of the week at which each post was published
          Hours          \* hours of a day

Slots == [day : 0 .. 6, hour : 0 .. Hours - 1]

ASSUME InsightsAssumption ==
  /\ Hours \in Nat \ {0}
  /\ AccountOf \in [Posts -> Accounts]
  /\ SlotOf \in [Posts -> Slots]

VARIABLES
  connected,     \* accounts that are active
  metrics,       \* row of post_metrics of each post: "none", "fresh", "stale"
  slots,         \* rows of optimal_time_slots, by account
  candidates,    \* rows of evergreen_candidates of each post
  sync,          \* the job
  compute        \* the computations of slots, of the job and of a request

vars == <<connected, metrics, slots, candidates, sync, compute>>

\* Of the job: posts it has selected and todo of them, stored the ones whose
\* metrics it has flushed, and in its second phase the accounts it has left.
IdleSync    == [pc |-> "idle", posts |-> {}, todo |-> {}, stored |-> {}, accounts |-> {}]
IdleCompute == [pc |-> "idle", account |-> "none", new |-> {}]

Computers == {"job", "request"}

\* Every post of Posts is PUBLISHED and has its ig_media_id.
Init ==
  /\ connected = Accounts
  /\ metrics = [p \in Posts |-> "none"]
  /\ slots = [a \in Accounts |-> {}]
  /\ candidates = [p \in Posts |-> 0]
  /\ sync = IdleSync
  /\ compute = [x \in Computers |-> IdleCompute]

----------------------------------------------------------------------------
(***************************************************************************)
(* Accounts                                                                *)
(***************************************************************************)
Connect(a) ==
  /\ a \notin connected
  /\ connected' = connected \cup {a}
  /\ UNCHANGED <<metrics, slots, candidates, sync, compute>>

Disconnect(a) ==
  /\ a \in connected
  /\ connected' = connected \ {a}
  /\ UNCHANGED <<metrics, slots, candidates, sync, compute>>

\* Six hours pass.
Age(p) ==
  /\ metrics[p] = "fresh"
  /\ metrics' = [metrics EXCEPT ![p] = "stale"]
  /\ UNCHANGED <<connected, slots, candidates, sync, compute>>

----------------------------------------------------------------------------
(***************************************************************************)
(* sync_insights, first phase: the metrics                                 *)
(***************************************************************************)
\* Fault: the join with post_metrics is an inner join.
Selected_InnerJoin == {p \in Posts : metrics[p] = "stale"}

\* Posts without metrics, or with metrics older than six hours.
Selected == {p \in Posts : metrics[p] \in {"none", "stale"}}

SyncStart ==
  /\ sync.pc = "idle"
  /\ Selected # {}
  /\ sync' = [IdleSync EXCEPT !.pc = "posts", !.posts = Selected, !.todo = Selected]
  /\ UNCHANGED <<connected, metrics, slots, candidates, compute>>

\* Instagram does not answer, or refuses the token; the post is skipped.
FetchFails(p) ==
  /\ sync.pc = "posts" /\ p \in sync.todo
  /\ sync' = [sync EXCEPT !.todo = @ \ {p}]
  /\ UNCHANGED <<connected, metrics, slots, candidates, compute>>

\* A new row takes the account that is active; without one it takes a random id,
\* which the foreign key refuses.
RowRefused(p) == metrics[p] = "none" /\ AccountOf[p] \notin connected

StoreMetrics(p) ==
  /\ sync.pc = "posts" /\ p \in sync.todo
  /\ sync' = IF RowRefused(p) THEN [sync EXCEPT !.pc = "broken"]
             ELSE [sync EXCEPT !.todo = @ \ {p}, !.stored = @ \cup {p}]
  /\ UNCHANGED <<connected, metrics, slots, candidates, compute>>

\* The next statement on the session raises: the task ends, everything it has
\* flushed is rolled back, and the task is tried again.
SyncFails ==
  /\ sync.pc = "broken"
  /\ sync' = IdleSync
  /\ UNCHANGED <<connected, metrics, slots, candidates, compute>>

\* The time limit of the task strikes, or its worker is lost.
SyncDies ==
  /\ sync.pc \in {"posts", "slots"}
  /\ sync' = IdleSync
  /\ compute' = [compute EXCEPT !["job"] = IdleCompute]
  /\ UNCHANGED <<connected, metrics, slots, candidates>>

SyncCommit ==
  /\ sync.pc = "posts" /\ sync.todo = {}
  /\ metrics' = [p \in Posts |-> IF p \in sync.stored THEN "fresh" ELSE metrics[p]]
  /\ sync' = [sync EXCEPT !.pc = "slots", !.accounts = {AccountOf[p] : p \in sync.posts}]
  /\ UNCHANGED <<connected, slots, candidates, compute>>

----------------------------------------------------------------------------
(***************************************************************************)
(* compute_optimal_slots                                                   *)
(***************************************************************************)
\* The slots in which posts of the account have metrics.
Measured(a) == {SlotOf[p] : p \in {q \in Posts : AccountOf[q] = a /\ metrics[q] # "none"}}

Read(x, a) ==
  /\ compute[x].pc = "idle"
  /\ compute' = IF a \in connected
                THEN [compute EXCEPT ![x] =
                        [pc |-> "open", account |-> a, new |-> Measured(a) \ slots[a]]]
                ELSE compute

Request(a) ==
  /\ a \in connected
  /\ Read("request", a)
  /\ UNCHANGED <<connected, metrics, slots, candidates, sync>>

ComputeNext(a) ==
  /\ sync.pc = "slots" /\ a \in sync.accounts
  /\ Read("job", a)
  /\ sync' = [sync EXCEPT !.accounts = @ \ {a}]
  /\ UNCHANGED <<connected, metrics, slots, candidates>>

\* account, day and hour are unique.
Inserted(x) == compute[x].new \cap slots[compute[x].account] = {}

\* An INSERT that is refused takes all new slots of the account with it; the job
\* goes on with a session that is unusable, so it computes no other account.
Compute(x) ==
  /\ compute[x].pc = "open"
  /\ slots' = IF Inserted(x)
              THEN [slots EXCEPT ![compute[x].account] = @ \cup compute[x].new]
              ELSE slots
  /\ sync' = IF x = "job" /\ ~Inserted(x) THEN [sync EXCEPT !.accounts = {}] ELSE sync
  /\ compute' = [compute EXCEPT ![x] = IdleCompute]
  /\ UNCHANGED <<connected, metrics, candidates>>

SyncEnds ==
  /\ sync.pc = "slots" /\ sync.accounts = {} /\ compute["job"].pc = "idle"
  /\ sync' = IdleSync
  /\ UNCHANGED <<connected, metrics, slots, candidates, compute>>

----------------------------------------------------------------------------
(***************************************************************************)
(* scan_evergreen and _next_occurrence                                     *)
(***************************************************************************)
\* Fault: active candidates are not looked up.
Scan_Unchecked ==
  \E top \in SUBSET {p \in Posts : metrics[p] # "none"} :
    /\ candidates' = [p \in Posts |-> IF p \in top THEN candidates[p] + 1 ELSE candidates[p]]
    /\ UNCHANGED <<connected, metrics, slots, sync, compute>>

\* The posts whose engagement is within a fifth of the best become candidates,
\* but for those that are one: a candidate is never made inactive.
Scan ==
  \E top \in SUBSET {p \in Posts : metrics[p] # "none" /\ candidates[p] = 0} :
    /\ candidates' = [p \in Posts |-> IF p \in top THEN candidates[p] + 1 ELSE candidates[p]]
    /\ UNCHANGED <<connected, metrics, slots, sync, compute>>

\* Fault: the slot that has just begun is suggested.
DaysAhead_JustBegun(slot, now) ==
  LET days == (slot.day + 7 - now.day) % 7
  IN  IF days = 0 /\ now.hour > slot.hour THEN 7 ELSE days

\* Days from now to the next occurrence of a slot.
DaysAhead(slot, now) ==
  LET days == (slot.day + 7 - now.day) % 7
  IN  IF days = 0 /\ now.hour >= slot.hour THEN 7 ELSE days

----------------------------------------------------------------------------
FetchOrStore(p) == FetchFails(p) \/ StoreMetrics(p)

Sync ==
  \/ SyncStart \/ SyncFails \/ SyncDies \/ SyncCommit \/ SyncEnds
  \/ \E p \in Posts : FetchOrStore(p)
  \/ \E a \in Accounts : ComputeNext(a)

Next ==
  \/ Sync
  \/ Scan
  \/ \E a \in Accounts : Connect(a) \/ Disconnect(a) \/ Request(a)
  \/ \E p \in Posts : Age(p)
  \/ \E x \in Computers : Compute(x)

Spec == Init /\ [][Next]_vars

\* The beat sends the job every six hours and a worker runs it; a post whose
\* insights are asked for again and again is answered again and again.
Fairness ==
  /\ WF_vars(SyncStart) /\ WF_vars(SyncFails) /\ WF_vars(SyncCommit) /\ WF_vars(SyncEnds)
  /\ \A p \in Posts : WF_vars(Age(p)) /\ WF_vars(FetchOrStore(p)) /\ SF_vars(StoreMetrics(p))
  /\ \A a \in Accounts : WF_vars(ComputeNext(a))
  /\ \A x \in Computers : WF_vars(Compute(x))

FairSpec == Spec /\ Fairness

----------------------------------------------------------------------------
(***************************************************************************)
(* Properties                                                              *)
(***************************************************************************)
\* Every variable has its type.  A post has at most one active candidate: the
\* scan looks it up with scalar_one_or_none, so that a second row would make
\* every later scan raise.
TypeOK ==
  /\ connected \subseteq Accounts
  /\ metrics \in [Posts -> {"none", "fresh", "stale"}]
  /\ slots \in [Accounts -> SUBSET Slots]
  /\ candidates \in [Posts -> 0 .. 1]
  /\ sync \in [pc : {"idle", "posts", "broken", "slots"}, posts : SUBSET Posts,
               todo : SUBSET Posts, stored : SUBSET Posts, accounts : SUBSET Accounts]
  /\ compute \in [Computers -> [pc : {"idle", "open"}, account : Accounts \cup {"none"},
                               new : SUBSET Slots]]

\* Once all accounts stay connected and the job is no longer cut short, the slot
\* of every post is learned in the end, for good: the errors of Instagram, the
\* broken sessions and the conflicts with a computation on demand only delay it.
SlotsLearned ==
  (<>[](connected = Accounts) /\ <>[][~SyncDies]_vars)
    => \A p \in Posts : <>[](SlotOf[p] \in slots[AccountOf[p]])

\* The time _next_occurrence suggests for a slot that has been learned is the
\* slot's own hour of the week, later than now, and within a week.
NextIsNext ==
  \A a \in Accounts : \A slot \in slots[a] : \A now \in Slots :
    LET days == DaysAhead(slot, now)
    IN  /\ (now.day + days) % 7 = slot.day
        /\ now.hour < days * Hours + slot.hour
        /\ days * Hours + slot.hour <= now.hour + 7 * Hours
=============================================================================
