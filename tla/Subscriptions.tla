---------------------------- MODULE Subscriptions ----------------------------
(***************************************************************************)
(* The subscriptions of one user: the rows that the signup, the webhooks   *)
(* of Stripe and the overrides of an administrator write, when Stripe      *)
(* delivers its events in any order and more than once, and the requests   *)
(* overlap.                                                                *)
(*                                                                         *)
(* A request reads what it needs in one step and commits in another; a     *)
(* status is written only if it differs from the one that was read.        *)
(***************************************************************************)
EXTENDS Naturals, Sequences

CONSTANTS Purchases,     \* Stripe subscriptions the user may buy
          Overrides,     \* rows that overrides of an administrator may add
          Handlers,      \* requests that are served at a time
          MaxRollbacks   \* bound: requests that end in a rollback

ASSUME SubscriptionsAssumption ==
  /\ Purchases \cap Overrides = {}
  /\ "free" \notin Purchases \cup Overrides
  /\ MaxRollbacks \in Nat

VARIABLES
  stripe,      \* state of each purchase at Stripe
  sent,        \* events Stripe has sent; it may deliver each at any later time
  status,      \* status of each row of subscriptions, "none" while there is no row
  order,       \* the rows by created_at, oldest first
  granted,     \* allocations of the credits of each purchase in the ledger
  handler,     \* the requests
  rollbacks    \* requests that were rolled back

vars == <<stripe, sent, status, order, granted, handler, rollbacks>>

Ids      == {"free"} \cup Purchases \cup Overrides
Status   == {"FREEMIUM", "ACTIVE", "PAST_DUE", "CANCELLED"}
Notices  == {"checkout", "paid", "failed", "deleted"}

\* Of a new plan, old: the rows it will cancel, and upto: the rows that were there
\* when it started; of a notice, was: the status it has read of its row.
Idle == [pc |-> "idle", type |-> "paid", id |-> "free", old |-> {}, was |-> "none", upto |-> 0]

\* The user has signed up: provision_free_plan.
Init ==
  /\ stripe = [p \in Purchases |-> "none"]
  /\ sent = {}
  /\ status = [i \in Ids |-> IF i = "free" THEN "FREEMIUM" ELSE "none"]
  /\ order = <<"free">>
  /\ granted = [p \in Purchases |-> 0]
  /\ handler = [h \in Handlers |-> Idle]
  /\ rollbacks = 0

----------------------------------------------------------------------------
(***************************************************************************)
(* Stripe                                                                  *)
(***************************************************************************)
Send(p, types) == sent' = sent \cup {[type |-> t, id |-> p] : t \in types}

\* The user completes the checkout of a plan, whatever plan there is already.
Buy(p) ==
  /\ stripe[p] = "none"
  /\ stripe' = [stripe EXCEPT ![p] = "active"]
  /\ Send(p, {"checkout", "paid"})
  /\ UNCHANGED <<status, order, granted, handler, rollbacks>>

\* An invoice of the purchase is paid or fails.
Invoice(p, paid) ==
  /\ stripe[p] \in {"active", "past_due"}
  /\ stripe' = [stripe EXCEPT ![p] = IF paid THEN "active" ELSE "past_due"]
  /\ Send(p, {IF paid THEN "paid" ELSE "failed"})
  /\ UNCHANGED <<status, order, granted, handler, rollbacks>>

\* The user ends the purchase in Stripe's portal, or Stripe gives up collecting.
End(p) ==
  /\ stripe[p] \in {"active", "past_due"}
  /\ stripe' = [stripe EXCEPT ![p] = "canceled"]
  /\ Send(p, {"deleted"})
  /\ UNCHANGED <<status, order, granted, handler, rollbacks>>

----------------------------------------------------------------------------
(***************************************************************************)
(* Rows                                                                    *)
(***************************************************************************)
HasRow(i) == status[i] # "none"

\* TRIALING, which nothing sets, is left out of both.
Usable == {"ACTIVE", "FREEMIUM", "PAST_DUE"}
Valid  == {"ACTIVE", "FREEMIUM"}

\* _get_active_subscription: the newest usable row, if there is one.
ActiveSubscription ==
  LET usable == {k \in 1 .. Len(order) : status[order[k]] \in Usable}
  IN  {order[k] : k \in {newest \in usable : \A other \in usable : other <= newest}}

\* The rows that the start of a plan cancels.
ToCancel(type) ==
  IF type = "checkout" THEN ActiveSubscription ELSE {i \in Ids : status[i] \in Valid}

\* created_at is the time of the transaction's start: the new row comes after
\* all rows that were there by then, and anywhere among those that came since.
Insert(h) ==
  \E at \in handler[h].upto .. Len(order) :
     order' = SubSeq(order, 1, at) \o <<handler[h].id>> \o SubSeq(order, at + 1, Len(order))

----------------------------------------------------------------------------
(***************************************************************************)
(* Requests                                                                *)
(***************************************************************************)
Close(h) == handler' = [handler EXCEPT ![h] = Idle]

\* Stripe delivers an event, for the first time or again.
Deliver(h, e) ==
  /\ handler[h].pc = "idle"
  /\ e \in sent
  /\ handler' = [handler EXCEPT ![h] =
       IF e.type = "checkout"
         THEN [Idle EXCEPT !.pc = "open", !.type = e.type, !.id = e.id,
                           !.old = ToCancel(e.type), !.upto = Len(order)]
         ELSE [Idle EXCEPT !.pc = "open", !.type = e.type, !.id = e.id, !.was = status[e.id]]]
  /\ UNCHANGED <<stripe, sent, status, order, granted, rollbacks>>

\* An administrator assigns a plan.
Override(h, o) ==
  /\ handler[h].pc = "idle"
  /\ ~HasRow(o) /\ \A g \in Handlers : handler[g].id # o
  /\ handler' = [handler EXCEPT ![h] =
                   [Idle EXCEPT !.pc = "open", !.type = "override", !.id = o,
                                !.old = ToCancel("override"), !.upto = Len(order)]]
  /\ UNCHANGED <<stripe, sent, status, order, granted, rollbacks>>

\* Fault: the second row of a purchase is not refused.
Unique_NotDeclared(i) == TRUE

\* stripe_subscription_id is unique.
Unique(i) == ~HasRow(i)

\* Fault: the cancellation of the old plan is committed before the INSERT.
CommitPlan_CancelKept(h) ==
  LET s == handler[h] IN
  /\ s.pc = "open" /\ s.type \in {"checkout", "override"}
  /\ status' = [i \in Ids |-> IF i = s.id /\ ~HasRow(i) THEN "ACTIVE"
                              ELSE IF i \in s.old THEN "CANCELLED" ELSE status[i]]
  /\ IF HasRow(s.id)
       THEN UNCHANGED <<order, granted>>
       ELSE /\ Insert(h)
            /\ granted' = [p \in Purchases |-> IF p = s.id THEN granted[p] + 1 ELSE granted[p]]
  /\ Close(h)
  /\ UNCHANGED <<stripe, sent, rollbacks>>

\* The plan of a checkout or an override replaces the old one; a checkout
\* allocates its credits in the same transaction.  The second INSERT of one
\* purchase fails, and the whole transaction with it.
CommitPlan(h) ==
  LET s == handler[h] IN
  /\ s.pc = "open" /\ s.type \in {"checkout", "override"}
  /\ IF Unique(s.id)
       THEN /\ status' = [i \in Ids |-> IF i = s.id THEN "ACTIVE"
                                        ELSE IF i \in s.old THEN "CANCELLED" ELSE status[i]]
            /\ granted' = [p \in Purchases |-> IF p = s.id THEN granted[p] + 1 ELSE granted[p]]
            /\ Insert(h)
       ELSE UNCHANGED <<status, order, granted>>
  /\ Close(h)
  /\ UNCHANGED <<stripe, sent, rollbacks>>

\* Fault: the status is stored in the words of Stripe.
Noticed_AsStripe == [paid |-> "active", failed |-> "past_due", deleted |-> "canceled"]

\* The status that each event about an invoice or the end sets.
Noticed == [paid |-> "ACTIVE", failed |-> "PAST_DUE", deleted |-> "CANCELLED"]

\* Fault: an event that finds no row makes one.
CommitNotice_Upsert(h) ==
  LET s == handler[h] IN
  /\ s.pc = "open" /\ s.type \in DOMAIN Noticed
  /\ status' = [status EXCEPT ![s.id] = Noticed[s.type]]
  /\ order' = IF HasRow(s.id) THEN order ELSE Append(order, s.id)
  /\ Close(h)
  /\ UNCHANGED <<stripe, sent, granted, rollbacks>>

\* An invoice or the end of a purchase sets its row, whatever its status is by
\* then; an event that has found no row is answered and forgotten.
CommitNotice(h) ==
  LET s == handler[h] IN
  /\ s.pc = "open" /\ s.type \in DOMAIN Noticed
  /\ status' = IF s.was \in {"none", Noticed[s.type]} THEN status
               ELSE [status EXCEPT ![s.id] = Noticed[s.type]]
  /\ Close(h)
  /\ UNCHANGED <<stripe, sent, order, granted, rollbacks>>

\* The request fails; Stripe will deliver the event again.
RollBack(h) ==
  /\ handler[h].pc = "open"
  /\ rollbacks < MaxRollbacks
  /\ rollbacks' = rollbacks + 1
  /\ Close(h)
  /\ UNCHANGED <<stripe, sent, status, order, granted>>

----------------------------------------------------------------------------
Next ==
  \/ \E p \in Purchases : Buy(p)
  \/ \E p \in Purchases, paid \in BOOLEAN : Invoice(p, paid)
  \/ \E p \in Purchases : End(p)
  \/ \E h \in Handlers, e \in sent : Deliver(h, e)
  \/ \E h \in Handlers, o \in Overrides : Override(h, o)
  \/ \E h \in Handlers : CommitPlan(h)
  \/ \E h \in Handlers : CommitNotice(h)
  \/ \E h \in Handlers : RollBack(h)

Spec == Init /\ [][Next]_vars

----------------------------------------------------------------------------
(***************************************************************************)
(* Properties                                                              *)
(***************************************************************************)
Request == [pc : {"idle", "open"}, type : Notices \cup {"override"}, id : Ids,
            old : SUBSET Ids, was : Status \cup {"none"}, upto : Nat]

\* Every variable keeps its type, whatever the rows of a user go through
\* (models/auth.py: Subscription).
TypeOK ==
  /\ stripe \in [Purchases -> {"none", "active", "past_due", "canceled"}]
  /\ sent \subseteq [type : Notices, id : Purchases]
  /\ status \in [Ids -> Status \cup {"none"}]
  /\ order \in Seq(Ids)
  /\ granted \in [Purchases -> Nat]
  /\ handler \in [Handlers -> Request]
  /\ rollbacks \in 0 .. MaxRollbacks

\* However often the checkout of a purchase is delivered, and although two of
\* its deliveries may overlap, its credits are allocated once, and exactly when
\* it has its row (BillingService._handle_checkout_completed).
GrantedOnce == \A p \in Purchases : granted[p] = IF HasRow(p) THEN 1 ELSE 0

\* The user is without a usable plan only if Stripe has ended a purchase: no
\* duplicate, delay or overlap of the requests leaves the user without one
\* (_handle_checkout_completed, override_plan).
NeverStranded ==
  (\A i \in Ids : status[i] \notin Usable) =>
     \E p \in Purchases : HasRow(p) /\ stripe[p] = "canceled"

Promise == INSTANCE Entitlements WITH
  reported <- [p \in Purchases |-> {t \in Notices : [type |-> t, id |-> p] \in sent}],
  standing <- [p \in Purchases |-> status[p]]

\* The webhooks implement the promise of Entitlements, event by event.
EntitlementsKept == Promise!Spec
=============================================================================
