------------------------- MODULE SubscriptionsProofs -------------------------
(***************************************************************************)
(* Subscriptions implements Entitlements, for every number of purchases,   *)
(* overrides and overlapping requests.                                     *)
(***************************************************************************)
EXTENDS Subscriptions, SequenceTheorems, TLAPS

----------------------------------------------------------------------------
(***************************************************************************)
(* Types                                                                   *)
(***************************************************************************)
\* Only rows are cancelled.
LEMMA ToCancelIsRows ==
  ASSUME TypeOK, NEW type PROVE ToCancel(type) \subseteq {i \in Ids : HasRow(i)}
<1>1. ActiveSubscription \subseteq {i \in Ids : HasRow(i)}
  <2> SUFFICES ASSUME NEW i \in ActiveSubscription PROVE i \in Ids /\ HasRow(i)
    OBVIOUS
  <2>1. PICK k \in 1 .. Len(order) : i = order[k] /\ status[order[k]] \in Usable
    BY DEF ActiveSubscription
  <2> QED BY <2>1 DEF TypeOK, HasRow, Usable
<1>2. {i \in Ids : status[i] \in Valid} \subseteq {i \in Ids : HasRow(i)}
  BY DEF Valid, HasRow
<1> QED BY <1>1, <1>2 DEF ToCancel

LEMMA InsertKeepsRows ==
  ASSUME TypeOK, NEW h \in Handlers, Insert(h) PROVE order' \in Seq(Ids)
<1> DEFINE n == Len(order)
<1>1. order \in Seq(Ids) /\ n \in Nat /\ handler[h] \in Request
  BY DEF TypeOK
<1>2. PICK at \in handler[h].upto .. n :
        order' = SubSeq(order, 1, at) \o <<handler[h].id>> \o SubSeq(order, at + 1, n)
  BY DEF Insert
<1>3. at \in Nat /\ at <= n
  BY <1>1, <1>2 DEF Request
<1>4. \A i \in 1 .. n : order[i] \in Ids
  BY <1>1
<1>5. SubSeq(order, 1, at) \in Seq(Ids) /\ SubSeq(order, at + 1, n) \in Seq(Ids)
  <2>1. \A i \in 1 .. at : order[i] \in Ids
    BY <1>1, <1>3, <1>4
  <2>2. \A i \in at + 1 .. n : order[i] \in Ids
    BY <1>1, <1>3, <1>4
  <2> QED BY <1>1, <1>3, <2>1, <2>2, SubSeqProperties
<1>6. <<handler[h].id>> \in Seq(Ids)
  BY <1>1 DEF Request
<1> QED BY <1>2, <1>5, <1>6, ConcatProperties

\* A plan is committed, or refused without a trace.
PlanRows(s) ==
  [i \in Ids |-> IF i = s.id THEN "ACTIVE" ELSE IF i \in s.old THEN "CANCELLED" ELSE status[i]]

PlanCredits(s) == [p \in Purchases |-> IF p = s.id THEN granted[p] + 1 ELSE granted[p]]

LEMMA PlanCommits ==
  ASSUME NEW h \in Handlers, CommitPlan(h)
  PROVE  \/ /\ Unique(handler[h].id)
            /\ status' = PlanRows(handler[h])
            /\ granted' = PlanCredits(handler[h])
         \/ ~Unique(handler[h].id) /\ status' = status /\ granted' = granted
<1>1. CASE Unique(handler[h].id)
  BY <1>1, Zenon DEF CommitPlan, PlanRows, PlanCredits
<1>2. CASE ~Unique(handler[h].id)
  BY <1>2, Zenon DEF CommitPlan
<1> QED BY <1>1, <1>2

LEMMA NoticeCommits ==
  ASSUME TypeOK, NEW h \in Handlers, CommitNotice(h)
  PROVE  /\ handler[h].pc = "open"
         /\ \/ handler[h].type = "paid" /\ Noticed[handler[h].type] = "ACTIVE"
            \/ handler[h].type = "failed" /\ Noticed[handler[h].type] = "PAST_DUE"
            \/ handler[h].type = "deleted" /\ Noticed[handler[h].type] = "CANCELLED"
         /\ \/ status' = status
            \/ /\ handler[h].was # "none"
               /\ status' = [status EXCEPT ![handler[h].id] = Noticed[handler[h].type]]
<1>1. handler[h].type \in {"paid", "failed", "deleted"}
  BY DEF CommitNotice, Noticed
<1>2. Noticed["paid"] = "ACTIVE" /\ Noticed["failed"] = "PAST_DUE" /\ Noticed["deleted"] = "CANCELLED"
  BY DEF Noticed
<1> QED BY <1>1, <1>2 DEF CommitNotice

\* Every variable keeps its type, whatever Stripe delivers.
THEOREM TypeCorrect == Spec => []TypeOK
<1>1. Init => TypeOK
  BY SubscriptionsAssumption DEF Init, TypeOK, Idle, Request, Ids, Status, Notices
<1>2. TypeOK /\ [Next]_vars => TypeOK'
  <2> SUFFICES ASSUME TypeOK, [Next]_vars PROVE TypeOK'
    OBVIOUS
  <2>0. Idle \in Request
    BY DEF Idle, Request, Ids, Status, Notices
  <2>1. ASSUME NEW p \in Purchases, Buy(p) PROVE TypeOK'
    BY <2>1 DEF Buy, Send, TypeOK, Notices
  <2>2. ASSUME NEW p \in Purchases, NEW paid \in BOOLEAN, Invoice(p, paid) PROVE TypeOK'
    BY <2>2 DEF Invoice, Send, TypeOK, Notices
  <2>3. ASSUME NEW p \in Purchases, End(p) PROVE TypeOK'
    BY <2>3 DEF End, Send, TypeOK, Notices
  <2>4. ASSUME NEW h \in Handlers, NEW e \in sent, Deliver(h, e) PROVE TypeOK'
    <3>1. e \in [type : Notices, id : Purchases] /\ e.id \in Ids
      BY DEF TypeOK, Ids
    <3>2. ToCancel(e.type) \in SUBSET Ids /\ Len(order) \in Nat /\ status[e.id] \in Status \cup {"none"}
      BY <3>1, ToCancelIsRows DEF TypeOK
    <3>3. handler'[h] \in Request
      BY <2>4, <2>0, <3>1, <3>2 DEF Deliver, TypeOK, Request, Idle
    <3>4. handler' \in [Handlers -> Request]
      BY <2>4, <3>3 DEF Deliver, TypeOK
    <3> QED BY <2>4, <3>4 DEF Deliver, TypeOK
  <2>5. ASSUME NEW h \in Handlers, NEW o \in Overrides, Override(h, o) PROVE TypeOK'
    <3>1. ToCancel("override") \in SUBSET Ids /\ Len(order) \in Nat /\ o \in Ids
      BY ToCancelIsRows DEF TypeOK, Ids
    <3>2. handler'[h] \in Request
      BY <2>5, <2>0, <3>1 DEF Override, TypeOK, Request, Idle
    <3>3. handler' \in [Handlers -> Request]
      BY <2>5, <3>2 DEF Override, TypeOK
    <3> QED BY <2>5, <3>3 DEF Override, TypeOK
  <2>6. ASSUME NEW h \in Handlers, CommitPlan(h) PROVE TypeOK'
    <3>1. (handler \in [Handlers -> Request])'
      BY <2>6, <2>0 DEF CommitPlan, Close, TypeOK
    <3>2. (status \in [Ids -> Status \cup {"none"}])'
      BY <2>6, PlanCommits DEF PlanRows, TypeOK, Status
    <3>3. (granted \in [Purchases -> Nat])'
      BY <2>6, PlanCommits DEF PlanCredits, TypeOK
    <3>4. (order \in Seq(Ids))'
      <4>1. CASE Unique(handler[h].id)
        BY <2>6, <4>1, InsertKeepsRows DEF CommitPlan
      <4>2. CASE ~Unique(handler[h].id)
        BY <2>6, <4>2 DEF CommitPlan, TypeOK
      <4> QED BY <4>1, <4>2
    <3> QED BY <2>6, <3>1, <3>2, <3>3, <3>4 DEF CommitPlan, TypeOK
  <2>7. ASSUME NEW h \in Handlers, CommitNotice(h) PROVE TypeOK'
    <3>1. (handler \in [Handlers -> Request])'
      BY <2>7, <2>0 DEF CommitNotice, Close, TypeOK
    <3>2. (status \in [Ids -> Status \cup {"none"}])'
      <4>1. Noticed[handler[h].type] \in Status
        BY <2>7, NoticeCommits DEF Status
      <4> QED BY <2>7, <4>1, NoticeCommits DEF TypeOK
    <3> QED BY <2>7, <3>1, <3>2 DEF CommitNotice, TypeOK
  <2>8. ASSUME NEW h \in Handlers, RollBack(h) PROVE TypeOK'
    BY <2>8, <2>0, SubscriptionsAssumption DEF RollBack, Close, TypeOK
  <2>9. CASE UNCHANGED vars
    BY <2>9 DEF vars, TypeOK
  <2> QED BY <2>1, <2>2, <2>3, <2>4, <2>5, <2>6, <2>7, <2>8, <2>9 DEF Next
<1> QED BY <1>1, <1>2, PTL DEF Spec

----------------------------------------------------------------------------
(***************************************************************************)
(* The invariant                                                           *)
(***************************************************************************)
\* A request under way works on an event that was sent, or on an override, and
\* all rows it has found are still there.
RequestSound(s) ==
  /\ s.type = "override" => s.id \in Overrides
  /\ s.type # "override" => [type |-> s.type, id |-> s.id] \in sent
  /\ s.was # "none" => HasRow(s.id)
  /\ \A i \in s.old : HasRow(i)

RequestsSound == \A h \in Handlers : handler[h].pc = "open" => RequestSound(handler[h])

\* Stripe says that a purchase has ended only when it has.
EndsMeant ==
  \A p \in Purchases : [type |-> "deleted", id |-> p] \in sent => stripe[p] = "canceled"

Inv == TypeOK /\ RequestsSound /\ EndsMeant /\ GrantedOnce

\* Rows stay, events stay sent, an ended purchase stays ended.
Grows ==
  /\ \A i \in Ids : HasRow(i) => HasRow(i)'
  /\ sent \subseteq sent'
  /\ \A p \in Purchases : stripe[p] = "canceled" => stripe'[p] = "canceled"

LEMMA StepGrows == ASSUME Inv, [Next]_vars PROVE Grows
<1> USE DEF Inv
<1>1. ASSUME NEW p \in Purchases, Buy(p) PROVE Grows
  BY <1>1 DEF Buy, Send, Grows, HasRow, TypeOK
<1>2. ASSUME NEW p \in Purchases, NEW paid \in BOOLEAN, Invoice(p, paid) PROVE Grows
  BY <1>2 DEF Invoice, Send, Grows, HasRow, TypeOK
<1>3. ASSUME NEW p \in Purchases, End(p) PROVE Grows
  BY <1>3 DEF End, Send, Grows, HasRow, TypeOK
<1>4. ASSUME UNCHANGED <<stripe, sent, status>> PROVE Grows
  BY <1>4 DEF Grows, HasRow
<1>5. ASSUME NEW h \in Handlers, CommitPlan(h) PROVE Grows
  <2>1. stripe' = stripe /\ sent' = sent
    BY <1>5 DEF CommitPlan
  <2>2. ASSUME NEW i \in Ids, HasRow(i) PROVE HasRow(i)'
    BY <1>5, <2>2, PlanCommits DEF PlanRows, HasRow
  <2> QED BY <2>1, <2>2 DEF Grows
<1>6. ASSUME NEW h \in Handlers, CommitNotice(h) PROVE Grows
  <2>1. stripe' = stripe /\ sent' = sent
    BY <1>6 DEF CommitNotice
  <2>2. Noticed[handler[h].type] # "none"
    BY <1>6, NoticeCommits
  <2>3. ASSUME NEW i \in Ids, HasRow(i) PROVE HasRow(i)'
    BY <1>6, <2>2, <2>3, NoticeCommits DEF HasRow, TypeOK
  <2> QED BY <2>1, <2>3 DEF Grows
<1> QED BY <1>1, <1>2, <1>3, <1>4, <1>5, <1>6 DEF Next, Deliver, Override, RollBack, vars

LEMMA RequestsStaySound == ASSUME Inv, [Next]_vars PROVE RequestsSound'
<1>0. TypeOK /\ RequestsSound /\ Grows /\ Idle.pc # "open"
  BY StepGrows DEF Inv, Idle
<1>1. ASSUME NEW g \in Handlers, handler'[g] = handler[g] PROVE (handler[g].pc = "open" => RequestSound(handler[g]))'
  <2> SUFFICES ASSUME handler[g].pc = "open" PROVE RequestSound(handler[g])'
    BY <1>1
  <2>1. handler[g] \in Request /\ RequestSound(handler[g])
    BY <1>0 DEF TypeOK, RequestsSound
  <2> DEFINE s == handler[g]
  <2>2. s.id \in Ids /\ s.old \subseteq Ids
    BY <2>1 DEF Request
  <2>3. s.type # "override" => [type |-> s.type, id |-> s.id] \in sent'
    BY <1>0, <2>1 DEF RequestSound, Grows
  <2>4. (s.was # "none" => status'[s.id] # "none") /\ \A i \in s.old : status'[i] # "none"
    BY <1>0, <2>1, <2>2 DEF RequestSound, Grows, HasRow
  <2>5. s.type = "override" => s.id \in Overrides
    BY <2>1 DEF RequestSound
  <2>6. handler'[g] = s
    BY <1>1
  <2> HIDE DEF s
  <2> QED BY <2>3, <2>4, <2>5, <2>6 DEF RequestSound, HasRow
<1>2. CASE UNCHANGED handler
  BY <1>1, <1>2 DEF RequestsSound
<1>3. ASSUME NEW h \in Handlers, Close(h) PROVE RequestsSound'
  <2> SUFFICES ASSUME NEW g \in Handlers PROVE (handler[g].pc = "open" => RequestSound(handler[g]))'
    BY DEF RequestsSound
  <2>1. CASE g = h
    BY <1>0, <1>3, <2>1 DEF Close, TypeOK
  <2>2. CASE g # h
    BY <1>1, <1>3, <2>2 DEF Close, TypeOK
  <2> QED BY <2>1, <2>2
<1>4. ASSUME NEW h \in Handlers, NEW e \in sent, Deliver(h, e) PROVE RequestsSound'
  <2> SUFFICES ASSUME NEW g \in Handlers PROVE (handler[g].pc = "open" => RequestSound(handler[g]))'
    BY DEF RequestsSound
  <2>1. CASE g = h
    <3>1. e \in [type : Notices, id : Purchases]
      BY <1>0 DEF TypeOK
    <3>2. /\ handler'[h].type = e.type /\ handler'[h].id = e.id
          /\ handler'[h].old \subseteq ToCancel(e.type)
          /\ handler'[h].was \in {"none", status[e.id]}
      BY <1>0, <1>4 DEF Deliver, TypeOK, Idle
    <3>3. sent' = sent /\ status' = status
      BY <1>4 DEF Deliver
    <3>4. \A i \in handler'[h].old : HasRow(i)'
      BY <1>0, <3>2, <3>3, ToCancelIsRows DEF HasRow
    <3>5. e = [type |-> e.type, id |-> e.id] /\ e.type # "override"
      BY <3>1 DEF Notices
    <3> QED BY <2>1, <3>2, <3>3, <3>4, <3>5 DEF RequestSound, HasRow
  <2>2. CASE g # h
    BY <1>0, <1>1, <1>4, <2>2 DEF Deliver, TypeOK
  <2> QED BY <2>1, <2>2
<1>5. ASSUME NEW h \in Handlers, NEW o \in Overrides, Override(h, o) PROVE RequestsSound'
  <2> SUFFICES ASSUME NEW g \in Handlers PROVE (handler[g].pc = "open" => RequestSound(handler[g]))'
    BY DEF RequestsSound
  <2>1. CASE g = h
    <3>1. /\ handler'[h].type = "override" /\ handler'[h].id = o
          /\ handler'[h].old = ToCancel("override") /\ handler'[h].was = "none"
      BY <1>0, <1>5 DEF Override, TypeOK, Idle
    <3>2. status' = status
      BY <1>5 DEF Override
    <3>3. \A i \in handler'[h].old : HasRow(i)'
      BY <1>0, <3>1, <3>2, ToCancelIsRows DEF HasRow
    <3> QED BY <2>1, <3>1, <3>3 DEF RequestSound
  <2>2. CASE g # h
    BY <1>0, <1>1, <1>5, <2>2 DEF Override, TypeOK
  <2> QED BY <2>1, <2>2
<1> QED BY <1>2, <1>3, <1>4, <1>5 DEF Next, vars, Buy, Invoice, End, CommitPlan, CommitNotice, RollBack

LEMMA EndsStayMeant == ASSUME Inv, [Next]_vars PROVE EndsMeant'
<1>0. TypeOK /\ EndsMeant
  BY DEF Inv
<1>1. ASSUME NEW p \in Purchases, Buy(p) PROVE EndsMeant'
  BY <1>0, <1>1 DEF Buy, Send, EndsMeant, TypeOK
<1>2. ASSUME NEW p \in Purchases, NEW paid \in BOOLEAN, Invoice(p, paid) PROVE EndsMeant'
  BY <1>0, <1>2 DEF Invoice, Send, EndsMeant, TypeOK
<1>3. ASSUME NEW p \in Purchases, End(p) PROVE EndsMeant'
  BY <1>0, <1>3 DEF End, Send, EndsMeant, TypeOK
<1>4. ASSUME UNCHANGED <<stripe, sent>> PROVE EndsMeant'
  BY <1>0, <1>4 DEF EndsMeant
<1> QED BY <1>1, <1>2, <1>3, <1>4
        DEF Next, vars, Deliver, Override, CommitPlan, CommitNotice, RollBack

LEMMA GrantsStayOnce == ASSUME Inv, [Next]_vars PROVE GrantedOnce'
<1>0. TypeOK /\ GrantedOnce /\ RequestsSound
  BY DEF Inv
<1>1. ASSUME UNCHANGED <<status, granted>> PROVE GrantedOnce'
  BY <1>0, <1>1 DEF GrantedOnce, HasRow
<1>2. ASSUME NEW h \in Handlers, CommitPlan(h) PROVE GrantedOnce'
  <2> DEFINE s == handler[h]
  <2>1. \A i \in s.old : HasRow(i)
    BY <1>0, <1>2 DEF CommitPlan, RequestsSound, RequestSound
  <2>2. CASE status' = status /\ granted' = granted
    BY <2>2, <1>1
  <2>3. CASE Unique(s.id) /\ status' = PlanRows(s) /\ granted' = PlanCredits(s)
    <3> SUFFICES ASSUME NEW p \in Purchases PROVE (granted[p] = IF HasRow(p) THEN 1 ELSE 0)'
      BY DEF GrantedOnce
    <3>0. p \in Ids
      BY DEF Ids
    <3>1. granted[p] = IF HasRow(p) THEN 1 ELSE 0
      BY <1>0 DEF GrantedOnce
    <3>2. CASE p = s.id
      BY <2>3, <3>0, <3>1, <3>2 DEF PlanRows, PlanCredits, Unique, HasRow
    <3>3. CASE p # s.id
      BY <2>1, <2>3, <3>0, <3>1, <3>3 DEF PlanRows, PlanCredits, HasRow
    <3> QED BY <3>2, <3>3
  <2> QED BY <1>2, <2>2, <2>3, PlanCommits
<1>3. ASSUME NEW h \in Handlers, CommitNotice(h) PROVE GrantedOnce'
  <2> DEFINE s == handler[h]
  <2>1. s.was # "none" => HasRow(s.id)
    BY <1>0, <1>3 DEF CommitNotice, RequestsSound, RequestSound
  <2>2. Noticed[s.type] # "none" /\ granted' = granted
    BY <1>0, <1>3, NoticeCommits DEF CommitNotice
  <2>3. \A i \in Ids : HasRow(i)' <=> HasRow(i)
    BY <1>0, <1>3, <2>1, <2>2, NoticeCommits DEF HasRow, TypeOK
  <2> QED BY <1>0, <2>2, <2>3 DEF GrantedOnce, Ids
<1> QED BY <1>1, <1>2, <1>3
        DEF Next, vars, Buy, Invoice, End, Deliver, Override, RollBack

THEOREM InvHolds == Spec => []Inv
<1>1. Init => RequestsSound /\ EndsMeant /\ GrantedOnce
  BY SubscriptionsAssumption
     DEF Init, Idle, RequestsSound, EndsMeant, GrantedOnce, HasRow, Ids
<1>2. Inv /\ [Next]_vars => (RequestsSound /\ EndsMeant /\ GrantedOnce)'
  BY RequestsStaySound, EndsStayMeant, GrantsStayOnce
<1> QED BY <1>1, <1>2, TypeCorrect, PTL DEF Spec, Inv

\* The credits of a purchase are allocated once, exactly with its row.
THEOREM GrantedOnceHolds == Spec => []GrantedOnce
BY InvHolds, PTL DEF Inv
----------------------------------------------------------------------------
(***************************************************************************)
(* The user keeps a plan                                                   *)
(***************************************************************************)
Stranded == \A i \in Ids : status[i] \notin Usable

\* A purchase that Stripe has ended stays one that excuses the lack of a plan.
LEMMA ExcuseStays ==
  ASSUME Inv, [Next]_vars,
         NEW p \in Purchases, HasRow(p), stripe[p] = "canceled"
  PROVE  (HasRow(p) /\ stripe[p] = "canceled")'
BY StepGrows DEF Grows, Ids

\* Only the notice of an end takes the last usable plan from the user.
LEMMA PlanStays == ASSUME Inv, NeverStranded, [Next]_vars PROVE NeverStranded'
<1>0. TypeOK /\ RequestsSound /\ EndsMeant
  BY DEF Inv
<1>1. ASSUME status' = status PROVE NeverStranded'
  <2> SUFFICES ASSUME Stranded' PROVE (\E p \in Purchases : HasRow(p) /\ stripe[p] = "canceled")'
    BY DEF NeverStranded, Stranded
  <2>1. Stranded
    BY <1>1 DEF Stranded
  <2>2. PICK p \in Purchases : HasRow(p) /\ stripe[p] = "canceled"
    BY <2>1 DEF NeverStranded, Stranded
  <2> QED BY <2>2, ExcuseStays
<1>2. ASSUME NEW h \in Handlers, CommitPlan(h) PROVE NeverStranded'
  <2>1. CASE status' = status
    BY <1>1, <2>1
  <2>2. CASE status' = PlanRows(handler[h])
    <3>1. handler[h].id \in Ids
      BY <1>0 DEF TypeOK, Request
    <3>2. status'[handler[h].id] = "ACTIVE"
      BY <2>2, <3>1 DEF PlanRows
    <3> QED BY <3>1, <3>2 DEF NeverStranded, Usable
  <2> QED BY <1>2, <2>1, <2>2, PlanCommits
<1>3. ASSUME NEW h \in Handlers, CommitNotice(h) PROVE NeverStranded'
  <2> DEFINE s == handler[h]
  <2>1. CASE status' = status
    BY <1>1, <2>1
  <2>2. CASE s.was # "none" /\ status' = [status EXCEPT ![s.id] = Noticed[s.type]]
    <3>1. s \in Request /\ s.id \in Ids
      BY <1>0 DEF TypeOK, Request
    <3>2. status'[s.id] = Noticed[s.type]
      BY <1>0, <2>2, <3>1 DEF TypeOK
    <3>3. CASE s.type \in {"paid", "failed"}
      <4>1. Noticed[s.type] \in Usable
        BY <1>0, <1>3, <3>3, NoticeCommits DEF Usable
      <4> QED BY <3>1, <3>2, <4>1 DEF NeverStranded
    <3>4. CASE s.type = "deleted"
      <4>1. RequestSound(s)
        BY <1>0, <1>3 DEF CommitNotice, RequestsSound
      <4>2. [type |-> "deleted", id |-> s.id] \in sent /\ HasRow(s.id)
        BY <2>2, <3>4, <4>1 DEF RequestSound
      <4>3. s.id \in Purchases
        BY <1>0, <4>2 DEF TypeOK
      <4>4. stripe[s.id] = "canceled"
        BY <1>0, <4>2, <4>3 DEF EndsMeant
      <4>5. PICK p \in Purchases : p = s.id
        BY <4>3
      <4>6. (HasRow(p) /\ stripe[p] = "canceled")'
        BY <4>2, <4>4, <4>5, ExcuseStays
      <4> QED BY <4>6 DEF NeverStranded
    <3> QED BY <1>0, <1>3, <3>3, <3>4, NoticeCommits
  <2> QED BY <1>0, <1>3, <2>1, <2>2, NoticeCommits
<1> QED BY <1>1, <1>2, <1>3 DEF Next, vars, Buy, Invoice, End, Deliver, Override, RollBack

\* However the requests overlap, the user is without a usable plan only if
\* Stripe has ended a purchase.
THEOREM NeverStrandedHolds == Spec => []NeverStranded
<1>1. Init => NeverStranded
  BY DEF Init, NeverStranded, Ids, Usable
<1> QED BY <1>1, PlanStays, InvHolds, PTL DEF Spec
----------------------------------------------------------------------------
(***************************************************************************)
(* The refinement                                                          *)
(***************************************************************************)
Standing == [p \in Purchases |-> status[p]]
Reported == [p \in Purchases |-> {t \in Notices : [type |-> t, id |-> p] \in sent}]

LEMMA PromiseVars == Promise!vars = <<Reported, Standing, granted>>
BY DEF Promise!vars, Reported, Standing

\* What Stripe sends about a purchase is a report of that purchase.
LEMMA SendReports ==
  ASSUME NEW p \in Purchases, NEW types \in SUBSET Notices, Send(p, types),
         UNCHANGED <<status, granted>>
  PROVE  Promise!Next
<1>1. Reported' = [Reported EXCEPT ![p] = @ \cup types]
  <2> SUFFICES ASSUME NEW q \in Purchases
               PROVE  Reported'[q] = IF q = p THEN Reported[q] \cup types ELSE Reported[q]
    BY DEF Reported
  <2>1. \A t \in Notices : [type |-> t, id |-> q] \in sent'
          <=> [type |-> t, id |-> q] \in sent \/ (q = p /\ t \in types)
    BY DEF Send
  <2> QED BY <2>1 DEF Reported
<1>2. Promise!Report(p, types)
  BY <1>1 DEF Promise!Report, Reported
<1> QED BY <1>2 DEF Promise!Next, Promise!Notices, Notices

\* A step that leaves the rows, the events and the credits alone.
LEMMA OthersStutter ==
  ASSUME UNCHANGED <<sent, status, granted>> PROVE UNCHANGED Promise!vars
BY DEF Promise!vars

LEMMA PlanImplements ==
  ASSUME Inv, NEW h \in Handlers, CommitPlan(h) PROVE [Promise!Next]_(Promise!vars)
<1> DEFINE s == handler[h]
           S == s.old \cap Purchases
<1>1. /\ TypeOK /\ RequestSound(s) /\ s \in Request
      /\ sent' = sent /\ s.type \in {"checkout", "override"}
  BY DEF Inv, RequestsSound, CommitPlan, TypeOK
<1>2. CASE status' = status /\ granted' = granted
  BY <1>1, <1>2, OthersStutter
<1>3. CASE Unique(s.id) /\ status' = PlanRows(s) /\ granted' = PlanCredits(s)
  <2>1. S \in SUBSET Purchases /\ \A q \in S : Standing[q] # "none"
    BY <1>1 DEF RequestSound, HasRow, Standing
  <2>2. \A q \in Purchases : q \in Ids
    BY DEF Ids
  <2>3. UNCHANGED Reported
    BY <1>1 DEF Reported
  <2>4. CASE s.type = "checkout"
    <3>1. s.id \in Purchases /\ "checkout" \in Reported[s.id]
      BY <1>1, <2>4 DEF RequestSound, TypeOK, Reported, Notices
    <3>2. Standing[s.id] = "none"
      BY <1>3, <3>1 DEF Unique, HasRow, Standing
    <3>3. Standing' = [Promise!Superseded(S) EXCEPT ![s.id] = "ACTIVE"]
      BY <1>3, <2>2, <3>1 DEF Standing, PlanRows, Promise!Superseded
    <3>4. granted' = [granted EXCEPT ![s.id] = @ + 1]
      BY <1>1, <1>3, <3>1 DEF PlanCredits, TypeOK
    <3>5. PICK p \in Purchases, T \in SUBSET Purchases : p = s.id /\ T = S
      BY <2>1, <3>1
    <3>6. Promise!Activate(p, T)
      BY <2>1, <2>3, <3>1, <3>2, <3>3, <3>4, <3>5
         DEF Promise!Activate, Promise!Superseded, Standing, Reported
    <3> QED BY <3>6 DEF Promise!Next
  <2>5. CASE s.type = "override"
    <3>1. s.id \notin Purchases
      BY <1>1, <2>5, SubscriptionsAssumption DEF RequestSound
    <3>2. Standing' = Promise!Superseded(S)
      BY <1>3, <2>2, <3>1 DEF Standing, PlanRows, Promise!Superseded
    <3>3. granted' = granted
      BY <1>1, <1>3, <3>1 DEF PlanCredits, TypeOK
    <3>4. PICK T \in SUBSET Purchases : T = S
      BY <2>1
    <3>5. Promise!Supersede(T)
      BY <2>1, <2>3, <3>2, <3>3, <3>4
         DEF Promise!Supersede, Promise!Superseded, Standing, Reported
    <3> QED BY <3>5 DEF Promise!Next
  <2> QED BY <1>1, <2>4, <2>5
<1> QED BY <1>2, <1>3, PlanCommits

LEMMA NoticeImplements ==
  ASSUME Inv, NEW h \in Handlers, CommitNotice(h) PROVE [Promise!Next]_(Promise!vars)
<1> DEFINE s == handler[h]
<1>1. /\ TypeOK /\ RequestSound(s) /\ s \in Request
      /\ sent' = sent /\ granted' = granted
  BY DEF Inv, RequestsSound, CommitNotice, TypeOK
<1>2. CASE status' = status
  BY <1>1, <1>2, OthersStutter
<1>3. CASE s.was # "none" /\ status' = [status EXCEPT ![s.id] = Noticed[s.type]]
  <2>1. s.type \in {"paid", "failed", "deleted"}
    BY <1>1, NoticeCommits
  <2>2. s.id \in Purchases /\ s.type \in Reported[s.id]
    BY <1>1, <2>1 DEF RequestSound, TypeOK, Reported, Notices
  <2>3. Standing[s.id] # "none"
    BY <1>1, <1>3, <2>2 DEF RequestSound, HasRow, Standing
  <2>4. Noticed[s.type] = Promise!Reads(s.type)
    BY <1>1, NoticeCommits DEF Promise!Reads
  <2>5. Standing' = [Standing EXCEPT ![s.id] = Promise!Reads(s.type)]
    BY <1>1, <1>3, <2>2, <2>4 DEF Standing, TypeOK, Ids
  <2>6. UNCHANGED Reported
    BY <1>1 DEF Reported
  <2>7. PICK p \in Purchases, t \in Notices : p = s.id /\ t = s.type
    BY <2>1, <2>2 DEF Notices
  <2>8. Promise!Follow(p, t)
    BY <1>1, <2>1, <2>2, <2>3, <2>5, <2>6, <2>7 DEF Promise!Follow, Standing, Reported
  <2> QED BY <2>8 DEF Promise!Next, Promise!Notices, Notices
<1> QED BY <1>1, <1>2, <1>3, NoticeCommits

LEMMA StepImplements ==
  ASSUME Inv, [Next]_vars PROVE [Promise!Next]_(Promise!vars)
<1>1. ASSUME NEW p \in Purchases, Buy(p) PROVE Promise!Next
  BY <1>1, SendReports DEF Buy, Notices
<1>2. ASSUME NEW p \in Purchases, NEW paid \in BOOLEAN, Invoice(p, paid) PROVE Promise!Next
  BY <1>2, SendReports DEF Invoice, Notices
<1>3. ASSUME NEW p \in Purchases, End(p) PROVE Promise!Next
  BY <1>3, SendReports DEF End, Notices
<1>4. ASSUME NEW h \in Handlers, CommitPlan(h) PROVE [Promise!Next]_(Promise!vars)
  BY <1>4, PlanImplements
<1>5. ASSUME NEW h \in Handlers, CommitNotice(h) PROVE [Promise!Next]_(Promise!vars)
  BY <1>5, NoticeImplements
<1> QED BY <1>1, <1>2, <1>3, <1>4, <1>5, OthersStutter
        DEF Next, vars, Deliver, Override, RollBack

\* The webhooks implement the promise of Entitlements: every purchase becomes a
\* subscription once, with its credits, and then follows what Stripe reports,
\* in whatever order the events arrive.
THEOREM EntitlementsKeptHolds == Spec => EntitlementsKept
<1>1. Init => Promise!Init
  BY SubscriptionsAssumption DEF Init, Promise!Init, Ids
<1>2. Inv /\ [Next]_vars => [Promise!Next]_(Promise!vars)
  BY StepImplements
<1> QED BY <1>1, <1>2, InvHolds, PTL DEF Spec, EntitlementsKept, Promise!Spec
=============================================================================
