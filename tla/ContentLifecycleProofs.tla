----------------------- MODULE ContentLifecycleProofs -----------------------
(***************************************************************************)
(* Proofs about ContentLifecycle, for every set of drafts and every bound. *)
(*                                                                         *)
(* Coupling, LogAccounting and SnapshotSound are each inductive once       *)
(* TypeOK is known; PublishedIsFinal needs Coupling as well, to know that  *)
(* the draft of a published post is one no review handler accepts.  Every  *)
(* step but the tick changes the rows of one draft, so a proof shows what  *)
(* the step makes of that draft and that the others are as they were.      *)
(***************************************************************************)
EXTENDS ContentLifecycle, TLAPS

----------------------------------------------------------------------------
(***************************************************************************)
(* What each handler does to a row                                         *)
(***************************************************************************)
\* The row of a draft after a review, a scheduling or a publish handler.
LEMMA MovedRow ==
  ASSUME NEW r \in DraftRow, NEW s \in ContentStatus
  PROVE  /\ Moved(r, s) \in DraftRow
         /\ Moved(r, s).status = s
         /\ Moved(r, s).current = r.current
  BY DEF Moved, DraftRow

\* The row of a draft after an edit or a generation that wrote version v.
LEMMA RewrittenRow ==
  ASSUME NEW r \in DraftRow, NEW v \in Nat
  PROVE  /\ AfterEdit(r, v) \in DraftRow
         /\ AfterEdit(r, v).current = v
         /\ AfterEdit(r, v).status = IF r.status = "APPROVED" THEN "PENDING" ELSE r.status
         /\ AfterGeneration(r, v) \in DraftRow
         /\ AfterGeneration(r, v).current = v
         /\ AfterGeneration(r, v).status = r.status
  BY DEF AfterEdit, AfterGeneration, DraftRow, ContentStatus

\* The row of a post after each of the scheduler's handlers.
LEMMA ScheduledRows ==
  ASSUME NEW v \in Nat, NEW due \in BOOLEAN
  PROVE  /\ ScheduledRow(v, due) \in PostRow
         /\ ScheduledRow(v, due).status = "SCHEDULED"
         /\ ScheduledRow(v, due).snapshot = v
         /\ ScheduledRow(v, due).attempts = 0
  BY DEF ScheduledRow, PostRow, PublishStatus

LEMMA UnscheduledRow ==
  ASSUME NEW p \in PostRow
  PROVE  /\ AfterUnschedule(p) \in PostRow
         /\ AfterUnschedule(p).status = "UNSCHEDULED"
         /\ AfterUnschedule(p).snapshot = p.snapshot
         /\ AfterUnschedule(p).attempts = p.attempts
  BY DEF AfterUnschedule, PostRow, PublishStatus

LEMMA RescheduledRow ==
  ASSUME NEW p \in PostRow, NEW due \in BOOLEAN
  PROVE  /\ AfterReschedule(p, due) \in PostRow
         /\ AfterReschedule(p, due).status = "SCHEDULED"
         /\ AfterReschedule(p, due).snapshot = p.snapshot
         /\ AfterReschedule(p, due).attempts = p.attempts
  BY DEF AfterReschedule, PostRow, PublishStatus

\* The row that an attempt flushes before it calls Instagram.
LEMMA InFlightRow ==
  ASSUME NEW p \in PostRow
  PROVE  /\ InFlight(p) \in PostRow
         /\ InFlight(p).status = "PUBLISHING"
         /\ InFlight(p).snapshot = p.snapshot
         /\ InFlight(p).attempts = p.attempts + 1
<1> DEFINE n == p.attempts + 1
<1>1. n \in Nat /\ InFlight(p) = [p EXCEPT !.status = "PUBLISHING", !.attempts = n]
  BY DEF InFlight, PostRow
<1> HIDE DEF n
<1>2. /\ InFlight(p) \in PostRow
      /\ InFlight(p).status = "PUBLISHING"
      /\ InFlight(p).snapshot = p.snapshot
      /\ InFlight(p).attempts = n
  BY <1>1 DEF PostRow, PublishStatus
<1> QED
  BY <1>2 DEF n

\* The row of a post after a publish attempt: one more attempt, the snapshot
\* untouched, and a status that depends on the outcome.
LEMMA AttemptedRows ==
  ASSUME NEW p \in PostRow, NEW fatal \in BOOLEAN
  PROVE  /\ AfterSuccess(InFlight(p)) \in PostRow
         /\ AfterSuccess(InFlight(p)).status = "PUBLISHED"
         /\ AfterSuccess(InFlight(p)).snapshot = p.snapshot
         /\ AfterSuccess(InFlight(p)).attempts = p.attempts + 1
         /\ AfterFailure(InFlight(p), fatal) \in PostRow
         /\ AfterFailure(InFlight(p), fatal).status =
              IF WillRetry(InFlight(p), fatal) THEN "SCHEDULED" ELSE "FAILED"
         /\ AfterFailure(InFlight(p), fatal).snapshot = p.snapshot
         /\ AfterFailure(InFlight(p), fatal).attempts = p.attempts + 1
<1>1. ASSUME NEW q \in PostRow
      PROVE  /\ AfterSuccess(q) \in PostRow
             /\ AfterSuccess(q).status = "PUBLISHED"
             /\ AfterSuccess(q).snapshot = q.snapshot
             /\ AfterSuccess(q).attempts = q.attempts
  BY DEF AfterSuccess, PostRow, PublishStatus
<1>2. ASSUME NEW q \in PostRow
      PROVE  /\ AfterFailure(q, fatal) \in PostRow
             /\ AfterFailure(q, fatal).status =
                  IF WillRetry(q, fatal) THEN "SCHEDULED" ELSE "FAILED"
             /\ AfterFailure(q, fatal).snapshot = q.snapshot
             /\ AfterFailure(q, fatal).attempts = q.attempts
  <2>1. CASE WillRetry(q, fatal)
    BY <2>1 DEF AfterFailure, PostRow, PublishStatus
  <2>2. CASE ~WillRetry(q, fatal)
    BY <2>2 DEF AfterFailure, PostRow, PublishStatus
  <2>3. QED
    BY <2>1, <2>2
<1>3. QED
  BY <1>1, <1>2, InFlightRow

----------------------------------------------------------------------------
\* A delivery leaves a natural number of messages waiting, none of another post's.
LEMMA Delivered ==
  ASSUME queue \in [Drafts -> Nat], NEW d \in Drafts, NEW acked, Deliver(d, acked)
  PROVE  /\ queue' \in [Drafts -> Nat]
         /\ \A e \in Drafts : queue'[e] > 0 => queue[e] > 0
<1>1. queue[d] \in Nat /\ queue[d] > 0 /\ queue[d] - 1 \in Nat
  BY DEF Deliver
<1>2. CASE acked
  BY <1>1, <1>2 DEF Deliver
<1>3. CASE ~acked
  BY <1>1, <1>3 DEF Deliver
<1>4. QED
  BY <1>2, <1>3

----------------------------------------------------------------------------
\* Type correctness: every reachable state assigns to each variable a value of
\* its table, queue or setting.
THEOREM TypeCorrect == Spec => []TypeOK
<1>1. Init => TypeOK
  BY DEF Init, TypeOK, NoDraft, NoPost, DraftRow, PostRow, ContentStatus, PublishStatus
<1>2. TypeOK /\ [Next]_vars => TypeOK'
  <2> SUFFICES ASSUME TypeOK, [Next]_vars PROVE TypeOK'
    OBVIOUS
  <2> USE DEF TypeOK, rows
  <2>0. /\ {"DRAFT", "PENDING", "APPROVED", "REJECTED", "SCHEDULED",
            "PUBLISHED", "FAILED"} \subseteq ContentStatus
        /\ \A d \in Drafts : draft[d].current \in Nat
    BY DEF ContentStatus, DraftRow
  <2>1. ASSUME NEW d \in Drafts, Generation(d) PROVE TypeOK'
    <3>1. CASE InitiateGeneration(d)
      BY <2>0, <3>1, MovedRow DEF InitiateGeneration
    <3>2. ASSUME NEW image \in BOOLEAN, NEW acked \in BOOLEAN,
                 ExecuteGeneration(d, image, acked)
          PROVE  TypeOK'
      <4>1. versions[d] + 1 \in Nat
        OBVIOUS
      <4>2. gen' \in [Drafts -> {"none", "queued", "done"}]
        BY <3>2 DEF ExecuteGeneration
      <4>3. draft' \in [Drafts -> DraftRow]
        BY <4>1, <3>2, RewrittenRow DEF ExecuteGeneration
      <4> QED
        BY <4>1, <4>2, <4>3, <3>2 DEF ExecuteGeneration, InsertVersion
    <3>3. CASE GenerationGivesUp(d)
      BY <3>3 DEF GenerationGivesUp
    <3>4. QED
      BY <2>1, <3>1, <3>2, <3>3 DEF Generation
  <2>2. ASSUME NEW d \in Drafts, Review(d) PROVE TypeOK'
    <3>1. CASE SubmitForReview(d)
      BY <2>0, <3>1, MovedRow DEF SubmitForReview
    <3>2. CASE Approve(d)
      <4>1. draft' \in [Drafts -> DraftRow]
        BY <2>0, <3>2, MovedRow DEF Approve
      <4>2. approved' \in [Drafts -> SUBSET Nat]
        BY <2>0, <3>2 DEF Approve
      <4> QED
        BY <3>2, <4>1, <4>2 DEF Approve
    <3>3. CASE Reject(d)
      BY <2>0, <3>3, MovedRow DEF Reject
    <3>4. ASSUME NEW newImage \in BOOLEAN, EditContent(d, newImage) PROVE TypeOK'
      <4>1. versions[d] + 1 \in Nat
        OBVIOUS
      <4> QED
        BY <4>1, <3>4, RewrittenRow DEF EditContent, InsertVersion
    <3>5. QED
      BY <2>2, <3>1, <3>2, <3>3, <3>4 DEF Review
  <2>3. ASSUME NEW d \in Drafts, Scheduling(d) PROVE TypeOK'
    <3>1. ASSUME NEW due \in BOOLEAN, SchedulePost(d, due) PROVE TypeOK'
      BY <2>0, <3>1, MovedRow, ScheduledRows DEF SchedulePost
    <3>2. CASE UnschedulePost(d)
      BY <2>0, <3>2, MovedRow, UnscheduledRow DEF UnschedulePost
    <3>3. ASSUME NEW due \in BOOLEAN, ReschedulePost(d, due) PROVE TypeOK'
      BY <2>0, <3>3, MovedRow, RescheduledRow DEF ReschedulePost
    <3>4. CASE TimePasses(d)
      <4>1. /\ [post[d] EXCEPT !.due = TRUE] \in PostRow
            /\ [post[d] EXCEPT !.waiting = FALSE] \in PostRow
        BY DEF PostRow
      <4> QED
        BY <3>4, <4>1 DEF TimePasses
    <3>5. QED
      BY <2>3, <3>1, <3>2, <3>3, <3>4 DEF Scheduling
  <2>4. ASSUME NEW d \in Drafts, Publishing(d) PROVE TypeOK'
    <3>1. CASE SkipPublish(d)
      BY <3>1, Delivered DEF SkipPublish
    <3>2. ASSUME NEW acked \in BOOLEAN, PublishSucceeds(d, acked) PROVE TypeOK'
      <4>1. queue' \in [Drafts -> Nat]
        BY <3>2, Delivered DEF PublishSucceeds
      <4>2. post' \in [Drafts -> PostRow]
        BY <3>2, AttemptedRows DEF PublishSucceeds
      <4>3. draft' \in [Drafts -> DraftRow]
        BY <2>0, <3>2, MovedRow DEF PublishSucceeds
      <4>4. logged' \in [Drafts -> [ok : Nat, failed : Nat]]
        BY <3>2 DEF PublishSucceeds
      <4>5. celebration' \in {"none", "queued", "sent"}
        BY <3>2 DEF PublishSucceeds
      <4> QED
        BY <3>2, <4>1, <4>2, <4>3, <4>4, <4>5 DEF PublishSucceeds
    <3>3. ASSUME NEW fatal \in BOOLEAN, NEW acked \in BOOLEAN, PublishFails(d, fatal, acked)
          PROVE TypeOK'
      <4>1. queue' \in [Drafts -> Nat]
        BY <3>3, Delivered DEF PublishFails
      <4>2. post' \in [Drafts -> PostRow]
        BY <3>3, AttemptedRows DEF PublishFails
      <4>3. draft' \in [Drafts -> DraftRow]
        BY <2>0, <3>3, MovedRow DEF PublishFails
      <4> QED
        BY <3>3, <4>1, <4>2, <4>3 DEF PublishFails
    <3>4. QED
      BY <2>4, <3>1, <3>2, <3>3 DEF Publishing
  <2>5. CASE ConnectAccount
    BY <2>5 DEF ConnectAccount
  <2>6. CASE DisconnectAccount
    BY <2>6 DEF DisconnectAccount
  <2>7. CASE TickPublisher
    BY <2>7 DEF TickPublisher
  <2>8. CASE CelebrateFirstPublish
    BY <2>8 DEF CelebrateFirstPublish
  <2>9. CASE UNCHANGED vars
    BY <2>9 DEF vars
  <2>10. QED
    BY <2>1, <2>2, <2>3, <2>4, <2>5, <2>6, <2>7, <2>8, <2>9 DEF Next
<1>3. QED
  BY <1>1, <1>2, PTL DEF Spec

----------------------------------------------------------------------------
(***************************************************************************)
(* Coupling                                                                *)
(***************************************************************************)
\* The statuses a draft and its post have after a step decide Coupling.
LEMMA CouplingKept ==
  ASSUME Coupling, NEW d \in Drafts, Coupled(d)',
         \A e \in Drafts : e # d => draft'[e] = draft[e] /\ post'[e] = post[e]
  PROVE  Coupling'
<1> SUFFICES ASSUME NEW e \in Drafts PROVE Coupled(e)'
  BY DEF Coupling
<1>1. CASE e = d
  BY <1>1
<1>2. CASE e # d
  BY <1>2 DEF Coupling, Coupled
<1> QED
  BY <1>1, <1>2

LEMMA CouplingStep == TypeOK /\ Coupling /\ [Next]_vars => Coupling'
<1> SUFFICES ASSUME TypeOK, Coupling, [Next]_vars PROVE Coupling'
  OBVIOUS
<1>0. \A d \in Drafts : draft[d] \in DraftRow /\ post[d] \in PostRow
  BY DEF TypeOK
<1>1. ASSUME NEW d \in Drafts, Generation(d) PROVE Coupling'
  <2>1. CASE InitiateGeneration(d)
    <3>1. draft'[d].status = "DRAFT" /\ post'[d] = post[d]
      BY <1>0, <2>1, MovedRow DEF InitiateGeneration, TypeOK, ContentStatus
    <3>2. Coupled(d) /\ draft[d].status = "NONE"
      BY <2>1 DEF Coupling, InitiateGeneration
    <3>3. Coupled(d)'
      BY <3>1, <3>2 DEF Coupled
    <3> QED
      BY <2>1, <3>3, CouplingKept DEF InitiateGeneration, TypeOK
  <2>2. ASSUME NEW image \in BOOLEAN, NEW acked \in BOOLEAN,
               ExecuteGeneration(d, image, acked)
        PROVE  Coupling'
    <3>1. draft'[d].status = draft[d].status /\ post'[d] = post[d]
      <4>1. versions[d] + 1 \in Nat
        BY DEF TypeOK
      <4>2. draft'[d] = AfterGeneration(draft[d], versions[d] + 1) /\ post' = post
        BY <2>2 DEF ExecuteGeneration, TypeOK
      <4> QED
        BY <1>0, <4>1, <4>2, RewrittenRow
    <3>2. Coupled(d)'
      BY <3>1 DEF Coupling, Coupled
    <3> QED
      BY <2>2, <3>2, CouplingKept DEF ExecuteGeneration, TypeOK
  <2>3. CASE GenerationGivesUp(d)
    BY <2>3 DEF GenerationGivesUp, rows, Coupling, Coupled
  <2> QED
    BY <1>1, <2>1, <2>2, <2>3 DEF Generation
<1>2. ASSUME NEW d \in Drafts, Review(d) PROVE Coupling'
  \* The statuses a review handler accepts exclude those it must not leave.
  <2>1. ASSUME NEW s \in {"PENDING", "APPROVED", "REJECTED"}, MayTransition(draft[d], s),
               draft' = [draft EXCEPT ![d] = Moved(@, s)], post' = post
        PROVE  Coupling'
    <3>1. draft'[d].status = s /\ post'[d] = post[d]
      BY <1>0, <2>1, MovedRow DEF TypeOK, ContentStatus
    <3>2. draft[d].status \in {"DRAFT", "PENDING", "REJECTED", "SCHEDULED"}
      BY <2>1 DEF MayTransition, ALLOWED_TRANSITIONS, ContentStatus
    <3>3. Coupled(d)'
      BY <3>1, <3>2 DEF Coupling, Coupled
    <3> QED
      BY <2>1, <3>3, CouplingKept DEF TypeOK
  <2>2. CASE SubmitForReview(d)
    BY <2>1, <2>2 DEF SubmitForReview, MaySubmit
  <2>3. CASE Approve(d)
    BY <2>1, <2>3 DEF Approve, MayApprove
  <2>4. CASE Reject(d)
    BY <2>1, <2>4 DEF Reject, MayReject
  <2>5. ASSUME NEW newImage \in BOOLEAN, EditContent(d, newImage) PROVE Coupling'
    <3>1. /\ draft'[d].status = IF draft[d].status = "APPROVED" THEN "PENDING"
                                                              ELSE draft[d].status
          /\ post'[d] = post[d]
      <4>1. versions[d] + 1 \in Nat
        BY DEF TypeOK
      <4>2. draft'[d] = AfterEdit(draft[d], versions[d] + 1) /\ post' = post
        BY <2>5 DEF EditContent, TypeOK
      <4> QED
        BY <1>0, <4>1, <4>2, RewrittenRow
    <3>2. Coupled(d)'
      BY <3>1 DEF Coupling, Coupled
    <3> QED
      BY <2>5, <3>2, CouplingKept DEF EditContent, TypeOK
  <2> QED
    BY <1>2, <2>2, <2>3, <2>4, <2>5 DEF Review
<1>3. ASSUME NEW d \in Drafts, Scheduling(d) PROVE Coupling'
  <2>1. ASSUME NEW due \in BOOLEAN, SchedulePost(d, due) PROVE Coupling'
    <3>1. draft'[d].status = "SCHEDULED" /\ post'[d].status = "SCHEDULED"
      <4>1. /\ draft'[d] = Moved(draft[d], "SCHEDULED")
            /\ post'[d] = ScheduledRow(draft[d].current, due)
        BY <2>1 DEF SchedulePost, TypeOK
      <4>2. draft'[d].status = "SCHEDULED"
        BY <1>0, <4>1, MovedRow DEF ContentStatus
      <4>3. draft[d].current \in Nat
        BY <1>0 DEF DraftRow
      <4> QED
        BY <1>0, <4>1, <4>2, <4>3, ScheduledRows
    <3>2. Coupled(d)'
      BY <3>1 DEF Coupled
    <3> QED
      BY <2>1, <3>2, CouplingKept DEF SchedulePost, TypeOK
  <2>2. CASE UnschedulePost(d)
    <3>1. draft'[d].status = "APPROVED" /\ post'[d].status = "UNSCHEDULED"
      BY <1>0, <2>2, MovedRow, UnscheduledRow DEF UnschedulePost, TypeOK, ContentStatus
    <3>2. Coupled(d)'
      BY <3>1 DEF Coupled
    <3> QED
      BY <2>2, <3>2, CouplingKept DEF UnschedulePost, TypeOK
  <2>3. ASSUME NEW due \in BOOLEAN, ReschedulePost(d, due) PROVE Coupling'
    <3>1. draft'[d].status = "SCHEDULED" /\ post'[d].status = "SCHEDULED"
      BY <1>0, <2>3, MovedRow, RescheduledRow DEF ReschedulePost, TypeOK, ContentStatus
    <3>2. Coupled(d)'
      BY <3>1 DEF Coupled
    <3> QED
      BY <2>3, <3>2, CouplingKept DEF ReschedulePost, TypeOK
  <2>4. CASE TimePasses(d)
    <3>1. draft' = draft /\ post'[d].status = post[d].status
      BY <1>0, <2>4 DEF TimePasses, TypeOK, PostRow
    <3>2. Coupled(d)'
      BY <3>1 DEF Coupling, Coupled
    <3> QED
      BY <2>4, <3>2, CouplingKept DEF TimePasses, TypeOK
  <2> QED
    BY <1>3, <2>1, <2>2, <2>3, <2>4 DEF Scheduling
<1>4. ASSUME NEW d \in Drafts, Publishing(d) PROVE Coupling'
  <2>1. CASE SkipPublish(d)
    BY <2>1 DEF SkipPublish, rows, Coupling, Coupled
  <2>2. ASSUME NEW acked \in BOOLEAN, PublishSucceeds(d, acked) PROVE Coupling'
    <3>1. draft'[d].status = "PUBLISHED" /\ post'[d].status = "PUBLISHED"
      BY <1>0, <2>2, MovedRow, AttemptedRows DEF PublishSucceeds, TypeOK, ContentStatus
    <3>2. Coupled(d)'
      BY <3>1 DEF Coupled
    <3> QED
      BY <2>2, <3>2, CouplingKept DEF PublishSucceeds, TypeOK
  <2>3. ASSUME NEW fatal \in BOOLEAN, NEW acked \in BOOLEAN, PublishFails(d, fatal, acked)
        PROVE  Coupling'
    <3>1. \/ draft'[d] = draft[d] /\ post'[d].status = "SCHEDULED"
          \/ draft'[d].status = "FAILED" /\ post'[d].status = "FAILED"
      BY <1>0, <2>3, MovedRow, AttemptedRows DEF PublishFails, TypeOK, ContentStatus
    <3>2. post[d].status \notin {"NONE", "PUBLISHED", "PUBLISHING"}
      BY <2>3 DEF PublishFails, MayPublish
    <3>3. Coupled(d)'
      BY <3>1, <3>2 DEF Coupling, Coupled
    <3> QED
      BY <2>3, <3>3, CouplingKept DEF PublishFails, TypeOK
  <2> QED
    BY <1>4, <2>1, <2>2, <2>3 DEF Publishing
<1>5. CASE ConnectAccount \/ DisconnectAccount \/ TickPublisher \/ CelebrateFirstPublish
  BY <1>5 DEF ConnectAccount, DisconnectAccount, TickPublisher, CelebrateFirstPublish,
              rows, Coupling, Coupled
<1>6. CASE UNCHANGED vars
  BY <1>6 DEF vars, rows, Coupling, Coupled
<1>7. QED
  BY <1>1, <1>2, <1>3, <1>4, <1>5, <1>6 DEF Next

\* The statuses of a draft and of its post never contradict each other: the
\* handlers of the two services, and the publisher, keep the two rows in step.
THEOREM CouplingHolds == Spec => []Coupling
<1>1. Init => Coupling
  BY DEF Init, Coupling, Coupled, NoDraft, NoPost
<1>2. QED
  BY <1>1, TypeCorrect, CouplingStep, PTL DEF Spec

----------------------------------------------------------------------------
(***************************************************************************)
(* LogAccounting                                                           *)
(***************************************************************************)
\* A step on one draft keeps the account of the others.
LEMMA AccountKept ==
  ASSUME LogAccounting, NEW d \in Drafts, Accounted(d)',
         \A e \in Drafts : e # d => /\ post'[e] = post[e]
                                    /\ logged'[e] = logged[e]
                                    /\ queue'[e] > 0 => queue[e] > 0
                                    /\ queue'[e] \in Nat
  PROVE  LogAccounting'
<1> SUFFICES ASSUME NEW e \in Drafts PROVE Accounted(e)'
  BY DEF LogAccounting
<1>1. CASE e = d
  BY <1>1
<1>2. CASE e # d
  BY <1>2 DEF LogAccounting, Accounted
<1> QED
  BY <1>1, <1>2

\* An attempt adds one to the attempts of the post and one line to its log.
LEMMA AttemptAccounted ==
  ASSUME TypeOK, LogAccounting, NEW d \in Drafts, NEW acked \in BOOLEAN,
         Deliver(d, acked), MayPublish(post[d]),
         NEW p, post' = [post EXCEPT ![d] = p], p.attempts = post[d].attempts + 1,
         \/ p.status = "PUBLISHED" /\ logged' = [logged EXCEPT ![d].ok = @ + 1]
         \/ p.status \in {"SCHEDULED", "FAILED"} /\ logged' = [logged EXCEPT ![d].failed = @ + 1]
  PROVE  LogAccounting'
<1>1. /\ Accounted(d)
      /\ post[d].attempts \in Nat
      /\ logged[d].ok \in Nat
      /\ logged[d].failed \in Nat
      /\ post[d].status # "PUBLISHED"
  BY DEF LogAccounting, TypeOK, PostRow, MayPublish
<1>2. post'[d] = p
  BY DEF TypeOK
<1>3. CASE p.status = "PUBLISHED" /\ logged' = [logged EXCEPT ![d].ok = @ + 1]
  <2>1. logged'[d].ok = logged[d].ok + 1 /\ logged'[d].failed = logged[d].failed
    BY <1>3 DEF TypeOK
  <2>2. Accounted(d)'
    BY <1>1, <1>2, <1>3, <2>1 DEF Accounted
  <2> QED
    BY <1>3, <2>2, AccountKept, Delivered DEF TypeOK
<1>4. CASE p.status \in {"SCHEDULED", "FAILED"} /\ logged' = [logged EXCEPT ![d].failed = @ + 1]
  <2>1. logged'[d].failed = logged[d].failed + 1 /\ logged'[d].ok = logged[d].ok
    BY <1>4 DEF TypeOK
  <2>2. Accounted(d)'
    BY <1>1, <1>2, <1>4, <2>1 DEF Accounted
  <2> QED
    BY <1>4, <2>2, AccountKept, Delivered DEF TypeOK
<1> QED
  BY <1>3, <1>4

LEMMA AccountStep == TypeOK /\ LogAccounting /\ [Next]_vars => LogAccounting'
<1> SUFFICES ASSUME TypeOK, LogAccounting, [Next]_vars PROVE LogAccounting'
  OBVIOUS
<1>0. \A d \in Drafts : /\ draft[d].current \in Nat
                        /\ post[d] \in PostRow
                        /\ Accounted(d)
  BY DEF TypeOK, DraftRow, LogAccounting
<1>1. CASE post' = post /\ logged' = logged /\ queue' = queue
  BY <1>1 DEF LogAccounting, Accounted
<1>2. ASSUME NEW d \in Drafts, Scheduling(d) PROVE LogAccounting'
  <2>1. ASSUME logged' = logged, queue' = queue,
               \A e \in Drafts : e # d => post'[e] = post[e],
               Accounted(d)'
        PROVE  LogAccounting'
    BY <2>1, AccountKept DEF TypeOK
  <2>2. ASSUME NEW due \in BOOLEAN, SchedulePost(d, due) PROVE LogAccounting'
    <3>1. post'[d] = ScheduledRow(draft[d].current, due) /\ post[d].status = "NONE"
      BY <2>2 DEF SchedulePost, UniqueDraft, TypeOK
    <3>2. post'[d].status = "SCHEDULED" /\ post'[d].attempts = 0
      BY <1>0, <3>1, ScheduledRows
    <3>3. Accounted(d)'
      BY <1>0, <2>2, <3>1, <3>2 DEF SchedulePost, Accounted
    <3> QED
      BY <2>1, <2>2, <3>3 DEF SchedulePost, TypeOK
  <2>3. CASE UnschedulePost(d)
    <3>1. post'[d] = AfterUnschedule(post[d]) /\ post[d].status \notin {"NONE", "PUBLISHED"}
      BY <2>3 DEF UnschedulePost, MayUnschedule, TypeOK
    <3>2. post'[d].status = "UNSCHEDULED" /\ post'[d].attempts = post[d].attempts
      BY <1>0, <3>1, UnscheduledRow
    <3>3. Accounted(d)'
      BY <1>0, <2>3, <3>1, <3>2 DEF UnschedulePost, Accounted
    <3> QED
      BY <2>1, <2>3, <3>3 DEF UnschedulePost, TypeOK
  <2>4. ASSUME NEW due \in BOOLEAN, ReschedulePost(d, due) PROVE LogAccounting'
    <3>1. post'[d] = AfterReschedule(post[d], due) /\ post[d].status \notin {"NONE", "PUBLISHED"}
      BY <2>4 DEF ReschedulePost, MayReschedule, TypeOK
    <3>2. post'[d].status = "SCHEDULED" /\ post'[d].attempts = post[d].attempts
      BY <1>0, <3>1, RescheduledRow
    <3>3. Accounted(d)'
      BY <1>0, <2>4, <3>1, <3>2 DEF ReschedulePost, Accounted
    <3> QED
      BY <2>1, <2>4, <3>3 DEF ReschedulePost, TypeOK
  <2>5. CASE TimePasses(d)
    <3>1. post'[d].status = post[d].status /\ post'[d].attempts = post[d].attempts
      BY <1>0, <2>5 DEF TimePasses, TypeOK, PostRow
    <3>2. Accounted(d)'
      BY <1>0, <2>5, <3>1 DEF TimePasses, Accounted
    <3> QED
      BY <2>1, <2>5, <3>2 DEF TimePasses, TypeOK
  <2> QED
    BY <1>2, <2>2, <2>3, <2>4, <2>5 DEF Scheduling
<1>3. ASSUME NEW d \in Drafts, Publishing(d) PROVE LogAccounting'
  <2>1. CASE SkipPublish(d)
    <3>1. /\ post' = post /\ logged' = logged
          /\ \A e \in Drafts : queue'[e] \in Nat /\ (queue'[e] > 0 => queue[e] > 0)
      BY <2>1, Delivered DEF SkipPublish, rows, TypeOK
    <3> QED
      BY <3>1 DEF LogAccounting, Accounted
  <2>2. ASSUME NEW acked \in BOOLEAN, PublishSucceeds(d, acked) PROVE LogAccounting'
    BY <1>0, <2>2, AttemptedRows, AttemptAccounted DEF PublishSucceeds
  <2>3. ASSUME NEW fatal \in BOOLEAN, NEW acked \in BOOLEAN, PublishFails(d, fatal, acked)
        PROVE  LogAccounting'
    <3>1. /\ AfterFailure(InFlight(post[d]), fatal).status \in {"SCHEDULED", "FAILED"}
          /\ AfterFailure(InFlight(post[d]), fatal).attempts = post[d].attempts + 1
      BY <1>0, AttemptedRows
    <3> QED
      BY <2>3, <3>1, AttemptAccounted DEF PublishFails
  <2> QED
    BY <1>3, <2>1, <2>2, <2>3 DEF Publishing
<1>4. CASE TickPublisher
  <2>1. \A d \in Drafts : queue'[d] \in Nat /\ (queue'[d] > 0 => queue[d] > 0 \/ IsDue(post[d]))
    BY <1>4 DEF TickPublisher, TypeOK
  <2>2. post' = post /\ logged' = logged
    BY <1>4 DEF TickPublisher, rows
  <2> QED
    BY <2>1, <2>2 DEF LogAccounting, Accounted, IsDue
<1>5. QED
  BY <1>1, <1>2, <1>3, <1>4
    DEF Next, Generation, InitiateGeneration, ExecuteGeneration, GenerationGivesUp,
        Review, SubmitForReview, Approve, Reject, EditContent,
        ConnectAccount, DisconnectAccount, CelebrateFirstPublish, rows, vars

\* Attempts and log lines agree in number and in outcome, however often the
\* message of a post is delivered and however many of them wait.
THEOREM LogAccountingHolds == Spec => []LogAccounting
<1>1. Init => LogAccounting
  BY DEF Init, LogAccounting, Accounted, NoPost
<1>2. QED
  BY <1>1, TypeCorrect, AccountStep, PTL DEF Spec

----------------------------------------------------------------------------
(***************************************************************************)
(* SnapshotSound                                                           *)
(***************************************************************************)
\* A new version is numbered above the ones that exist, and takes none of
\* their images away.
LEMMA InsertedVersion ==
  ASSUME TypeOK, SnapshotSound, NEW d \in Drafts, NEW image \in BOOLEAN,
         InsertVersion(d, image)
  PROVE  /\ versions'[d] = versions[d] + 1
         /\ illustrated[d] \subseteq illustrated'[d]
         /\ illustrated'[d] \subseteq 1 .. versions'[d]
         /\ \A e \in Drafts : e # d => /\ versions'[e] = versions[e]
                                       /\ illustrated'[e] = illustrated[e]
<1>1. versions[d] \in Nat /\ illustrated[d] \subseteq 1 .. versions[d]
  BY DEF TypeOK, SnapshotSound, Sound
<1>2. versions'[d] = versions[d] + 1
  BY DEF InsertVersion, TypeOK
<1>3. illustrated'[d] = IF image THEN illustrated[d] \cup {versions[d] + 1} ELSE illustrated[d]
  BY DEF InsertVersion, TypeOK
<1>4. \A e \in Drafts : e # d => versions'[e] = versions[e] /\ illustrated'[e] = illustrated[e]
  BY DEF InsertVersion, TypeOK
<1>5. illustrated'[d] \subseteq 1 .. versions'[d]
  BY <1>1, <1>2, <1>3
<1> QED
  BY <1>2, <1>3, <1>4, <1>5

\* A step that writes a version of d and points the draft to it.
LEMMA RewriteSound ==
  ASSUME TypeOK, SnapshotSound, NEW d \in Drafts, NEW image \in BOOLEAN,
         InsertVersion(d, image),
         NEW r, draft' = [draft EXCEPT ![d] = r], r.current = versions[d] + 1,
         post' = post, approved' = approved
  PROVE  SnapshotSound'
<1>1. \A e \in Drafts : Sound(e) /\ versions[e] \in Nat
  BY DEF SnapshotSound, TypeOK
<1>2. draft'[d] = r /\ \A e \in Drafts : e # d => draft'[e] = draft[e]
  BY DEF TypeOK
<1>3. Sound(d)'
  BY <1>1, <1>2, InsertedVersion DEF Sound
<1>4. \A e \in Drafts : e # d => Sound(e)'
  BY <1>1, <1>2, InsertedVersion DEF Sound
<1> QED
  BY <1>3, <1>4 DEF SnapshotSound

\* A step that writes no version, leaves the draft's pointer alone, approves
\* nothing but the current version and keeps the post's snapshot.
LEMMA SoundKept ==
  ASSUME TypeOK, SnapshotSound,
         versions' = versions, illustrated' = illustrated,
         \A d \in Drafts : /\ draft'[d].current = draft[d].current
                           /\ approved'[d] \subseteq approved[d] \cup {draft[d].current}
                           /\ \/ post'[d].status = "NONE"
                              \/ /\ draft[d].current \in illustrated[d]
                                 /\ post'[d].snapshot = draft[d].current
                              \/ /\ post[d].status # "NONE"
                                 /\ post'[d].snapshot = post[d].snapshot
  PROVE  SnapshotSound'
  BY DEF SnapshotSound, Sound, TypeOK

LEMMA SoundStep == TypeOK /\ SnapshotSound /\ [Next]_vars => SnapshotSound'
<1> SUFFICES ASSUME TypeOK, SnapshotSound, [Next]_vars PROVE SnapshotSound'
  OBVIOUS
<1>0. \A d \in Drafts : /\ draft[d] \in DraftRow
                        /\ draft[d].current \in Nat
                        /\ post[d] \in PostRow
                        /\ versions[d] + 1 \in Nat
  BY DEF TypeOK, DraftRow
<1>1. ASSUME versions' = versions, illustrated' = illustrated, draft' = draft,
             approved' = approved, post' = post
      PROVE  SnapshotSound'
  BY <1>1, SoundKept
<1>2. ASSUME NEW d \in Drafts, Generation(d) PROVE SnapshotSound'
  <2>1. CASE InitiateGeneration(d)
    <3>1. \A e \in Drafts : draft'[e].current = draft[e].current
      BY <1>0, <2>1, MovedRow DEF InitiateGeneration, TypeOK, ContentStatus, Moved, DraftRow
    <3> QED
      BY <2>1, <3>1, SoundKept DEF InitiateGeneration
  <2>2. ASSUME NEW image \in BOOLEAN, NEW acked \in BOOLEAN,
               ExecuteGeneration(d, image, acked)
        PROVE  SnapshotSound'
    <3>1. AfterGeneration(draft[d], versions[d] + 1).current = versions[d] + 1
      BY <1>0, RewrittenRow
    <3> QED
      BY <2>2, <3>1, RewriteSound DEF ExecuteGeneration
  <2> QED
    BY <1>1, <1>2, <2>1, <2>2 DEF Generation, GenerationGivesUp, rows
<1>3. ASSUME NEW d \in Drafts, Review(d) PROVE SnapshotSound'
  <2>1. ASSUME NEW s \in ContentStatus, draft' = [draft EXCEPT ![d] = Moved(@, s)],
               \A e \in Drafts : approved'[e] \subseteq approved[e] \cup {draft[e].current},
               versions' = versions, illustrated' = illustrated, post' = post
        PROVE  SnapshotSound'
    <3>1. \A e \in Drafts : draft'[e].current = draft[e].current
      BY <1>0, <2>1, MovedRow DEF TypeOK
    <3> QED
      BY <2>1, <3>1, SoundKept
  <2>2. CASE SubmitForReview(d)
    BY <2>1, <2>2 DEF SubmitForReview, ContentStatus
  <2>3. CASE Approve(d)
    <3>1. \A e \in Drafts : approved'[e] \subseteq approved[e] \cup {draft[e].current}
      BY <2>3 DEF Approve, TypeOK
    <3> QED
      BY <2>1, <2>3, <3>1 DEF Approve, ContentStatus
  <2>4. CASE Reject(d)
    BY <2>1, <2>4 DEF Reject, ContentStatus
  <2>5. ASSUME NEW newImage \in BOOLEAN, EditContent(d, newImage) PROVE SnapshotSound'
    <3>1. AfterEdit(draft[d], versions[d] + 1).current = versions[d] + 1
      BY <1>0, RewrittenRow
    <3>2. (newImage \/ draft[d].current \in illustrated[d]) \in BOOLEAN
      OBVIOUS
    <3> QED
      BY <2>5, <3>1, <3>2, RewriteSound DEF EditContent
  <2> QED
    BY <1>3, <2>2, <2>3, <2>4, <2>5 DEF Review
\* A step on one post that keeps its snapshot, and may move its draft.
<1>4. ASSUME NEW d \in Drafts, NEW p, NEW s \in ContentStatus,
             \/ draft' = draft
             \/ draft' = [draft EXCEPT ![d] = Moved(@, s)],
             post' = [post EXCEPT ![d] = p],
             \/ post[d].status # "NONE" /\ p.snapshot = post[d].snapshot
             \/ draft[d].current \in illustrated[d] /\ p.snapshot = draft[d].current,
             versions' = versions, illustrated' = illustrated, approved' = approved
      PROVE  SnapshotSound'
  <2>1. \A e \in Drafts : draft'[e].current = draft[e].current
    <3>1. CASE draft' = draft
      BY <3>1
    <3>2. CASE draft' = [draft EXCEPT ![d] = Moved(@, s)]
      BY <1>0, <3>2, MovedRow DEF TypeOK
    <3> QED
      BY <1>4, <3>1, <3>2
  <2>2. post'[d] = p /\ \A e \in Drafts : e # d => post'[e] = post[e]
    BY <1>4 DEF TypeOK
  <2>3. \A e \in Drafts :
          \/ post'[e].status = "NONE"
          \/ post'[e].snapshot = draft[e].current /\ draft[e].current \in illustrated[e]
          \/ post[e].status # "NONE" /\ post'[e].snapshot = post[e].snapshot
    BY <1>4, <2>2
  <2> QED
    BY <1>4, <2>1, <2>3, SoundKept
<1>5. ASSUME NEW d \in Drafts, Scheduling(d) PROVE SnapshotSound'
  <2>1. ASSUME NEW due \in BOOLEAN, SchedulePost(d, due) PROVE SnapshotSound'
    <3>1. ScheduledRow(draft[d].current, due).snapshot = draft[d].current
      BY <1>0, ScheduledRows
    <3> QED
      BY <1>4, <2>1, <3>1 DEF SchedulePost, MaySchedule, ContentStatus
  <2>2. CASE UnschedulePost(d)
    BY <1>0, <1>4, <2>2, UnscheduledRow DEF UnschedulePost, MayUnschedule, ContentStatus
  <2>3. ASSUME NEW due \in BOOLEAN, ReschedulePost(d, due) PROVE SnapshotSound'
    BY <1>0, <1>4, <2>3, RescheduledRow DEF ReschedulePost, MayReschedule, ContentStatus
  <2>4. CASE TimePasses(d)
    <3>1. PICK p : post' = [post EXCEPT ![d] = p] /\ p.snapshot = post[d].snapshot
      BY <1>0, <2>4 DEF TimePasses, PostRow
    <3> QED
      BY <1>4, <2>4, <3>1 DEF TimePasses, ContentStatus
  <2> QED
    BY <1>5, <2>1, <2>2, <2>3, <2>4 DEF Scheduling
<1>6. ASSUME NEW d \in Drafts, Publishing(d) PROVE SnapshotSound'
  <2>1. ASSUME NEW acked \in BOOLEAN, PublishSucceeds(d, acked) PROVE SnapshotSound'
    BY <1>0, <1>4, <2>1, AttemptedRows DEF PublishSucceeds, MayPublish, ContentStatus
  <2>2. ASSUME NEW fatal \in BOOLEAN, NEW acked \in BOOLEAN, PublishFails(d, fatal, acked)
        PROVE  SnapshotSound'
    BY <1>0, <1>4, <2>2, AttemptedRows DEF PublishFails, MayPublish, ContentStatus
  <2> QED
    BY <1>1, <1>6, <2>1, <2>2 DEF Publishing, SkipPublish, rows
<1>7. QED
  BY <1>1, <1>2, <1>3, <1>5, <1>6
    DEF Next, ConnectAccount, DisconnectAccount, TickPublisher, CelebrateFirstPublish, rows, vars

\* What a post publishes is a version of its draft that has an image.
THEOREM SnapshotSoundHolds == Spec => []SnapshotSound
<1>1. Init => SnapshotSound
  BY DEF Init, SnapshotSound, Sound, NoDraft, NoPost
<1>2. QED
  BY <1>1, TypeCorrect, SoundStep, PTL DEF Spec

----------------------------------------------------------------------------
(***************************************************************************)
(* PublishedIsFinal                                                        *)
(***************************************************************************)
\* No step moves a published post or its draft: the guards of the scheduler
\* and of the publisher exclude the post, and Coupling puts its draft in the
\* one status that every review handler refuses.
THEOREM PublishedIsFinalHolds == Spec => PublishedIsFinal
<1> DEFINE Final(d) == post[d].status = "PUBLISHED" =>
                         /\ post'[d].status = "PUBLISHED"
                         /\ post'[d].snapshot = post[d].snapshot
                         /\ post'[d].attempts = post[d].attempts
                         /\ draft'[d].status = "PUBLISHED"
<1>1. TypeOK /\ Coupling /\ [Next]_vars => [\A d \in Drafts : Final(d)]_vars
  <2> SUFFICES ASSUME TypeOK, Coupling, Next, NEW e \in Drafts,
                      post[e].status = "PUBLISHED"
               PROVE  /\ post'[e].status = "PUBLISHED"
                      /\ post'[e].snapshot = post[e].snapshot
                      /\ post'[e].attempts = post[e].attempts
                      /\ draft'[e].status = "PUBLISHED"
    OBVIOUS
  <2>0. /\ draft[e].status = "PUBLISHED"
        /\ draft[e] \in DraftRow
        /\ post[e] \in PostRow
        /\ versions[e] + 1 \in Nat
    BY DEF Coupling, Coupled, TypeOK
  <2>1. ASSUME NEW d \in Drafts, Generation(d)
        PROVE  post' = post /\ draft'[e].status = draft[e].status
    <3>1. CASE InitiateGeneration(d)
      BY <2>0, <3>1 DEF InitiateGeneration, TypeOK
    <3>2. ASSUME NEW image \in BOOLEAN, NEW acked \in BOOLEAN,
                 ExecuteGeneration(d, image, acked)
          PROVE  post' = post /\ draft'[e].status = draft[e].status
      <4>1. draft'[e] \in {draft[e], AfterGeneration(draft[e], versions[e] + 1)}
        BY <3>2 DEF ExecuteGeneration, TypeOK
      <4>2. draft'[e].status = draft[e].status
        BY <2>0, <4>1, RewrittenRow
      <4> QED
        BY <3>2, <4>2 DEF ExecuteGeneration
    <3> QED
      BY <2>1, <3>1, <3>2 DEF Generation, GenerationGivesUp, rows
  <2>2. ASSUME NEW d \in Drafts, Review(d)
        PROVE  post' = post /\ draft'[e].status = draft[e].status
    <3>1. CASE SubmitForReview(d) \/ Approve(d) \/ Reject(d)
      <4>1. d # e
        BY <2>0, <3>1 DEF SubmitForReview, Approve, Reject, MaySubmit, MayApprove, MayReject,
                          MayTransition, ALLOWED_TRANSITIONS, ContentStatus
      <4> QED
        BY <3>1, <4>1 DEF SubmitForReview, Approve, Reject, TypeOK
    <3>2. ASSUME NEW newImage \in BOOLEAN, EditContent(d, newImage)
          PROVE  post' = post /\ draft'[e].status = draft[e].status
      <4>1. draft'[e] \in {draft[e], AfterEdit(draft[e], versions[e] + 1)}
        BY <3>2 DEF EditContent, TypeOK
      <4> QED
        BY <2>0, <3>2, <4>1, RewrittenRow DEF EditContent
    <3> QED
      BY <2>2, <3>1, <3>2 DEF Review
  <2>3. ASSUME NEW d \in Drafts, Scheduling(d)
        PROVE  /\ post'[e].status = post[e].status
               /\ post'[e].snapshot = post[e].snapshot
               /\ post'[e].attempts = post[e].attempts
               /\ draft'[e] = draft[e]
    <3>1. CASE TimePasses(d)
      BY <2>0, <3>1 DEF TimePasses, TypeOK, PostRow
    <3>2. CASE ~TimePasses(d)
      <4>1. d # e
        BY <2>3, <3>2 DEF Scheduling, SchedulePost, UniqueDraft, UnschedulePost, MayUnschedule,
                          ReschedulePost, MayReschedule
      <4>2. ASSUME NEW p, NEW r, post' = [post EXCEPT ![d] = p], draft' = [draft EXCEPT ![d] = r]
            PROVE  post'[e] = post[e] /\ draft'[e] = draft[e]
        BY <4>1, <4>2 DEF TypeOK
      <4> QED
        BY <2>3, <3>2, <4>2 DEF Scheduling, SchedulePost, UnschedulePost, ReschedulePost
    <3> QED
      BY <3>1, <3>2
  <2>4. ASSUME NEW d \in Drafts, Publishing(d)
        PROVE  post'[e] = post[e] /\ draft'[e] = draft[e]
    <3>1. CASE SkipPublish(d)
      BY <3>1 DEF SkipPublish, rows
    <3>2. CASE ~SkipPublish(d)
      <4>1. d # e
        BY <2>4, <3>2 DEF Publishing, PublishSucceeds, PublishFails, MayPublish
      <4> QED
        BY <2>4, <3>2, <4>1 DEF Publishing, PublishSucceeds, PublishFails, TypeOK
    <3> QED
      BY <3>1, <3>2
  <2> QED
    BY <2>0, <2>1, <2>2, <2>3, <2>4
      DEF Next, ConnectAccount, DisconnectAccount, TickPublisher, CelebrateFirstPublish, rows
<1>2. QED
  BY <1>1, TypeCorrect, CouplingHolds, PTL DEF Spec, PublishedIsFinal

----------------------------------------------------------------------------
(***************************************************************************)
(* OffScheduleKept                                                         *)
(***************************************************************************)
\* A step of draft d leaves the post and the messages of draft e alone.
LEMMA OthersKept ==
  ASSUME TypeOK, NEW d \in Drafts, NEW e \in Drafts, d # e, Scheduling(d) \/ Publishing(d)
  PROVE  post'[e] = post[e] /\ queue'[e] = queue[e]
<1>1. ASSUME NEW p, post' = [post EXCEPT ![d] = p] PROVE post'[e] = post[e]
  BY <1>1 DEF TypeOK
<1>2. ASSUME NEW acked, Deliver(d, acked) PROVE queue'[e] = queue[e]
  BY <1>2 DEF Deliver, TypeOK
<1>3. CASE Scheduling(d)
  <2>1. queue' = queue
    BY <1>3 DEF Scheduling, SchedulePost, UnschedulePost, ReschedulePost, TimePasses
  <2>2. CASE TimePasses(d)
    BY <2>1, <2>2 DEF TimePasses, TypeOK
  <2>3. CASE ~TimePasses(d)
    BY <1>1, <1>3, <2>1, <2>3 DEF Scheduling, SchedulePost, UnschedulePost, ReschedulePost
  <2> QED
    BY <2>2, <2>3
<1>4. CASE Publishing(d)
  <2>1. CASE SkipPublish(d)
    BY <1>2, <2>1 DEF SkipPublish, rows
  <2>2. CASE ~SkipPublish(d)
    BY <1>1, <1>2, <1>4, <2>2 DEF Publishing, PublishSucceeds, PublishFails
  <2> QED
    BY <2>1, <2>2
<1> QED
  BY <1>3, <1>4

\* A delivery adds no message.
LEMMA DeliveredFewer ==
  ASSUME TypeOK, NEW d \in Drafts, NEW acked, Deliver(d, acked)
  PROVE  queue[d] > 0 /\ queue'[d] <= queue[d]
<1>1. queue[d] \in Nat /\ queue[d] > 0
  BY DEF Deliver, TypeOK
<1>2. queue'[d] = IF acked THEN queue[d] - 1 ELSE queue[d]
  BY DEF Deliver, TypeOK
<1> QED
  BY <1>1, <1>2

\* The tick sends messages for posts that are SCHEDULED only; the clock keeps the
\* status, the draft of a post that exists cannot be scheduled a second time, and
\* a retry is decided on the attempt that has just been counted.
THEOREM OffScheduleKeptHolds == Spec => OffScheduleKept
<1> DEFINE Kept(d) ==
      post[d].status \in {"FAILED", "UNSCHEDULED"} =>
        /\ queue'[d] <= queue[d]
        /\ Public(post'[d]) = Public(post[d]) \/ UserMoves(d) \/ LateAttempt(d)
<1>1. TypeOK /\ [Next]_vars => [\A d \in Drafts : Kept(d)]_vars
  <2> SUFFICES ASSUME TypeOK, Next, NEW e \in Drafts,
                      post[e].status \in {"FAILED", "UNSCHEDULED"}
               PROVE  /\ queue'[e] <= queue[e]
                      /\ Public(post'[e]) = Public(post[e]) \/ UserMoves(e) \/ LateAttempt(e)
    OBVIOUS
  <2>0. /\ post \in [Drafts -> PostRow] /\ draft \in [Drafts -> DraftRow]
        /\ post[e] \in PostRow /\ draft[e] \in DraftRow
        /\ logged \in [Drafts -> [ok : Nat, failed : Nat]]
        /\ queue \in [Drafts -> Nat] /\ queue[e] \in Nat
    BY DEF TypeOK
  <2>1. ASSUME NEW d \in Drafts, Generation(d) \/ Review(d)
        PROVE  post' = post /\ queue' = queue
    BY <2>1 DEF Generation, InitiateGeneration, ExecuteGeneration, GenerationGivesUp,
                Review, SubmitForReview, Approve, Reject, EditContent, rows
  <2>2. CASE TickPublisher
    <3>1. queue'[e] = IF IsDue(post[e]) /\ queue[e] < MaxQueued THEN queue[e] + 1 ELSE queue[e]
      BY <2>2 DEF TickPublisher
    <3> QED
      BY <2>0, <2>2, <3>1 DEF TickPublisher, rows, IsDue
  <2>3. CASE Scheduling(e)
    <3>1. queue' = queue
      BY <2>3 DEF Scheduling, SchedulePost, UnschedulePost, ReschedulePost, TimePasses
    <3>2. ASSUME NEW due \in BOOLEAN, SchedulePost(e, due) PROVE FALSE
      BY <3>2 DEF SchedulePost, UniqueDraft
    <3>3. CASE UnschedulePost(e)
      <4>1. /\ post'[e] = AfterUnschedule(post[e]) /\ draft'[e] = Moved(draft[e], "APPROVED")
            /\ logged' = logged
        BY <2>0, <3>3 DEF UnschedulePost
      <4> QED
        BY <2>0, <3>1, <4>1, UnscheduledRow, MovedRow DEF ContentStatus, UserMoves
    <3>4. ASSUME NEW due \in BOOLEAN, ReschedulePost(e, due) PROVE UserMoves(e)
      <4>1. /\ post'[e] = AfterReschedule(post[e], due)
            /\ draft'[e] = Moved(draft[e], "SCHEDULED")
            /\ post[e].status = "FAILED" /\ logged' = logged
        BY <2>0, <3>4 DEF ReschedulePost, MayReschedule
      <4> QED
        BY <2>0, <4>1, RescheduledRow, MovedRow DEF ContentStatus, UserMoves
    <3>5. CASE TimePasses(e)
      BY <2>0, <3>1, <3>5 DEF TimePasses, PostRow, Public
    <3> QED
      BY <2>0, <2>3, <3>1, <3>2, <3>3, <3>4, <3>5 DEF Scheduling
  <2>4. CASE Publishing(e)
    <3>1. CASE SkipPublish(e)
      BY <3>1, DeliveredFewer DEF SkipPublish, rows
    <3>2. ASSUME NEW acked \in BOOLEAN, PublishSucceeds(e, acked)
          PROVE  queue'[e] <= queue[e] /\ LateAttempt(e)
      <4>1. queue[e] > 0 /\ queue'[e] <= queue[e]
        BY <3>2, DeliveredFewer DEF PublishSucceeds
      <4>2. /\ post'[e] = AfterSuccess(InFlight(post[e]))
            /\ draft'[e] = Moved(draft[e], "PUBLISHED")
            /\ logged'[e] = [logged[e] EXCEPT !.ok = @ + 1]
        BY <2>0, <3>2 DEF PublishSucceeds
      <4> QED
        BY <2>0, <4>1, <4>2, AttemptedRows, MovedRow DEF ContentStatus, LateAttempt
    <3>3. ASSUME NEW fatal \in BOOLEAN, NEW acked \in BOOLEAN, PublishFails(e, fatal, acked)
          PROVE  queue'[e] <= queue[e] /\ LateAttempt(e)
      <4>1. queue[e] > 0 /\ queue'[e] <= queue[e]
        BY <3>3, DeliveredFewer DEF PublishFails
      <4>2. /\ post'[e] = AfterFailure(InFlight(post[e]), fatal)
            /\ draft'[e] = IF WillRetry(InFlight(post[e]), fatal) THEN draft[e]
                                                           ELSE Moved(draft[e], "FAILED")
            /\ logged'[e] = [logged[e] EXCEPT !.failed = @ + 1]
        BY <2>0, <3>3 DEF PublishFails
      <4>3. /\ post'[e].attempts = post[e].attempts + 1
            /\ post'[e].status = IF WillRetry(InFlight(post[e]), fatal) THEN "SCHEDULED"
                                                                 ELSE "FAILED"
        BY <2>0, <4>2, AttemptedRows
      <4>4. WillRetry(InFlight(post[e]), fatal) => post'[e].attempts < MaxRetries
        BY <2>0, <4>3, InFlightRow DEF WillRetry
      <4>5. Moved(draft[e], "FAILED").status = "FAILED"
        BY <2>0, MovedRow DEF ContentStatus
      <4> QED
        BY <4>1, <4>2, <4>3, <4>4, <4>5 DEF LateAttempt
    <3> QED
      BY <2>4, <3>1, <3>2, <3>3 DEF Publishing
  <2>5. ASSUME NEW d \in Drafts, d # e, Scheduling(d) \/ Publishing(d)
        PROVE  post'[e] = post[e] /\ queue'[e] = queue[e]
    BY <2>5, OthersKept
  <2>6. CASE ConnectAccount \/ DisconnectAccount \/ CelebrateFirstPublish
    BY <2>0, <2>6 DEF ConnectAccount, DisconnectAccount, CelebrateFirstPublish, rows
  <2> QED
    BY <2>0, <2>1, <2>2, <2>3, <2>4, <2>5, <2>6 DEF Next
<1>2. QED
  BY <1>1, TypeCorrect, PTL DEF Spec, OffScheduleKept

----------------------------------------------------------------------------
(***************************************************************************)
(* ApprovedContentKept                                                     *)
(***************************************************************************)
\* Only two steps move the pointer of a draft: an edit, which leaves no draft
\* APPROVED, and a generation, which finds no version written yet; SnapshotSound
\* says that a draft without versions points to none.
THEOREM ApprovedContentKeptHolds == Spec => ApprovedContentKept
<1> DEFINE Kept(d) ==
      draft[d].status = "APPROVED" /\ draft'[d].status = "APPROVED" /\ draft[d].current # 0
        => draft'[d].current = draft[d].current
<1>1. TypeOK /\ SnapshotSound /\ [Next]_vars => [\A d \in Drafts : Kept(d)]_vars
  <2> SUFFICES ASSUME TypeOK, SnapshotSound, Next, NEW e \in Drafts,
                      draft'[e].status = "APPROVED", draft[e].current # 0,
                      draft[e].status = "APPROVED"
               PROVE  draft'[e].current = draft[e].current
    OBVIOUS
  <2>0. /\ draft \in [Drafts -> DraftRow]
        /\ draft[e] \in DraftRow
        /\ versions[e] # 0
        /\ versions[e] + 1 \in Nat
    BY DEF TypeOK, SnapshotSound, Sound, DraftRow
  <2>1. ASSUME NEW d \in Drafts, NEW target \in ContentStatus,
               draft' = [draft EXCEPT ![d] = Moved(@, target)]
        PROVE  draft'[e].current = draft[e].current
    BY <2>0, <2>1 DEF Moved, DraftRow
  <2>2. ASSUME NEW d \in Drafts, Generation(d) PROVE draft'[e].current = draft[e].current
    <3>1. ASSUME NEW image \in BOOLEAN, NEW acked \in BOOLEAN,
                 ExecuteGeneration(d, image, acked)
          PROVE  draft'[e].current = draft[e].current
      <4>1. d # e
        BY <2>0, <3>1 DEF ExecuteGeneration
      <4> QED
        BY <2>0, <3>1, <4>1 DEF ExecuteGeneration
    <3> QED
      BY <2>1, <2>2, <3>1 DEF Generation, InitiateGeneration, GenerationGivesUp, ContentStatus, rows
  <2>3. ASSUME NEW d \in Drafts, Review(d) PROVE draft'[e].current = draft[e].current
    <3>1. ASSUME NEW newImage \in BOOLEAN, EditContent(d, newImage)
          PROVE  draft'[e].current = draft[e].current
      <4>1. d # e
        <5> SUFFICES ASSUME d = e PROVE FALSE
          OBVIOUS
        <5>1. draft'[e] = AfterEdit(draft[e], versions[e] + 1)
          BY <2>0, <3>1 DEF EditContent
        <5> QED
          BY <2>0, <5>1 DEF AfterEdit, DraftRow
      <4> QED
        BY <2>0, <3>1, <4>1 DEF EditContent
    <3> QED
      BY <2>1, <2>3, <3>1 DEF Review, SubmitForReview, Approve, Reject, ContentStatus
  <2>4. ASSUME NEW d \in Drafts, Scheduling(d) PROVE draft'[e].current = draft[e].current
    BY <2>1, <2>4 DEF Scheduling, SchedulePost, UnschedulePost, ReschedulePost, TimePasses,
                      ContentStatus
  <2>5. ASSUME NEW d \in Drafts, Publishing(d) PROVE draft'[e].current = draft[e].current
    <3>1. CASE SkipPublish(d)
      BY <3>1 DEF SkipPublish, rows
    <3>2. ASSUME NEW acked \in BOOLEAN, PublishSucceeds(d, acked)
          PROVE  draft'[e].current = draft[e].current
      BY <2>1, <3>2 DEF PublishSucceeds, ContentStatus
    <3>3. ASSUME NEW fatal \in BOOLEAN, NEW acked \in BOOLEAN, PublishFails(d, fatal, acked)
          PROVE  draft'[e].current = draft[e].current
      BY <2>1, <3>3 DEF PublishFails, ContentStatus
    <3> QED
      BY <2>5, <3>1, <3>2, <3>3 DEF Publishing
  <2> QED
    BY <2>2, <2>3, <2>4, <2>5
      DEF Next, ConnectAccount, DisconnectAccount, TickPublisher, CelebrateFirstPublish, rows
<1>2. QED
  BY <1>1, TypeCorrect, SnapshotSoundHolds, PTL DEF Spec, ApprovedContentKept

----------------------------------------------------------------------------
(***************************************************************************)
(* PublicationKept                                                         *)
(***************************************************************************)
Shown == [d \in Drafts |-> Public(post[d])]

\* Publication sees of a step on one post that the row of it changes.
LEMMA ShownStep ==
  ASSUME TypeOK, NEW d \in Drafts, NEW p, post' = [post EXCEPT ![d] = p]
  PROVE  /\ Shown' = [Shown EXCEPT ![d] = Public(p)]
         /\ Shown'[d] = Public(p)
<1>1. \A e \in Drafts : post'[e] = IF e = d THEN p ELSE post[e]
  BY DEF TypeOK
<1>2. \A e \in Drafts : Public(post[e])' = IF e = d THEN Public(p) ELSE Public(post[e])
  BY <1>1 DEF Public
<1>3. Shown' = [e \in Drafts |-> IF e = d THEN Public(p) ELSE Public(post[e])]
  BY <1>2 DEF Shown
<1> QED
  BY <1>3 DEF Shown

\* A step that changes no row of a post, or only its times, is no step of
\* Publication.
LEMMA TimesStutter ==
  ASSUME logged' = logged, \A d \in Drafts : Public(post[d])' = Public(post[d])
  PROVE  UNCHANGED Promise!vars
BY DEF Promise!vars

\* A reschedule and an unschedule are moves.
LEMMA MoveImplements ==
  ASSUME TypeOK, NEW d \in Drafts, NEW p,
         post' = [post EXCEPT ![d] = p], logged' = logged,
         post[d].status \notin {"NONE", "PUBLISHED"}, p.status \in {"SCHEDULED", "UNSCHEDULED"},
         p.snapshot = post[d].snapshot, p.attempts = post[d].attempts
  PROVE  [Promise!Next]_(Promise!vars)
<1>1. /\ Shown' = [Shown EXCEPT ![d] = Public(p)] /\ Shown'[d] = Public(p)
      /\ Shown[d] = Public(post[d])
  BY ShownStep DEF Shown
<1>2. Shown' = [Shown EXCEPT ![d].status = p.status]
  BY <1>1 DEF Public, Shown
<1>3. CASE p.status = post[d].status
  <2>1. Shown' = Shown
    BY <1>1, <1>3 DEF Public, Shown
  <2> QED
    BY <2>1 DEF Promise!vars, Shown
<1>4. CASE p.status # post[d].status
  <2>1. Shown'[d].status = p.status /\ Shown[d].status = post[d].status
    BY <1>1 DEF Public
  <2>2. Promise!Move(d)
    BY <1>2, <1>4, <2>1 DEF Promise!Move, Promise!Open, Shown
  <2> QED
    BY <2>2 DEF Promise!Next
<1> QED
  BY <1>3, <1>4

\* An attempt is one of Publication, with the entry of its outcome.
LEMMA AttemptImplements ==
  ASSUME TypeOK, LogAccounting, NEW d \in Drafts, NEW p,
         post' = [post EXCEPT ![d] = p], MayPublish(post[d]),
         p.snapshot = post[d].snapshot, p.attempts = post[d].attempts + 1,
         \/ p.status = "PUBLISHED" /\ logged' = [logged EXCEPT ![d].ok = @ + 1]
         \/ /\ p.status \in {"SCHEDULED", "FAILED"}
            /\ p.status = "SCHEDULED" => p.attempts < MaxRetries
            /\ logged' = [logged EXCEPT ![d].failed = @ + 1]
  PROVE  Promise!Next
<1>1. /\ Shown' = [Shown EXCEPT ![d] = Public(p)] /\ Shown[d] = Public(post[d])
  BY ShownStep DEF Shown
<1>2. Shown' = [Shown EXCEPT ![d].status = p.status, ![d].attempts = p.attempts]
  BY <1>1 DEF Public, Shown
<1>3. p.attempts \in 1 .. logged[d].ok + logged[d].failed + 1
  BY DEF LogAccounting, Accounted, TypeOK, PostRow
<1>4. Promise!Open(d)
  BY DEF Promise!Open, MayPublish, Public
<1>5. ASSUME NEW status, p.status = status, status = "SCHEDULED" => p.attempts < MaxRetries
      PROVE  Promise!Attempt(d, status)
  BY <1>2, <1>3, <1>4, <1>5 DEF Promise!Attempt, Promise!Entries, Shown
<1>6. Promise!Succeed(d) \/ Promise!Fail(d)
  BY <1>5 DEF Promise!Succeed, Promise!Fail
<1> QED
  BY <1>6 DEF Promise!Next

LEMMA PublicationStep ==
  ASSUME TypeOK, LogAccounting, SnapshotSound, [Next]_vars
  PROVE  [Promise!Next]_(Promise!vars)
<1>0. \A d \in Drafts : draft[d].current \in Nat /\ post[d] \in PostRow
  BY DEF TypeOK, DraftRow
<1>1. CASE post' = post /\ logged' = logged
  BY <1>1, TimesStutter
<1>2. ASSUME NEW d \in Drafts, NEW due \in BOOLEAN, SchedulePost(d, due) PROVE Promise!Next
  <2> DEFINE p == ScheduledRow(draft[d].current, due)
  <2>1. /\ post' = [post EXCEPT ![d] = p] /\ logged' = logged
        /\ draft[d].current # 0
    BY <1>0, <1>2 DEF SchedulePost, MaySchedule, SnapshotSound, Sound, TypeOK
  <2>2. Public(p) = [status |-> "SCHEDULED", content |-> draft[d].current, attempts |-> 0]
    BY <1>0, ScheduledRows DEF Public
  <2> HIDE DEF p
  <2>3. Shown' = [Shown EXCEPT ![d] = Public(p)] /\ Shown'[d] = Public(p)
    BY <2>1, ShownStep
  <2>4. Shown[d].status = "NONE"
    BY <1>2 DEF Shown, SchedulePost, UniqueDraft, Public
  <2>5. Shown'[d].content = draft[d].current
    BY <2>2, <2>3
  <2>6. Promise!Schedule(d)
    BY <2>1, <2>2, <2>3, <2>4, <2>5 DEF Promise!Schedule, Shown
  <2> QED
    BY <2>6 DEF Promise!Next
<1>3. ASSUME NEW d \in Drafts, UnschedulePost(d) PROVE [Promise!Next]_(Promise!vars)
  BY <1>0, <1>3, UnscheduledRow, MoveImplements DEF UnschedulePost, MayUnschedule
<1>4. ASSUME NEW d \in Drafts, NEW due \in BOOLEAN, ReschedulePost(d, due)
      PROVE  [Promise!Next]_(Promise!vars)
  BY <1>0, <1>4, RescheduledRow, MoveImplements DEF ReschedulePost, MayReschedule
<1>5. ASSUME NEW d \in Drafts, TimePasses(d) PROVE [Promise!Next]_(Promise!vars)
  <2>1. \A e \in Drafts : /\ post'[e].status = post[e].status
                          /\ post'[e].snapshot = post[e].snapshot
                          /\ post'[e].attempts = post[e].attempts
    <3>1. \A e \in Drafts : e # d => post'[e] = post[e]
      BY <1>5 DEF TimePasses, TypeOK
    <3>2. /\ post'[d].status = post[d].status
          /\ post'[d].snapshot = post[d].snapshot
          /\ post'[d].attempts = post[d].attempts
      BY <1>0, <1>5 DEF TimePasses, TypeOK, PostRow
    <3> QED
      BY <3>1, <3>2
  <2>2. \A e \in Drafts : Public(post[e])' = Public(post[e])
    BY <2>1 DEF Public
  <2> QED
    BY <1>5, <2>2, TimesStutter DEF TimePasses
<1>6. ASSUME NEW d \in Drafts, NEW acked \in BOOLEAN, PublishSucceeds(d, acked)
      PROVE  Promise!Next
  BY <1>0, <1>6, AttemptedRows, AttemptImplements DEF PublishSucceeds
<1>7. ASSUME NEW d \in Drafts, NEW fatal \in BOOLEAN, NEW acked \in BOOLEAN,
             PublishFails(d, fatal, acked)
      PROVE  Promise!Next
  <2> DEFINE p == AfterFailure(InFlight(post[d]), fatal)
  <2>1. /\ p.status = IF WillRetry(InFlight(post[d]), fatal) THEN "SCHEDULED" ELSE "FAILED"
        /\ p.snapshot = post[d].snapshot /\ p.attempts = post[d].attempts + 1
        /\ InFlight(post[d]).attempts = post[d].attempts + 1
    BY <1>0, AttemptedRows, InFlightRow
  <2>2. p.status = "SCHEDULED" => p.attempts < MaxRetries
    BY <2>1 DEF WillRetry
  <2>3. /\ post' = [post EXCEPT ![d] = p] /\ MayPublish(post[d])
        /\ logged' = [logged EXCEPT ![d].failed = @ + 1]
    BY <1>7 DEF PublishFails
  <2> HIDE DEF p
  <2> QED
    BY <2>1, <2>2, <2>3, AttemptImplements
<1> QED
  BY <1>1, <1>2, <1>3, <1>4, <1>5, <1>6, <1>7
    DEF Next, Generation, InitiateGeneration, ExecuteGeneration, GenerationGivesUp,
        Review, SubmitForReview, Approve, Reject, EditContent, Scheduling, Publishing,
        SkipPublish, ConnectAccount, DisconnectAccount, TickPublisher,
        CelebrateFirstPublish, rows, vars

\* The lifecycle implements the promise of Publication, for every set of drafts.
THEOREM PublicationKeptHolds == Spec => PublicationKept
<1>1. Init => Promise!Init
  BY DEF Init, Promise!Init, Public, NoPost
<1>2. TypeOK /\ LogAccounting /\ SnapshotSound /\ [Next]_vars => [Promise!Next]_(Promise!vars)
  BY PublicationStep
<1> QED
  BY <1>1, <1>2, TypeCorrect, LogAccountingHolds, SnapshotSoundHolds, PTL
    DEF Spec, PublicationKept, Promise!Spec
=============================================================================
