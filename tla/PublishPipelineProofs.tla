----------------------- MODULE PublishPipelineProofs -----------------------
(***************************************************************************)
(* Proofs about PublishPipeline, for any number of workers and sessions    *)
(* and every bound.                                                        *)
(***************************************************************************)
EXTENDS PublishPipeline, TLAPS

----------------------------------------------------------------------------
(***************************************************************************)
(* The row that a session or an attempt means to write                     *)
(***************************************************************************)
\* The row of a draft after a review, a scheduling or a publish handler.
LEMMA MovedRow ==
  ASSUME NEW r \in DraftRow, NEW s \in ContentStatus
  PROVE  /\ Moved(r, s) \in DraftRow
         /\ Moved(r, s).status = s
         /\ Moved(r, s).current = r.current
  BY DEF Moved, DraftRow

\* The row of a draft after an edit that wrote version v.
LEMMA RewrittenRow ==
  ASSUME NEW r \in DraftRow, NEW v \in Nat
  PROVE  /\ AfterEdit(r, v) \in DraftRow
         /\ AfterEdit(r, v).current = v
         /\ AfterEdit(r, v).status \in {r.status, "PENDING"}
  BY DEF AfterEdit, DraftRow, ContentStatus

\* The row of a post after each of the scheduler's handlers.
LEMMA ScheduledRows ==
  ASSUME NEW v \in Nat, NEW due \in BOOLEAN
  PROVE  /\ ScheduledRow(v, due) \in PostRow
         /\ ScheduledRow(v, due).status = "SCHEDULED"
         /\ ScheduledRow(v, due).snapshot = v
         /\ ScheduledRow(v, due).attempts = 0
  BY DEF ScheduledRow, PostRow, PublishStatus

LEMMA UnscheduledRow ==
  ASSUME NEW p \in PostRow
  PROVE  /\ AfterUnschedule(p) \in PostRow
         /\ AfterUnschedule(p).status = "UNSCHEDULED"
         /\ AfterUnschedule(p).snapshot = p.snapshot
         /\ AfterUnschedule(p).attempts = p.attempts
  BY DEF AfterUnschedule, PostRow, PublishStatus

LEMMA RescheduledRow ==
  ASSUME NEW p \in PostRow, NEW due \in BOOLEAN
  PROVE  /\ AfterReschedule(p, due) \in PostRow
         /\ AfterReschedule(p, due).status = "SCHEDULED"
         /\ AfterReschedule(p, due).snapshot = p.snapshot
         /\ AfterReschedule(p, due).attempts = p.attempts
  BY DEF AfterReschedule, PostRow, PublishStatus

\* The row that an attempt flushes before it calls Instagram.
LEMMA InFlightRow ==
  ASSUME NEW p \in PostRow
  PROVE  /\ InFlight(p) \in PostRow
         /\ InFlight(p).status = "PUBLISHING"
         /\ InFlight(p).snapshot = p.snapshot
         /\ InFlight(p).attempts = p.attempts + 1
<1> DEFINE n == p.attempts + 1
<1>1. n \in Nat /\ InFlight(p) = [p EXCEPT !.status = "PUBLISHING", !.attempts = n]
  BY DEF InFlight, PostRow
<1> HIDE DEF n
<1>2. /\ InFlight(p) \in PostRow
      /\ InFlight(p).status = "PUBLISHING"
      /\ InFlight(p).snapshot = p.snapshot
      /\ InFlight(p).attempts = n
  BY <1>1 DEF PostRow, PublishStatus
<1> QED
  BY <1>2 DEF n

\* The row of a post after a publish attempt: one more attempt, the snapshot
\* untouched, and a status that depends on the outcome.
LEMMA AttemptedRows ==
  ASSUME NEW p \in PostRow, NEW fatal \in BOOLEAN
  PROVE  /\ AfterSuccess(InFlight(p)) \in PostRow
         /\ AfterSuccess(InFlight(p)).status = "PUBLISHED"
         /\ AfterSuccess(InFlight(p)).snapshot = p.snapshot
         /\ AfterSuccess(InFlight(p)).attempts = p.attempts + 1
         /\ AfterFailure(InFlight(p), fatal) \in PostRow
         /\ AfterFailure(InFlight(p), fatal).status =
              IF WillRetry(InFlight(p), fatal) THEN "SCHEDULED" ELSE "FAILED"
         /\ AfterFailure(InFlight(p), fatal).snapshot = p.snapshot
         /\ AfterFailure(InFlight(p), fatal).attempts = p.attempts + 1
<1>1. ASSUME NEW q \in PostRow
      PROVE  /\ AfterSuccess(q) \in PostRow
             /\ AfterSuccess(q).status = "PUBLISHED"
             /\ AfterSuccess(q).snapshot = q.snapshot
             /\ AfterSuccess(q).attempts = q.attempts
  BY DEF AfterSuccess, PostRow, PublishStatus
<1>2. ASSUME NEW q \in PostRow
      PROVE  /\ AfterFailure(q, fatal) \in PostRow
             /\ AfterFailure(q, fatal).status =
                  IF WillRetry(q, fatal) THEN "SCHEDULED" ELSE "FAILED"
             /\ AfterFailure(q, fatal).snapshot = q.snapshot
             /\ AfterFailure(q, fatal).attempts = q.attempts
  <2>1. CASE WillRetry(q, fatal)
    BY <2>1 DEF AfterFailure, PostRow, PublishStatus
  <2>2. CASE ~WillRetry(q, fatal)
    BY <2>2 DEF AfterFailure, PostRow, PublishStatus
  <2>3. QED
    BY <2>1, <2>2
<1>3. QED
  BY <1>1, <1>2, InFlightRow

----------------------------------------------------------------------------
(***************************************************************************)
(* What a flush makes of a row                                             *)
(***************************************************************************)
\* Each column of the merged row is the new one or the committed one.
LEMMA MergedDraft ==
  ASSUME NEW row \in DraftRow, NEW read \in DraftRow, NEW new \in DraftRow
  PROVE  /\ Merge(row, read, new) \in DraftRow
         /\ Merge(row, read, new).status =
              IF new.status = read.status THEN row.status ELSE new.status
         /\ Merge(row, read, new).current =
              IF new.current = read.current THEN row.current ELSE new.current
  BY DEF Merge, DraftRow

LEMMA MergedPost ==
  ASSUME NEW row \in PostRow, NEW read \in PostRow, NEW new \in PostRow
  PROVE  /\ Merge(row, read, new) \in PostRow
         /\ Merge(row, read, new).status =
              IF new.status = read.status THEN row.status ELSE new.status
         /\ Merge(row, read, new).snapshot =
              IF new.snapshot = read.snapshot THEN row.snapshot ELSE new.snapshot
         /\ Merge(row, read, new).attempts =
              IF new.attempts = read.attempts THEN row.attempts ELSE new.attempts
  BY DEF Merge, PostRow

\* The post after an attempt: the status its outcome gives it, and one more
\* attempt than the worker had read.
LEMMA AttemptedPost ==
  ASSUME TypeOK, NEW w \in Workers, NEW final \in PostRow,
         final.status # "PUBLISHING", final.attempts = worker[w].read.attempts + 1,
         final.snapshot = worker[w].read.snapshot
  PROVE  /\ Attempted(w, final) \in PostRow
         /\ Attempted(w, final).status = final.status
         /\ Attempted(w, final).snapshot = post.snapshot
         /\ Attempted(w, final).attempts = worker[w].read.attempts + 1
<1> DEFINE read == worker[w].read
           flushed == Merge(post, read, InFlight(read))
<1>1. read \in PostRow /\ post \in PostRow /\ read.attempts \in Nat
  BY DEF TypeOK, Attempt, PostRow
<1>2. /\ InFlight(read) \in PostRow
      /\ InFlight(read).status = "PUBLISHING"
      /\ InFlight(read).snapshot = read.snapshot
      /\ InFlight(read).attempts = read.attempts + 1
  BY <1>1, InFlightRow
<1>3. /\ flushed \in PostRow
      /\ flushed.snapshot = post.snapshot
      /\ flushed.attempts = read.attempts + 1
  BY <1>1, <1>2, MergedPost
<1>4. Attempted(w, final) = Merge(flushed, InFlight(read), final)
  BY DEF Attempted
<1> HIDE DEF read, flushed
<1>5. /\ Attempted(w, final) \in PostRow
      /\ Attempted(w, final).status = final.status
      /\ Attempted(w, final).snapshot = post.snapshot
      /\ Attempted(w, final).attempts = read.attempts + 1
  BY <1>2, <1>3, <1>4, MergedPost DEF read
<1> QED
  BY <1>5 DEF read

\* The draft after a session that moves its status: the target of the session,
\* unless the session had read that status already.
LEMMA MovedDraftRow ==
  ASSUME TypeOK, NEW u \in Sessions, session[u].op \in Ops \ {"edit"}
  PROVE  /\ Target[session[u].op] \in ContentStatus
         /\ MovedDraft(u) \in DraftRow
         /\ MovedDraft(u).status \in {draft.status, Target[session[u].op]}
         /\ MovedDraft(u).current = draft.current
<1> DEFINE read == session[u].draft
           s == Target[session[u].op]
<1>1. draft \in DraftRow /\ read \in DraftRow
  BY DEF TypeOK, Request
<1>2. s \in ContentStatus
  BY DEF Target, Ops, Reviews, Moves, ContentStatus
<1>3. MovedDraft(u) = Merge(draft, read, Moved(read, s))
  BY DEF MovedDraft
<1> HIDE DEF read, s
<1>4. /\ Moved(read, s) \in DraftRow
      /\ Moved(read, s).status = s
      /\ Moved(read, s).current = read.current
  BY <1>1, <1>2, MovedRow
<1>5. /\ MovedDraft(u) \in DraftRow
      /\ MovedDraft(u).status \in {draft.status, s}
      /\ MovedDraft(u).current = draft.current
  BY <1>1, <1>3, <1>4, MergedDraft
<1> QED
  BY <1>2, <1>5 DEF s

\* The post after a session that moves it.
LEMMA MovedPostRow ==
  ASSUME TypeOK, NEW u \in Sessions
  PROVE  /\ MovedPost(u) \in PostRow
         /\ MovedPost(u).status \in {post.status, "UNSCHEDULED", "SCHEDULED"}
         /\ MovedPost(u).attempts = post.attempts
         /\ MovedPost(u).snapshot = post.snapshot
<1> DEFINE read == session[u].post
           due == session[u].due
<1>1. post \in PostRow /\ read \in PostRow /\ due \in BOOLEAN
  BY DEF TypeOK, Request
<1>2. MovedPost(u) = IF session[u].op = "unschedule"
                       THEN Merge(post, read, AfterUnschedule(read))
                       ELSE [Merge(post, read, AfterReschedule(read, due)) EXCEPT !.due = due]
  BY DEF MovedPost
<1> HIDE DEF read, due
<1>3. CASE session[u].op = "unschedule"
  BY <1>1, <1>2, <1>3, UnscheduledRow, MergedPost
<1>4. CASE session[u].op # "unschedule"
  <2> DEFINE m == Merge(post, read, AfterReschedule(read, due))
  <2>1. /\ m \in PostRow /\ m.status \in {post.status, "SCHEDULED"}
        /\ m.attempts = post.attempts /\ m.snapshot = post.snapshot
    BY <1>1, RescheduledRow, MergedPost
  <2>2. MovedPost(u) = [m EXCEPT !.due = due]
    BY <1>2, <1>4
  <2> HIDE DEF m
  <2> QED
    BY <1>1, <2>1, <2>2 DEF PostRow
<1> QED
  BY <1>3, <1>4

\* The draft that a worker leaves: PUBLISHED, FAILED or as it was.
LEMMA FinalDraftRow ==
  ASSUME TypeOK, NEW w \in Workers
  PROVE  /\ Merge(draft, worker[w].seen, FinalDraft(w)) \in DraftRow
         /\ Merge(draft, worker[w].seen, FinalDraft(w)).current = draft.current
         /\ Merge(draft, worker[w].seen, FinalDraft(w)).status \in
              {draft.status, IF worker[w].pc = "answered" THEN "PUBLISHED" ELSE "FAILED"}
<1> DEFINE seen == worker[w].seen
           s == IF worker[w].pc = "answered" THEN "PUBLISHED" ELSE "FAILED"
<1>1. draft \in DraftRow /\ seen \in DraftRow /\ s \in ContentStatus
  BY DEF TypeOK, Attempt, ContentStatus
<1>2. FinalDraft(w) \in {seen, Moved(seen, s)}
  BY DEF FinalDraft
<1> HIDE DEF seen, s
<1>3. /\ Moved(seen, s) \in DraftRow
      /\ Moved(seen, s).status = s
      /\ Moved(seen, s).current = seen.current
  BY <1>1, MovedRow
<1>4. /\ Merge(draft, seen, FinalDraft(w)) \in DraftRow
      /\ Merge(draft, seen, FinalDraft(w)).current = draft.current
      /\ Merge(draft, seen, FinalDraft(w)).status \in {draft.status, s}
  BY <1>1, <1>2, <1>3, MergedDraft
<1> QED
  BY <1>4 DEF seen, s

----------------------------------------------------------------------------
(***************************************************************************)
(* Type correctness                                                        *)
(***************************************************************************)
\* What is read, and the idle states, are of their types.
LEMMA ReadRows ==
  /\ NoDraft \in DraftRow
  /\ NoPost \in PostRow
  /\ IdleWorker \in Attempt
  /\ IdleSession \in Request
  /\ \A p \in PostRow : /\ Columns(p) \in PostRow
                        /\ Columns(p).status = p.status
                        /\ Columns(p).attempts = p.attempts
<1>1. NoDraft \in DraftRow /\ NoPost \in PostRow
  BY DEF NoDraft, NoPost, DraftRow, PostRow
<1>2. IdleWorker \in Attempt
  BY <1>1 DEF IdleWorker, Attempt
<1>3. IdleSession \in Request
  BY <1>1 DEF IdleSession, Request, Ops, Reviews
<1>4. \A p \in PostRow : /\ Columns(p) \in PostRow
                         /\ Columns(p).status = p.status
                         /\ Columns(p).attempts = p.attempts
  BY DEF Columns, PostRow
<1> QED
  BY <1>1, <1>2, <1>3, <1>4

\* A try that has raised leaves the worker calling, or failed.
LEMMA RaisedWorker ==
  ASSUME TypeOK, NEW w \in Workers, NEW fatal \in BOOLEAN, Raised(w, fatal)
  PROVE  /\ worker' \in [Workers -> Attempt]
         /\ worker'[w].read = worker[w].read
         /\ worker'[w].pc \in {worker[w].pc, "failed"}
         /\ \/ /\ worker'[w].pc = worker[w].pc
               /\ worker'[w].tries = worker[w].tries + 1 /\ worker'[w].tries < MaxRetries
            \/ worker'[w].pc = "failed" /\ worker'[w].tries = worker[w].tries
         /\ \A v \in Workers : v # w => worker'[v] = worker[v]
<1> DEFINE n == worker[w].tries + 1
<1>1. worker[w] \in Attempt /\ draft \in DraftRow /\ n \in Nat
  BY DEF TypeOK, Attempt
<1>2. \/ worker' = [worker EXCEPT ![w] = [worker[w] EXCEPT !.tries = n]] /\ n < MaxRetries
      \/ worker' = [worker EXCEPT ![w] =
                      [worker[w] EXCEPT !.pc = "failed", !.fatal = fatal, !.seen = draft]]
  BY DEF Raised, TypeOK
<1> HIDE DEF n
<1>3. /\ [worker[w] EXCEPT !.tries = n] \in Attempt
      /\ [worker[w] EXCEPT !.pc = "failed", !.fatal = fatal, !.seen = draft] \in Attempt
  BY <1>1 DEF Attempt
<1>4. PICK a \in Attempt : /\ worker' = [worker EXCEPT ![w] = a]
                           /\ a.read = worker[w].read
                           /\ \/ a.pc = worker[w].pc /\ a.tries = n /\ n < MaxRetries
                              \/ a.pc = "failed" /\ a.tries = worker[w].tries
  BY <1>1, <1>2, <1>3 DEF Attempt
<1> QED
  BY <1>4 DEF TypeOK, n

\* A call that has succeeded leaves the worker with the new medium.
LEMMA AnsweredWorker ==
  ASSUME TypeOK, NEW w \in Workers, CallSucceeds(w)
  PROVE  /\ worker' \in [Workers -> Attempt]
         /\ worker'[w].read = worker[w].read
         /\ worker'[w].pc = "answered"
         /\ worker'[w].media = live + 1
         /\ worker'[w].tries = worker[w].tries
         /\ \A v \in Workers : v # w => worker'[v] = worker[v]
<1> DEFINE n == live + 1
           a == [worker[w] EXCEPT !.pc = "answered", !.media = n, !.seen = draft]
<1>1. worker[w] \in Attempt /\ draft \in DraftRow /\ n \in Nat
  BY DEF TypeOK
<1>2. worker' = [worker EXCEPT ![w] = a]
  BY DEF CallSucceeds, TypeOK
<1> HIDE DEF n
<1>3. /\ a \in Attempt /\ a.read = worker[w].read /\ a.pc = "answered" /\ a.media = n
      /\ a.tries = worker[w].tries
  BY <1>1 DEF Attempt
<1> HIDE DEF a
<1>4. /\ worker' \in [Workers -> Attempt]
      /\ worker'[w] = a
      /\ \A v \in Workers : v # w => worker'[v] = worker[v]
  BY <1>2, <1>3 DEF TypeOK
<1> QED
  BY <1>3, <1>4 DEF n

\* A message taken leaves the worker idle, or with the post it has loaded.
LEMMA LoadedWorker ==
  ASSUME TypeOK, NEW w \in Workers, Load(w)
  PROVE  /\ worker' \in [Workers -> Attempt]
         /\ \/ worker'[w] = worker[w]
            \/ /\ post.status # "NONE"
               /\ worker'[w].pc = "loaded"
               /\ worker'[w].read = Columns(post)
         /\ worker'[w].tries = worker[w].tries
         /\ \A v \in Workers : v # w => worker'[v] = worker[v]
<1> DEFINE a == [worker[w] EXCEPT !.pc = "loaded", !.read = Columns(post)]
<1>1. worker[w] \in Attempt /\ Columns(post) \in PostRow
  BY ReadRows DEF TypeOK
<1>2. /\ a \in Attempt /\ a.pc = "loaded" /\ a.read = Columns(post)
      /\ a.tries = worker[w].tries
  BY <1>1 DEF Attempt
<1>3. worker' = [worker EXCEPT ![w] = IF MayPublish(post) THEN a ELSE worker[w]]
  BY DEF Load
<1> HIDE DEF a
<1>4. \A v \in Workers : v # w => worker'[v] = worker[v]
  BY <1>3 DEF TypeOK
<1>5. CASE MayPublish(post)
  BY <1>2, <1>3, <1>4, <1>5 DEF TypeOK, MayPublish
<1>6. CASE ~MayPublish(post)
  BY <1>3, <1>4, <1>6 DEF TypeOK
<1> QED
  BY <1>5, <1>6

\* A flush changes the step a worker is at.
LEMMA FlushedWorker ==
  ASSUME TypeOK, NEW w \in Workers, Flush(w)
  PROVE  /\ worker' \in [Workers -> Attempt]
         /\ worker'[w].read = worker[w].read
         /\ worker'[w].pc = "calling"
         /\ worker'[w].tries = worker[w].tries
         /\ \A v \in Workers : v # w => worker'[v] = worker[v]
<1> DEFINE a == [worker[w] EXCEPT !.pc = "calling"]
<1>1. /\ a \in Attempt /\ a.read = worker[w].read /\ a.pc = "calling"
      /\ a.tries = worker[w].tries
  BY DEF TypeOK, Attempt
<1>2. worker' = [worker EXCEPT ![w] = a]
  BY DEF Flush, TypeOK
<1> HIDE DEF a
<1> QED
  BY <1>1, <1>2 DEF TypeOK

\* A session is opened on rows it has read, moved to holding, or closed.
LEMMA SessionRow ==
  ASSUME TypeOK, NEW u \in Sessions
  PROVE  /\ \A op \in Ops, due \in BOOLEAN : Begin(u, op, due)
              => /\ session' \in [Sessions -> Request]
                 /\ session'[u].draft = draft
                 /\ session'[u].op \in Moves => post.status # "NONE"
                 /\ session'[u].op = "schedule" => draft.current # 0
                 /\ \A v \in Sessions : v # u => session'[v] = session[v]
         /\ FlushDraft(u)
              => /\ session' \in [Sessions -> Request]
                 /\ session'[u].op = session[u].op
                 /\ session'[u].draft = session[u].draft
                 /\ session[u].pc = "open"
                 /\ \A v \in Sessions : v # u => session'[v] = session[v]
         /\ Close(u)
              => /\ session' \in [Sessions -> Request]
                 /\ session'[u] = IdleSession
                 /\ \A v \in Sessions : v # u => session'[v] = session[v]
<1>1. ASSUME NEW op \in Ops, NEW due \in BOOLEAN, Begin(u, op, due)
      PROVE  /\ session' \in [Sessions -> Request]
             /\ session'[u].draft = draft
             /\ session'[u].op \in Moves => post.status # "NONE"
             /\ session'[u].op = "schedule" => draft.current # 0
             /\ \A v \in Sessions : v # u => session'[v] = session[v]
  <2> DEFINE p == IF op \in Moves THEN Columns(post) ELSE NoPost
             r == [pc |-> "open", op |-> op, draft |-> draft, post |-> p,
                   count |-> versions, due |-> due]
  <2>1. p \in PostRow /\ draft \in DraftRow /\ versions \in Nat
    BY ReadRows DEF TypeOK
  <2>2. session' = [session EXCEPT ![u] = r] /\ May(op)
    BY <1>1 DEF Begin
  <2>3. op \in Moves => post.status # "NONE"
    BY <2>2 DEF Moves, May, MayUnschedule, MayReschedule
  <2>4. op = "schedule" => draft.current # 0
    BY <2>1, <2>2 DEF May, MaySchedule
  <2> HIDE DEF p
  <2>5. r \in Request /\ r.draft = draft /\ r.op = op
    BY <2>1 DEF Request
  <2> HIDE DEF r
  <2> QED
    BY <2>2, <2>3, <2>4, <2>5 DEF TypeOK
<1>2. ASSUME FlushDraft(u)
      PROVE  /\ session' \in [Sessions -> Request]
             /\ session'[u].op = session[u].op
             /\ session'[u].draft = session[u].draft
             /\ session[u].pc = "open"
             /\ \A v \in Sessions : v # u => session'[v] = session[v]
  <2> DEFINE r == [session[u] EXCEPT !.pc = "holding"]
  <2>1. r \in Request /\ r.op = session[u].op /\ r.draft = session[u].draft
    BY DEF TypeOK, Request
  <2>2. session' = [session EXCEPT ![u] = r] /\ session[u].pc = "open"
    BY <1>2 DEF FlushDraft, TypeOK
  <2> HIDE DEF r
  <2> QED
    BY <2>1, <2>2 DEF TypeOK
<1>3. ASSUME Close(u)
      PROVE  /\ session' \in [Sessions -> Request]
             /\ session'[u] = IdleSession
             /\ \A v \in Sessions : v # u => session'[v] = session[v]
  BY <1>3, ReadRows DEF Close, TypeOK
<1> QED
  BY <1>1, <1>2, <1>3

\* Type correctness: whatever overlaps, every variable keeps its type.
THEOREM TypeCorrect == Spec => []TypeOK
<1>1. Init => TypeOK
  BY ReadRows DEF Init, TypeOK, DraftRow, ContentStatus
<1>2. TypeOK /\ [Next]_vars => TypeOK'
  <2> SUFFICES ASSUME TypeOK, [Next]_vars PROVE TypeOK'
    OBVIOUS
  <2> USE DEF db
  <2>1. ASSUME NEW u \in Sessions, NEW op \in Ops, NEW due \in BOOLEAN, Begin(u, op, due)
        PROVE  TypeOK'
    <3>1. session' \in [Sessions -> Request]
      BY <2>1, SessionRow
    <3> QED
      BY <2>1, <3>1 DEF TypeOK, Begin
  <2>2. ASSUME NEW u \in Sessions, FlushDraft(u) PROVE TypeOK'
    BY <2>2, SessionRow DEF TypeOK, FlushDraft
  <2>3. ASSUME NEW u \in Sessions, RollBack(u) \/ AbortSession(u) PROVE TypeOK'
    BY <2>3, SessionRow DEF TypeOK, RollBack, AbortSession
  <2>4. ASSUME NEW u \in Sessions, CommitReview(u) PROVE TypeOK'
    <3>1. session[u].op \in Ops \ {"edit"} /\ session[u].draft.current \in Nat
      BY <2>4 DEF CommitReview, Ops, Reviews, TypeOK, Request, DraftRow
    <3>2. approved' \in SUBSET Nat
      BY <2>4, <3>1 DEF CommitReview, TypeOK
    <3>3. draft' \in DraftRow
      BY <2>4, <3>1, MovedDraftRow DEF CommitReview
    <3> QED
      BY <2>4, <3>2, <3>3, SessionRow DEF TypeOK, CommitReview
  <2>5. ASSUME NEW u \in Sessions, CommitEdit(u) PROVE TypeOK'
    <3>1. draft \in DraftRow /\ session[u].draft \in DraftRow /\ versions + 1 \in Nat
      BY DEF TypeOK, Request
    <3>2. AfterEdit(session[u].draft, versions + 1) \in DraftRow
      BY <3>1, RewrittenRow
    <3>3. draft' \in DraftRow
      BY <2>5, <3>1, <3>2, MergedDraft DEF CommitEdit
    <3> QED
      BY <2>5, <3>1, <3>3, SessionRow DEF TypeOK, CommitEdit
  <2>6. ASSUME NEW u \in Sessions, CommitSchedule(u) PROVE TypeOK'
    <3>1. session[u].op \in Ops \ {"edit"}
      BY <2>6 DEF CommitSchedule, Ops
    <3>2. session[u].draft.current \in Nat /\ session[u].due \in BOOLEAN
      BY DEF TypeOK, Request, DraftRow
    <3>3. post' \in PostRow
      BY <2>6, <3>2, ScheduledRows DEF CommitSchedule, TypeOK
    <3>4. draft' \in DraftRow
      BY <2>6, <3>1, MovedDraftRow DEF CommitSchedule, TypeOK
    <3> QED
      BY <2>6, <3>3, <3>4, SessionRow DEF TypeOK, CommitSchedule
  <2>7. ASSUME NEW u \in Sessions, CommitMove(u) PROVE TypeOK'
    <3>1. session[u].op \in Ops \ {"edit"}
      BY <2>7 DEF CommitMove, Ops, Moves
    <3> QED
      BY <2>7, <3>1, MovedDraftRow, MovedPostRow, SessionRow DEF TypeOK, CommitMove
  <2>8. CASE TimePasses
    BY <2>8 DEF TypeOK, TimePasses, PostRow
  <2>9. CASE TickPublisher
    BY <2>9 DEF TypeOK, TickPublisher
  <2>10. ASSUME NEW w \in Workers, Load(w) PROVE TypeOK'
    <3>1. worker' \in [Workers -> Attempt]
      BY <2>10, LoadedWorker
    <3>2. queue' \in Nat
      BY <2>10 DEF TypeOK, Load
    <3> QED
      BY <2>10, <3>1, <3>2 DEF TypeOK, Load
  <2>11. ASSUME NEW w \in Workers, Flush(w) PROVE TypeOK'
    BY <2>11, FlushedWorker DEF TypeOK, Flush
  <2>12. ASSUME NEW w \in Workers, NEW fatal \in BOOLEAN,
                CallFails(w, fatal) \/ PermalinkFails(w, fatal)
         PROVE  TypeOK'
    <3>1. Raised(w, fatal)
      BY <2>12 DEF CallFails, PermalinkFails
    <3>2. worker' \in [Workers -> Attempt]
      BY <3>1, RaisedWorker
    <3>3. live' \in Nat
      BY <2>12 DEF TypeOK, CallFails, PermalinkFails
    <3> QED
      BY <2>12, <3>2, <3>3 DEF TypeOK, CallFails, PermalinkFails
  <2>13. ASSUME NEW w \in Workers, CallSucceeds(w) PROVE TypeOK'
    <3>1. worker' \in [Workers -> Attempt]
      BY <2>13, AnsweredWorker
    <3>2. live' \in Nat
      BY <2>13 DEF TypeOK, CallSucceeds
    <3> QED
      BY <2>13, <3>1, <3>2 DEF TypeOK, CallSucceeds
  <2>14. ASSUME NEW w \in Workers, CommitSuccess(w) PROVE TypeOK'
    <3>1. worker[w].read \in PostRow /\ worker[w].media \in Nat
      BY DEF TypeOK, Attempt
    <3>2. post' \in PostRow
      BY <2>14, <3>1, AttemptedRows, AttemptedPost DEF CommitSuccess
    <3>3. draft' \in DraftRow
      BY <2>14, FinalDraftRow DEF CommitSuccess
    <3>4. worker' \in [Workers -> Attempt]
      BY <2>14, ReadRows DEF TypeOK, CommitSuccess
    <3>5. logged' \in [ok : Nat, failed : Nat]
      BY <2>14 DEF TypeOK, CommitSuccess
    <3> QED
      BY <2>14, <3>1, <3>2, <3>3, <3>4, <3>5 DEF TypeOK, CommitSuccess
  <2>15. ASSUME NEW w \in Workers, CommitFailure(w) PROVE TypeOK'
    <3>1. worker[w].read \in PostRow /\ worker[w].fatal \in BOOLEAN
      BY DEF TypeOK, Attempt
    <3>2. post' \in PostRow
      BY <2>15, <3>1, AttemptedRows, AttemptedPost DEF CommitFailure
    <3>3. draft' \in DraftRow
      BY <2>15, FinalDraftRow DEF CommitFailure
    <3>4. worker' \in [Workers -> Attempt]
      BY <2>15, ReadRows DEF TypeOK, CommitFailure
    <3>5. logged' \in [ok : Nat, failed : Nat]
      BY <2>15 DEF TypeOK, CommitFailure
    <3> QED
      BY <2>15, <3>2, <3>3, <3>4, <3>5 DEF TypeOK, CommitFailure
  <2>16. ASSUME NEW w \in Workers, AbortWorker(w) PROVE TypeOK'
    BY <2>16, ReadRows DEF TypeOK, AbortWorker
  <2>17. ASSUME NEW w \in Workers, NEW requeued \in BOOLEAN, Lose(w, requeued) PROVE TypeOK'
    BY <2>17, ReadRows DEF TypeOK, Lose
  <2>18. CASE UNCHANGED vars
    BY <2>18 DEF TypeOK, vars
  <2> QED
    BY <2>1, <2>2, <2>3, <2>4, <2>5, <2>6, <2>7, <2>8, <2>9, <2>10, <2>11, <2>12, <2>13,
       <2>14, <2>15, <2>16, <2>17, <2>18 DEF Next, Commit, Call, Finish
<1>3. QED
  BY <1>1, <1>2, PTL DEF Spec

----------------------------------------------------------------------------
(***************************************************************************)
(* Mutual exclusion of the calls                                           *)
(***************************************************************************)
LEMMA ExclusiveStep == TypeOK /\ CallsExclusive /\ [Next]_vars => CallsExclusive'
<1> SUFFICES ASSUME TypeOK, CallsExclusive, [Next]_vars PROVE CallsExclusive'
  OBVIOUS
<1>1. ASSUME NEW w \in Workers, \A v \in Workers : v # w => worker'[v] = worker[v],
             Publishes(w)' => Publishes(w) \/ PostFree
      PROVE  CallsExclusive'
  BY <1>1 DEF CallsExclusive, Publishes, PostFree
<1>2. CASE worker' = worker
  BY <1>2 DEF CallsExclusive, Publishes
<1>3. ASSUME NEW w \in Workers, worker' = [worker EXCEPT ![w] = IdleWorker]
      PROVE  CallsExclusive'
  <2>1. worker'[w] = IdleWorker /\ \A v \in Workers : v # w => worker'[v] = worker[v]
    BY <1>3 DEF TypeOK
  <2>2. ~Publishes(w)'
    BY <2>1 DEF IdleWorker, Publishes
  <2> QED
    BY <1>1, <2>1, <2>2
<1>4. ASSUME NEW w \in Workers, Load(w) PROVE CallsExclusive'
  <2>1. Publishes(w)' => Publishes(w)
    BY <1>4, LoadedWorker DEF Publishes
  <2> QED
    BY <1>1, <1>4, <2>1, LoadedWorker
<1>5. ASSUME NEW w \in Workers, Flush(w) PROVE CallsExclusive'
  BY <1>1, <1>5, FlushedWorker DEF Flush
<1>6. ASSUME NEW w \in Workers, Call(w) PROVE CallsExclusive'
  <2>1. worker[w].pc = "calling"
    BY <1>6 DEF Call, CallFails, PermalinkFails, CallSucceeds
  <2>2. \A v \in Workers : v # w => worker'[v] = worker[v]
    BY <1>6, RaisedWorker, AnsweredWorker DEF Call, CallFails, PermalinkFails
  <2> QED
    BY <1>1, <2>1, <2>2 DEF Publishes
<1>7. QED
  BY <1>2, <1>3, <1>4, <1>5, <1>6
    DEF Next, Begin, FlushDraft, Commit, CommitReview, CommitEdit, CommitSchedule, CommitMove,
        RollBack, AbortSession, TimePasses, TickPublisher, Finish, CommitSuccess,
        CommitFailure, AbortWorker, Lose, vars

\* However many workers hold a message for the post, one at most is between
\* its flush and its commit: the row lock that the flush takes is the only
\* thing that keeps them apart, the guard on PUBLISHING is not.
THEOREM CallsExclusiveHolds == Spec => []CallsExclusive
<1>1. Init => CallsExclusive
  BY DEF Init, CallsExclusive, Publishes, IdleWorker
<1>2. QED
  BY <1>1, TypeCorrect, ExclusiveStep, PTL DEF Spec

----------------------------------------------------------------------------
(***************************************************************************)
(* The rows and the log                                                    *)
(***************************************************************************)
\* What any step makes of the post, its times left out, and of its log.
LEMMA PostStep ==
  ASSUME TypeOK, [Next]_vars
  PROVE  \/ /\ post'.status = post.status /\ post'.attempts = post.attempts
            /\ post'.snapshot = post.snapshot
            /\ logged' = logged
         \/ /\ post.status = "NONE" /\ post'.status = "SCHEDULED" /\ post'.attempts = 0
            /\ logged' = logged
            /\ \E u \in Sessions : /\ session[u].op = "schedule"
                                   /\ post'.snapshot = session[u].draft.current
         \/ /\ post'.status \in {post.status, "SCHEDULED", "UNSCHEDULED"}
            /\ post'.attempts = post.attempts
            /\ post'.snapshot = post.snapshot
            /\ logged' = logged
            /\ \E u \in Sessions : session[u].op \in Moves
         \/ \E w \in Workers :
              /\ post'.status = "PUBLISHED"
              /\ post'.attempts = worker[w].read.attempts + 1
              /\ post'.snapshot = post.snapshot
              /\ logged' = [logged EXCEPT !.ok = @ + 1]
              /\ CommitSuccess(w)
         \/ \E w \in Workers :
              /\ post'.status \in {"SCHEDULED", "FAILED"}
              /\ post'.status = "SCHEDULED" => post'.attempts < MaxRetries
              /\ post'.attempts = worker[w].read.attempts + 1
              /\ post'.snapshot = post.snapshot
              /\ logged' = [logged EXCEPT !.failed = @ + 1]
              /\ CommitFailure(w)
<1>1. CASE post' = post /\ logged' = logged
  BY <1>1
<1>2. ASSUME NEW u \in Sessions, CommitSchedule(u)
      PROVE  \/ post' = post /\ logged' = logged
             \/ /\ post.status = "NONE" /\ post'.status = "SCHEDULED" /\ post'.attempts = 0
                /\ logged' = logged
                /\ session[u].op = "schedule"
                /\ post'.snapshot = session[u].draft.current
  <2>1. session[u].draft.current \in Nat /\ session[u].due \in BOOLEAN
    BY DEF TypeOK, Request, DraftRow
  <2> QED
    BY <1>2, <2>1, ScheduledRows DEF CommitSchedule, UniqueDraft
<1>3. ASSUME NEW u \in Sessions, CommitMove(u)
      PROVE  /\ post'.status \in {post.status, "SCHEDULED", "UNSCHEDULED"}
             /\ post'.attempts = post.attempts
             /\ post'.snapshot = post.snapshot
             /\ logged' = logged
             /\ session[u].op \in Moves
  BY <1>3, MovedPostRow DEF CommitMove
<1>4. CASE TimePasses
  BY <1>4 DEF TimePasses, TypeOK, PostRow
<1>5. ASSUME NEW w \in Workers, CommitSuccess(w)
      PROVE  /\ post'.status = "PUBLISHED"
             /\ post'.attempts = worker[w].read.attempts + 1
             /\ post'.snapshot = post.snapshot
             /\ logged' = [logged EXCEPT !.ok = @ + 1]
  <2>1. worker[w].read \in PostRow
    BY DEF TypeOK, Attempt
  <2> QED
    BY <1>5, <2>1, AttemptedRows, AttemptedPost DEF CommitSuccess
<1>6. ASSUME NEW w \in Workers, CommitFailure(w)
      PROVE  /\ post'.status \in {"SCHEDULED", "FAILED"}
             /\ post'.status = "SCHEDULED" => post'.attempts < MaxRetries
             /\ post'.attempts = worker[w].read.attempts + 1
             /\ post'.snapshot = post.snapshot
             /\ logged' = [logged EXCEPT !.failed = @ + 1]
  <2> DEFINE final == AfterFailure(InFlight(worker[w].read), worker[w].fatal)
  <2>1. worker[w].read \in PostRow /\ worker[w].fatal \in BOOLEAN
    BY DEF TypeOK, Attempt
  <2>2. /\ final \in PostRow /\ final.status \in {"SCHEDULED", "FAILED"}
        /\ final.attempts = worker[w].read.attempts + 1
        /\ final.snapshot = worker[w].read.snapshot
        /\ final.status = "SCHEDULED" => WillRetry(InFlight(worker[w].read), worker[w].fatal)
        /\ InFlight(worker[w].read).attempts = worker[w].read.attempts + 1
    BY <2>1, AttemptedRows, InFlightRow
  <2>3. final.status = "SCHEDULED" => final.attempts < MaxRetries
    BY <2>2 DEF WillRetry
  <2>4. post' = Attempted(w, final) /\ logged' = [logged EXCEPT !.failed = @ + 1]
    BY <1>6 DEF CommitFailure
  <2> HIDE DEF final
  <2> QED
    BY <2>2, <2>3, <2>4, AttemptedPost
<1>7. QED
  BY <1>1, <1>2, <1>3, <1>4, <1>5, <1>6
    DEF Next, Begin, FlushDraft, Commit, CommitReview, CommitEdit, RollBack, AbortSession,
        TickPublisher, Load, Flush, Call, CallFails, PermalinkFails, CallSucceeds, Finish,
        AbortWorker, Lose, vars, db

\* PUBLISHING is never committed.
THEOREM NeverStuckHolds == Spec => []NeverStuck
<1>1. Init => NeverStuck
  BY DEF Init, NeverStuck, NoPost
<1>2. TypeOK /\ NeverStuck /\ [Next]_vars => NeverStuck'
  BY PostStep DEF NeverStuck
<1>3. QED
  BY <1>1, <1>2, TypeCorrect, PTL DEF Spec

\* What a worker remembers of the attempts comes from the post.
LEMMA ReadStep ==
  ASSUME TypeOK, [Next]_vars, NEW w \in Workers
  PROVE  worker'[w].read.attempts \in {worker[w].read.attempts, post.attempts, 0}
<1>1. CASE worker' = worker
  BY <1>1
<1>2. ASSUME NEW v \in Workers, worker' = [worker EXCEPT ![v] = IdleWorker]
      PROVE  worker'[w].read.attempts \in {worker[w].read.attempts, 0}
  BY <1>2 DEF TypeOK, IdleWorker, NoPost
<1>3. ASSUME NEW v \in Workers, Load(v)
      PROVE  worker'[w].read.attempts \in {worker[w].read.attempts, post.attempts}
  <2>1. Columns(post).attempts = post.attempts
    BY ReadRows DEF TypeOK
  <2> QED
    BY <1>3, <2>1, LoadedWorker
<1>4. ASSUME NEW v \in Workers, Flush(v) \/ Call(v)
      PROVE  worker'[w].read.attempts = worker[w].read.attempts
  BY <1>4, FlushedWorker, RaisedWorker, AnsweredWorker DEF Call, CallFails, PermalinkFails
<1>5. QED
  BY <1>1, <1>2, <1>3, <1>4
    DEF Next, Begin, FlushDraft, Commit, CommitReview, CommitEdit, CommitSchedule, CommitMove,
        RollBack, AbortSession, TimePasses, TickPublisher, Finish, CommitSuccess,
        CommitFailure, AbortWorker, Lose, vars

Counted ==
  /\ post.attempts <= logged.ok + logged.failed
  /\ \A w \in Workers : worker[w].read.attempts <= logged.ok + logged.failed

LEMMA CountedStep == TypeOK /\ Counted /\ [Next]_vars => Counted'
<1> SUFFICES ASSUME TypeOK, Counted, [Next]_vars PROVE Counted'
  OBVIOUS
<1> DEFINE entries == logged.ok + logged.failed
<1>1. /\ logged.ok \in Nat /\ logged.failed \in Nat /\ post.attempts \in Nat
      /\ \A w \in Workers : worker[w].read.attempts \in Nat
  BY DEF TypeOK, PostRow, Attempt
<1>2. post.attempts <= entries /\ \A w \in Workers : worker[w].read.attempts <= entries
  BY DEF Counted
<1>3. \/ entries' = entries /\ post'.attempts \in {post.attempts, 0}
      \/ entries' = entries + 1 /\ \E w \in Workers : post'.attempts = worker[w].read.attempts + 1
  <2>1. CASE logged' = logged /\ post'.attempts \in {post.attempts, 0}
    BY <2>1
  <2>2. ASSUME NEW w \in Workers, post'.attempts = worker[w].read.attempts + 1,
               \/ logged' = [logged EXCEPT !.ok = @ + 1]
               \/ logged' = [logged EXCEPT !.failed = @ + 1]
        PROVE  entries' = entries + 1
    BY <1>1, <2>2 DEF TypeOK
  <2> QED
    BY <2>1, <2>2, PostStep
<1> HIDE DEF entries
<1>4. entries \in Nat
  BY <1>1 DEF entries
<1>5. post'.attempts <= entries'
  BY <1>1, <1>2, <1>3, <1>4
<1>6. ASSUME NEW w \in Workers PROVE worker'[w].read.attempts <= entries'
  BY <1>1, <1>2, <1>3, <1>4, ReadStep
<1> QED
  BY <1>5, <1>6 DEF Counted, entries

\* A worker spends a try with each medium it publishes and each that raises; the
\* media are those of the attempts that have ended, and of the one under way.
Ended    == logged.ok + logged.failed + losses + aborts
Spent(w) == worker[w].tries + (IF worker[w].pc = "calling" THEN 0 ELSE 1)

MediaOwed ==
  /\ \A w \in Workers : worker[w].tries < MaxRetries
  /\ PostFree => live <= MaxRetries * Ended
  /\ \A w \in Workers : Publishes(w) => live <= MaxRetries * Ended + Spent(w)

LEMMA EndedTyped ==
  ASSUME TypeOK
  PROVE  /\ Ended \in Nat
         /\ MaxRetries * Ended \in Nat
         /\ MaxRetries * (Ended + 1) = MaxRetries * Ended + MaxRetries
<1>1. Ended \in Nat
  BY DEF TypeOK, Ended
<1> QED
  BY <1>1, MaxRetriesAssumption

\* The steps, as MediaOwed sees them.
LEMMA MediaSteps ==
  ASSUME TypeOK, [Next]_vars
  PROVE  \/ UNCHANGED <<worker, live, Ended>>
         \/ \E w \in Workers : Load(w) /\ UNCHANGED <<live, Ended>>
         \/ \E w \in Workers : Flush(w) /\ UNCHANGED <<live, Ended>>
         \/ \E w \in Workers : Call(w) /\ UNCHANGED Ended
         \/ \E w \in Workers : /\ worker' = [worker EXCEPT ![w] = IdleWorker]
                               /\ live' = live /\ Ended' = Ended + 1
<1>0. /\ logged.ok \in Nat /\ logged.failed \in Nat /\ losses \in Nat /\ aborts \in Nat
      /\ logged \in [ok : Nat, failed : Nat]
  BY DEF TypeOK
<1>1. ASSUME UNCHANGED <<logged, losses, aborts>> PROVE Ended' = Ended
  BY <1>1 DEF Ended
<1>2. ASSUME NEW w \in Workers, Load(w) \/ Flush(w)
      PROVE  UNCHANGED <<live, Ended>>
  BY <1>1, <1>2 DEF Load, Flush, db
<1>3. ASSUME NEW w \in Workers, Call(w) PROVE Ended' = Ended
  BY <1>1, <1>3 DEF Call, CallFails, PermalinkFails, CallSucceeds, db
<1>4. ASSUME NEW w \in Workers, CommitSuccess(w)
      PROVE  Ended' = Ended + 1 /\ live' = live /\ worker' = [worker EXCEPT ![w] = IdleWorker]
  BY <1>0, <1>4 DEF CommitSuccess, Ended
<1>5. ASSUME NEW w \in Workers, CommitFailure(w)
      PROVE  Ended' = Ended + 1 /\ live' = live /\ worker' = [worker EXCEPT ![w] = IdleWorker]
  BY <1>0, <1>5 DEF CommitFailure, Ended
<1>6. ASSUME NEW w \in Workers, NEW requeued \in BOOLEAN, Lose(w, requeued)
      PROVE  Ended' = Ended + 1 /\ live' = live /\ worker' = [worker EXCEPT ![w] = IdleWorker]
  BY <1>0, <1>6 DEF Lose, Ended, db
<1>7. ASSUME NEW w \in Workers, AbortWorker(w)
      PROVE  Ended' = Ended + 1 /\ live' = live /\ worker' = [worker EXCEPT ![w] = IdleWorker]
  BY <1>0, <1>7 DEF AbortWorker, Ended, db
<1>8. ASSUME UNCHANGED <<worker, live, logged, losses, aborts>>
      PROVE  UNCHANGED <<worker, live, Ended>>
  BY <1>1, <1>8
<1>9. ASSUME \/ \E u \in Sessions :
                  \/ \E op \in Ops, due \in BOOLEAN : Begin(u, op, due)
                  \/ FlushDraft(u) \/ Commit(u) \/ RollBack(u) \/ AbortSession(u)
             \/ TimePasses \/ TickPublisher \/ UNCHANGED vars
      PROVE  UNCHANGED <<worker, live, logged, losses, aborts>>
  BY <1>9 DEF Begin, FlushDraft, Commit, CommitReview, CommitEdit, CommitSchedule, CommitMove,
              RollBack, AbortSession, TimePasses, TickPublisher, db, vars
<1> QED
  BY <1>2, <1>3, <1>4, <1>5, <1>6, <1>7, <1>8, <1>9 DEF Next, Finish

LEMMA MediaStep ==
  ASSUME TypeOK, CallsExclusive, CallsExclusive', MediaOwed, [Next]_vars
  PROVE  MediaOwed'
<1> DEFINE paid == MaxRetries * Ended
<1>0. /\ Ended \in Nat /\ paid \in Nat /\ MaxRetries \in Nat \ {0} /\ live \in Nat
      /\ \A w \in Workers : worker[w].tries \in Nat
      /\ Ended' = Ended => paid' = paid
      /\ Ended' = Ended + 1 => paid' = paid + MaxRetries
  BY EndedTyped, MaxRetriesAssumption DEF TypeOK, Attempt
<1>1. /\ \A w \in Workers : worker[w].tries < MaxRetries
      /\ PostFree => live <= paid
      /\ \A w \in Workers : Publishes(w) => live <= paid + Spent(w)
  BY DEF MediaOwed
<1> SUFFICES /\ \A w \in Workers : worker'[w].tries < MaxRetries
             /\ PostFree' => live' <= paid'
             /\ \A w \in Workers : Publishes(w)' => live' <= paid' + Spent(w)'
  BY DEF MediaOwed
<1> HIDE DEF paid
<1>2. CASE UNCHANGED <<worker, live, Ended>>
  BY <1>0, <1>1, <1>2 DEF PostFree, Publishes, Spent
<1>3. ASSUME NEW w \in Workers, Load(w), UNCHANGED <<live, Ended>>
      PROVE  /\ \A v \in Workers : worker'[v].tries < MaxRetries
             /\ PostFree' => live' <= paid'
             /\ \A v \in Workers : Publishes(v)' => live' <= paid' + Spent(v)'
  <2>1. ~Publishes(w) /\ ~Publishes(w)' /\ worker'[w].tries = worker[w].tries
    BY <1>3, LoadedWorker DEF Load, Publishes
  <2>2. \A v \in Workers : v # w => worker'[v] = worker[v]
    BY <1>3, LoadedWorker
  <2> QED
    BY <1>0, <1>1, <1>3, <2>1, <2>2 DEF PostFree, Publishes, Spent
<1>4. ASSUME NEW w \in Workers, Flush(w), UNCHANGED <<live, Ended>>
      PROVE  /\ \A v \in Workers : worker'[v].tries < MaxRetries
             /\ PostFree' => live' <= paid'
             /\ \A v \in Workers : Publishes(v)' => live' <= paid' + Spent(v)'
  <2>1. worker'[w].pc = "calling" /\ worker'[w].tries = worker[w].tries /\ PostFree
    BY <1>4, FlushedWorker DEF Flush
  <2>2. \A v \in Workers : v # w => worker'[v] = worker[v]
    BY <1>4, FlushedWorker
  <2> QED
    BY <1>0, <1>1, <1>4, <2>1, <2>2 DEF PostFree, Publishes, Spent
<1>5. ASSUME NEW w \in Workers, Call(w), UNCHANGED Ended
      PROVE  /\ \A v \in Workers : worker'[v].tries < MaxRetries
             /\ PostFree' => live' <= paid'
             /\ \A v \in Workers : Publishes(v)' => live' <= paid' + Spent(v)'
  <2>1. worker[w].pc = "calling" /\ live' \in {live, live + 1}
    BY <1>5 DEF Call, CallFails, PermalinkFails, CallSucceeds
  <2>2. /\ worker'[w].tries < MaxRetries /\ Publishes(w)'
        /\ worker'[w].tries \in Nat
        /\ Spent(w)' = Spent(w) + 1
        /\ \A v \in Workers : v # w => worker'[v] = worker[v]
    <3>1. CASE CallSucceeds(w)
      BY <1>0, <1>1, <2>1, <3>1, AnsweredWorker DEF Publishes, Spent
    <3>2. ASSUME NEW fatal \in BOOLEAN, Raised(w, fatal)
          PROVE  /\ worker'[w].tries < MaxRetries /\ Publishes(w)'
                 /\ worker'[w].tries \in Nat
                 /\ Spent(w)' = Spent(w) + 1
                 /\ \A v \in Workers : v # w => worker'[v] = worker[v]
      BY <1>0, <1>1, <2>1, <3>2, RaisedWorker DEF Publishes, Spent
    <3> QED
      BY <1>5, <3>1, <3>2 DEF Call, CallFails, PermalinkFails
  <2>3. Publishes(w) /\ ~PostFree'
    BY <2>1, <2>2 DEF Publishes, PostFree
  <2>4. ASSUME NEW v \in Workers, Publishes(v)' PROVE v = w
    BY <2>2, <2>4 DEF CallsExclusive
  <2>5. Spent(w) \in Nat /\ live' <= paid' + Spent(w)'
    BY <1>0, <1>1, <1>5, <2>1, <2>2, <2>3 DEF Spent
  <2> QED
    BY <1>1, <2>2, <2>3, <2>4, <2>5
<1>6. ASSUME NEW w \in Workers, worker' = [worker EXCEPT ![w] = IdleWorker],
             live' = live, Ended' = Ended + 1
      PROVE  /\ \A v \in Workers : worker'[v].tries < MaxRetries
             /\ PostFree' => live' <= paid'
             /\ \A v \in Workers : Publishes(v)' => live' <= paid' + Spent(v)'
  <2>1. /\ worker'[w] = IdleWorker
        /\ \A v \in Workers : v # w => worker'[v] = worker[v]
    BY <1>6 DEF TypeOK
  <2>2. worker'[w].tries = 0 /\ ~Publishes(w)'
    BY <2>1 DEF IdleWorker, Publishes
  <2>3. \A v \in Workers : worker'[v].tries < MaxRetries
    BY <1>0, <1>1, <2>1, <2>2
  <2>4. live <= paid + MaxRetries
    <3>1. CASE PostFree
      BY <1>0, <1>1, <3>1
    <3>2. ASSUME NEW v \in Workers, Publishes(v) PROVE live <= paid + MaxRetries
      <4>1. Spent(v) <= MaxRetries /\ Spent(v) \in Nat
        BY <1>0, <1>1 DEF Spent
      <4> QED
        BY <1>0, <1>1, <3>2, <4>1
    <3> QED
      BY <3>1, <3>2 DEF PostFree
  <2>5. ASSUME NEW v \in Workers, Publishes(v)' PROVE live' <= paid' + Spent(v)'
    <3>1. worker'[v].tries \in Nat
      BY <1>0, <2>1, <2>2
    <3>2. Spent(v)' \in Nat
      BY <3>1 DEF Spent
    <3> QED
      BY <1>0, <1>6, <2>4, <3>2
  <2> QED
    BY <1>0, <1>6, <2>3, <2>4, <2>5
<1> QED
  BY <1>2, <1>3, <1>4, <1>5, <1>6, MediaSteps

\* The count of attempts never runs ahead of the log, however stale the row
\* that a worker counts from, and every medium is one of an attempt's tries.
THEOREM AttemptsLoggedHolds == Spec => []AttemptsLogged
<1>1. Init => Counted
  BY DEF Init, Counted, IdleWorker, NoPost
<1>2. Init => MediaOwed
  BY MaxRetriesAssumption DEF Init, MediaOwed, IdleWorker, Ended, Publishes
<1>3. TypeOK /\ Counted /\ MediaOwed => AttemptsLogged
  <2> SUFFICES ASSUME TypeOK, Counted, MediaOwed PROVE live <= MaxRetries * Attempts
    BY DEF Counted, AttemptsLogged
  <2>1. CASE PostFree
    <3>1. Attempts = Ended
      BY <2>1, EndedTyped DEF Attempts, Ended, TypeOK
    <3> QED
      BY <2>1, <3>1 DEF MediaOwed
  <2>2. CASE ~PostFree
    <3>1. Attempts = Ended + 1
      BY <2>2, EndedTyped DEF Attempts, Ended, TypeOK
    <3>2. PICK w \in Workers : Publishes(w)
      BY <2>2 DEF PostFree
    <3>3. worker[w].tries \in Nat /\ worker[w].tries < MaxRetries /\ live \in Nat
      BY DEF TypeOK, Attempt, MediaOwed
    <3>4. Spent(w) <= MaxRetries /\ Spent(w) \in Nat
      BY <3>3, MaxRetriesAssumption DEF Spent
    <3>5. live <= MaxRetries * Ended + Spent(w)
      BY <3>2 DEF MediaOwed
    <3> QED
      BY <3>1, <3>3, <3>4, <3>5, EndedTyped, MaxRetriesAssumption
  <2> QED
    BY <2>1, <2>2
<1> QED
  BY <1>1, <1>2, <1>3, TypeCorrect, CallsExclusiveHolds, CountedStep, MediaStep, PTL DEF Spec

----------------------------------------------------------------------------
(***************************************************************************)
(* No edit is lost                                                         *)
(***************************************************************************)
\* The strengthening: no session has read a version that is not there yet, so
\* that the version an edit writes differs from the one it has read, and the
\* column is written.
ReadsExist == \A u \in Sessions : session[u].draft.current <= versions

LEMMA EditStep == TypeOK /\ NoLostEdit /\ ReadsExist /\ [Next]_vars => NoLostEdit' /\ ReadsExist'
<1> SUFFICES ASSUME TypeOK, NoLostEdit, ReadsExist, [Next]_vars PROVE NoLostEdit' /\ ReadsExist'
  OBVIOUS
<1>1. versions \in Nat /\ \A u \in Sessions : session[u].draft \in DraftRow
                                              /\ session[u].draft.current \in Nat
  BY DEF TypeOK, Request, DraftRow
<1>2. ASSUME versions' = versions, draft'.current = draft.current,
             \A u \in Sessions : session'[u].draft.current \in
                                   {session[u].draft.current, draft.current, 0}
      PROVE  NoLostEdit' /\ ReadsExist'
  BY <1>1, <1>2 DEF NoLostEdit, ReadsExist
<1>3. ASSUME NEW u \in Sessions, Close(u)
      PROVE  \A v \in Sessions : session'[v].draft.current \in {session[v].draft.current, 0}
  BY <1>3, SessionRow DEF IdleSession, NoDraft
<1>4. ASSUME NEW u \in Sessions, CommitEdit(u), session[u].count = versions
      PROVE  NoLostEdit' /\ ReadsExist'
  <2> DEFINE n == versions + 1
             read == session[u].draft
  <2>1. n \in Nat /\ versions' = n /\ read \in DraftRow /\ draft \in DraftRow
    BY <1>1, <1>4 DEF CommitEdit, TypeOK
  <2>2. draft' = Merge(draft, read, AfterEdit(read, n)) /\ Close(u)
    BY <1>4 DEF CommitEdit
  <2>3. read.current # n
    BY <1>1 DEF ReadsExist
  <2>4. AfterEdit(read, n) \in DraftRow /\ AfterEdit(read, n).current = n
    BY <2>1, RewrittenRow
  <2>5. \A v \in Sessions : session'[v].draft.current <= n
    BY <1>1, <1>3, <2>2 DEF ReadsExist
  <2> HIDE DEF n, read
  <2>6. draft'.current = n
    BY <2>1, <2>2, <2>3, <2>4, MergedDraft
  <2> QED
    BY <2>1, <2>5, <2>6 DEF NoLostEdit, ReadsExist
<1>5. ASSUME NEW u \in Sessions, CommitReview(u) \/ CommitSchedule(u) \/ CommitMove(u)
      PROVE  versions' = versions /\ draft'.current = draft.current /\ Close(u)
  <2>1. session[u].op \in Ops \ {"edit"}
    BY <1>5 DEF CommitReview, CommitSchedule, CommitMove, Ops, Reviews, Moves
  <2> QED
    BY <1>5, <2>1, MovedDraftRow DEF CommitReview, CommitSchedule, CommitMove
<1>6. ASSUME NEW u \in Sessions, NEW op \in Ops, NEW due \in BOOLEAN, Begin(u, op, due)
      PROVE  NoLostEdit' /\ ReadsExist'
  <2>1. \A v \in Sessions : session'[v].draft.current \in {session[v].draft.current, draft.current}
    BY <1>6, SessionRow
  <2> QED
    BY <1>2, <1>6, <2>1 DEF Begin, db
<1>7. ASSUME NEW u \in Sessions, FlushDraft(u) PROVE NoLostEdit' /\ ReadsExist'
  <2>1. \A v \in Sessions : session'[v].draft.current = session[v].draft.current
    BY <1>7, SessionRow
  <2> QED
    BY <1>2, <1>7, <2>1 DEF FlushDraft, db
<1>8. ASSUME NEW w \in Workers, Finish(w) PROVE NoLostEdit' /\ ReadsExist'
  <2>1. draft'.current = draft.current
    BY <1>8, FinalDraftRow DEF Finish, CommitSuccess, CommitFailure
  <2> QED
    BY <1>2, <1>8, <2>1 DEF Finish, CommitSuccess, CommitFailure
<1>9. ASSUME versions' = versions, draft' = draft, session' = session
      PROVE  NoLostEdit' /\ ReadsExist'
  BY <1>2, <1>9
<1>10. ASSUME NEW u \in Sessions, CommitEdit(u), session[u].count # versions
      PROVE  NoLostEdit' /\ ReadsExist'
  BY <1>2, <1>3, <1>10 DEF CommitEdit
<1>11. QED
  BY <1>2, <1>3, <1>4, <1>5, <1>6, <1>7, <1>8, <1>9, <1>10
    DEF Next, Commit, RollBack, AbortSession, TimePasses, TickPublisher, Load, Flush, Call,
        CallFails, PermalinkFails, CallSucceeds, AbortWorker, Lose, vars, db

\* A session that writes from a stale draft writes the status it has changed,
\* and not the version that an edit has replaced since.
THEOREM NoLostEditHolds == Spec => []NoLostEdit
<1>1. Init => NoLostEdit /\ ReadsExist
  BY DEF Init, NoLostEdit, ReadsExist, IdleSession, NoDraft
<1>2. QED
  BY <1>1, TypeCorrect, EditStep, PTL DEF Spec

----------------------------------------------------------------------------
(***************************************************************************)
(* What the rows claim is real                                             *)
(***************************************************************************)
\* The strengthening: a session that is about to move the post has found one.
PostFound == \A u \in Sessions : session[u].op \in Moves => post.status # "NONE"

LEMMA FoundStep == TypeOK /\ PostFound /\ [Next]_vars => PostFound'
<1> SUFFICES ASSUME TypeOK, PostFound, [Next]_vars, NEW u \in Sessions,
                    session'[u].op \in Moves
             PROVE  post'.status # "NONE"
  BY DEF PostFound
<1>1. post.status # "NONE" => post'.status # "NONE"
  BY PostStep
<1>2. CASE session' = session
  BY <1>1, <1>2 DEF PostFound
<1>3. ASSUME NEW v \in Sessions, Close(v) PROVE post.status # "NONE"
  BY <1>3, SessionRow DEF PostFound, IdleSession, Moves
<1>4. ASSUME NEW v \in Sessions, NEW op \in Ops, NEW due \in BOOLEAN, Begin(v, op, due)
      PROVE  post.status # "NONE"
  BY <1>4, SessionRow DEF PostFound
<1>5. ASSUME NEW v \in Sessions, FlushDraft(v) PROVE post.status # "NONE"
  BY <1>5, SessionRow DEF PostFound
<1>6. QED
  BY <1>1, <1>2, <1>3, <1>4, <1>5
    DEF Next, Commit, CommitReview, CommitEdit, CommitSchedule, CommitMove, RollBack,
        AbortSession, TimePasses, TickPublisher, Load, Flush, Call, CallFails, PermalinkFails,
        CallSucceeds, Finish, CommitSuccess, CommitFailure, AbortWorker, Lose, vars

\* A step of a session: neither a worker nor Instagram nor the log moves, and
\* no status is written that needs a publisher.
LEMMA RowsBacked ==
  ASSUME TypeOK, StatusesBacked,
         worker' = worker, live' = live, recorded' = recorded, logged' = logged,
         post'.status \in {post.status, "SCHEDULED", "UNSCHEDULED"},
         draft'.status \in {draft.status, "PENDING", "APPROVED", "REJECTED", "SCHEDULED"},
         draft'.status = "SCHEDULED" => post'.status # "NONE"
  PROVE  StatusesBacked'
  BY DEF StatusesBacked

\* A step of a worker that writes no row: it answers with a new medium or does
\* not answer anew.
LEMMA CallBacked ==
  ASSUME TypeOK, StatusesBacked,
         draft' = draft, post' = post, recorded' = recorded, logged' = logged,
         live' \in Nat, live <= live',
         \A w \in Workers : worker'[w].pc = "answered" =>
           \/ worker'[w] = worker[w]
           \/ live' = live + 1 /\ worker'[w].media = live'
  PROVE  StatusesBacked'
<1>1. /\ recorded \in Nat /\ live \in Nat /\ recorded <= live
      /\ \A w \in Workers : worker[w].media \in Nat
  BY DEF TypeOK, Attempt, StatusesBacked
<1>2. \A w \in Workers : worker'[w].pc = "answered" => worker'[w].media \in recorded' + 1 .. live'
  BY <1>1 DEF StatusesBacked
<1>3. recorded' <= live'
  BY <1>1
<1> QED
  BY <1>2, <1>3 DEF StatusesBacked

LEMMA BackedStep ==
  TypeOK /\ CallsExclusive /\ PostFound /\ StatusesBacked /\ [Next]_vars => StatusesBacked'
<1> SUFFICES ASSUME TypeOK, CallsExclusive, PostFound, StatusesBacked, [Next]_vars
             PROVE  StatusesBacked'
  OBVIOUS
<1> USE DEF db
<1>1. CASE UNCHANGED <<db, worker, live>>
  BY <1>1, RowsBacked DEF StatusesBacked
<1>2. ASSUME NEW u \in Sessions, CommitReview(u) PROVE StatusesBacked'
  <2>1. session[u].op \in Ops \ {"edit"}
    BY <1>2 DEF CommitReview, Ops, Reviews
  <2>2. draft'.status \in {draft.status, "PENDING", "APPROVED", "REJECTED"}
    BY <1>2, <2>1, MovedDraftRow DEF CommitReview, Reviews, Target
  <2> QED
    BY <1>2, <2>2, RowsBacked DEF CommitReview, StatusesBacked
<1>3. ASSUME NEW u \in Sessions, CommitEdit(u) PROVE StatusesBacked'
  <2> DEFINE read == session[u].draft
             n == versions + 1
  <2>1. read \in DraftRow /\ draft \in DraftRow /\ n \in Nat
    BY DEF TypeOK, Request
  <2>2. draft' = Merge(draft, read, AfterEdit(read, n)) \/ draft' = draft
    BY <1>3 DEF CommitEdit
  <2> HIDE DEF read, n
  <2>3. draft'.status \in {draft.status, "PENDING"}
    BY <2>1, <2>2, RewrittenRow, MergedDraft
  <2> QED
    BY <1>3, <2>3, RowsBacked DEF CommitEdit, StatusesBacked
<1>4. ASSUME NEW u \in Sessions, CommitSchedule(u) PROVE StatusesBacked'
  <2>1. session[u].op \in Ops \ {"edit"} /\ session[u].op = "schedule"
    BY <1>4 DEF CommitSchedule, Ops
  <2>2. session[u].draft.current \in Nat /\ session[u].due \in BOOLEAN
    BY DEF TypeOK, Request, DraftRow
  <2>3. CASE UniqueDraft(post)
    <3>1. post'.status = "SCHEDULED"
      BY <1>4, <2>2, <2>3, ScheduledRows DEF CommitSchedule
    <3>2. draft'.status \in {draft.status, "SCHEDULED"}
      BY <1>4, <2>1, <2>3, MovedDraftRow DEF CommitSchedule, Target
    <3> QED
      BY <1>4, <3>1, <3>2, RowsBacked DEF CommitSchedule
  <2>4. CASE ~UniqueDraft(post)
    BY <1>1, <1>4, <2>4 DEF CommitSchedule
  <2> QED
    BY <2>3, <2>4
<1>5. ASSUME NEW u \in Sessions, CommitMove(u) PROVE StatusesBacked'
  <2>1. session[u].op \in Ops \ {"edit"} /\ session[u].op \in Moves
    BY <1>5 DEF CommitMove, Ops, Moves
  <2>2. post.status # "NONE"
    BY <2>1 DEF PostFound
  <2>3. post'.status \in {post.status, "SCHEDULED", "UNSCHEDULED"}
    BY <1>5, MovedPostRow DEF CommitMove
  <2>4. draft'.status \in {draft.status, "APPROVED", "SCHEDULED"}
    BY <1>5, <2>1, MovedDraftRow DEF CommitMove, Moves, Target
  <2> QED
    BY <1>5, <2>2, <2>3, <2>4, RowsBacked DEF CommitMove
<1>6. CASE TimePasses
  <2>1. post'.status = post.status
    BY <1>6 DEF TimePasses, TypeOK, PostRow
  <2> QED
    BY <1>6, <2>1, RowsBacked DEF TimePasses, StatusesBacked
<1>7. ASSUME NEW w \in Workers, worker' = [worker EXCEPT ![w] = IdleWorker], UNCHANGED <<db, live>>
      PROVE  StatusesBacked'
  <2>1. \A v \in Workers : worker'[v] = worker[v] \/ worker'[v].pc = "idle"
    BY <1>7 DEF TypeOK, IdleWorker
  <2> QED
    BY <1>7, <2>1, CallBacked DEF TypeOK
<1>8. ASSUME NEW w \in Workers, Load(w) \/ Flush(w) PROVE StatusesBacked'
  <2>1. \A v \in Workers : worker'[v] = worker[v] \/ worker'[v].pc # "answered"
    BY <1>8, LoadedWorker, FlushedWorker
  <2> QED
    BY <1>8, <2>1, CallBacked DEF Load, Flush, TypeOK
<1>9. ASSUME NEW w \in Workers, NEW fatal \in BOOLEAN,
             CallFails(w, fatal) \/ PermalinkFails(w, fatal)
      PROVE  StatusesBacked'
  <2>1. Raised(w, fatal) /\ worker[w].pc = "calling"
    BY <1>9 DEF CallFails, PermalinkFails
  <2>2. \A v \in Workers : worker'[v] = worker[v] \/ worker'[v].pc # "answered"
    BY <2>1, RaisedWorker
  <2>3. live' \in {live, live + 1} /\ live \in Nat
    BY <1>9 DEF CallFails, PermalinkFails, TypeOK
  <2> QED
    BY <1>9, <2>2, <2>3, CallBacked DEF CallFails, PermalinkFails
<1>10. ASSUME NEW w \in Workers, CallSucceeds(w) PROVE StatusesBacked'
  <2>1. live' = live + 1 /\ live \in Nat
    BY <1>10 DEF CallSucceeds, TypeOK
  <2>2. \A v \in Workers : worker'[v] = worker[v] \/ worker'[v].media = live'
    BY <1>10, <2>1, AnsweredWorker
  <2>3. live' \in Nat /\ live <= live'
    BY <2>1
  <2>4. draft' = draft /\ post' = post /\ recorded' = recorded /\ logged' = logged
    BY <1>10 DEF CallSucceeds
  <2> QED
    BY <2>1, <2>2, <2>3, <2>4, CallBacked
\* A commit of a worker: no other worker has an answer, by exclusion.
<1>11. ASSUME NEW w \in Workers, Finish(w) PROVE \A v \in Workers : worker'[v].pc # "answered"
  <2>1. Publishes(w) /\ worker' = [worker EXCEPT ![w] = IdleWorker]
    BY <1>11 DEF Finish, CommitSuccess, CommitFailure, Publishes
  <2>2. \A v \in Workers : v # w => worker[v].pc # "answered"
    BY <2>1 DEF CallsExclusive, Publishes
  <2> QED
    BY <2>1, <2>2 DEF TypeOK, IdleWorker
<1>12. ASSUME NEW w \in Workers, CommitSuccess(w) PROVE StatusesBacked'
  <2>1. \A v \in Workers : worker'[v].pc # "answered"
    BY <1>11, <1>12 DEF Finish
  <2>2. /\ worker[w].media \in Nat /\ recorded \in Nat /\ live \in Nat
        /\ logged.ok \in Nat /\ logged.failed \in Nat
    BY DEF TypeOK, Attempt
  <2>3. /\ recorded' = worker[w].media /\ live' = live
        /\ recorded + 1 <= recorded' /\ recorded' <= live'
        /\ logged.ok <= recorded
    BY <1>12, <2>2 DEF CommitSuccess, StatusesBacked
  <2>4. logged'.ok = logged.ok + 1 /\ logged'.failed = logged.failed
    BY <1>12 DEF CommitSuccess, TypeOK
  <2> DEFINE final == AfterSuccess(InFlight(worker[w].read))
  <2>5. worker[w].read \in PostRow
    BY DEF TypeOK, Attempt
  <2>6. post'.status = "PUBLISHED"
    <3>1. /\ final \in PostRow /\ final.status = "PUBLISHED"
          /\ final.attempts = worker[w].read.attempts + 1
          /\ final.snapshot = worker[w].read.snapshot
      BY <2>5, AttemptedRows
    <3>2. post' = Attempted(w, final)
      BY <1>12 DEF CommitSuccess
    <3> HIDE DEF final
    <3> QED
      BY <3>1, <3>2, AttemptedPost
  <2>7. draft'.status \in {draft.status, "PUBLISHED"}
    BY <1>12, FinalDraftRow DEF CommitSuccess
  <2> QED
    BY <2>1, <2>2, <2>3, <2>4, <2>6, <2>7 DEF StatusesBacked
<1>13. ASSUME NEW w \in Workers, CommitFailure(w) PROVE StatusesBacked'
  <2>1. \A v \in Workers : worker'[v].pc # "answered"
    BY <1>11, <1>13 DEF Finish
  <2>2. logged.ok \in Nat /\ logged.failed \in Nat
    BY DEF TypeOK
  <2>3. logged'.ok = logged.ok /\ logged'.failed = logged.failed + 1
    BY <1>13 DEF CommitFailure, TypeOK
  <2>4. worker[w].read \in PostRow /\ worker[w].fatal \in BOOLEAN
    BY DEF TypeOK, Attempt
  <2>5. post'.status \in {"SCHEDULED", "FAILED"}
    BY <1>13, <2>4, AttemptedRows, AttemptedPost DEF CommitFailure
  <2>6. draft'.status \in {draft.status, "FAILED"}
    BY <1>13, FinalDraftRow DEF CommitFailure
  <2>7. recorded' = recorded /\ live' = live
    BY <1>13 DEF CommitFailure
  <2> QED
    BY <2>1, <2>2, <2>3, <2>5, <2>6, <2>7 DEF StatusesBacked
<1>14. QED
  BY <1>1, <1>2, <1>3, <1>4, <1>5, <1>6, <1>7, <1>8, <1>9, <1>10, <1>12, <1>13
    DEF Next, Begin, FlushDraft, Commit, RollBack, AbortSession, TickPublisher, Call, Finish,
        AbortWorker, Lose, vars

\* A row says PUBLISHED, FAILED or SCHEDULED only with a medium on Instagram, a
\* failure in the log or a post behind it; the post keeps the newest medium of
\* those that were logged.
THEOREM StatusesBackedHolds == Spec => []StatusesBacked
<1>1. Init => PostFound /\ StatusesBacked
  BY DEF Init, PostFound, StatusesBacked, IdleSession, IdleWorker, NoPost, Moves
<1>2. Spec => []PostFound
  BY <1>1, TypeCorrect, FoundStep, PTL DEF Spec
<1>3. QED
  BY <1>1, <1>2, TypeCorrect, CallsExclusiveHolds, BackedStep, PTL DEF Spec

----------------------------------------------------------------------------
(***************************************************************************)
(* PublicationKept                                                         *)
(***************************************************************************)
\* The strengthening: a session that schedules has found a version, and a worker
\* at work has found a post, which no step takes away.
RowsFound ==
  /\ \A u \in Sessions : session[u].op = "schedule" => session[u].draft.current # 0
  /\ \A w \in Workers : worker[w].pc # "idle" => post.status # "NONE"

LEMMA RowsFoundStep == TypeOK /\ RowsFound /\ [Next]_vars => RowsFound'
<1> SUFFICES ASSUME TypeOK, RowsFound, [Next]_vars PROVE RowsFound'
  OBVIOUS
<1>1. post.status # "NONE" => post'.status # "NONE"
  BY PostStep
<1>2. ASSUME NEW u \in Sessions, session'[u].op = "schedule" PROVE session'[u].draft.current # 0
  <2>1. CASE session' = session
    BY <1>2, <2>1 DEF RowsFound
  <2>2. ASSUME NEW v \in Sessions, Close(v) \/ FlushDraft(v)
        PROVE  session'[u].draft.current # 0
    BY <1>2, <2>2, SessionRow DEF RowsFound, IdleSession
  <2>3. ASSUME NEW v \in Sessions, NEW op \in Ops, NEW due \in BOOLEAN, Begin(v, op, due)
        PROVE  session'[u].draft.current # 0
    BY <1>2, <2>3, SessionRow DEF RowsFound
  <2> QED
    BY <2>1, <2>2, <2>3
      DEF Next, Commit, CommitReview, CommitEdit, CommitSchedule, CommitMove, RollBack,
          AbortSession, TimePasses, TickPublisher, Load, Flush, Call, CallFails, PermalinkFails,
          CallSucceeds, Finish, CommitSuccess, CommitFailure, AbortWorker, Lose, vars
<1>3. ASSUME NEW w \in Workers, worker'[w].pc # "idle" PROVE post.status # "NONE"
  <2>1. CASE worker' = worker
    BY <1>3, <2>1 DEF RowsFound
  <2>2. ASSUME NEW v \in Workers, worker' = [worker EXCEPT ![v] = IdleWorker]
        PROVE  post.status # "NONE"
    BY <1>3, <2>2 DEF RowsFound, TypeOK, IdleWorker
  <2>3. ASSUME NEW v \in Workers, Load(v) PROVE post.status # "NONE"
    BY <1>3, <2>3, LoadedWorker DEF RowsFound
  <2>4. ASSUME NEW v \in Workers, Flush(v) \/ Call(v) PROVE post.status # "NONE"
    <3>1. worker[v].pc # "idle" /\ \A x \in Workers : x # v => worker'[x] = worker[x]
      BY <2>4, FlushedWorker, RaisedWorker, AnsweredWorker
        DEF Flush, Call, CallFails, PermalinkFails, CallSucceeds
    <3> QED
      BY <3>1 DEF RowsFound
  <2> QED
    BY <2>1, <2>2, <2>3, <2>4
      DEF Next, Begin, FlushDraft, Commit, CommitReview, CommitEdit, CommitSchedule, CommitMove,
          RollBack, AbortSession, TimePasses, TickPublisher, Finish, CommitSuccess,
          CommitFailure, AbortWorker, Lose, vars
<1> QED
  BY <1>1, <1>2, <1>3 DEF RowsFound

\* What Publication sees of the post.
Shown == [p \in {"post"} |-> Public(post)]

LEMMA AttemptImplements ==
  ASSUME TypeOK, Counted, RowsFound, NEW w \in Workers, worker[w].pc # "idle",
         NEW status, post'.status = status, status = "SCHEDULED" => post'.attempts < MaxRetries,
         post'.attempts = worker[w].read.attempts + 1, post'.snapshot = post.snapshot
  PROVE  Promise!Attempt("post", status)
<1>1. Promise!Open("post")
  BY DEF Promise!Open, Public, RowsFound
<1>2. post'.attempts \in 1 .. logged.ok + logged.failed + 1
  BY DEF Counted, TypeOK, Attempt, PostRow
<1>3. Shown' = [Shown EXCEPT !["post"].status = status, !["post"].attempts = post'.attempts]
  BY DEF Shown, Public
<1> QED
  BY <1>1, <1>2, <1>3 DEF Promise!Attempt, Promise!Entries, Shown

LEMMA PublicationStep ==
  ASSUME TypeOK, Counted, PostFound, RowsFound, [Next]_vars
  PROVE  [Promise!Next]_(Promise!vars)
<1>1. CASE /\ post'.status = post.status /\ post'.attempts = post.attempts
           /\ post'.snapshot = post.snapshot
           /\ logged' = logged
  BY <1>1 DEF Promise!vars, Public
<1>2. CASE /\ post.status = "NONE" /\ post'.status = "SCHEDULED" /\ post'.attempts = 0
           /\ logged' = logged /\ post'.snapshot # 0
  <2>1. Promise!Schedule("post")
    BY <1>2 DEF Promise!Schedule, Public
  <2> QED
    BY <2>1 DEF Promise!Next
<1>3. CASE /\ post.status # "NONE" /\ post'.status \in {"SCHEDULED", "UNSCHEDULED"}
           /\ post'.status # post.status
           /\ post'.attempts = post.attempts /\ post'.snapshot = post.snapshot
           /\ logged' = logged
  <2>1. Promise!Move("post")
    BY <1>3 DEF Promise!Move, Promise!Open, Public
  <2> QED
    BY <2>1 DEF Promise!Next
<1>4. ASSUME NEW w \in Workers, CommitSuccess(w), post'.status = "PUBLISHED",
             post'.attempts = worker[w].read.attempts + 1, post'.snapshot = post.snapshot,
             logged' = [logged EXCEPT !.ok = @ + 1]
      PROVE  Promise!Next
  <2>1. Promise!Attempt("post", "PUBLISHED")
    BY <1>4, AttemptImplements DEF CommitSuccess
  <2>2. Promise!Succeed("post")
    BY <1>4, <2>1 DEF Promise!Succeed
  <2> QED
    BY <2>2 DEF Promise!Next
<1>5. ASSUME NEW w \in Workers, CommitFailure(w), post'.status \in {"SCHEDULED", "FAILED"},
             post'.status = "SCHEDULED" => post'.attempts < MaxRetries,
             post'.attempts = worker[w].read.attempts + 1, post'.snapshot = post.snapshot,
             logged' = [logged EXCEPT !.failed = @ + 1]
      PROVE  Promise!Next
  <2>1. PICK status \in {"SCHEDULED", "FAILED"} : status = post'.status
    BY <1>5
  <2>2. Promise!Attempt("post", status)
    BY <1>5, <2>1, AttemptImplements DEF CommitFailure
  <2>3. Promise!Fail("post")
    BY <1>5, <2>1, <2>2 DEF Promise!Fail
  <2> QED
    BY <2>3 DEF Promise!Next
<1> QED
  BY <1>1, <1>2, <1>3, <1>4, <1>5, PostStep DEF PostFound, RowsFound

\* However its transactions overlap, the pipeline implements the promise of
\* Publication.
THEOREM PublicationKeptHolds == Spec => PublicationKept
<1>1. Init => Promise!Init
  BY DEF Init, Promise!Init, Public, NoPost
<1>2. Init => Counted /\ PostFound /\ RowsFound
  BY DEF Init, Counted, PostFound, RowsFound, IdleSession, IdleWorker, NoPost, Moves
<1>3. TypeOK /\ Counted /\ PostFound /\ RowsFound /\ [Next]_vars
        => [Promise!Next]_(Promise!vars)
  BY PublicationStep
<1> QED
  BY <1>1, <1>2, <1>3, TypeCorrect, CountedStep, FoundStep, RowsFoundStep, PTL
    DEF Spec, PublicationKept, Promise!Spec
=============================================================================
