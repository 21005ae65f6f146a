-------------------------- MODULE PublishPipeline --------------------------
(***************************************************************************)
(* One draft and its post while transactions overlap: the sessions of the  *)
(* API, each from the rows it has read to the columns it writes, and the   *)
(* publisher's workers, each from the message it takes, over the calls to  *)
(* Instagram, to the commit of its session or the loss of the worker.      *)
(*                                                                         *)
(* Transactions are READ COMMITTED and lock no row they read.  A session   *)
(* writes the columns it has changed, whatever they hold by then, and      *)
(* keeps the lock of a row from the flush that writes it to the commit.    *)
(***************************************************************************)
EXTENDS ContentRows, FiniteSets

CONSTANTS Workers,     \* publisher processes (docker-compose: concurrency 2)
          Sessions,    \* API sessions open at a time
          MaxOps,      \* bound: transactions of the API
          MaxQueued,   \* bound: publish messages waiting
          MaxLosses,   \* bound: attempts that end with the loss of the worker
          MaxAborts    \* bound: attempts that a deadlock aborts

ASSUME BoundsAssumption ==
  /\ IsFiniteSet(Workers)
  /\ MaxOps \in Nat
  /\ MaxQueued \in Nat \ {0}
  /\ MaxLosses \in Nat
  /\ MaxAborts \in Nat

VARIABLES
  draft, post,   \* the committed rows
  versions,      \* number of content_versions rows
  approved,      \* version_id of the APPROVED rows of approval_actions
  logged,        \* post_publish_logs: attempts logged as success and as failure
  recorded,      \* ig_media_id of the post, 0 for NULL
  live,          \* media that exist on Instagram, numbered as they appear
  queue,         \* publish_single_post messages waiting
  worker,        \* the state of each publisher process
  session,       \* the state of each API session
  ops,           \* API transactions begun
  losses,        \* attempts that ended with the loss of the worker
  aborts         \* attempts that a deadlock has aborted

db   == <<draft, post, versions, approved, logged, recorded>>
vars == <<db, live, queue, worker, session, ops, losses, aborts>>

Reviews == {"submit", "approve", "reject"}
Moves   == {"unschedule", "reschedule"}       \* they load and change the post
Ops     == Reviews \cup Moves \cup {"edit", "schedule"}

\* count: version_count as a session has read it.
IdleSession == [pc |-> "idle", op |-> "submit", draft |-> NoDraft, post |-> NoPost,
                count |-> 0, due |-> FALSE]

\* read: the post as loaded; seen: the draft as loaded for the last update;
\* tries: calls to publish_image_post that have failed; media: the id it returned.
IdleWorker == [pc |-> "idle", read |-> NoPost, seen |-> NoDraft, tries |-> 0,
               media |-> 0, fatal |-> FALSE]

Init ==
  /\ draft = [status |-> "APPROVED", current |-> 1]
  /\ post = NoPost
  /\ versions = 1
  /\ approved = {1}
  /\ logged = [ok |-> 0, failed |-> 0]
  /\ recorded = 0
  /\ live = 0
  /\ queue = 0
  /\ worker = [w \in Workers |-> IdleWorker]
  /\ session = [u \in Sessions |-> IdleSession]
  /\ ops = 0 /\ losses = 0 /\ aborts = 0

----------------------------------------------------------------------------
(***************************************************************************)
(* Rows and locks                                                          *)
(***************************************************************************)
\* A flush writes the columns in which new differs from the row as read.
Merge(row, read, new) ==
  [c \in DOMAIN row |-> IF new[c] = read[c] THEN row[c] ELSE new[c]]

\* What a row that was read remembers: due is the clock's, not a column's.
Columns(p) == [p EXCEPT !.due = FALSE]

\* A worker holds the lock of the post from the flush of PUBLISHING on.
Publishes(w) == worker[w].pc \in {"calling", "answered", "failed"}

PostFree  == \A w \in Workers : ~Publishes(w)
DraftFree == \A u \in Sessions : session[u].pc # "holding"

----------------------------------------------------------------------------
(***************************************************************************)
(* API sessions                                                            *)
(***************************************************************************)
May(op) ==
  CASE op = "submit"     -> MaySubmit(draft)
    [] op = "approve"    -> MayApprove(draft)
    [] op = "reject"     -> MayReject(draft)
    [] op = "edit"       -> MayEdit(draft)
    [] op = "schedule"   -> MaySchedule(draft, post, 1 .. versions, "active")
    [] op = "unschedule" -> MayUnschedule(post)
    [] op = "reschedule" -> MayReschedule(post)

\* The handler reads its rows and passes its checks; due is what the time in
\* the request, if it has one, means for the post.
Begin(u, op, due) ==
  /\ session[u].pc = "idle"
  /\ ops < MaxOps
  /\ May(op)
  /\ due => op \in {"schedule", "reschedule"}
  /\ session' = [session EXCEPT ![u] =
                   [pc |-> "open", op |-> op, draft |-> draft,
                    post |-> IF op \in Moves THEN Columns(post) ELSE NoPost,
                    count |-> versions, due |-> due]]
  /\ ops' = ops + 1
  /\ UNCHANGED <<db, live, queue, worker, losses, aborts>>

Close(u) == session' = [session EXCEPT ![u] = IdleSession]

Target == [submit |-> "PENDING", approve |-> "APPROVED", reject |-> "REJECTED",
           schedule |-> "SCHEDULED", unschedule |-> "APPROVED", reschedule |-> "SCHEDULED"]

\* Fault: the session writes every column of the draft as it has read it.
MovedDraft_WholeRow(u) == Moved(session[u].draft, Target[session[u].op])

\* The draft after the session u of any operation but an edit.
MovedDraft(u) ==
  LET s == session[u] IN Merge(draft, s.draft, Moved(s.draft, Target[s.op]))

CommitReview(u) ==
  /\ session[u].pc = "open" /\ session[u].op \in Reviews
  /\ DraftFree
  /\ draft' = MovedDraft(u)
  /\ approved' = IF session[u].op = "approve"
                   THEN approved \cup {session[u].draft.current} ELSE approved
  /\ Close(u)
  /\ UNCHANGED <<post, versions, logged, recorded, live, queue, worker, ops, losses, aborts>>

\* The unique index on the number of a version refuses the second INSERT of
\* two edits that have read the same version_count.
CommitEdit(u) ==
  /\ session[u].pc = "open" /\ session[u].op = "edit"
  /\ DraftFree
  /\ IF session[u].count = versions
       THEN /\ versions' = versions + 1
            /\ draft' = Merge(draft, session[u].draft, AfterEdit(session[u].draft, versions + 1))
       ELSE UNCHANGED <<versions, draft>>
  /\ Close(u)
  /\ UNCHANGED <<post, approved, logged, recorded, live, queue, worker, ops, losses, aborts>>

\* The unique constraint refuses the second INSERT of two.
CommitSchedule(u) ==
  /\ session[u].pc = "open" /\ session[u].op = "schedule"
  /\ DraftFree
  /\ IF UniqueDraft(post)
       THEN /\ post' = ScheduledRow(session[u].draft.current, session[u].due)
            /\ draft' = MovedDraft(u)
       ELSE UNCHANGED <<post, draft>>
  /\ Close(u)
  /\ UNCHANGED <<versions, approved, logged, recorded, live, queue, worker, ops, losses, aborts>>

\* unschedule and reschedule flush the draft before the post.  An unschedule
\* that finds nothing to change takes no lock and commits what it has read.
FlushDraft(u) ==
  /\ session[u].pc = "open" /\ session[u].op \in Moves
  /\ DraftFree
  /\ session' = [session EXCEPT ![u].pc = "holding"]
  /\ UNCHANGED <<db, live, queue, worker, ops, losses, aborts>>

\* Unscheduling an unscheduled post changes none of its columns; a reschedule
\* always has a scheduled_at to write.
WritesPost(u) ==
  session[u].op = "reschedule" \/ session[u].post.status # "UNSCHEDULED"

\* Fault: the session writes every column of the post as it has read it.
MovedPost_WholeRow(u) ==
  LET s == session[u] IN
    IF s.op = "unschedule" THEN AfterUnschedule(s.post) ELSE AfterReschedule(s.post, s.due)

MovedPost(u) ==
  LET s == session[u] IN
    IF s.op = "unschedule"
      THEN Merge(post, s.post, AfterUnschedule(s.post))
      ELSE [Merge(post, s.post, AfterReschedule(s.post, s.due)) EXCEPT !.due = s.due]

CommitMove(u) ==
  /\ session[u].pc = "holding" /\ session[u].op \in Moves
  /\ WritesPost(u) => PostFree
  /\ post' = MovedPost(u)
  /\ draft' = MovedDraft(u)
  /\ Close(u)
  /\ UNCHANGED <<versions, approved, logged, recorded, live, queue, worker, ops, losses, aborts>>

\* The handler raises after its checks, and get_db rolls back.
RollBack(u) ==
  /\ session[u].pc # "idle"
  /\ Close(u)
  /\ UNCHANGED <<db, live, queue, worker, ops, losses, aborts>>

----------------------------------------------------------------------------
(***************************************************************************)
(* The clock and the beat                                                  *)
(***************************************************************************)
\* scheduled_at is no more than a tick away.
TimePasses ==
  /\ post.status # "NONE" /\ ~post.due
  /\ post' = [post EXCEPT !.due = TRUE]
  /\ UNCHANGED <<draft, versions, approved, logged, recorded, live, queue, worker,
                 session, ops, losses, aborts>>

TickPublisher ==
  /\ queue' = IF IsDue(post) /\ queue < MaxQueued THEN queue + 1 ELSE queue
  /\ UNCHANGED <<db, live, worker, session, ops, losses, aborts>>

----------------------------------------------------------------------------
(***************************************************************************)
(* Publisher workers                                                       *)
(***************************************************************************)
\* Fault: a message is taken that nobody has sent.
Load_Unsent(w) ==
  /\ worker[w].pc = "idle"
  /\ queue' = queue - 1
  /\ worker' = [worker EXCEPT ![w] = IF MayPublish(post)
                                       THEN [@ EXCEPT !.pc = "loaded", !.read = Columns(post)]
                                       ELSE @]
  /\ UNCHANGED <<db, live, session, ops, losses, aborts>>

\* publish() loads the post, and is done when it is published.
Load(w) ==
  /\ worker[w].pc = "idle"
  /\ queue > 0
  /\ queue' = queue - 1
  /\ worker' = [worker EXCEPT ![w] = IF MayPublish(post)
                                       THEN [@ EXCEPT !.pc = "loaded", !.read = Columns(post)]
                                       ELSE @]
  /\ UNCHANGED <<db, live, session, ops, losses, aborts>>

\* Fault: PUBLISHING is not flushed, and no row locked, before the call.
Flush_Unlocked(w) ==
  /\ worker[w].pc = "loaded"
  /\ worker' = [worker EXCEPT ![w].pc = "calling"]
  /\ UNCHANGED <<db, live, queue, session, ops, losses, aborts>>

\* Fault: PUBLISHING is committed before the call.
Flush_Committed(w) ==
  /\ worker[w].pc = "loaded"
  /\ PostFree
  /\ worker' = [worker EXCEPT ![w].pc = "calling"]
  /\ post' = Merge(post, worker[w].read, InFlight(worker[w].read))
  /\ UNCHANGED <<draft, versions, approved, logged, recorded, live, queue, session,
                 ops, losses, aborts>>

\* PUBLISHING and the new attempt_count are flushed, visible to nobody else.
Flush(w) ==
  /\ worker[w].pc = "loaded"
  /\ PostFree
  /\ worker' = [worker EXCEPT ![w].pc = "calling"]
  /\ UNCHANGED <<db, live, queue, session, ops, losses, aborts>>

\* Fault: the tries start again when they are used up.
Raised_WithoutEnd(w, fatal) ==
  worker' = [worker EXCEPT ![w].tries = (@ + 1) % MaxRetries]

\* One try of publish_image_post has raised: it is tried again, unless the
\* exception is not one that is, or the tries are used up.  A token that has
\* expired is tried like any other error before it is fatal.
Raised(w, fatal) ==
  LET tries == worker[w].tries + 1 IN
    \/ /\ tries < MaxRetries
       /\ ~fatal
       /\ worker' = [worker EXCEPT ![w].tries = tries]
    \/ /\ fatal => tries = MaxRetries
       /\ worker' = [worker EXCEPT ![w].pc = "failed", ![w].fatal = fatal, ![w].seen = draft]

CallFails(w, fatal) ==
  /\ worker[w].pc = "calling"
  /\ Raised(w, fatal)
  /\ UNCHANGED <<db, live, queue, session, ops, losses, aborts>>

\* media_publish has returned, the request for the permalink raises.
PermalinkFails(w, fatal) ==
  /\ worker[w].pc = "calling"
  /\ live' = live + 1
  /\ Raised(w, fatal)
  /\ UNCHANGED <<db, queue, session, ops, losses, aborts>>

\* Fault: the id of the container passes for that of the medium.
CallSucceeds_Container(w) ==
  /\ worker[w].pc = "calling"
  /\ worker' = [worker EXCEPT ![w].pc = "answered", ![w].media = live + 1, ![w].seen = draft]
  /\ UNCHANGED <<db, live, queue, session, ops, losses, aborts>>

CallSucceeds(w) ==
  /\ worker[w].pc = "calling"
  /\ live' = live + 1
  /\ worker' = [worker EXCEPT ![w].pc = "answered", ![w].media = live + 1, ![w].seen = draft]
  /\ UNCHANGED <<db, queue, session, ops, losses, aborts>>

\* The row the worker w leaves, from the one it has flushed.
Attempted(w, final) ==
  LET flushed == Merge(post, worker[w].read, InFlight(worker[w].read))
  IN  Merge(flushed, InFlight(worker[w].read), final)

FinalDraft(w) ==
  LET seen == worker[w].seen IN
    IF worker[w].pc = "answered" THEN Moved(seen, "PUBLISHED")
    ELSE IF WillRetry(InFlight(worker[w].read), worker[w].fatal) THEN seen
    ELSE Moved(seen, "FAILED")

\* A success always has a published_at to write.
WritesDraft(w) == worker[w].pc = "answered" \/ FinalDraft(w) # worker[w].seen

CommitSuccess(w) ==
  /\ worker[w].pc = "answered"
  /\ WritesDraft(w) => DraftFree
  /\ post' = Attempted(w, AfterSuccess(InFlight(worker[w].read)))
  /\ recorded' = worker[w].media
  /\ draft' = Merge(draft, worker[w].seen, FinalDraft(w))
  /\ logged' = [logged EXCEPT !.ok = @ + 1]
  /\ worker' = [worker EXCEPT ![w] = IdleWorker]
  /\ UNCHANGED <<versions, approved, live, queue, session, ops, losses, aborts>>

\* Fault: the log entry of the failure is forgotten.
CommitFailure_Unlogged(w) ==
  /\ worker[w].pc = "failed"
  /\ WritesDraft(w) => DraftFree
  /\ post' = Attempted(w, AfterFailure(InFlight(worker[w].read), worker[w].fatal))
  /\ draft' = Merge(draft, worker[w].seen, FinalDraft(w))
  /\ worker' = [worker EXCEPT ![w] = IdleWorker]
  /\ UNCHANGED <<versions, approved, logged, recorded, live, queue, session,
                 ops, losses, aborts>>

CommitFailure(w) ==
  /\ worker[w].pc = "failed"
  /\ WritesDraft(w) => DraftFree
  /\ post' = Attempted(w, AfterFailure(InFlight(worker[w].read), worker[w].fatal))
  /\ draft' = Merge(draft, worker[w].seen, FinalDraft(w))
  /\ logged' = [logged EXCEPT !.failed = @ + 1]
  /\ worker' = [worker EXCEPT ![w] = IdleWorker]
  /\ UNCHANGED <<versions, approved, recorded, live, queue, session, ops, losses, aborts>>

\* The worker dies, and its message is delivered again, or is killed at the
\* hard time limit, and the message counts as done.  The session rolls back.
Lose(w, requeued) ==
  /\ worker[w].pc # "idle"
  /\ losses < MaxLosses
  /\ losses' = losses + 1
  /\ queue' = IF requeued THEN queue + 1 ELSE queue
  /\ worker' = [worker EXCEPT ![w] = IdleWorker]
  /\ UNCHANGED <<db, live, session, ops, aborts>>

----------------------------------------------------------------------------
\* A session that holds the draft waits for the post, the worker that holds
\* the post waits for the draft: the database aborts one of the two.  publish()
\* does not survive its own abort: the handler of the error works on the
\* session that was rolled back, and raises.
Deadlocked(u, w) ==
  /\ session[u].pc = "holding" /\ WritesPost(u)
  /\ worker[w].pc \in {"answered", "failed"} /\ WritesDraft(w)

AbortSession(u) ==
  /\ \E w \in Workers : Deadlocked(u, w)
  /\ Close(u)
  /\ UNCHANGED <<db, live, queue, worker, ops, losses, aborts>>

AbortWorker(w) ==
  /\ \E u \in Sessions : Deadlocked(u, w)
  /\ aborts < MaxAborts
  /\ aborts' = aborts + 1
  /\ worker' = [worker EXCEPT ![w] = IdleWorker]
  /\ UNCHANGED <<db, live, queue, session, ops, losses>>

----------------------------------------------------------------------------
Commit(u) == CommitReview(u) \/ CommitEdit(u) \/ CommitSchedule(u) \/ CommitMove(u)

Call(w) ==
  \/ CallSucceeds(w)
  \/ \E fatal \in BOOLEAN : CallFails(w, fatal) \/ PermalinkFails(w, fatal)

Finish(w) == CommitSuccess(w) \/ CommitFailure(w)

Next ==
  \/ \E u \in Sessions :
       \/ \E op \in Ops, due \in BOOLEAN : Begin(u, op, due)
       \/ FlushDraft(u)
       \/ Commit(u)
       \/ RollBack(u)
       \/ AbortSession(u)
  \/ TimePasses
  \/ TickPublisher
  \/ \E w \in Workers :
       \/ Load(w) \/ Flush(w) \/ Call(w) \/ Finish(w) \/ AbortWorker(w)
       \/ \E requeued \in BOOLEAN : Lose(w, requeued)

Spec == Init /\ [][Next]_vars

\* The beat ticks and the workers run; sessions end; a lock that is free again
\* and again is granted in the end (the database queues the waiters), and a
\* deadlock is broken.
Fairness ==
  /\ WF_vars(TimePasses)
  /\ WF_vars(TickPublisher)
  /\ \A w \in Workers :
       /\ SF_vars(Load(w)) /\ SF_vars(Flush(w)) /\ WF_vars(Call(w)) /\ SF_vars(Finish(w))
  /\ \A u \in Sessions :
       SF_vars(FlushDraft(u)) /\ SF_vars(Commit(u)) /\ WF_vars(AbortSession(u))

FairSpec == Spec /\ Fairness

----------------------------------------------------------------------------
(***************************************************************************)
(* Properties                                                              *)
(***************************************************************************)
Attempt == [pc : {"idle", "loaded", "calling", "answered", "failed"}, read : PostRow,
            seen : DraftRow, tries : Nat, media : Nat, fatal : BOOLEAN]

Request == [pc : {"idle", "open", "holding"}, op : Ops, draft : DraftRow, post : PostRow,
            count : Nat, due : BOOLEAN]

\* Every variable has its type, the rows those of their tables.
TypeOK ==
  /\ draft \in DraftRow
  /\ post \in PostRow
  /\ versions \in Nat
  /\ approved \in SUBSET Nat
  /\ logged \in [ok : Nat, failed : Nat]
  /\ recorded \in Nat /\ live \in Nat /\ queue \in Nat
  /\ ops \in Nat /\ losses \in Nat /\ aborts \in Nat
  /\ worker \in [Workers -> Attempt]
  /\ session \in [Sessions -> Request]

\* Two workers never call Instagram for the same post at the same time: a
\* message that is delivered twice is attempted twice, one after the other.
CallsExclusive == \A v, w \in Workers : Publishes(v) /\ Publishes(w) => v = w

\* PUBLISHING is never committed: a post whose worker is lost is found as it
\* was before the attempt, and never stuck in a status that every guard refuses.
NeverStuck == post.status \notin {"PUBLISHING", "CANCELLED"}

\* What the rows claim is real, however stale the row a session wrote from:
\* there is a medium on Instagram for every success logged or about to be, the
\* post keeps the id of the last one, and no draft or post is PUBLISHED without
\* one, FAILED without a failure logged or, for a draft, SCHEDULED without a post.
StatusesBacked ==
  /\ logged.ok <= recorded
  /\ logged.ok > 0 <=> recorded > 0
  /\ recorded <= live
  /\ \A w \in Workers : worker[w].pc = "answered" => worker[w].media \in recorded + 1 .. live
  /\ "PUBLISHED" \in {post.status, draft.status} => recorded > 0
  /\ "FAILED" \in {post.status, draft.status} => logged.failed > 0
  /\ draft.status = "SCHEDULED" => post.status # "NONE"

\* Attempts begun: logged, cut short by the loss of the worker or a deadlock, or
\* under way.
Attempts == logged.ok + logged.failed + losses + aborts + (IF PostFree THEN 0 ELSE 1)

\* Every attempt that the post counts has its log entry; stale reads may make
\* the count fall behind the log, and never ahead of it.  And no medium comes
\* from nowhere: an attempt leaves one for each of its tries at the most,
\* although the call that published may raise and be tried again.
AttemptsLogged ==
  /\ post.attempts <= logged.ok + logged.failed
  /\ \A w \in Workers : worker[w].read.attempts <= logged.ok + logged.failed
  /\ live <= MaxRetries * Attempts

\* No edit is lost: the draft points to the newest version, whatever version
\* the sessions had read that have written its status since.
NoLostEdit == draft.current = versions

\* A post that is due is settled or moved to a later time: retries end, in
\* PUBLISHED or FAILED, although a lost worker leaves no trace of its attempt
\* and a deadlock undoes one.
DuePostSettles ==
  IsDue(post) ~> \/ post.status \in {"PUBLISHED", "FAILED", "UNSCHEDULED"}
                 \/ ~post.due

\* No session waits for ever for a worker that waits for it.
SessionsEnd == \A u \in Sessions : session[u].pc # "idle" ~> session[u].pc = "idle"

\* However transactions overlap, they implement Publication: a stale row takes
\* neither the content nor the attempts of the post back, and is written only
\* by a user's move or with an entry in the log.  But a post may leave PUBLISHED.
Promise == INSTANCE Publication WITH
  Posts   <- {"post"},
  Settled <- {},
  posts   <- [p \in {"post"} |-> Public(post)],
  logged  <- [p \in {"post"} |-> logged]

PublicationKept == Promise!Spec

----------------------------------------------------------------------------
(***************************************************************************)
(* What the documentation says and the code does not do                    *)
(***************************************************************************)
\* scheduler_tasks.py:71, "Idempotent - safe to call multiple times; service
\* guards against double-publish.": the post succeeds once.
PublishedOnce == logged.ok <= 1
=============================================================================
