-------------------------- MODULE ContentLifecycle --------------------------
(***************************************************************************)
(* The life of a draft, from the request that creates it to the attempt    *)
(* that publishes it, with every handler as one transaction that commits   *)
(* before the next one on the same rows begins (PublishPipeline lets them  *)
(* overlap).  What is asynchronous stays so: the messages of the           *)
(* generation and publisher queues wait while users keep acting, they are  *)
(* delivered again when a worker is lost before it acknowledges them, and  *)
(* several of them may wait for the same post.                             *)
(***************************************************************************)
EXTENDS ContentRows

CONSTANTS Drafts,        \* ids of the drafts of one workspace
          MaxVersions,   \* bound: ContentVersion rows per draft
          MaxQueued,     \* bound: publish messages waiting per post
          MaxAttempts    \* bound: publish attempts per post

ASSUME BoundsAssumption ==
  /\ MaxVersions \in Nat \ {0}
  /\ MaxQueued \in Nat \ {0}
  /\ MaxAttempts \in Nat \ {0}

VARIABLES
  draft,        \* draft_contents
  versions,     \* number of content_versions rows of each draft; they are
                \* numbered in the order of their insertion
  illustrated,  \* the versions that have an image_url
  approved,     \* version_id of the APPROVED rows of approval_actions
  post,         \* scheduled_posts, at most one per draft
  logged,       \* post_publish_logs: attempts logged as success and as failure
  gen,          \* the run_content_generation message: none, queued or done
  queue,        \* publish_single_post messages waiting for each post
  account,      \* instagram_accounts: none connected yet, active or inactive
  celebration   \* send_first_publish_celebration: none, queued or sent

rows == <<draft, versions, illustrated, approved, post, logged>>
vars == <<rows, gen, queue, account, celebration>>

Init ==
  /\ draft = [d \in Drafts |-> NoDraft]
  /\ versions = [d \in Drafts |-> 0]
  /\ illustrated = [d \in Drafts |-> {}]
  /\ approved = [d \in Drafts |-> {}]
  /\ post = [d \in Drafts |-> NoPost]
  /\ logged = [d \in Drafts |-> [ok |-> 0, failed |-> 0]]
  /\ gen = [d \in Drafts |-> "none"]
  /\ queue = [d \in Drafts |-> 0]
  /\ account = "none"
  /\ celebration = "none"

----------------------------------------------------------------------------
(***************************************************************************)
(* Generation                                                              *)
(***************************************************************************)
\* initiate_generation: the draft shell, its job and the message for it.
InitiateGeneration(d) ==
  /\ draft[d].status = "NONE"
  /\ draft' = [draft EXCEPT ![d] = Moved(@, "DRAFT")]
  /\ gen' = [gen EXCEPT ![d] = "queued"]
  /\ UNCHANGED <<versions, illustrated, approved, post, logged, queue,
                 account, celebration>>

\* A new content_versions row, with or without an image.  The first one is
\* execute_generation's; the edits number theirs from version_count, and the
\* unique index on the draft and the number admits each number once.
InsertVersion(d, image) ==
  /\ versions[d] < MaxVersions
  /\ versions' = [versions EXCEPT ![d] = @ + 1]
  /\ illustrated' =
       [illustrated EXCEPT ![d] = IF image THEN @ \cup {versions[d] + 1} ELSE @]

\* Fault: the number of the version is not fixed, and a message delivered again
\* writes one more.
ExecuteGeneration_Again(d, image, acked) ==
  /\ gen[d] = "queued"
  /\ InsertVersion(d, image)
  /\ draft' = [draft EXCEPT ![d] = AfterGeneration(@, versions[d] + 1)]
  /\ gen' = [gen EXCEPT ![d] = IF acked THEN "done" ELSE @]
  /\ UNCHANGED <<approved, post, logged, queue, account, celebration>>

\* execute_generation and the commit of its task.  The message is delivered
\* again if the worker is lost after the commit (task_acks_late); then version
\* number 1 is taken, and every try fails.
ExecuteGeneration(d, image, acked) ==
  /\ gen[d] = "queued"
  /\ versions[d] = 0
  /\ InsertVersion(d, image)
  /\ draft' = [draft EXCEPT ![d] = AfterGeneration(@, versions[d] + 1)]
  /\ gen' = [gen EXCEPT ![d] = IF acked THEN "done" ELSE @]
  /\ UNCHANGED <<approved, post, logged, queue, account, celebration>>

\* The task has failed and its retries are exhausted: no (other) version is
\* written.
GenerationGivesUp(d) ==
  /\ gen[d] = "queued"
  /\ gen' = [gen EXCEPT ![d] = "done"]
  /\ UNCHANGED <<rows, queue, account, celebration>>

----------------------------------------------------------------------------
(***************************************************************************)
(* Review                                                                  *)
(***************************************************************************)
SubmitForReview(d) ==
  /\ MaySubmit(draft[d])
  /\ draft' = [draft EXCEPT ![d] = Moved(@, "PENDING")]
  /\ UNCHANGED <<versions, illustrated, approved, post, logged, gen, queue,
                 account, celebration>>

Approve(d) ==
  /\ MayApprove(draft[d])
  /\ draft' = [draft EXCEPT ![d] = Moved(@, "APPROVED")]
  /\ approved' = [approved EXCEPT ![d] = @ \cup {draft[d].current}]
  /\ UNCHANGED <<versions, illustrated, post, logged, gen, queue,
                 account, celebration>>

Reject(d) ==
  /\ MayReject(draft[d])
  /\ draft' = [draft EXCEPT ![d] = Moved(@, "REJECTED")]
  /\ UNCHANGED <<versions, illustrated, approved, post, logged, gen, queue,
                 account, celebration>>

\* The new version keeps the image of the current one, or brings its own.
EditContent(d, newImage) ==
  /\ MayEdit(draft[d])
  /\ InsertVersion(d, newImage \/ draft[d].current \in illustrated[d])
  /\ draft' = [draft EXCEPT ![d] = AfterEdit(@, versions[d] + 1)]
  /\ UNCHANGED <<approved, post, logged, gen, queue, account, celebration>>

----------------------------------------------------------------------------
(***************************************************************************)
(* Scheduling                                                              *)
(***************************************************************************)
ConnectAccount ==
  /\ account' = "active"
  /\ UNCHANGED <<rows, gen, queue, celebration>>

\* Fault: a disconnection takes the posts of the account off the schedule.
DisconnectAccount_Cascade ==
  /\ account # "none"
  /\ account' = "inactive"
  /\ post' = [d \in Drafts |-> IF post[d].status = "SCHEDULED" THEN AfterUnschedule(post[d])
                                                            ELSE post[d]]
  /\ UNCHANGED <<draft, versions, illustrated, approved, logged, gen, queue, celebration>>

DisconnectAccount ==
  /\ account # "none"
  /\ account' = "inactive"
  /\ UNCHANGED <<rows, gen, queue, celebration>>

\* The INSERT is refused, and the transaction with it, when the draft
\* already has a post (IntegrityError).
SchedulePost(d, due) ==
  /\ MaySchedule(draft[d], post[d], illustrated[d], account)
  /\ UniqueDraft(post[d])
  /\ post' = [post EXCEPT ![d] = ScheduledRow(draft[d].current, due)]
  /\ draft' = [draft EXCEPT ![d] = Moved(@, "SCHEDULED")]
  /\ UNCHANGED <<versions, illustrated, approved, logged, gen, queue,
                 account, celebration>>

UnschedulePost(d) ==
  /\ MayUnschedule(post[d])
  /\ post' = [post EXCEPT ![d] = AfterUnschedule(@)]
  /\ draft' = [draft EXCEPT ![d] = Moved(@, "APPROVED")]
  /\ UNCHANGED <<versions, illustrated, approved, logged, gen, queue,
                 account, celebration>>

ReschedulePost(d, due) ==
  /\ MayReschedule(post[d])
  /\ post' = [post EXCEPT ![d] = AfterReschedule(@, due)]
  /\ draft' = [draft EXCEPT ![d] = Moved(@, "SCHEDULED")]
  /\ UNCHANGED <<versions, illustrated, approved, logged, gen, queue,
                 account, celebration>>

\* The clock reaches scheduled_at less one tick, or next_retry_at.
TimePasses(d) ==
  /\ \/ ~post[d].due /\ post' = [post EXCEPT ![d].due = TRUE]
     \/ post[d].waiting /\ post' = [post EXCEPT ![d].waiting = FALSE]
  /\ post[d].status # "NONE"
  /\ UNCHANGED <<draft, versions, illustrated, approved, logged, gen, queue,
                 account, celebration>>

----------------------------------------------------------------------------
(***************************************************************************)
(* Publishing                                                              *)
(***************************************************************************)
\* tick_publisher sends a message for every due post, whether or not one is
\* already waiting.
TickPublisher ==
  /\ queue' = [d \in Drafts |-> IF IsDue(post[d]) /\ queue[d] < MaxQueued
                                  THEN queue[d] + 1 ELSE queue[d]]
  /\ UNCHANGED <<rows, gen, account, celebration>>

\* The worker takes the message; it comes back if the worker is lost between
\* the commit and the acknowledgement.
\* Fault: a message is consumed without one being there.
Deliver_Unguarded(d, acked) ==
  queue' = [queue EXCEPT ![d] = IF acked THEN @ - 1 ELSE @]

Deliver(d, acked) ==
  /\ queue[d] > 0
  /\ queue' = [queue EXCEPT ![d] = IF acked THEN @ - 1 ELSE @]

\* publish() of a post that is published already.
SkipPublish(d) ==
  /\ ~MayPublish(post[d])
  /\ Deliver(d, TRUE)
  /\ UNCHANGED <<rows, gen, account, celebration>>

\* The count that decides the celebration is read before the new status is
\* flushed, so the draft being published is not in it.
OnePublished == \E e \in Drafts : \A f \in Drafts :
                   draft[f].status = "PUBLISHED" <=> f = e

PublishSucceeds(d, acked) ==
  /\ Deliver(d, acked)
  /\ MayPublish(post[d])
  /\ post[d].attempts < MaxAttempts
  /\ post' = [post EXCEPT ![d] = AfterSuccess(InFlight(@))]
  /\ draft' = [draft EXCEPT ![d] = Moved(@, "PUBLISHED")]
  /\ logged' = [logged EXCEPT ![d].ok = @ + 1]
  /\ celebration' = IF OnePublished THEN "queued" ELSE celebration
  /\ UNCHANGED <<versions, illustrated, approved, gen, account>>

PublishFails(d, fatal, acked) ==
  /\ Deliver(d, acked)
  /\ MayPublish(post[d])
  /\ post[d].attempts < MaxAttempts
  /\ post' = [post EXCEPT ![d] = AfterFailure(InFlight(@), fatal)]
  /\ draft' = IF WillRetry(InFlight(post[d]), fatal)
                THEN draft
                ELSE [draft EXCEPT ![d] = Moved(@, "FAILED")]
  /\ logged' = [logged EXCEPT ![d].failed = @ + 1]
  /\ UNCHANGED <<versions, illustrated, approved, gen, account, celebration>>

\* The task counts again, now with every committed draft.
CelebrateFirstPublish ==
  /\ celebration = "queued"
  /\ celebration' = IF OnePublished THEN "sent" ELSE "none"
  /\ UNCHANGED <<rows, gen, queue, account>>

----------------------------------------------------------------------------
Generation(d) ==
  \/ InitiateGeneration(d)
  \/ \E image, acked \in BOOLEAN : ExecuteGeneration(d, image, acked)
  \/ GenerationGivesUp(d)

Review(d) ==
  \/ SubmitForReview(d)
  \/ Approve(d)
  \/ Reject(d)
  \/ \E newImage \in BOOLEAN : EditContent(d, newImage)

Scheduling(d) ==
  \/ \E due \in BOOLEAN : SchedulePost(d, due)
  \/ UnschedulePost(d)
  \/ \E due \in BOOLEAN : ReschedulePost(d, due)
  \/ TimePasses(d)

Publishing(d) ==
  \/ SkipPublish(d)
  \/ \E acked \in BOOLEAN : PublishSucceeds(d, acked)
  \/ \E fatal, acked \in BOOLEAN : PublishFails(d, fatal, acked)

Next ==
  \/ \E d \in Drafts : Generation(d) \/ Review(d) \/ Scheduling(d) \/ Publishing(d)
  \/ ConnectAccount
  \/ DisconnectAccount
  \/ TickPublisher
  \/ CelebrateFirstPublish

Spec == Init /\ [][Next]_vars

\* The beat sends its ticks, the workers run: what the deployment promises.
Fairness ==
  /\ WF_vars(TickPublisher)
  /\ WF_vars(CelebrateFirstPublish)
  /\ \A d \in Drafts :
       /\ WF_vars(TimePasses(d))
       /\ WF_vars(Publishing(d))

FairSpec == Spec /\ Fairness

----------------------------------------------------------------------------
(***************************************************************************)
(* Properties                                                              *)
(***************************************************************************)
\* Every variable has its type, the rows those of their tables.
TypeOK ==
  /\ draft \in [Drafts -> DraftRow]
  /\ versions \in [Drafts -> Nat]
  /\ illustrated \in [Drafts -> SUBSET Nat]
  /\ approved \in [Drafts -> SUBSET Nat]
  /\ post \in [Drafts -> PostRow]
  /\ logged \in [Drafts -> [ok : Nat, failed : Nat]]
  /\ gen \in [Drafts -> {"none", "queued", "done"}]
  /\ queue \in [Drafts -> Nat]
  /\ account \in {"none", "active", "inactive"}
  /\ celebration \in {"none", "queued", "sent"}

\* Draft and post tell one story.  They are two rows that six handlers of two
\* services update, and no constraint of the database relates their statuses.
\* The weak places are deliberate: a post put back to SCHEDULED by the retry of
\* an unscheduled or failed post leaves its draft behind.
Coupled(d) ==
  LET s == draft[d].status
      p == post[d].status
  IN  /\ p = "NONE" => s \in {"NONE", "DRAFT", "PENDING", "APPROVED", "REJECTED"}
      /\ p = "PUBLISHED" <=> s = "PUBLISHED"
      /\ p = "FAILED" => s = "FAILED"
      /\ p = "UNSCHEDULED" => s \in {"APPROVED", "PENDING", "REJECTED"}
      /\ s \in {"NONE", "DRAFT"} => p = "NONE"
      /\ s = "SCHEDULED" => p = "SCHEDULED"
      /\ s = "FAILED" => p \in {"FAILED", "SCHEDULED"}
      /\ p \notin {"PUBLISHING", "CANCELLED"}

Coupling == \A d \in Drafts : Coupled(d)

\* Every attempt that counts is logged once, a success is logged exactly when
\* the post is PUBLISHED, and a message waits only for a post that exists:
\* redelivered messages and ticks over a waiting message change none of it.
Accounted(d) ==
  /\ post[d].attempts = logged[d].ok + logged[d].failed
  /\ logged[d].ok = (IF post[d].status = "PUBLISHED" THEN 1 ELSE 0)
  /\ post[d].status = "NONE" => post[d].attempts = 0 /\ queue[d] = 0

LogAccounting == \A d \in Drafts : Accounted(d)

\* What a post will publish is a version of its draft that has an image, even
\* after edits and regenerations that have none; the version the draft points
\* to and the versions the reviewers approved exist.
Sound(d) ==
  /\ illustrated[d] \subseteq 1 .. versions[d]
  /\ approved[d] \subseteq 0 .. versions[d]
  /\ draft[d].current \in 0 .. versions[d]
  /\ post[d].status # "NONE" => post[d].snapshot \in illustrated[d]

SnapshotSound == \A d \in Drafts : Sound(d)

\* A published post is final: no handler, late message or redelivery moves the
\* post or its draft, counts another attempt or changes the content.
PublishedIsFinal ==
  [][\A d \in Drafts : post[d].status = "PUBLISHED" =>
       /\ post'[d].status = "PUBLISHED"
       /\ post'[d].snapshot = post[d].snapshot
       /\ post'[d].attempts = post[d].attempts
       /\ draft'[d].status = "PUBLISHED"]_vars

\* While a draft stays APPROVED, the content it stands for stays the same: an
\* edit takes the approval back, and a generation whose message is delivered
\* again after its commit does not put a second version in place of the first.
ApprovedContentKept ==
  [][\A d \in Drafts :
       draft[d].status = "APPROVED" /\ draft'[d].status = "APPROVED" /\ draft[d].current # 0
         => draft'[d].current = draft[d].current]_vars

\* A user takes post d off the schedule, or a failed one back to it.
UserMoves(d) ==
  /\ \/ post'[d].status = "UNSCHEDULED" /\ draft'[d].status = "APPROVED"
     \/ /\ post[d].status = "FAILED"
        /\ post'[d].status = "SCHEDULED" /\ draft'[d].status = "SCHEDULED"
  /\ post'[d].attempts = post[d].attempts
  /\ logged'[d] = logged[d]

\* A message for post d that was waiting makes an attempt.
LateAttempt(d) ==
  /\ queue[d] > 0
  /\ post'[d].attempts = post[d].attempts + 1
  /\ \/ /\ post'[d].status = "PUBLISHED" /\ draft'[d].status = "PUBLISHED"
        /\ logged'[d] = [logged[d] EXCEPT !.ok = @ + 1]
     \/ /\ \/ post'[d].status = "FAILED" /\ draft'[d].status = "FAILED"
           \/ /\ post'[d].status = "SCHEDULED" /\ draft'[d] = draft[d]
              /\ post'[d].attempts < MaxRetries
        /\ logged'[d] = [logged[d] EXCEPT !.failed = @ + 1]

\* A post that is off the schedule, FAILED or UNSCHEDULED, is sent no message by
\* any step, and stays as it is until a user moves it, its draft with it, or one
\* of the messages sent before makes an attempt.  That attempt counts and is
\* logged, and puts the post back on the schedule only while retries remain: a
\* post whose retries are used up comes back by its user alone.
OffScheduleKept ==
  [][\A d \in Drafts : post[d].status \in {"FAILED", "UNSCHEDULED"} =>
       /\ queue'[d] <= queue[d]
       /\ Public(post'[d]) = Public(post[d]) \/ UserMoves(d) \/ LateAttempt(d)]_vars

\* The lifecycle implements Publication: whatever the drafts share, each step
\* changes one post at most, its content never, and nothing else than users and
\* logged attempts changes its status.  No post leaves PUBLISHED.
Promise == INSTANCE Publication WITH
  Posts   <- Drafts,
  Settled <- {"PUBLISHED"},
  posts   <- [d \in Drafts |-> Public(post[d])]

PublicationKept == Promise!Spec

----------------------------------------------------------------------------
(***************************************************************************)
(* What the documentation says and the code does not do                    *)
(***************************************************************************)
\* models/scheduler.py:101, "Represents a single approved post queued for
\* publication": the version that is published was approved.
PublishedWasApproved ==
  \A d \in Drafts : post[d].status = "PUBLISHED" => post[d].snapshot \in approved[d]

\* scheduler.py:67, "This post is already scheduled. Unschedule it first.":
\* once it is unscheduled, a ready draft can be scheduled again.
UnscheduledCanBeScheduled ==
  \A d \in Drafts :
    (post[d].status = "UNSCHEDULED"
       /\ MaySchedule(draft[d], post[d], illustrated[d], account))
    => ENABLED SchedulePost(d, FALSE)

\* scheduler.py:114, "Cancel a scheduled post.": a post that was pulled back is
\* not published.
UnscheduledIsCancelled ==
  [][\A d \in Drafts :
       post[d].status = "UNSCHEDULED" => post'[d].status # "PUBLISHED"]_vars

\* onboarding_tasks.py:120, "Triggered by publisher after first successful
\* post.": the first published draft is celebrated.
FirstPublishCelebrated ==
  (\E d \in Drafts : draft[d].status = "PUBLISHED") ~> celebration = "sent"
=============================================================================
