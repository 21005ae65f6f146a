---------------------------- MODULE ContentRows ----------------------------
(***************************************************************************)
(* The rows of draft_contents and scheduled_posts, and what every handler  *)
(* of ApprovalService, SchedulerService, ContentGenerationService and      *)
(* PostPublisherService requires of the rows it has read and does to them. *)
(*                                                                         *)
(* A handler is a pair: May...(r) is the condition under which it does not *)
(* raise, and After...(r) the row it leaves behind.  ContentLifecycle      *)
(* applies the pair in one step; PublishPipeline evaluates the condition   *)
(* when the session reads and writes the changed columns when it commits.  *)
(***************************************************************************)
EXTENDS Naturals

CONSTANT MaxRetries    \* settings.PUBLISHER_MAX_RETRIES

ASSUME MaxRetriesAssumption == MaxRetries \in Nat \ {0}

(***************************************************************************)
(* Rows.  "NONE" stands for the row that does not exist, version 0 for a   *)
(* NULL current_version_id.                                                *)
(***************************************************************************)
ContentStatus == {"DRAFT", "PENDING", "APPROVED", "REJECTED",
                  "SCHEDULED", "PUBLISHED", "FAILED"}

PublishStatus == {"SCHEDULED", "PUBLISHING", "PUBLISHED", "FAILED",
                  "CANCELLED", "UNSCHEDULED"}

DraftRow == [status : ContentStatus \cup {"NONE"}, current : Nat]

\* due: scheduled_at <= now + SCHEDULER_TICK_SECONDS; waiting: now < next_retry_at.
PostRow == [status : PublishStatus \cup {"NONE"}, snapshot : Nat,
            attempts : Nat, due : BOOLEAN, waiting : BOOLEAN]

NoDraft == [status |-> "NONE", current |-> 0]
NoPost  == [status |-> "NONE", snapshot |-> 0, attempts |-> 0,
            due |-> FALSE, waiting |-> FALSE]

----------------------------------------------------------------------------
(***************************************************************************)
(* ApprovalService                                                         *)
(***************************************************************************)
ALLOWED_TRANSITIONS ==
  [s \in ContentStatus |->
     CASE s = "DRAFT"     -> {"PENDING"}
       [] s = "PENDING"   -> {"APPROVED", "REJECTED"}
       [] s = "REJECTED"  -> {"PENDING"}
       [] s = "APPROVED"  -> {"SCHEDULED"}
       [] s = "SCHEDULED" -> {"PUBLISHED", "APPROVED"}
       [] s = "PUBLISHED" -> {}
       [] s = "FAILED"    -> {"SCHEDULED"}]

MayTransition(r, target) ==
  /\ r.status \in ContentStatus
  /\ target \in ALLOWED_TRANSITIONS[r.status]

MaySubmit(r)  == MayTransition(r, "PENDING")
MayApprove(r) == MayTransition(r, "APPROVED")
MayReject(r)  == MayTransition(r, "REJECTED")

Moved(r, target) == [r EXCEPT !.status = target]

\* An edit needs a version to start from, and sends back to PENDING a draft
\* that it finds APPROVED, and no other.
MayEdit(r) == r.current # 0

\* Fault: every edit returns the draft to PENDING, as the endpoint's summary says.
AfterEdit_AlwaysPending(r, version) ==
  [r EXCEPT !.current = version, !.status = "PENDING"]

AfterEdit(r, version) ==
  [r EXCEPT !.current = version,
            !.status = IF @ = "APPROVED" THEN "PENDING" ELSE @]

\* execute_generation points the draft to the version it has just written,
\* whatever the status the draft has by then.
AfterGeneration(r, version) == [r EXCEPT !.current = version]

----------------------------------------------------------------------------
(***************************************************************************)
(* SchedulerService                                                        *)
(***************************************************************************)
\* schedule_post looks for a live post only, but the unique constraint on
\* draft_content_id refuses the INSERT when any post of the draft exists.
NotAlreadyScheduled(p) == p.status \notin {"SCHEDULED", "PUBLISHING"}
UniqueDraft(p)         == p.status = "NONE"

\* Fault: the check for an image is forgotten.
MaySchedule_NoImageCheck(r, p, illustrated, account) ==
  /\ r.status = "APPROVED"
  /\ account = "active"
  /\ r.current # 0
  /\ NotAlreadyScheduled(p)

MaySchedule(r, p, illustrated, account) ==
  /\ r.status = "APPROVED"
  /\ account = "active"
  /\ r.current \in illustrated
  /\ NotAlreadyScheduled(p)

ScheduledRow(version, due) ==
  [status |-> "SCHEDULED", snapshot |-> version, attempts |-> 0,
   due |-> due, waiting |-> FALSE]

\* Fault: only the post being published is refused.
MayUnschedule_Published(p) == p.status \notin {"NONE", "PUBLISHING"}

MayUnschedule(p) == p.status \notin {"NONE", "PUBLISHING", "PUBLISHED"}

AfterUnschedule(p) == [p EXCEPT !.status = "UNSCHEDULED"]

MayReschedule(p) == p.status \in {"SCHEDULED", "FAILED"}

AfterReschedule(p, due) ==
  [p EXCEPT !.status = "SCHEDULED", !.due = due, !.waiting = FALSE]

\* Fault: failed posts are due as well.
IsDue_Failed(p) == p.status \in {"SCHEDULED", "FAILED"} /\ p.due

\* get_due_posts: what the publisher tick enqueues.
IsDue(p) == p.status = "SCHEDULED" /\ p.due

----------------------------------------------------------------------------
(***************************************************************************)
(* PostPublisherService                                                    *)
(***************************************************************************)
\* Fault: the guard of publish() forgets the post that is published already.
MayPublish_Twice(p) == p.status \notin {"NONE", "PUBLISHING"}

MayPublish(p) == p.status \notin {"NONE", "PUBLISHED", "PUBLISHING"}

InFlight(p) == [p EXCEPT !.status = "PUBLISHING", !.attempts = @ + 1]

\* _handle_failure: back to SCHEDULED with a next_retry_at while attempts
\* remain and the error is not fatal.  p is the row the attempt has marked.
WillRetry(p, fatal) == ~fatal /\ p.attempts < MaxRetries

AfterFailure(p, fatal) ==
  IF WillRetry(p, fatal)
    THEN [p EXCEPT !.status = "SCHEDULED", !.waiting = TRUE]
    ELSE [p EXCEPT !.status = "FAILED"]

AfterSuccess(p) == [p EXCEPT !.status = "PUBLISHED"]

\* What Publication knows of a post: its times are left out.
Public(p) == [status |-> p.status, content |-> p.snapshot, attempts |-> p.attempts]
=============================================================================
