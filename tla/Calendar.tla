------------------------------ MODULE Calendar ------------------------------
(***************************************************************************)
(* The calendar of a workspace and the brand profile it shares with the    *)
(* approvals.  A request sends the message of one calendar job; each run   *)
(* of the job makes a batch, one draft and one generation job per slot of  *)
(* its plan, and sends their messages before it commits.  Meanwhile        *)
(* approvals read the profile, wait for the embedding of their caption,    *)
(* and write its centroid back.                                            *)
(*                                                                         *)
(* The row of the job is locked from the flush of RUNNING to the commit,   *)
(* so that the runs of the job follow one another.                         *)
(***************************************************************************)
EXTENDS Naturals, FiniteSets

CONSTANTS Slots,         \* slots a plan may have, at most total_posts
          Approvals,     \* requests that approve a draft
          TaskRetries,   \* max_retries of run_calendar_generation
          SlotRetries,   \* max_retries of run_content_generation
          MaxBatches,    \* bound: batches begun
          MaxLosses      \* bound: workers lost

ASSUME CalendarAssumption ==
  /\ TaskRetries \in Nat
  /\ SlotRetries \in Nat \ {0}
  /\ MaxBatches \in Nat /\ MaxLosses \in Nat

Batches == 1 .. MaxBatches

VARIABLES
  request,      \* the session of the request
  job,          \* generation_jobs.status of the calendar
  waiting,      \* messages of the calendar, by the number of retries behind them
  planner,      \* the run of the calendar job
  begun,        \* batches begun
  slotJob,      \* generation_jobs.status of the slots, by batch
  slotWaiting,  \* messages of the slots, by the number of retries behind them
  cut,          \* history: slots with a try, after the commit, that was cut short
  profile,      \* row of brand_profiles
  holder,       \* the session with an INSERT of the profile that is not committed
  approval,     \* the sessions of the approvals
  losses        \* workers lost

plans  == <<request, job, waiting, planner, begun>>
slots  == <<slotJob, slotWaiting, cut>>
brand  == <<profile, holder, approval>>
vars   == <<plans, slots, brand, losses>>

\* seen: the profile was there when it was looked up; todo: slots without message.
IdlePlanner  == [pc |-> "idle", retry |-> 0, seen |-> FALSE, batch |-> 0,
                 plan |-> {}, todo |-> {}]
\* voice, count: the profile as it was read.
IdleApproval == [pc |-> "idle", voice |-> {}, count |-> 0]

\* voice_embedding blends the captions of the approvals in voice, and
\* embedding_sample_count is count.
Init ==
  /\ request = "none" /\ job = "NONE" /\ waiting = {}
  /\ planner = IdlePlanner /\ begun = 0
  /\ slotJob = [b \in Batches |-> [s \in Slots |-> "NONE"]]
  /\ slotWaiting = [b \in Batches |-> [s \in Slots |-> {}]]
  /\ cut = {}
  /\ profile = [there |-> FALSE, voice |-> {}, count |-> 0]
  /\ holder = "none"
  /\ approval = [a \in Approvals |-> IdleApproval]
  /\ losses = 0

----------------------------------------------------------------------------
(***************************************************************************)
(* The request                                                             *)
(***************************************************************************)
\* The gates read the plan and a cached balance, of which nothing is deducted
\* for a calendar; the message leaves before the row of the job is committed.
PlanCalendar ==
  /\ request = "none"
  /\ request' = "sent"
  /\ waiting' = {0}
  /\ UNCHANGED <<job, planner, begun, slots, brand, losses>>

EndRequest ==
  /\ request = "sent"
  /\ request' = "done"
  /\ job' \in {"QUEUED", "NONE"}
  /\ UNCHANGED <<waiting, planner, begun, slots, brand, losses>>

----------------------------------------------------------------------------
(***************************************************************************)
(* The calendar job                                                        *)
(***************************************************************************)
\* Fault: one retry too many.
Again_PastTheLast(retry) == IF retry <= TaskRetries THEN {retry + 1} ELSE {}

Again(retry) == IF retry < TaskRetries THEN {retry + 1} ELSE {}

\* A retry comes half a minute later, when the request has ended; a job that is
\* not there raises.
Take(retry) ==
  /\ planner.pc = "idle"
  /\ retry \in waiting
  /\ retry > 0 => request # "sent"
  /\ IF job = "NONE"
       THEN /\ waiting' = (waiting \ {retry}) \cup Again(retry)
            /\ UNCHANGED planner
       ELSE /\ waiting' = waiting \ {retry}
            /\ planner' = [IdlePlanner EXCEPT !.pc = "profile", !.retry = retry,
                                              !.seen = profile.there]
  /\ UNCHANGED <<request, job, begun, slots, brand, losses>>

\* FAILED is flushed and rolled back with everything else: only messages stay.
GiveUp ==
  /\ planner' = IdlePlanner
  /\ waiting' = waiting \cup Again(planner.retry)
  /\ holder' = IF holder = "planner" THEN "none" ELSE holder
  /\ UNCHANGED <<request, job, begun, slots, profile, approval, losses>>

\* The unique index makes an INSERT wait for that of another session, and
\* refuses it (PlanFails) once the other is committed.
GetProfile ==
  /\ planner.pc = "profile"
  /\ ~planner.seen => holder = "none" /\ ~profile.there
  /\ holder' = IF planner.seen THEN holder ELSE "planner"
  /\ planner' = [planner EXCEPT !.pc = "planning"]
  /\ UNCHANGED <<request, job, waiting, begun, slots, profile, approval, losses>>

\* The jobs of the slots of a plan.
Rows(plan) == [s \in Slots |-> IF s \in plan THEN "QUEUED" ELSE "NONE"]

\* Fault: the drafts and jobs are committed before their messages are sent.
CreateShells_Committed(plan) ==
  /\ planner.pc = "planning" /\ begun < MaxBatches
  /\ begun' = begun + 1
  /\ planner' = [planner EXCEPT !.pc = "sending", !.batch = begun + 1,
                                !.plan = plan, !.todo = plan]
  /\ slotJob' = [slotJob EXCEPT ![begun + 1] = Rows(plan)]
  /\ UNCHANGED <<request, job, waiting, slotWaiting, cut, brand, losses>>

\* Groq answers a plan of its own in every run, which may be empty.
CreateShells(plan) ==
  /\ planner.pc = "planning" /\ begun < MaxBatches
  /\ begun' = begun + 1
  /\ planner' = [planner EXCEPT !.pc = "sending", !.batch = begun + 1,
                                !.plan = plan, !.todo = plan]
  /\ UNCHANGED <<request, job, waiting, slots, brand, losses>>

SendSlot(s) ==
  /\ planner.pc = "sending" /\ s \in planner.todo
  /\ slotWaiting' = [slotWaiting EXCEPT ![planner.batch][s] = {0}]
  /\ planner' = [planner EXCEPT !.todo = @ \ {s}]
  /\ UNCHANGED <<request, job, waiting, begun, slotJob, cut, brand, losses>>

\* The profile is refused, Groq or the broker fails, a slot has a tone or a type
\* there is none of, or the time limit strikes.
PlanFails ==
  /\ planner.pc # "idle"
  /\ GiveUp

CommitPlan(acked) ==
  /\ planner.pc = "sending" /\ planner.todo = {}
  /\ acked \/ losses < MaxLosses
  /\ job' = "SUCCESS"
  /\ slotJob' = [slotJob EXCEPT ![planner.batch] = Rows(planner.plan)]
  /\ profile' = [profile EXCEPT !.there = TRUE]
  /\ holder' = IF holder = "planner" THEN "none" ELSE holder
  /\ waiting' = IF acked THEN waiting ELSE waiting \cup {planner.retry}
  /\ losses' = IF acked THEN losses ELSE losses + 1
  /\ planner' = IdlePlanner
  /\ UNCHANGED <<request, begun, slotWaiting, cut, approval>>

\* The worker dies before the commit and the message comes back.
LosePlanner ==
  /\ planner.pc # "idle" /\ losses < MaxLosses
  /\ losses' = losses + 1
  /\ waiting' = waiting \cup {planner.retry}
  /\ holder' = IF holder = "planner" THEN "none" ELSE holder
  /\ planner' = IdlePlanner
  /\ UNCHANGED <<request, job, begun, slots, profile, approval>>

----------------------------------------------------------------------------
(***************************************************************************)
(* The jobs of the slots                                                   *)
(***************************************************************************)
\* Fault: a job that is not there ends the task.
AgainSlot_Dropped(status, retry) ==
  IF status # "NONE" /\ retry < SlotRetries THEN {retry + 1} ELSE {}

AgainSlot(status, retry) == IF retry < SlotRetries THEN {retry + 1} ELSE {}

\* Ten seconds pass before a retry, and the run that has sent the first message
\* has ended by then.  A job that is not there raises.  A try that the time limit
\* cuts short leaves no trace in its row.
RunSlot(b, s, retry, outcome) ==
  /\ retry \in slotWaiting[b][s]
  /\ retry > 0 => planner.batch # b
  /\ slotJob[b][s] = "NONE" => outcome = "RAISED"
  /\ slotJob' = IF outcome = "RAISED" THEN slotJob ELSE [slotJob EXCEPT ![b][s] = outcome]
  /\ slotWaiting' = [slotWaiting EXCEPT ![b][s] =
       (@ \ {retry}) \cup (IF outcome = "SUCCESS" THEN {} ELSE AgainSlot(slotJob[b][s], retry))]
  /\ cut' = IF outcome = "RAISED" /\ slotJob[b][s] # "NONE" THEN cut \cup {<<b, s>>} ELSE cut
  /\ UNCHANGED <<plans, brand, losses>>

----------------------------------------------------------------------------
(***************************************************************************)
(* The brand profile                                                       *)
(***************************************************************************)
UpsertProfile ==
  /\ holder = "none"
  /\ profile' = [profile EXCEPT !.there = TRUE]
  /\ UNCHANGED <<plans, slots, holder, approval, losses>>

\* approve looks the profile up.
Approve(a) ==
  /\ approval[a].pc = "idle"
  /\ approval' = [approval EXCEPT ![a] =
       [pc |-> IF profile.there THEN "embedding" ELSE "inserting",
        voice |-> profile.voice, count |-> profile.count]]
  /\ UNCHANGED <<plans, slots, profile, holder, losses>>

InsertProfile(a) ==
  /\ approval[a].pc = "inserting"
  /\ holder = "none" /\ ~profile.there
  /\ holder' = a
  /\ approval' = [approval EXCEPT ![a].pc = "embedding"]
  /\ UNCHANGED <<plans, slots, profile, losses>>

\* The INSERT is refused, or OpenAI fails: the request is rolled back, and the
\* draft may be approved again.
ApprovalFails(a) ==
  /\ \/ approval[a].pc = "inserting" /\ holder = "none" /\ profile.there
     \/ approval[a].pc = "embedding"
  /\ approval' = [approval EXCEPT ![a] = IdleApproval]
  /\ holder' = IF holder = a THEN "none" ELSE holder
  /\ UNCHANGED <<plans, slots, profile, losses>>

\* Fault: the count is taken from the row again, the centroid is not.
Blended_CountedAfresh(a) ==
  [there |-> TRUE, voice |-> approval[a].voice \cup {a}, count |-> profile.count + 1]

\* One UPDATE writes the centroid and the count, both from what was read.
Blended(a) ==
  [there |-> TRUE, voice |-> approval[a].voice \cup {a}, count |-> approval[a].count + 1]

CommitApproval(a) ==
  /\ approval[a].pc = "embedding"
  /\ profile' = Blended(a)
  /\ holder' = IF holder = a THEN "none" ELSE holder
  /\ approval' = [approval EXCEPT ![a] = [IdleApproval EXCEPT !.pc = "done"]]
  /\ UNCHANGED <<plans, slots, losses>>

----------------------------------------------------------------------------
Plan ==
  \/ \E retry \in 0 .. TaskRetries : Take(retry)
  \/ GetProfile
  \/ \E plan \in SUBSET Slots : CreateShells(plan)
  \/ \E s \in Slots : SendSlot(s)
  \/ PlanFails
  \/ \E acked \in BOOLEAN : CommitPlan(acked)
  \/ LosePlanner

Voice(a) == Approve(a) \/ InsertProfile(a) \/ ApprovalFails(a) \/ CommitApproval(a)

Next ==
  \/ PlanCalendar
  \/ EndRequest
  \/ Plan
  \/ \E b \in Batches, s \in Slots, retry \in 0 .. SlotRetries :
       \E outcome \in {"SUCCESS", "FAILED", "RAISED"} : RunSlot(b, s, retry, outcome)
  \/ UpsertProfile
  \/ \E a \in Approvals : Voice(a)

Spec == Init /\ [][Next]_vars

----------------------------------------------------------------------------
(***************************************************************************)
(* Properties                                                              *)
(***************************************************************************)
Run     == [pc : {"idle", "profile", "planning", "sending"}, retry : 0 .. TaskRetries,
            seen : BOOLEAN, batch : 0 .. MaxBatches,
            plan : SUBSET Slots, todo : SUBSET Slots]
Session == [pc : {"idle", "inserting", "embedding", "done"}, voice : SUBSET Approvals,
            count : Nat]

\* Every variable has its type, the rows those of their tables.
TypeOK ==
  /\ request \in {"none", "sent", "done"}
  /\ job \in {"NONE", "QUEUED", "SUCCESS"}
  /\ waiting \subseteq 0 .. TaskRetries
  /\ planner \in Run
  /\ begun \in 0 .. MaxBatches
  /\ slotJob \in [Batches -> [Slots -> {"NONE", "QUEUED", "SUCCESS", "FAILED"}]]
  /\ slotWaiting \in [Batches -> [Slots -> SUBSET (0 .. SlotRetries)]]
  /\ cut \subseteq Batches \X Slots
  /\ profile \in [there : BOOLEAN, voice : SUBSET Approvals, count : Nat]
  /\ holder \in Approvals \cup {"none", "planner"}
  /\ approval \in [Approvals -> Session]
  /\ losses \in Nat

Committed == {b \in Batches : \E s \in Slots : slotJob[b][s] # "NONE"}

\* However often the job fails half way and is tried again, it leaves the rows
\* of one calendar, and only when it is SUCCESS; a further one only for a worker
\* that was lost between its commit and its acknowledgement.
OneCalendar ==
  /\ Cardinality(Committed) <= 1 + losses
  /\ Committed # {} => job = "SUCCESS"

\* No slot is forgotten: although its message may be taken before its row is
\* committed, a slot whose job is QUEUED has a message that will find it, but
\* for tries that found it and were cut short.
SlotsQueued ==
  \A b \in Batches, s \in Slots :
    slotJob[b][s] = "QUEUED" => slotWaiting[b][s] # {} \/ <<b, s>> \in cut

\* The centroid blends exactly embedding_sample_count captions, all of them
\* approved, although an approval that overlaps another drops its sample.
VoiceCounted ==
  /\ profile.count = Cardinality(profile.voice)
  /\ \A a \in profile.voice : approval[a].pc = "done"
=============================================================================
