---------------------------- MODULE CalendarProofs ----------------------------
(***************************************************************************)
(* One calendar per job, no slot forgotten and a brand voice that counts   *)
(* its samples, for every number of slots, approvals, retries and losses.  *)
(***************************************************************************)
EXTENDS Calendar, FiniteSetTheorems, TLAPS

----------------------------------------------------------------------------
(***************************************************************************)
(* Type correctness                                                        *)
(***************************************************************************)
SlotStatus == {"NONE", "QUEUED", "SUCCESS", "FAILED"}

LEMMA AgainTyped ==
  ASSUME NEW retry \in 0 .. TaskRetries
  PROVE  Again(retry) \subseteq 0 .. TaskRetries
BY CalendarAssumption DEF Again

LEMMA AgainSlotTyped ==
  ASSUME NEW status, NEW retry \in 0 .. SlotRetries
  PROVE  AgainSlot(status, retry) \subseteq 0 .. SlotRetries
BY CalendarAssumption DEF AgainSlot

LEMMA IdleTyped == IdlePlanner \in Run /\ IdleApproval \in Session
BY CalendarAssumption DEF IdlePlanner, Run, IdleApproval, Session

LEMMA RowsTyped == \A plan : Rows(plan) \in [Slots -> SlotStatus]
BY DEF Rows, SlotStatus

\* The actions of the calendar job keep the types.
LEMMA PlanTyped ==
  ASSUME TypeOK, Plan
  PROVE  TypeOK'
<1> USE CalendarAssumption DEF slots, brand, plans
<1>0. /\ waiting \subseteq 0 .. TaskRetries
      /\ planner \in Run /\ planner.retry \in 0 .. TaskRetries
      /\ planner.plan \subseteq Slots /\ planner.todo \subseteq Slots
      /\ profile.there \in BOOLEAN
      /\ holder \in Approvals \cup {"none", "planner"}
      /\ losses \in Nat
  BY DEF TypeOK, Run
<1>1. ASSUME NEW retry \in 0 .. TaskRetries, Take(retry) PROVE TypeOK'
  <2>1. waiting' \subseteq 0 .. TaskRetries
    BY <1>0, <1>1, AgainTyped DEF Take
  <2>2. planner' \in Run
    BY <1>0, <1>1, IdleTyped DEF Take, Run
  <2> QED
    BY <1>1, <2>1, <2>2 DEF Take, TypeOK
<1>2. CASE GetProfile
  <2>1. planner' \in Run
    BY <1>0, <1>2 DEF GetProfile, Run
  <2>2. holder' \in Approvals \cup {"none", "planner"}
    BY <1>2 DEF GetProfile, TypeOK
  <2> QED
    BY <1>2, <2>1, <2>2 DEF GetProfile, TypeOK
<1>3. ASSUME NEW plan \in SUBSET Slots, CreateShells(plan) PROVE TypeOK'
  <2>1. begun' \in 0 .. MaxBatches
    BY <1>3 DEF CreateShells, TypeOK
  <2>2. planner' \in Run
    BY <1>0, <1>3, <2>1 DEF CreateShells, Run
  <2> QED
    BY <1>3, <2>1, <2>2 DEF CreateShells, TypeOK
<1>4. ASSUME NEW s \in Slots, SendSlot(s) PROVE TypeOK'
  <2>1. planner' \in Run
    BY <1>0, <1>4 DEF SendSlot, Run
  <2>2. slotWaiting' \in [Batches -> [Slots -> SUBSET (0 .. SlotRetries)]]
    <3> DEFINE Messages == SUBSET (0 .. SlotRetries)
    <3>1. {0} \in Messages
      OBVIOUS
    <3>2. slotWaiting \in [Batches -> [Slots -> Messages]]
      BY DEF TypeOK
    <3> HIDE DEF Messages
    <3>3. slotWaiting' \in [Batches -> [Slots -> Messages]]
      BY <1>4, <3>1, <3>2 DEF SendSlot
    <3> QED
      BY <3>3 DEF Messages
  <2> QED
    BY <1>4, <2>1, <2>2 DEF SendSlot, TypeOK
<1>5. CASE PlanFails
  <2>1. waiting' \subseteq 0 .. TaskRetries
    BY <1>0, <1>5, AgainTyped DEF PlanFails, GiveUp
  <2>2. holder' \in Approvals \cup {"none", "planner"}
    BY <1>5 DEF PlanFails, GiveUp, TypeOK
  <2> QED
    BY <1>5, <2>1, <2>2, IdleTyped DEF PlanFails, GiveUp, TypeOK
<1>6. ASSUME NEW acked \in BOOLEAN, CommitPlan(acked) PROVE TypeOK'
  <2>1. waiting' \subseteq 0 .. TaskRetries
    BY <1>0, <1>6 DEF CommitPlan
  <2>2. slotJob' \in [Batches -> [Slots -> SlotStatus]]
    BY <1>6, RowsTyped DEF CommitPlan, TypeOK, SlotStatus
  <2>3. /\ profile' \in [there : BOOLEAN, voice : SUBSET Approvals, count : Nat]
        /\ holder' \in Approvals \cup {"none", "planner"}
        /\ losses' \in Nat
    <3>1. profile' \in [there : BOOLEAN, voice : SUBSET Approvals, count : Nat]
      BY <1>6 DEF CommitPlan, TypeOK
    <3>2. holder' \in Approvals \cup {"none", "planner"}
      BY <1>0, <1>6 DEF CommitPlan
    <3>3. losses' \in Nat
      BY <1>0, <1>6 DEF CommitPlan
    <3> QED
      BY <3>1, <3>2, <3>3
  <2> QED
    BY <1>6, <2>1, <2>2, <2>3, IdleTyped DEF CommitPlan, TypeOK, SlotStatus
<1>7. CASE LosePlanner
  <2>1. /\ waiting' \subseteq 0 .. TaskRetries
        /\ holder' \in Approvals \cup {"none", "planner"}
        /\ losses' \in Nat
    <3>1. waiting' \subseteq 0 .. TaskRetries
      BY <1>0, <1>7 DEF LosePlanner
    <3>2. holder' \in Approvals \cup {"none", "planner"}
      BY <1>0, <1>7 DEF LosePlanner
    <3>3. losses' \in Nat
      BY <1>0, <1>7 DEF LosePlanner
    <3> QED
      BY <3>1, <3>2, <3>3
  <2> QED
    BY <1>7, <2>1, IdleTyped DEF LosePlanner, TypeOK
<1> QED
  BY <1>1, <1>2, <1>3, <1>4, <1>5, <1>6, <1>7 DEF Plan

\* So do the tasks of the slots, whatever their outcome.
LEMMA SlotTyped ==
  ASSUME TypeOK, NEW b \in Batches, NEW s \in Slots, NEW retry \in 0 .. SlotRetries,
         NEW outcome \in {"SUCCESS", "FAILED", "RAISED"}, RunSlot(b, s, retry, outcome)
  PROVE  TypeOK'
<1>1. slotJob' \in [Batches -> [Slots -> SlotStatus]]
  BY DEF RunSlot, TypeOK, SlotStatus
<1>2. slotWaiting' \in [Batches -> [Slots -> SUBSET (0 .. SlotRetries)]]
  BY AgainSlotTyped DEF RunSlot, TypeOK
<1>3. cut' \subseteq Batches \X Slots
  BY DEF RunSlot, TypeOK
<1> QED
  BY <1>1, <1>2, <1>3 DEF RunSlot, TypeOK, SlotStatus, plans, brand

\* So do the approvals.
LEMMA VoiceTyped ==
  ASSUME TypeOK, NEW a \in Approvals, Voice(a)
  PROVE  TypeOK'
<1>0. /\ profile.voice \subseteq Approvals /\ profile.count \in Nat
      /\ approval[a].voice \subseteq Approvals /\ approval[a].count \in Nat
      /\ approval \in [Approvals -> Session]
  BY DEF TypeOK, Session
<1>1. approval' \in [Approvals -> Session]
  BY <1>0, IdleTyped DEF Voice, Approve, InsertProfile, ApprovalFails, CommitApproval, Session
<1>2. holder' \in Approvals \cup {"none", "planner"}
  BY DEF Voice, Approve, InsertProfile, ApprovalFails, CommitApproval, TypeOK
<1>3. profile' \in [there : BOOLEAN, voice : SUBSET Approvals, count : Nat]
  <2>1. Blended(a) \in [there : BOOLEAN, voice : SUBSET Approvals, count : Nat]
    BY <1>0 DEF Blended
  <2> QED
    BY <2>1 DEF Voice, Approve, InsertProfile, ApprovalFails, CommitApproval, TypeOK
<1> QED
  BY <1>1, <1>2, <1>3
    DEF Voice, Approve, InsertProfile, ApprovalFails, CommitApproval, TypeOK, plans, slots

LEMMA TypeStep ==
  ASSUME TypeOK, [Next]_vars
  PROVE  TypeOK'
<1>1. CASE PlanCalendar \/ EndRequest \/ UpsertProfile
  <2>1. waiting' \subseteq 0 .. TaskRetries
    BY <1>1, CalendarAssumption DEF PlanCalendar, EndRequest, UpsertProfile, TypeOK, plans
  <2>2. /\ profile' \in [there : BOOLEAN, voice : SUBSET Approvals, count : Nat]
        /\ request' \in {"none", "sent", "done"}
        /\ job' \in {"NONE", "QUEUED", "SUCCESS"}
    BY <1>1 DEF PlanCalendar, EndRequest, UpsertProfile, TypeOK, plans, brand
  <2>3. UNCHANGED <<planner, begun, slotJob, slotWaiting, cut, holder, approval, losses>>
    BY <1>1 DEF PlanCalendar, EndRequest, UpsertProfile, plans, slots, brand
  <2> QED
    BY <2>1, <2>2, <2>3 DEF TypeOK
<1>2. CASE UNCHANGED vars
  BY <1>2 DEF TypeOK, vars, slots, brand, plans
<1> QED
  BY <1>1, <1>2, PlanTyped, SlotTyped, VoiceTyped DEF Next

\* Every variable keeps its type, the rows those of their tables.
THEOREM TypeCorrect == Spec => []TypeOK
<1>1. Init => TypeOK
  BY CalendarAssumption, IdleTyped DEF Init, TypeOK
<1> QED
  BY <1>1, TypeStep, PTL DEF Spec
----------------------------------------------------------------------------
(***************************************************************************)
(* VoiceCounted                                                            *)
(***************************************************************************)
Done == {a \in Approvals : approval[a].pc = "done"}

\* A centroid blends n captions, each of an approval that is done.
Measured(voice, n, done) ==
  IsFiniteSet(voice) /\ n = Cardinality(voice) /\ voice \subseteq done

\* What the profile holds is measured, and so is what an approval has read of
\* it, however long ago: an approval that is done stays done.
VoicesMeasured ==
  /\ Measured(profile.voice, profile.count, Done)
  /\ \A a \in Approvals : Measured(approval[a].voice, approval[a].count, Done)

\* The sample of an approval is new in the centroid it has read.
LEMMA MeasuredMore ==
  ASSUME NEW voice, NEW n, NEW done, NEW more, Measured(voice, n, done),
         done \subseteq more, NEW a \in more, a \notin done
  PROVE  Measured(voice \cup {a}, n + 1, more)
<1>1. a \notin voice
  BY DEF Measured
<1>2. IsFiniteSet(voice \cup {a}) /\ Cardinality(voice \cup {a}) = n + 1
  BY <1>1, FS_AddElement DEF Measured
<1> QED
  BY <1>2 DEF Measured

LEMMA MeasuredNone == \A done : Measured({}, 0, done)
BY FS_EmptySet DEF Measured

LEMMA VoiceStep ==
  ASSUME TypeOK, VoicesMeasured, [Next]_vars
  PROVE  VoicesMeasured'
<1>0. approval \in [Approvals -> Session]
  BY DEF TypeOK
<1>1. ASSUME UNCHANGED approval, profile'.voice = profile.voice, profile'.count = profile.count
      PROVE  VoicesMeasured'
  BY <1>1 DEF VoicesMeasured, Done
<1>2. ASSUME NEW a \in Approvals, Voice(a) PROVE VoicesMeasured'
  <2>1. Done \subseteq Done'
    BY <1>0, <1>2
      DEF Voice, Approve, InsertProfile, ApprovalFails, CommitApproval, Done, IdleApproval, Session
  <2>2. ASSUME NEW voice, NEW n, Measured(voice, n, Done)
        PROVE  Measured(voice, n, Done')
    BY <2>1, <2>2 DEF Measured
  <2>3. ASSUME NEW c \in Approvals
        PROVE  Measured(approval'[c].voice, approval'[c].count, Done')
    <3>1. \/ approval'[c].voice = approval[c].voice /\ approval'[c].count = approval[c].count
          \/ approval'[c].voice = profile.voice /\ approval'[c].count = profile.count
          \/ approval'[c].voice = {} /\ approval'[c].count = 0
      BY <1>0, <1>2
        DEF Voice, Approve, InsertProfile, ApprovalFails, CommitApproval, IdleApproval, Session
    <3> QED
      BY <2>2, <3>1, MeasuredNone DEF VoicesMeasured
  <2>4. Measured(profile'.voice, profile'.count, Done')
    <3>1. CASE UNCHANGED profile
      BY <2>2, <3>1 DEF VoicesMeasured
    <3>2. CASE CommitApproval(a)
      <4>1. /\ profile'.voice = approval[a].voice \cup {a}
            /\ profile'.count = approval[a].count + 1
        BY <3>2 DEF CommitApproval, Blended
      <4>2. a \notin Done /\ a \in Done'
        BY <1>0, <3>2 DEF CommitApproval, IdleApproval, Done, Session
      <4> QED
        BY <4>1, <4>2, <2>1, MeasuredMore DEF VoicesMeasured
    <3> QED
      BY <1>2, <3>1, <3>2 DEF Voice, Approve, InsertProfile, ApprovalFails
  <2> QED
    BY <2>3, <2>4 DEF VoicesMeasured
<1>3. CASE \E acked \in BOOLEAN : CommitPlan(acked)
  BY <1>1, <1>3 DEF CommitPlan, TypeOK
<1>4. CASE UpsertProfile
  BY <1>1, <1>4 DEF UpsertProfile, TypeOK
<1>5. CASE UNCHANGED <<profile, approval>>
  BY <1>1, <1>5
<1> QED
  BY <1>2, <1>3, <1>4, <1>5
    DEF Next, Plan, PlanCalendar, EndRequest, Take, GetProfile, CreateShells, SendSlot,
        PlanFails, GiveUp, LosePlanner, RunSlot, brand, vars

\* The count of the profile is that of the captions its centroid blends, all of
\* them approved.
THEOREM VoiceCountedHolds == Spec => []VoiceCounted
<1>1. Init => VoicesMeasured
  <2> SUFFICES ASSUME Init PROVE VoicesMeasured
    OBVIOUS
  <2>1. profile.voice = {} /\ profile.count = 0
    BY DEF Init
  <2>2. \A a \in Approvals : approval[a].voice = {} /\ approval[a].count = 0
    BY DEF Init, IdleApproval
  <2> QED
    BY <2>1, <2>2, MeasuredNone DEF VoicesMeasured
<1>2. VoicesMeasured => VoiceCounted
  BY DEF VoicesMeasured, Measured, VoiceCounted, Done
<1> QED
  BY <1>1, <1>2, TypeCorrect, VoiceStep, PTL DEF Spec
----------------------------------------------------------------------------
(***************************************************************************)
(* OneCalendar                                                             *)
(***************************************************************************)
\* Before the request has ended there is no job to run; the message of the job
\* is one, and the lock of its row lets no second run begin; what a run has
\* begun is hidden until it commits.  While there is a message or a run left,
\* every calendar that is committed has cost a worker.
OneRun ==
  /\ request # "done" => job = "NONE" /\ planner.pc = "idle"
  /\ request = "none" => waiting = {}
  /\ \A q, r \in waiting : q = r
  /\ planner.pc # "idle" => waiting = {}

ShellsHidden ==
  /\ \A b \in Committed : b <= begun
  /\ planner.pc = "sending" => planner.batch \in (Batches \cap (1 .. begun)) \ Committed
  /\ Committed # {} => job = "SUCCESS"

Paid ==
  /\ Cardinality(Committed) <= 1 + losses
  /\ waiting # {} \/ planner.pc # "idle" => Cardinality(Committed) <= losses

OneInv == OneRun /\ ShellsHidden /\ Paid

LEMMA CommittedFinite == IsFiniteSet(Committed) /\ Cardinality(Committed) \in Nat
<1>1. IsFiniteSet(Batches)
  BY CalendarAssumption, FS_Interval DEF Batches
<1>2. Committed \subseteq Batches
  BY DEF Committed
<1> QED
  BY <1>1, <1>2, FS_Subset, FS_CardinalityType

\* A task of a slot makes no row, and deletes none.
LEMMA SlotCommitsNothing ==
  ASSUME TypeOK, NEW b \in Batches, NEW s \in Slots, NEW retry, NEW outcome,
         RunSlot(b, s, retry, outcome), outcome \in {"SUCCESS", "FAILED", "RAISED"}
  PROVE  Committed' = Committed
<1>1. ASSUME NEW c \in Batches, NEW t \in Slots
      PROVE  slotJob'[c][t] = "NONE" <=> slotJob[c][t] = "NONE"
  BY <1>1 DEF RunSlot, TypeOK
<1> QED
  BY <1>1 DEF Committed

\* The commit of the job adds its batch, which nobody has seen.
LEMMA CommitAdds ==
  ASSUME TypeOK, ShellsHidden, NEW acked, CommitPlan(acked)
  PROVE  /\ Committed' \subseteq Committed \cup {planner.batch}
         /\ Cardinality(Committed') \in Nat
         /\ Cardinality(Committed') <= Cardinality(Committed) + 1
<1>1. \A b \in Batches : b # planner.batch => slotJob'[b] = slotJob[b]
  BY DEF CommitPlan, TypeOK
<1>2. Committed' \subseteq Committed \cup {planner.batch}
  BY <1>1 DEF Committed
<1>3. /\ IsFiniteSet(Committed \cup {planner.batch})
      /\ Cardinality(Committed \cup {planner.batch}) <= Cardinality(Committed) + 1
  BY CommittedFinite, FS_AddElement
<1>4. /\ Cardinality(Committed') <= Cardinality(Committed \cup {planner.batch})
      /\ IsFiniteSet(Committed')
  BY <1>2, <1>3, FS_Subset
<1>5. Cardinality(Committed') \in Nat /\ Cardinality(Committed \cup {planner.batch}) \in Nat
  BY <1>3, <1>4, FS_CardinalityType
<1> QED
  BY <1>2, <1>3, <1>4, <1>5, CommittedFinite

LEMMA OneStep ==
  ASSUME TypeOK, OneInv, [Next]_vars
  PROVE  OneInv'
<1>0. /\ waiting \subseteq 0 .. TaskRetries /\ planner \in Run
      /\ losses \in Nat /\ begun \in Nat /\ Cardinality(Committed) \in Nat
      /\ OneRun /\ ShellsHidden /\ Paid
  BY CommittedFinite DEF TypeOK, OneInv
<1>1. CASE PlanCalendar
  <2>1. Committed' = Committed
    BY <1>1 DEF PlanCalendar, slots, Committed
  <2>2. Committed = {} /\ Cardinality(Committed) = 0
    BY <1>0, <1>1, FS_EmptySet DEF PlanCalendar, OneRun, ShellsHidden
  <2> QED
    BY <1>0, <1>1, <2>1, <2>2 DEF PlanCalendar, OneInv, OneRun, ShellsHidden, Paid
<1>2. CASE EndRequest
  <2>1. Committed' = Committed /\ Committed = {}
    BY <1>0, <1>2 DEF EndRequest, slots, Committed, OneRun, ShellsHidden
  <2> QED
    BY <1>0, <1>2, <2>1 DEF EndRequest, OneInv, OneRun, ShellsHidden, Paid
<1>3. ASSUME NEW retry \in 0 .. TaskRetries, Take(retry) PROVE OneInv'
  <2>1. Committed' = Committed
    BY <1>3 DEF Take, slots, Committed
  <2>2. waiting = {retry}
    BY <1>0, <1>3 DEF Take, OneRun
  <2>3. OneRun'
    BY <1>0, <1>3, <2>2 DEF Take, OneRun, Again, IdlePlanner
  <2> QED
    BY <1>0, <1>3, <2>1, <2>2, <2>3 DEF Take, OneInv, ShellsHidden, Paid, IdlePlanner
<1>4. CASE GetProfile
  <2>1. Committed' = Committed
    BY <1>4 DEF GetProfile, slots, Committed
  <2> QED
    BY <1>0, <1>4, <2>1 DEF GetProfile, OneInv, OneRun, ShellsHidden, Paid, Run
<1>5. ASSUME NEW plan \in SUBSET Slots, CreateShells(plan) PROVE OneInv'
  <2>1. Committed' = Committed
    BY <1>5 DEF CreateShells, slots, Committed
  <2>2. planner'.pc = "sending" /\ planner'.batch = begun + 1 /\ begun + 1 \in Batches
    BY <1>0, <1>5, CalendarAssumption DEF CreateShells, Run, Batches
  <2>3. ShellsHidden'
    <3>1. \A b \in Committed : b \in Nat /\ b <= begun
      BY <1>0 DEF ShellsHidden, Committed, Batches
    <3> QED
      BY <1>0, <1>5, <2>1, <2>2, <3>1 DEF CreateShells, ShellsHidden
  <2> QED
    BY <1>0, <1>5, <2>1, <2>2, <2>3 DEF CreateShells, OneInv, OneRun, Paid
<1>6. ASSUME NEW s \in Slots, SendSlot(s) PROVE OneInv'
  <2>1. Committed' = Committed
    BY <1>6 DEF SendSlot, Committed
  <2> QED
    BY <1>0, <1>6, <2>1 DEF SendSlot, OneInv, OneRun, ShellsHidden, Paid, Run
<1>7. CASE PlanFails
  <2>1. Committed' = Committed
    BY <1>7 DEF PlanFails, GiveUp, slots, Committed
  <2>2. waiting' = Again(planner.retry) /\ request = "done" /\ planner'.pc = "idle"
    BY <1>0, <1>7 DEF PlanFails, GiveUp, OneRun, IdlePlanner
  <2> QED
    BY <1>0, <1>7, <2>1, <2>2 DEF PlanFails, GiveUp, OneInv, OneRun, ShellsHidden, Paid, Again
<1>8. ASSUME NEW acked \in BOOLEAN, CommitPlan(acked) PROVE OneInv'
  <2>1. /\ waiting' = (IF acked THEN {} ELSE {planner.retry})
        /\ request = "done" /\ request' = request /\ planner'.pc = "idle"
    BY <1>0, <1>8 DEF CommitPlan, OneRun, IdlePlanner
  <2>2. OneRun'
    BY <2>1 DEF OneRun
  <2>3. ShellsHidden'
    <3>1. planner.batch \in Batches
      BY <1>0, <1>8 DEF ShellsHidden, CommitPlan
    <3>2. planner.batch <= begun
      BY <1>0, <1>8 DEF ShellsHidden, CommitPlan
    <3> QED
      BY <1>0, <1>8, <2>1, <3>2, CommitAdds DEF ShellsHidden, CommitPlan
  <2>4. Cardinality(Committed) <= losses /\ Cardinality(Committed') <= Cardinality(Committed) + 1
    BY <1>0, <1>8, CommitAdds DEF Paid, CommitPlan
  <2>5. Paid'
    BY <1>0, <1>8, <2>1, <2>4, CommitAdds DEF Paid, CommitPlan
  <2> QED
    BY <2>2, <2>3, <2>5 DEF OneInv
<1>9. CASE LosePlanner
  <2>1. Committed' = Committed
    BY <1>9 DEF LosePlanner, slots, Committed
  <2>2. waiting' = {planner.retry} /\ request = "done" /\ planner'.pc = "idle"
    BY <1>0, <1>9 DEF LosePlanner, OneRun, IdlePlanner
  <2> QED
    BY <1>0, <1>9, <2>1, <2>2 DEF LosePlanner, OneInv, OneRun, ShellsHidden, Paid
<1>10. ASSUME UNCHANGED plans, UNCHANGED losses, Committed' = Committed PROVE OneInv'
  BY <1>0, <1>10 DEF plans, OneInv, OneRun, ShellsHidden, Paid
<1>11. ASSUME NEW b \in Batches, NEW s \in Slots, NEW retry \in 0 .. SlotRetries,
              NEW outcome \in {"SUCCESS", "FAILED", "RAISED"}, RunSlot(b, s, retry, outcome)
       PROVE  OneInv'
  BY <1>10, <1>11, SlotCommitsNothing DEF RunSlot
<1>12. CASE UNCHANGED <<plans, slots, losses>>
  <2>1. Committed' = Committed
    BY <1>12 DEF slots, Committed
  <2> QED
    BY <1>10, <1>12, <2>1
<1>13. ASSUME UpsertProfile \/ (\E a \in Approvals : Voice(a)) \/ UNCHANGED vars
       PROVE  UNCHANGED <<plans, slots, losses>>
  BY <1>13 DEF UpsertProfile, Voice, Approve, InsertProfile, ApprovalFails, CommitApproval, vars
<1> QED
  BY <1>1, <1>2, <1>3, <1>4, <1>5, <1>6, <1>7, <1>8, <1>9, <1>11, <1>12, <1>13 DEF Next, Plan

LEMMA OneInvHolds == Spec => []OneInv
<1>1. Init => OneInv
  <2> SUFFICES ASSUME Init PROVE OneInv
    OBVIOUS
  <2>1. Committed = {}
    BY DEF Init, Committed
  <2>2. Cardinality(Committed) = 0
    BY <2>1, FS_EmptySet
  <2> QED
    BY <2>1, <2>2 DEF Init, OneInv, OneRun, ShellsHidden, Paid, IdlePlanner
<1> QED
  BY <1>1, TypeCorrect, OneStep, PTL DEF Spec

\* A job leaves the rows of one calendar, however often it fails half way, and
\* of a further one only for a worker that was lost.
THEOREM OneCalendarHolds == Spec => []OneCalendar
<1>1. OneInv => OneCalendar
  BY DEF OneInv, ShellsHidden, Paid, OneCalendar
<1> QED
  BY <1>1, OneInvHolds, PTL
----------------------------------------------------------------------------
(***************************************************************************)
(* SlotsQueued                                                             *)
(***************************************************************************)
\* Every message of the running batch that has been sent, or its retry, waits.
Sent ==
  planner.pc = "sending" =>
    \A s \in planner.plan \ planner.todo : slotWaiting[planner.batch][s] # {}

\* A message that is taken while its row is not committed leaves its retry, and
\* that comes only when the run has ended.
LEMMA SlotStep ==
  ASSUME TypeOK, OneInv, Sent, SlotsQueued, [Next]_vars
  PROVE  Sent' /\ SlotsQueued'
<1>0. /\ planner \in Run
      /\ slotWaiting \in [Batches -> [Slots -> SUBSET (0 .. SlotRetries)]]
      /\ slotJob \in [Batches -> [Slots -> SlotStatus]]
      /\ planner.plan \subseteq Slots
      /\ planner.pc = "sending" => planner.batch \in Batches \ Committed
  BY DEF TypeOK, OneInv, ShellsHidden, SlotStatus, Run
<1>1. ASSUME UNCHANGED slots, planner'.pc # "sending" PROVE Sent' /\ SlotsQueued'
  BY <1>1 DEF slots, Sent, SlotsQueued
<1>2. ASSUME UNCHANGED slots, UNCHANGED planner PROVE Sent' /\ SlotsQueued'
  BY <1>2 DEF slots, Sent, SlotsQueued
<1>3. ASSUME NEW retry \in 0 .. TaskRetries, Take(retry) PROVE Sent' /\ SlotsQueued'
  <2>1. UNCHANGED slots /\ (planner' = planner \/ planner'.pc = "profile")
    BY <1>3 DEF Take, IdlePlanner
  <2> QED
    BY <1>1, <1>2, <2>1
<1>4. CASE GetProfile
  BY <1>0, <1>1, <1>4 DEF GetProfile, Run
<1>5. ASSUME NEW plan \in SUBSET Slots, CreateShells(plan) PROVE Sent' /\ SlotsQueued'
  <2>1. planner'.plan = planner'.todo
    BY <1>0, <1>5 DEF CreateShells, Run
  <2> QED
    BY <1>5, <2>1 DEF CreateShells, slots, Sent, SlotsQueued
<1>6. ASSUME NEW s \in Slots, SendSlot(s) PROVE Sent' /\ SlotsQueued'
  <2>1. /\ planner.batch \in Batches
        /\ planner'.batch = planner.batch /\ planner'.plan = planner.plan
        /\ planner'.todo = planner.todo \ {s}
        /\ planner.pc = "sending"
    BY <1>0, <1>6 DEF SendSlot, Run
  <2>2. \A b \in Batches, t \in Slots :
          slotWaiting'[b][t] = IF b = planner.batch /\ t = s THEN {0} ELSE slotWaiting[b][t]
    BY <1>0, <1>6, <2>1 DEF SendSlot
  <2>3. Sent'
    BY <1>0, <2>1, <2>2 DEF Sent
  <2>4. SlotsQueued'
    BY <1>6, <2>2 DEF SendSlot, SlotsQueued
  <2> QED
    BY <2>3, <2>4
<1>7. CASE PlanFails
  BY <1>1, <1>7 DEF PlanFails, GiveUp, IdlePlanner
<1>8. ASSUME NEW acked \in BOOLEAN, CommitPlan(acked) PROVE Sent' /\ SlotsQueued'
  <2>1. /\ planner.pc = "sending" /\ planner.todo = {} /\ planner.batch \in Batches
        /\ slotWaiting' = slotWaiting /\ cut' = cut /\ planner'.pc = "idle"
    BY <1>0, <1>8 DEF CommitPlan, IdlePlanner
  <2>2. ASSUME NEW b \in Batches, NEW s \in Slots, slotJob'[b][s] = "QUEUED"
        PROVE  slotWaiting[b][s] # {} \/ <<b, s>> \in cut
    <3>1. CASE b = planner.batch
      <4>1. slotJob'[b] = Rows(planner.plan)
        BY <1>0, <1>8, <3>1 DEF CommitPlan
      <4>2. s \in planner.plan
        BY <2>2, <4>1 DEF Rows
      <4> QED
        BY <2>1, <3>1, <4>2 DEF Sent
    <3>2. CASE b # planner.batch
      <4>1. slotJob'[b] = slotJob[b]
        BY <1>0, <1>8, <3>2 DEF CommitPlan
      <4> QED
        BY <2>2, <4>1 DEF SlotsQueued
    <3> QED
      BY <3>1, <3>2
  <2> QED
    BY <2>1, <2>2 DEF Sent, SlotsQueued
<1>9. CASE LosePlanner
  BY <1>1, <1>9 DEF LosePlanner, IdlePlanner
<1>10. ASSUME NEW b \in Batches, NEW s \in Slots, NEW retry \in 0 .. SlotRetries,
              NEW outcome \in {"SUCCESS", "FAILED", "RAISED"}, RunSlot(b, s, retry, outcome)
       PROVE  Sent' /\ SlotsQueued'
  <2>1. \A c \in Batches, t \in Slots : c # b \/ t # s =>
          slotWaiting'[c][t] = slotWaiting[c][t] /\ slotJob'[c][t] = slotJob[c][t]
    BY <1>0, <1>10 DEF RunSlot
  <2>2. cut \subseteq cut' /\ planner' = planner
    BY <1>10 DEF RunSlot, plans
  <2>3. Sent'
    <3> SUFFICES ASSUME planner.pc = "sending", NEW t \in planner.plan \ planner.todo
                 PROVE  slotWaiting'[planner.batch][t] # {}
      BY <2>2 DEF Sent
    <3>1. CASE planner.batch # b \/ t # s
      BY <1>0, <2>1, <3>1 DEF Sent
    <3>2. CASE planner.batch = b /\ t = s
      <4>1. slotJob[b][s] = "NONE"
        BY <1>0, <3>2 DEF Committed
      <4>2. outcome = "RAISED" /\ retry = 0
        BY <1>10, <3>2, <4>1 DEF RunSlot
      <4>3. 1 \in slotWaiting'[b][s]
        BY <1>0, <1>10, <4>2, CalendarAssumption DEF RunSlot, AgainSlot
      <4> QED
        BY <3>2, <4>3
    <3> QED
      BY <3>1, <3>2
  <2>4. slotJob'[b][s] = "QUEUED" => <<b, s>> \in cut'
    BY <1>0, <1>10 DEF RunSlot
  <2>5. SlotsQueued'
    <3> SUFFICES ASSUME NEW c \in Batches, NEW t \in Slots, slotJob'[c][t] = "QUEUED"
                 PROVE  slotWaiting'[c][t] # {} \/ <<c, t>> \in cut'
      BY DEF SlotsQueued
    <3>1. CASE c # b \/ t # s
      BY <2>1, <2>2, <3>1 DEF SlotsQueued
    <3>2. CASE c = b /\ t = s
      BY <2>4, <3>2
    <3> QED
      BY <3>1, <3>2
  <2> QED
    BY <2>3, <2>5
<1>11. ASSUME PlanCalendar \/ EndRequest \/ UpsertProfile \/ (\E a \in Approvals : Voice(a))
                \/ UNCHANGED vars
       PROVE  UNCHANGED slots /\ UNCHANGED planner
  BY <1>11 DEF PlanCalendar, EndRequest, UpsertProfile, Voice, Approve, InsertProfile,
               ApprovalFails, CommitApproval, plans, vars
<1> QED
  BY <1>2, <1>3, <1>4, <1>5, <1>6, <1>7, <1>8, <1>9, <1>10, <1>11 DEF Next, Plan

\* A slot whose job is QUEUED has a message that will find it, but for tries
\* that found it and were cut short.
THEOREM SlotsQueuedHolds == Spec => []SlotsQueued
<1>1. Init => Sent /\ SlotsQueued
  BY DEF Init, Sent, SlotsQueued, IdlePlanner
<1> QED
  BY <1>1, TypeCorrect, OneInvHolds, SlotStep, PTL DEF Spec
=============================================================================
