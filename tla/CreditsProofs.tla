--------------------------- MODULE CreditsProofs ---------------------------
(***************************************************************************)
(* Proofs about Credits, for any number of jobs, workers and clerks and    *)
(* every cost, allocation and bound.                                       *)
(***************************************************************************)
EXTENDS Credits, FiniteSetTheorems, TLAPS

----------------------------------------------------------------------------
(***************************************************************************)
(* The steps of a worker and of a clerk                                    *)
(***************************************************************************)
\* The idle rows are of their types.
LEMMA IdleRows == IdleWorker \in Process /\ IdleClerk \in Change
<1>1. 0 \in 0 .. TaskRetries
  BY CreditAssumption
<1> QED
  BY <1>1 DEF IdleWorker, Process, IdleClerk, Change, Desk

\* A message taken leaves the worker at a job that is there and that no other
\* worker holds, or at the refund of one that is not there.
LEMMA TakenJob ==
  ASSUME TypeOK, NEW w \in Workers, NEW j \in Jobs, NEW retry \in 0 .. TaskRetries,
         Take(w, j, retry)
  PROVE  /\ worker' \in [Workers -> Process]
         /\ \A v \in Workers : v # w => worker'[v] = worker[v]
         /\ worker'[w].job = j
         /\ worker'[w].retry = retry
         /\ worker'[w].read \in {0, balance}
         /\ \/ worker'[w].pc = "refunding" /\ ~worker'[w].found
            \/ /\ worker'[w].pc = "running" /\ worker'[w].found
               /\ job[j] # "NONE" /\ JobFree(j)
<1> DEFINE a == [pc |-> "refunding", job |-> j, retry |-> retry, found |-> FALSE,
                 read |-> balance]
           b == [pc |-> "running", job |-> j, retry |-> retry, found |-> TRUE, read |-> 0]
<1>1. /\ a \in Process /\ a.job = j /\ a.read = balance /\ a.pc = "refunding" /\ ~a.found
      /\ b \in Process /\ b.job = j /\ b.read = 0 /\ b.pc = "running" /\ b.found
      /\ a.retry = retry /\ b.retry = retry
  BY DEF TypeOK, Process
<1>2. \/ worker' = [worker EXCEPT ![w] = a]
      \/ worker' = [worker EXCEPT ![w] = b] /\ job[j] # "NONE" /\ JobFree(j)
  BY DEF Take
<1> HIDE DEF a, b
<1> QED
  BY <1>1, <1>2 DEF TypeOK

\* A job generated or failed keeps its worker, which has read the balance.
LEMMA DoneJob ==
  ASSUME TypeOK, NEW w \in Workers, Generate(w) \/ Fail(w)
  PROVE  /\ worker' \in [Workers -> Process]
         /\ \A v \in Workers : v # w => worker'[v] = worker[v]
         /\ worker[w].pc = "running"
         /\ worker'[w].job = worker[w].job
         /\ worker'[w].retry = worker[w].retry
         /\ worker'[w].found = worker[w].found
         /\ worker'[w].read = balance
         /\ \/ worker'[w].pc = "charging" /\ ~version[worker[w].job]
            \/ worker'[w].pc = "refunding"
<1>1. PICK s \in {"charging", "refunding"} :
        /\ worker' = [worker EXCEPT ![w] = [worker[w] EXCEPT !.pc = s, !.read = balance]]
        /\ s = "charging" => ~version[worker[w].job]
        /\ worker[w].pc = "running"
  BY DEF Generate, Fail, TypeOK
<1> DEFINE a == [worker[w] EXCEPT !.pc = s, !.read = balance]
<1>2. /\ a \in Process /\ a.job = worker[w].job /\ a.found = worker[w].found
      /\ a.retry = worker[w].retry /\ a.read = balance /\ a.pc = s
  BY DEF TypeOK, Process
<1>3. worker' = [worker EXCEPT ![w] = a]
  BY <1>1
<1> HIDE DEF a
<1> QED
  BY <1>1, <1>2, <1>3 DEF TypeOK

\* The other steps of a worker end its transaction.
LEMMA ReleasedWorker ==
  ASSUME TypeOK, NEW w \in Workers, Release(w)
  PROVE  /\ worker' \in [Workers -> Process]
         /\ worker'[w] = IdleWorker
         /\ \A v \in Workers : v # w => worker'[v] = worker[v]
  BY IdleRows DEF Release, TypeOK

\* The messages that a worker leaves are of the tries there are.
LEMMA MessagesTyped ==
  ASSUME TypeOK, NEW w \in Workers, NEW again \in BOOLEAN, NEW acked \in BOOLEAN,
         Messages(w, again, acked)
  PROVE  waiting' \in [Jobs -> SUBSET (0 .. TaskRetries)] /\ losses' \in Nat
<1> DEFINE r == worker[w].retry
           left == (IF again /\ r < TaskRetries THEN {r + 1} ELSE {})
                     \cup (IF acked THEN {} ELSE {r})
           j == worker[w].job
<1>1. r \in 0 .. TaskRetries
  BY DEF TypeOK, Process
<1>2. left \in SUBSET (0 .. TaskRetries)
  BY <1>1, CreditAssumption
<1>3. waiting' = [waiting EXCEPT ![j] = waiting[j] \cup left]
  BY DEF Messages
<1> HIDE DEF left, j
<1>4. waiting' \in [Jobs -> SUBSET (0 .. TaskRetries)]
  BY <1>2, <1>3 DEF TypeOK
<1>5. losses' \in Nat
  BY DEF Messages, TypeOK
<1> QED
  BY <1>4, <1>5

\* A session of the desk takes the balance as it is, and closes.
LEMMA ClerkRow ==
  ASSUME TypeOK, NEW c \in Clerks
  PROVE  /\ \A op \in Desk : Begin(c, op)
              => /\ clerk' \in [Clerks -> Change]
                 /\ clerk'[c].read = balance
                 /\ \A d \in Clerks : d # c => clerk'[d] = clerk[d]
         /\ CommitChange(c) \/ RollBackChange(c)
              => /\ clerk' \in [Clerks -> Change]
                 /\ clerk'[c].read = 0
                 /\ \A d \in Clerks : d # c => clerk'[d] = clerk[d]
<1>1. ASSUME NEW op \in Desk, Begin(c, op)
      PROVE  /\ clerk' \in [Clerks -> Change]
             /\ clerk'[c].read = balance
             /\ \A d \in Clerks : d # c => clerk'[d] = clerk[d]
  <2> DEFINE a == [pc |-> "open", op |-> op, read |-> balance]
  <2>1. a \in Change /\ a.read = balance
    BY DEF TypeOK, Change
  <2>2. clerk' = [clerk EXCEPT ![c] = a]
    BY <1>1 DEF Begin
  <2> HIDE DEF a
  <2> QED
    BY <2>1, <2>2 DEF TypeOK
<1>2. ASSUME CommitChange(c) \/ RollBackChange(c)
      PROVE  /\ clerk' \in [Clerks -> Change]
             /\ clerk'[c].read = 0
             /\ \A d \in Clerks : d # c => clerk'[d] = clerk[d]
  <2>1. clerk' = [clerk EXCEPT ![c] = IdleClerk] /\ IdleClerk.read = 0
    BY <1>2 DEF CommitChange, RollBackChange, IdleClerk
  <2> QED
    BY <2>1, IdleRows DEF TypeOK
<1> QED
  BY <1>1, <1>2

\* A counter of a job's ledger rows goes up by one.
LEMMA CountUp ==
  ASSUME NEW f \in [Jobs -> Nat], NEW j
  PROVE  [f EXCEPT ![j] = @ + 1] \in [Jobs -> Nat]
<1> DEFINE n == f[j] + 1
           g == [f EXCEPT ![j] = n]
<1>1. j \in Jobs => n \in Nat
  OBVIOUS
<1> HIDE DEF n
<1>2. g \in [Jobs -> Nat]
  BY <1>1
<1> QED
  BY <1>2 DEF n

----------------------------------------------------------------------------
(***************************************************************************)
(* Type correctness                                                        *)
(***************************************************************************)
\* Type correctness: every variable keeps its type, for every instance.
THEOREM TypeCorrect == Spec => []TypeOK
<1>1. Init => TypeOK
  BY IdleRows, CreditAssumption DEF Init, TypeOK, Status
<1>2. TypeOK /\ [Next]_vars => TypeOK'
  <2> SUFFICES ASSUME TypeOK, [Next]_vars PROVE TypeOK'
    OBVIOUS
  <2>1. ASSUME NEW j \in Jobs, Requests(j) PROVE TypeOK'
    <3>1. 0 \in 0 .. TaskRetries
      BY CreditAssumption
    <3> QED
      BY <2>1, <3>1 DEF Requests, Ask, CommitRequest, RollBackRequest, TypeOK, Status, db
  <2>2. ASSUME NEW w \in Workers, NEW j \in Jobs, NEW retry \in 0 .. TaskRetries,
               Take(w, j, retry)
        PROVE  TypeOK'
    <3>1. worker' \in [Workers -> Process]
      BY <2>2, TakenJob
    <3>2. waiting' \in [Jobs -> SUBSET (0 .. TaskRetries)]
      BY <2>2 DEF Take, TypeOK
    <3> QED
      BY <2>2, <3>1, <3>2 DEF Take, TypeOK, db
  <2>3. ASSUME NEW w \in Workers, Generate(w) \/ Fail(w)
        PROVE  TypeOK'
    <3>1. worker' \in [Workers -> Process]
      BY <2>3, DoneJob
    <3> QED
      BY <2>3, <3>1 DEF Generate, Fail, TypeOK, db
  <2>4. ASSUME NEW w \in Workers, NEW acked \in BOOLEAN, Refused(w, acked)
        PROVE  TypeOK'
    BY <2>4, ReleasedWorker, MessagesTyped DEF Refused, TypeOK, db
  <2>5. ASSUME NEW w \in Workers, NEW acked \in BOOLEAN, CommitCharge(w, acked)
        PROVE  TypeOK'
    <3>1. worker[w].read \in Int
      BY DEF TypeOK, Process
    <3>2. balance' \in Int
      BY <2>5, <3>1, CreditAssumption DEF CommitCharge, Written, TypeOK
    <3>3. charged' \in [Jobs -> Nat]
      BY <2>5, CountUp DEF CommitCharge, TypeOK
    <3>4. waiting' \in [Jobs -> SUBSET (0 .. TaskRetries)] /\ losses' \in Nat
      BY <2>5, MessagesTyped DEF CommitCharge
    <3>5. version' \in [Jobs -> BOOLEAN] /\ job' \in [Jobs -> Status]
      BY <2>5 DEF CommitCharge, TypeOK, Status
    <3>6. worker' \in [Workers -> Process]
      BY <2>5, ReleasedWorker DEF CommitCharge
    <3> QED
      BY <2>5, <3>2, <3>3, <3>4, <3>5, <3>6 DEF CommitCharge, TypeOK
  <2>6. ASSUME NEW w \in Workers, NEW acked \in BOOLEAN, CommitRefund(w, acked)
        PROVE  TypeOK'
    <3>1. worker[w].read \in Int
      BY DEF TypeOK, Process
    <3>2. balance' \in Int /\ given' \in Nat
      BY <2>6, <3>1, CreditAssumption DEF CommitRefund, Written, TypeOK
    <3>3. refunded' \in [Jobs -> Nat]
      BY <2>6, CountUp DEF CommitRefund, TypeOK
    <3>4. waiting' \in [Jobs -> SUBSET (0 .. TaskRetries)] /\ losses' \in Nat
      BY <2>6, MessagesTyped DEF CommitRefund
    <3>5. job' \in [Jobs -> Status]
      BY <2>6 DEF CommitRefund, TypeOK, Status
    <3>6. worker' \in [Workers -> Process]
      BY <2>6, ReleasedWorker DEF CommitRefund
    <3> QED
      BY <2>6, <3>2, <3>3, <3>4, <3>5, <3>6 DEF CommitRefund, TypeOK
  <2>7. ASSUME NEW w \in Workers, TimeLimit(w) PROVE TypeOK'
    BY <2>7, ReleasedWorker, MessagesTyped DEF TimeLimit, TypeOK, db
  <2>8. ASSUME NEW w \in Workers, Lose(w) PROVE TypeOK'
    <3> DEFINE j == worker[w].job
               left == {worker[w].retry}
    <3>1. left \in SUBSET (0 .. TaskRetries)
      BY DEF TypeOK, Process
    <3>2. waiting' = [waiting EXCEPT ![j] = waiting[j] \cup left]
      BY <2>8 DEF Lose
    <3> HIDE DEF j, left
    <3>3. waiting' \in [Jobs -> SUBSET (0 .. TaskRetries)]
      BY <3>1, <3>2 DEF TypeOK
    <3>4. worker' \in [Workers -> Process]
      BY <2>8, ReleasedWorker DEF Lose
    <3> QED
      BY <2>8, <3>3, <3>4 DEF Lose, TypeOK, db
  <2>9. ASSUME NEW c \in Clerks, NEW op \in Desk, Begin(c, op) PROVE TypeOK'
    <3>1. clerk' \in [Clerks -> Change]
      BY <2>9, ClerkRow
    <3> QED
      BY <2>9, <3>1 DEF Begin, TypeOK, db
  <2>10. ASSUME NEW c \in Clerks, CommitChange(c) PROVE TypeOK'
    <3>1. clerk' \in [Clerks -> Change] /\ clerk[c].read \in Int
      BY <2>10, ClerkRow DEF TypeOK, Change
    <3> DEFINE read == clerk[c].read
               low == IF read < FreePlan THEN read ELSE FreePlan
    <3>2. \/ balance' = Written(read, Monthly) /\ given' = given + Monthly
             /\ subscribed' = subscribed
          \/ balance' = Written(read, low) /\ given' = given /\ subscribed' = FALSE
          \/ balance' = Written(read, read + Grant) /\ given' = given + Grant
             /\ subscribed' = subscribed
      BY <2>10 DEF CommitChange
    <3>3. {Monthly, low, read + Grant, balance} \subseteq Int
      BY <3>1, CreditAssumption DEF TypeOK
    <3> HIDE DEF read, low
    <3>4. balance' \in Int
      BY <3>2, <3>3 DEF Written
    <3>5. given' \in Nat
      BY <3>2, CreditAssumption DEF TypeOK
    <3>6. subscribed' \in BOOLEAN
      BY <3>2, Zenon DEF TypeOK
    <3> QED
      BY <2>10, <3>1, <3>4, <3>5, <3>6 DEF CommitChange, TypeOK
  <2>11. ASSUME NEW c \in Clerks, RollBackChange(c) PROVE TypeOK'
    <3>1. clerk' \in [Clerks -> Change]
      BY <2>11, ClerkRow
    <3> QED
      BY <2>11, <3>1 DEF RollBackChange, TypeOK, db
  <2>12. CASE UNCHANGED vars
    BY <2>12 DEF vars, db, TypeOK
  <2> QED
    BY <2>1, <2>2, <2>3, <2>4, <2>5, <2>6, <2>7, <2>8, <2>9, <2>10, <2>11, <2>12
       DEF Next, Work, DeskWork
<1> QED
  BY <1>1, <1>2, PTL DEF Spec

----------------------------------------------------------------------------
(***************************************************************************)
(* Charges and outcomes                                                    *)
(***************************************************************************)
\* The lock of the job's row admits one worker at a time.
OneAtATime ==
  \A v, w \in Workers :
    worker[v].found /\ worker[w].found /\ worker[v].job = worker[w].job => v = w

\* A worker is busy with a job; one that holds it found it, hence its request has
\* ended; and one about to charge for it has written the version that was not there.
HeldJobs ==
  /\ \A w \in Workers : worker[w].pc # "idle" => worker[w].job \in Jobs
  /\ \A w \in Workers : worker[w].pc \in {"running", "charging"} => worker[w].found
  /\ \A w \in Workers, j \in Jobs :
       worker[w].found /\ worker[w].job = j
         => /\ job[j] # "NONE"
            /\ worker[w].pc = "charging" => ~version[j]
  /\ \A j \in Jobs : request[j] # "done" => job[j] = "NONE"

IInv == OneAtATime /\ HeldJobs /\ ChargedOnce /\ OutcomeTrue

\* A job is charged once at most, with its version, and its status is true to it.
THEOREM IInvHolds == Spec => []IInv
<1>1. Init => IInv
  BY DEF Init, IInv, OneAtATime, HeldJobs, ChargedOnce, OutcomeTrue, IdleWorker
<1>2. TypeOK /\ IInv /\ [Next]_vars => IInv'
  <2> SUFFICES ASSUME TypeOK, IInv, [Next]_vars PROVE IInv'
    OBVIOUS
  <2> USE DEF IInv
  <2>1. ASSUME NEW j \in Jobs, Ask(j) \/ RollBackRequest(j) PROVE IInv'
    <3>1. /\ UNCHANGED <<job, version, charged, worker>>
          /\ \A i \in Jobs : request'[i] # "done" => request[i] # "done"
      BY <2>1 DEF Ask, RollBackRequest, db, TypeOK
    <3> QED
      BY <3>1 DEF OneAtATime, HeldJobs, ChargedOnce, OutcomeTrue
  <2>2. ASSUME NEW j \in Jobs, CommitRequest(j) PROVE IInv'
    <3>1. /\ UNCHANGED <<version, charged, worker>>
          /\ request[j] = "sent" /\ request'[j] = "done" /\ job'[j] = "QUEUED"
          /\ \A i \in Jobs : i # j => request'[i] = request[i] /\ job'[i] = job[i]
      BY <2>2 DEF CommitRequest, TypeOK
    <3>2. job[j] = "NONE" /\ ~version[j]
      BY <3>1 DEF HeldJobs, OutcomeTrue
    <3> QED
      BY <3>1, <3>2 DEF OneAtATime, HeldJobs, ChargedOnce, OutcomeTrue
  <2>3. ASSUME NEW w \in Workers, NEW j \in Jobs, NEW retry \in 0 .. TaskRetries,
               Take(w, j, retry)
        PROVE  IInv'
    <3>1. UNCHANGED <<job, version, charged, request>>
      BY <2>3 DEF Take, db
    <3> QED
      BY <2>3, <3>1, TakenJob DEF OneAtATime, HeldJobs, ChargedOnce, OutcomeTrue, JobFree
  <2>4. ASSUME NEW w \in Workers, Generate(w) \/ Fail(w)
        PROVE  IInv'
    <3>1. UNCHANGED <<job, version, charged, request>>
      BY <2>4 DEF Generate, Fail, db
    <3> QED
      BY <2>4, <3>1, DoneJob DEF OneAtATime, HeldJobs, ChargedOnce, OutcomeTrue
  <2>5. ASSUME NEW w \in Workers, NEW acked \in BOOLEAN,
               TimeLimit(w) \/ Lose(w) \/ Refused(w, acked)
        PROVE  IInv'
    <3>1. UNCHANGED <<job, version, charged, request>> /\ Release(w)
      BY <2>5 DEF TimeLimit, Lose, Refused, db
    <3> QED
      BY <3>1, ReleasedWorker
         DEF OneAtATime, HeldJobs, ChargedOnce, OutcomeTrue, IdleWorker
  <2>6. ASSUME NEW w \in Workers, NEW acked \in BOOLEAN, CommitCharge(w, acked)
        PROVE  IInv'
    <3> DEFINE j == worker[w].job
    <3>1. /\ worker[w].pc = "charging" /\ Release(w)
          /\ version' = [version EXCEPT ![j] = TRUE]
          /\ job' = [job EXCEPT ![j] = "SUCCESS"]
          /\ charged' \in {charged, [charged EXCEPT ![j] = charged[j] + 1]}
          /\ request' = request
      BY <2>6 DEF CommitCharge
    <3>2. worker[w].found /\ \A v \in Workers \ {w} : worker[v].found => worker[v].job # j
      BY <3>1 DEF HeldJobs, OneAtATime
    <3>3. j \in Jobs => /\ request[j] = "done" /\ charged[j] = 0
                        /\ version'[j] /\ job'[j] = "SUCCESS" /\ charged'[j] \in {0, 1}
      <4>1. j \in Jobs => request[j] = "done" /\ ~version[j]
        BY <3>1, <3>2 DEF HeldJobs
      <4>2. j \in Jobs => charged[j] = 0
        BY <4>1 DEF ChargedOnce, TypeOK
      <4>3. j \in Jobs => version'[j] = TRUE /\ job'[j] = "SUCCESS"
        BY <3>1 DEF TypeOK
      <4>4. j \in Jobs => charged'[j] \in {0, 1}
        BY <3>1, <4>2 DEF TypeOK
      <4> QED
        BY <4>1, <4>2, <4>3, <4>4
    <3>4. \A i \in Jobs \ {j} : /\ version'[i] = version[i] /\ job'[i] = job[i]
                                /\ charged'[i] = charged[i]
      BY <3>1 DEF TypeOK
    <3>5. /\ worker'[w] = IdleWorker
          /\ \A v \in Workers : v # w => worker'[v] = worker[v]
      BY <3>1, ReleasedWorker
    <3> HIDE DEF j
    <3>6. OneAtATime'
      BY <3>5 DEF OneAtATime, IdleWorker
    <3>7. HeldJobs'
      BY <3>1, <3>2, <3>3, <3>4, <3>5 DEF HeldJobs, IdleWorker
    <3>8. ChargedOnce' /\ OutcomeTrue'
      BY <3>3, <3>4 DEF ChargedOnce, OutcomeTrue
    <3> QED
      BY <3>6, <3>7, <3>8
  <2>7. ASSUME NEW w \in Workers, NEW acked \in BOOLEAN, CommitRefund(w, acked)
        PROVE  IInv'
    <3> DEFINE j == worker[w].job
    <3>1. /\ worker[w].pc = "refunding" /\ Release(w)
          /\ job' = job \/ (worker[w].found /\ job' = [job EXCEPT ![j] = "FAILED"])
          /\ UNCHANGED <<version, charged, request>>
      BY <2>7 DEF CommitRefund
    <3>2. \A i \in Jobs : \/ job'[i] = job[i]
                          \/ job[i] # "NONE" /\ job'[i] = "FAILED"
      BY <3>1 DEF HeldJobs, TypeOK
    <3> QED
      BY <3>1, <3>2, ReleasedWorker
         DEF OneAtATime, HeldJobs, ChargedOnce, OutcomeTrue, IdleWorker
  <2>8. ASSUME NEW c \in Clerks, DeskWork(c) PROVE IInv'
    <3>1. UNCHANGED <<job, version, charged, request, worker>>
      BY <2>8 DEF DeskWork, Begin, CommitChange, RollBackChange, db
    <3> QED
      BY <3>1 DEF OneAtATime, HeldJobs, ChargedOnce, OutcomeTrue
  <2>9. CASE UNCHANGED vars
    BY <2>9 DEF vars, db, OneAtATime, HeldJobs, ChargedOnce, OutcomeTrue
  <2> QED
    BY <2>1, <2>2, <2>3, <2>4, <2>5, <2>6, <2>7, <2>8, <2>9 DEF Next, Requests, Work
<1> QED
  BY <1>1, <1>2, TypeCorrect, PTL DEF Spec

\* The status of a job is true to its version.
THEOREM OutcomeTrueHolds == Spec => []OutcomeTrue
  BY IInvHolds, PTL DEF IInv
----------------------------------------------------------------------------
(***************************************************************************)
(* The tries of a job                                                      *)
(***************************************************************************)
\* The tries that a message, or the worker that has taken it, may still come to:
\* this one, and the retries after it.
Tries(holder, retry) == {holder} \X (retry .. TaskRetries)

Queued(j) == {x \in (0 .. TaskRetries) \X (0 .. TaskRetries) :
                x[1] \in waiting[j] /\ x[1] <= x[2]}

Held(j) == {x \in Workers \X (0 .. TaskRetries) :
              /\ worker[x[1]].pc # "idle" /\ worker[x[1]].job = j
              /\ worker[x[1]].retry <= x[2]}

\* A payment uses up a try, and a lost worker brings back those of its message.
TriesOwed ==
  \A j \in Jobs :
    /\ IsFiniteSet(Queued(j)) /\ IsFiniteSet(Held(j))
    /\ charged[j] + refunded[j] + Cardinality(Queued(j)) + Cardinality(Held(j))
         <= (TaskRetries + 1) * (losses + 1)
    /\ request[j] = "none"
         => charged[j] + refunded[j] = 0 /\ Queued(j) = {} /\ Held(j) = {}

LEMMA TriesCount ==
  ASSUME NEW holder, NEW retry \in 0 .. TaskRetries
  PROVE  /\ IsFiniteSet(Tries(holder, retry))
         /\ Cardinality(Tries(holder, retry)) = TaskRetries + 1 - retry
<1> DEFINE rest == retry .. TaskRetries
<1>1. retry \in Int /\ TaskRetries \in Int /\ retry <= TaskRetries
  BY CreditAssumption
<1>2. IsFiniteSet(rest) /\ Cardinality(rest) = TaskRetries - retry + 1
  BY <1>1, FS_Interval
<1>3. IsFiniteSet({holder}) /\ Cardinality({holder}) = 1
  BY FS_Singleton
<1> HIDE DEF rest
<1>4. /\ IsFiniteSet({holder} \X rest)
      /\ Cardinality({holder} \X rest) = Cardinality({holder}) * Cardinality(rest)
  BY <1>2, <1>3, FS_Product
<1> QED
  BY <1>1, <1>2, <1>3, <1>4 DEF Tries, rest

LEMMA MoreTries ==
  ASSUME NEW S, IsFiniteSet(S), NEW holder, NEW retry \in 0 .. TaskRetries,
         NEW R, R \subseteq S \cup Tries(holder, retry)
  PROVE  /\ IsFiniteSet(R) /\ Cardinality(R) \in Nat
         /\ Cardinality(R) <= Cardinality(S) + (TaskRetries + 1 - retry)
<1> DEFINE T == Tries(holder, retry)
<1>1. IsFiniteSet(T) /\ Cardinality(T) = TaskRetries + 1 - retry
  BY TriesCount
<1> HIDE DEF T
<1>2. /\ IsFiniteSet(S \cup T)
      /\ Cardinality(S \cup T) = Cardinality(S) + Cardinality(T) - Cardinality(S \cap T)
      /\ IsFiniteSet(S \cap T)
  BY <1>1, FS_Union, FS_Intersection
<1>3. IsFiniteSet(R) /\ Cardinality(R) <= Cardinality(S \cup T)
  BY <1>2, FS_Subset DEF T
<1>4. /\ Cardinality(S) \in Nat /\ Cardinality(T) \in Nat /\ Cardinality(S \cap T) \in Nat
      /\ Cardinality(R) \in Nat
  BY <1>1, <1>2, <1>3, FS_CardinalityType
<1> QED
  BY <1>1, <1>2, <1>3, <1>4

LEMMA FewerTries ==
  ASSUME NEW S, IsFiniteSet(S), NEW holder, NEW retry \in 0 .. TaskRetries,
         Tries(holder, retry) \subseteq S, NEW R, R \subseteq S \ Tries(holder, retry)
  PROVE  /\ IsFiniteSet(R) /\ Cardinality(R) \in Nat
         /\ Cardinality(R) + (TaskRetries + 1 - retry) <= Cardinality(S)
<1> DEFINE T == Tries(holder, retry)
<1>1. IsFiniteSet(T) /\ Cardinality(T) = TaskRetries + 1 - retry
  BY TriesCount
<1>2. S \cap T = T
  OBVIOUS
<1> HIDE DEF T
<1>3. IsFiniteSet(S \ T) /\ Cardinality(S \ T) = Cardinality(S) - Cardinality(T)
  BY <1>2, FS_Difference
<1>4. IsFiniteSet(R) /\ Cardinality(R) <= Cardinality(S \ T)
  BY <1>3, FS_Subset DEF T
<1>5. Cardinality(S) \in Nat /\ Cardinality(T) \in Nat /\ Cardinality(R) \in Nat
  BY <1>1, <1>4, FS_CardinalityType
<1> QED
  BY <1>1, <1>3, <1>4, <1>5

\* What a worker leaves when its transaction ends: at least this try is used up,
\* unless the worker is lost before it has acknowledged the message.
LEMMA TriesUsed ==
  ASSUME TypeOK, TriesOwed, NEW w \in Workers, NEW j \in Jobs,
         worker[w].pc # "idle", worker[w].job = j, Release(w),
         NEW again \in BOOLEAN, NEW acked \in BOOLEAN, Messages(w, again, acked)
  PROVE  /\ IsFiniteSet(Queued(j)') /\ IsFiniteSet(Held(j)')
         /\ Cardinality(Queued(j)') \in Nat /\ Cardinality(Held(j)') \in Nat
         /\ Cardinality(Queued(j)') + Cardinality(Held(j)') + 1
              <= Cardinality(Queued(j)) + Cardinality(Held(j))
                   + (IF acked THEN 0 ELSE TaskRetries + 1)
<1> DEFINE r == worker[w].retry
           next == IF again /\ r < TaskRetries THEN {r + 1} ELSE {}
           back == IF acked THEN {} ELSE {r}
           Q == {x \in (0 .. TaskRetries) \X (0 .. TaskRetries) :
                   x[1] \in waiting[j] \cup next /\ x[1] <= x[2]}
<1>0. /\ r \in 0 .. TaskRetries /\ TaskRetries \in Nat
      /\ waiting \in [Jobs -> SUBSET (0 .. TaskRetries)]
      /\ IsFiniteSet(Queued(j)) /\ IsFiniteSet(Held(j))
      /\ Cardinality(Queued(j)) \in Nat /\ Cardinality(Held(j)) \in Nat
  BY CreditAssumption, FS_CardinalityType DEF TypeOK, Process, TriesOwed
<1>1. waiting'[j] = (waiting[j] \cup next) \cup back
  BY <1>0 DEF Messages
<1>2. /\ IsFiniteSet(Held(j)') /\ Cardinality(Held(j)') \in Nat
      /\ Cardinality(Held(j)') + (TaskRetries + 1 - r) <= Cardinality(Held(j))
  <2>1. Tries(w, r) \subseteq Held(j)
    BY <1>0 DEF Tries, Held
  <2>2. /\ worker'[w].pc = "idle"
        /\ \A v \in Workers : v # w => worker'[v] = worker[v]
    BY ReleasedWorker DEF IdleWorker
  <2>3. Held(j)' \subseteq Held(j) \ Tries(w, r)
    BY <2>2 DEF Tries, Held
  <2> QED
    BY <1>0, <2>1, <2>3, FewerTries
<1>3. /\ IsFiniteSet(Q) /\ Cardinality(Q) \in Nat
      /\ Cardinality(Q) <= Cardinality(Queued(j)) + (TaskRetries - r)
  <2>1. CASE next = {}
    <3>1. Q = Queued(j)
      BY <2>1 DEF Queued
    <3> HIDE DEF Q, r
    <3> QED
      BY <1>0, <3>1
  <2>2. CASE again /\ r < TaskRetries
    <3>1. r + 1 \in 0 .. TaskRetries
      BY <1>0, <2>2
    <3>2. Q \subseteq Queued(j) \cup Tries(r + 1, r + 1)
      BY <2>2 DEF Queued, Tries
    <3>3. /\ IsFiniteSet(Q) /\ Cardinality(Q) \in Nat
          /\ Cardinality(Q) <= Cardinality(Queued(j)) + (TaskRetries + 1 - (r + 1))
      BY <1>0, <3>1, <3>2, MoreTries
    <3> QED
      BY <1>0, <3>3
  <2> QED
    BY <2>1, <2>2
<1>4. /\ IsFiniteSet(Queued(j)') /\ Cardinality(Queued(j)') \in Nat
      /\ Cardinality(Queued(j)') <= Cardinality(Q) + (IF acked THEN 0 ELSE TaskRetries + 1 - r)
  <2>1. CASE acked
    <3>1. Queued(j)' = Q
      BY <1>1, <2>1 DEF Queued
    <3> QED
      BY <1>3, <2>1, <3>1
  <2>2. CASE ~acked
    <3>1. Queued(j)' \subseteq Q \cup Tries(r, r)
      BY <1>1, <2>2 DEF Queued, Tries
    <3> HIDE DEF Q
    <3> QED
      BY <1>0, <1>3, <2>2, <3>1, MoreTries
  <2> QED
    BY <2>1, <2>2
<1> HIDE DEF r, Q
<1> QED
  BY <1>0, <1>2, <1>3, <1>4

\* The budget of tries, when one more worker is lost.
LEMMA Budget ==
  ASSUME TypeOK
  PROVE  /\ (TaskRetries + 1) * (losses + 1) \in Nat
         /\ TaskRetries + 1 <= (TaskRetries + 1) * (losses + 1)
         /\ (TaskRetries + 1) * (losses + 1 + 1)
              = (TaskRetries + 1) * (losses + 1) + (TaskRetries + 1)
<1> DEFINE n == TaskRetries + 1
<1>1. n \in Nat /\ losses \in Nat
  BY CreditAssumption DEF TypeOK
<1> HIDE DEF n
<1>2. n * losses \in Nat /\ n * (losses + 1) = n * losses + n
  BY <1>1
<1>3. n * (losses + 1 + 1) = n * (losses + 1) + n
  BY <1>1
<1> QED
  BY <1>1, <1>2, <1>3 DEF n

\* A step that ends the transaction of a worker keeps every job within it.
LEMMA EndStep ==
  ASSUME TypeOK, TriesOwed, TypeOK', NEW w \in Workers, worker[w].pc # "idle", Release(w),
         NEW again \in BOOLEAN, NEW acked \in BOOLEAN, Messages(w, again, acked),
         request' = request,
         \A i \in Jobs : charged'[i] + refunded'[i]
                          <= charged[i] + refunded[i] + (IF i = worker[w].job THEN 1 ELSE 0)
  PROVE  TriesOwed'
<1> SUFFICES ASSUME NEW j \in Jobs
             PROVE  /\ IsFiniteSet(Queued(j)') /\ IsFiniteSet(Held(j)')
                    /\ charged'[j] + refunded'[j] + Cardinality(Queued(j)') + Cardinality(Held(j)')
                         <= (TaskRetries + 1) * (losses' + 1)
                    /\ request'[j] = "none"
                         => charged'[j] + refunded'[j] = 0 /\ Queued(j)' = {} /\ Held(j)' = {}
  BY DEF TriesOwed
<1> DEFINE budget == (TaskRetries + 1) * (losses + 1)
           paid == charged[j] + refunded[j]
<1>0. /\ TaskRetries \in Nat /\ losses \in Nat /\ budget \in Nat /\ paid \in Nat
      /\ paid' \in Nat
      /\ losses' = (IF acked THEN losses ELSE losses + 1)
      /\ budget' = budget + (IF acked THEN 0 ELSE TaskRetries + 1)
  <2>1. /\ TaskRetries \in Nat /\ losses \in Nat /\ budget \in Nat /\ paid \in Nat
        /\ paid' \in Nat
    BY CreditAssumption, Budget DEF TypeOK
  <2>2. losses' = (IF acked THEN losses ELSE losses + 1)
    BY DEF Messages
  <2> QED
    BY <2>1, <2>2, Budget
<1>1. /\ IsFiniteSet(Queued(j)) /\ IsFiniteSet(Held(j))
      /\ Cardinality(Queued(j)) \in Nat /\ Cardinality(Held(j)) \in Nat
      /\ paid + Cardinality(Queued(j)) + Cardinality(Held(j)) <= budget
      /\ request[j] = "none" => paid = 0 /\ Queued(j) = {} /\ Held(j) = {}
  BY FS_CardinalityType DEF TriesOwed
<1> DEFINE Kept == /\ IsFiniteSet(Queued(j)') /\ IsFiniteSet(Held(j)')
                   /\ paid' + Cardinality(Queued(j)') + Cardinality(Held(j)') <= budget'
                   /\ request'[j] = "none"
                        => paid' = 0 /\ Queued(j)' = {} /\ Held(j)' = {}
<1> HIDE DEF budget
<1>2. ASSUME worker[w].job = j PROVE Kept
  <2>1. paid' <= paid + 1
    BY <1>2
  <2>2. request'[j] # "none"
    <3>1. <<w, worker[w].retry>> \in Held(j)
      BY <1>2, CreditAssumption DEF Held, TypeOK, Process
    <3> QED
      BY <1>1, <3>1
  <2> HIDE DEF paid
  <2>3. /\ IsFiniteSet(Queued(j)') /\ IsFiniteSet(Held(j)')
        /\ Cardinality(Queued(j)') \in Nat /\ Cardinality(Held(j)') \in Nat
        /\ Cardinality(Queued(j)') + Cardinality(Held(j)') + 1
             <= Cardinality(Queued(j)) + Cardinality(Held(j))
                  + (IF acked THEN 0 ELSE TaskRetries + 1)
    BY <1>2, TriesUsed
  <2>4. paid' + Cardinality(Queued(j)') + Cardinality(Held(j)') <= budget'
    BY <1>0, <1>1, <2>1, <2>3
  <2> QED
    BY <2>2, <2>3, <2>4
<1>3. ASSUME worker[w].job # j PROVE Kept
  <2>1. waiting'[j] = waiting[j]
    BY <1>3 DEF Messages, TypeOK
  <2>2. Queued(j)' = Queued(j)
    BY <2>1 DEF Queued
  <2>3. /\ worker'[w].pc = "idle"
        /\ \A v \in Workers : v # w => worker'[v] = worker[v]
    BY ReleasedWorker DEF IdleWorker
  <2>4. Held(j)' = Held(j)
    BY <1>3, <2>3 DEF Held
  <2>5. paid' <= paid
    BY <1>0, <1>3
  <2> HIDE DEF paid
  <2>6. paid' + Cardinality(Queued(j)') + Cardinality(Held(j)') <= budget'
    BY <1>0, <1>1, <2>2, <2>4, <2>5
  <2>7. paid = 0 => paid' = 0
    BY <1>0, <2>5
  <2> QED
    BY <1>1, <2>2, <2>4, <2>6, <2>7
<1> QED
  BY <1>2, <1>3 DEF budget

\* The steps that leave the tries of every job but one, and pay for none.
LEMMA OtherStep ==
  ASSUME TypeOK, TriesOwed, charged' = charged, refunded' = refunded, losses' = losses,
         NEW j,
         \A i \in Jobs : i # j => /\ waiting'[i] = waiting[i] /\ request'[i] = request[i]
                                  /\ Held(i)' = Held(i),
         j \in Jobs => /\ IsFiniteSet(Queued(j)') /\ IsFiniteSet(Held(j)')
                       /\ request'[j] # "none"
                       /\ charged[j] + refunded[j] + Cardinality(Queued(j)') + Cardinality(Held(j)')
                            <= (TaskRetries + 1) * (losses + 1)
  PROVE  TriesOwed'
<1>1. \A i \in Jobs : i # j => Queued(i)' = Queued(i) /\ Held(i)' = Held(i)
  BY DEF Queued
<1> SUFFICES ASSUME NEW i \in Jobs
             PROVE  /\ IsFiniteSet(Queued(i)') /\ IsFiniteSet(Held(i)')
                    /\ charged[i] + refunded[i] + Cardinality(Queued(i)') + Cardinality(Held(i)')
                         <= (TaskRetries + 1) * (losses + 1)
                    /\ request'[i] = "none"
                         => charged[i] + refunded[i] = 0 /\ Queued(i)' = {} /\ Held(i)' = {}
  BY DEF TriesOwed
<1>2. CASE i = j
  BY <1>2
<1>3. CASE i # j
  BY <1>1, <1>3 DEF TriesOwed
<1> QED
  BY <1>2, <1>3

\* A message is taken: its tries pass from the queue to the worker.
LEMMA TakeStep ==
  ASSUME TypeOK, TriesOwed, NEW w \in Workers, NEW j \in Jobs,
         NEW retry \in 0 .. TaskRetries, Take(w, j, retry)
  PROVE  TriesOwed'
<1>0. /\ IsFiniteSet(Queued(j)) /\ IsFiniteSet(Held(j))
      /\ Cardinality(Queued(j)) \in Nat /\ Cardinality(Held(j)) \in Nat
      /\ charged[j] + refunded[j] \in Nat
      /\ retry \in Nat /\ TaskRetries \in Nat
  BY FS_CardinalityType, CreditAssumption DEF TriesOwed, TypeOK
<1>1. /\ worker'[w].pc # "idle" /\ worker'[w].job = j /\ worker'[w].retry = retry
      /\ \A v \in Workers : v # w => worker'[v] = worker[v]
  BY TakenJob
<1>2. /\ worker[w].pc = "idle" /\ retry \in waiting[j]
      /\ waiting'[j] = waiting[j] \ {retry}
      /\ \A i \in Jobs : i # j => waiting'[i] = waiting[i]
      /\ request' = request /\ charged' = charged /\ refunded' = refunded /\ losses' = losses
  BY DEF Take, TypeOK, db
<1>3. /\ IsFiniteSet(Queued(j)') /\ Cardinality(Queued(j)') \in Nat
      /\ Cardinality(Queued(j)') + (TaskRetries + 1 - retry) <= Cardinality(Queued(j))
  <2>1. Tries(retry, retry) \subseteq Queued(j)
    BY <1>0, <1>2 DEF Tries, Queued
  <2>2. Queued(j)' \subseteq Queued(j) \ Tries(retry, retry)
    BY <1>2 DEF Tries, Queued
  <2> QED
    BY <1>0, <2>1, <2>2, FewerTries
<1>4. /\ IsFiniteSet(Held(j)') /\ Cardinality(Held(j)') \in Nat
      /\ Cardinality(Held(j)') <= Cardinality(Held(j)) + (TaskRetries + 1 - retry)
  <2>1. Held(j)' \subseteq Held(j) \cup Tries(w, retry)
    BY <1>1 DEF Tries, Held
  <2> QED
    BY <1>0, <2>1, MoreTries
<1>5. \A i \in Jobs : i # j => Held(i)' = Held(i)
  BY <1>1, <1>2 DEF Held
<1>6. request'[j] # "none"
  <2>1. <<retry, retry>> \in Queued(j)
    BY <1>0, <1>2 DEF Queued
  <2> QED
    BY <1>2, <2>1 DEF TriesOwed
<1>7. charged[j] + refunded[j] + Cardinality(Queued(j)') + Cardinality(Held(j)')
        <= (TaskRetries + 1) * (losses + 1)
  <2> DEFINE budget == (TaskRetries + 1) * (losses + 1)
  <2>1. /\ budget \in Nat
        /\ charged[j] + refunded[j] + Cardinality(Queued(j)) + Cardinality(Held(j)) <= budget
    BY Budget DEF TriesOwed
  <2> HIDE DEF budget
  <2>2. charged[j] + refunded[j] + Cardinality(Queued(j)') + Cardinality(Held(j)') <= budget
    BY <1>0, <1>3, <1>4, <2>1
  <2> QED
    BY <2>2 DEF budget
<1> QED
  BY <1>2, <1>3, <1>4, <1>5, <1>6, <1>7, OtherStep

\* The message of a request that asks for a job brings all tries of the job.
LEMMA RequestStep ==
  ASSUME TypeOK, TriesOwed, NEW j \in Jobs, Requests(j)
  PROVE  TriesOwed'
<1>1. /\ worker' = worker /\ charged' = charged /\ refunded' = refunded /\ losses' = losses
      /\ \A i \in Jobs : i # j => waiting'[i] = waiting[i] /\ request'[i] = request[i]
      /\ request'[j] # "none"
  BY DEF Requests, Ask, CommitRequest, RollBackRequest, TypeOK, db
<1>2. \A i \in Jobs : Held(i)' = Held(i)
  BY <1>1 DEF Held
<1>3. CASE Ask(j)
  <2>1. /\ waiting'[j] = {0} /\ request[j] = "none"
        /\ 0 \in 0 .. TaskRetries
    BY <1>3, CreditAssumption DEF Ask, TypeOK
  <2>2. Queued(j) = {} /\ Held(j) = {} /\ charged[j] + refunded[j] = 0
    BY <2>1 DEF TriesOwed
  <2>3. Queued(j)' \subseteq {} \cup Tries(0, 0)
    BY <2>1 DEF Queued, Tries
  <2>4. IsFiniteSet({}) /\ Cardinality({}) = 0
    BY FS_EmptySet
  <2>5. /\ IsFiniteSet(Queued(j)') /\ Cardinality(Queued(j)') \in Nat
        /\ Cardinality(Queued(j)') <= 0 + (TaskRetries + 1 - 0)
    BY <2>1, <2>3, <2>4, MoreTries
  <2>6. charged[j] + refunded[j] + Cardinality(Queued(j)') + Cardinality(Held(j)')
          <= (TaskRetries + 1) * (losses + 1)
    <3> DEFINE budget == (TaskRetries + 1) * (losses + 1)
    <3>1. budget \in Nat /\ TaskRetries + 1 <= budget /\ TaskRetries \in Nat
      BY Budget, CreditAssumption
    <3> HIDE DEF budget
    <3>2. Held(j)' = {} /\ Cardinality(Held(j)') = 0
      BY <1>2, <2>2, <2>4
    <3>3. Cardinality(Queued(j)') <= budget
      BY <2>5, <3>1
    <3>4. charged[j] + refunded[j] + Cardinality(Queued(j)') + Cardinality(Held(j)')
            = Cardinality(Queued(j)')
      BY <2>2, <2>5, <3>2
    <3> QED
      BY <3>3, <3>4 DEF budget
  <2> QED
    BY <1>1, <1>2, <2>2, <2>4, <2>5, <2>6, OtherStep
<1>4. CASE CommitRequest(j) \/ RollBackRequest(j)
  <2>1. waiting' = waiting
    BY <1>4 DEF CommitRequest, RollBackRequest
  <2>2. Queued(j)' = Queued(j)
    BY <2>1 DEF Queued
  <2> QED
    BY <1>1, <1>2, <2>2, OtherStep DEF TriesOwed
<1> QED
  BY <1>3, <1>4 DEF Requests

LEMMA TriesStep ==
  ASSUME TypeOK, TypeOK', TriesOwed, [Next]_vars
  PROVE  TriesOwed'
<1>1. ASSUME UNCHANGED <<waiting, charged, refunded, losses, request>>,
             \A j \in Jobs : Held(j)' = Held(j)
      PROVE  TriesOwed'
  <2>1. \A j \in Jobs : Queued(j)' = Queued(j)
    BY <1>1 DEF Queued
  <2> QED
    BY <1>1, <2>1 DEF TriesOwed
<1>2. ASSUME UNCHANGED <<waiting, charged, refunded, losses, request, worker>>
      PROVE  TriesOwed'
  BY <1>1, <1>2 DEF Held
<1>3. ASSUME NEW w \in Workers, Generate(w) \/ Fail(w) PROVE TriesOwed'
  <2>1. /\ worker[w].pc # "idle" /\ worker'[w].pc # "idle"
        /\ worker'[w].job = worker[w].job /\ worker'[w].retry = worker[w].retry
        /\ \A v \in Workers : v # w => worker'[v] = worker[v]
    BY <1>3, DoneJob
  <2>2. \A j \in Jobs : Held(j)' = Held(j)
    BY <2>1 DEF Held
  <2> QED
    BY <1>1, <1>3, <2>2 DEF Generate, Fail, db
<1>4. /\ charged \in [Jobs -> Nat] /\ refunded \in [Jobs -> Nat]
  BY DEF TypeOK
<1>5. ASSUME NEW w \in Workers, NEW acked \in BOOLEAN, CommitCharge(w, acked)
      PROVE  TriesOwed'
  <2>1. /\ Messages(w, FALSE, acked) /\ Release(w) /\ worker[w].pc # "idle"
        /\ request' = request /\ refunded' = refunded
        /\ charged' \in {charged, [charged EXCEPT ![worker[w].job] = @ + 1]}
    BY <1>5 DEF CommitCharge
  <2>2. \A j \in Jobs : charged'[j] <= charged[j] + (IF j = worker[w].job THEN 1 ELSE 0)
    BY <1>4, <2>1
  <2>3. \A j \in Jobs : charged'[j] + refunded'[j]
                          <= charged[j] + refunded[j] + (IF j = worker[w].job THEN 1 ELSE 0)
    BY <1>4, <2>1, <2>2 DEF TypeOK
  <2> QED
    BY <2>1, <2>3, EndStep
<1>6. ASSUME NEW w \in Workers, NEW acked \in BOOLEAN, CommitRefund(w, acked)
      PROVE  TriesOwed'
  <2>1. /\ Messages(w, TRUE, acked) /\ Release(w) /\ worker[w].pc # "idle"
        /\ request' = request /\ charged' = charged
        /\ refunded' = [refunded EXCEPT ![worker[w].job] = @ + 1]
    BY <1>6 DEF CommitRefund
  <2>2. \A j \in Jobs : refunded'[j] <= refunded[j] + (IF j = worker[w].job THEN 1 ELSE 0)
    BY <1>4, <2>1
  <2>3. \A j \in Jobs : charged'[j] + refunded'[j]
                          <= charged[j] + refunded[j] + (IF j = worker[w].job THEN 1 ELSE 0)
    BY <1>4, <2>1, <2>2 DEF TypeOK
  <2> QED
    BY <2>1, <2>3, EndStep
<1>7. ASSUME NEW w \in Workers, NEW again \in BOOLEAN, NEW acked \in BOOLEAN,
             Messages(w, again, acked), Release(w), worker[w].pc # "idle",
             UNCHANGED <<request, charged, refunded>>
      PROVE  TriesOwed'
  <2>1. \A j \in Jobs : charged'[j] + refunded'[j]
                          <= charged[j] + refunded[j] + (IF j = worker[w].job THEN 1 ELSE 0)
    BY <1>4, <1>7
  <2> QED
    BY <1>7, <2>1, EndStep
<1>8. ASSUME NEW w \in Workers, NEW acked \in BOOLEAN, Refused(w, acked) \/ TimeLimit(w)
      PROVE  TriesOwed'
  BY <1>7, <1>8 DEF Refused, TimeLimit, db
<1>9. ASSUME NEW w \in Workers, Lose(w) PROVE TriesOwed'
  <2>1. Messages(w, FALSE, FALSE)
    BY <1>9 DEF Lose, Messages
  <2> QED
    BY <1>7, <1>9, <2>1 DEF Lose, db
<1>10. ASSUME (\E c \in Clerks : DeskWork(c)) \/ UNCHANGED vars PROVE TriesOwed'
  BY <1>2, <1>10 DEF DeskWork, Begin, CommitChange, RollBackChange, db, vars
<1> QED
  BY <1>3, <1>5, <1>6, <1>8, <1>9, <1>10, TakeStep, RequestStep DEF Next, Work

\* A job is charged once at most, with its version; and it is charged and
\* refunded no more often than it has tries, and those again for every worker
\* that is lost.
THEOREM PaymentsBoundedHolds == Spec => []PaymentsBounded
<1>1. Init => TriesOwed
  <2> SUFFICES ASSUME Init, NEW j \in Jobs
               PROVE  /\ Queued(j) = {} /\ Held(j) = {} /\ charged[j] + refunded[j] = 0
                      /\ IsFiniteSet({})
                      /\ 0 + Cardinality({}) + Cardinality({}) <= (TaskRetries + 1) * (losses + 1)
    BY DEF TriesOwed
  <2>1. Queued(j) = {} /\ Held(j) = {}
    BY DEF Init, Queued, Held, IdleWorker
  <2> QED
    BY <2>1, FS_EmptySet, CreditAssumption DEF Init
<1>2. TypeOK /\ IInv /\ TriesOwed => PaymentsBounded
  <2> SUFFICES ASSUME TypeOK, TriesOwed, NEW j \in Jobs
               PROVE  charged[j] + refunded[j] <= (TaskRetries + 1) * (losses + 1)
    BY DEF IInv, PaymentsBounded
  <2> DEFINE budget == (TaskRetries + 1) * (losses + 1)
  <2>1. /\ Cardinality(Queued(j)) \in Nat /\ Cardinality(Held(j)) \in Nat
        /\ budget \in Nat /\ charged[j] + refunded[j] \in Nat
        /\ charged[j] + refunded[j] + Cardinality(Queued(j)) + Cardinality(Held(j)) <= budget
    BY FS_CardinalityType, Budget DEF TriesOwed, TypeOK
  <2> HIDE DEF budget
  <2>2. charged[j] + refunded[j] <= budget
    BY <2>1
  <2> QED
    BY <2>2 DEF budget
<1> QED
  BY <1>1, <1>2, TypeCorrect, IInvHolds, TriesStep, PTL DEF Spec
----------------------------------------------------------------------------
(***************************************************************************)
(* The ledger, and what it says of the balance                             *)
(***************************************************************************)
\* A transaction that reads adds the balance, one that ends takes what it has
\* read with it.
LEMMA WorkerPending ==
  ASSUME NEW w \in Workers, UNCHANGED clerk,
         \A v \in Workers : v # w => worker'[v] = worker[v],
         worker'[w].pc \in {"charging", "refunding"} => worker'[w].read = balance
  PROVE  Pending' \subseteq Pending \cup {balance}
BY DEF Pending

LEMMA EndedPending ==
  ASSUME TypeOK, NEW w \in Workers, Release(w), UNCHANGED clerk PROVE Pending' \subseteq Pending
<1>1. /\ worker'[w] = IdleWorker
      /\ \A v \in Workers : v # w => worker'[v] = worker[v]
  BY ReleasedWorker
<1>2. worker'[w].pc = "idle"
  BY <1>1 DEF IdleWorker
<1> QED
  BY <1>1, <1>2 DEF Pending

LEMMA ClerkPending ==
  ASSUME TypeOK, NEW c \in Clerks, UNCHANGED worker,
         CommitChange(c) \/ RollBackChange(c)
  PROVE  Pending' \subseteq Pending /\ clerk[c].read \in Pending
<1>1. clerk[c].pc = "open" /\ clerk' = [clerk EXCEPT ![c] = IdleClerk]
  BY DEF CommitChange, RollBackChange
<1>2. clerk'[c].pc = "idle" /\ \A d \in Clerks : d # c => clerk'[d] = clerk[d]
  BY <1>1 DEF TypeOK, IdleClerk
<1> QED
  BY <1>1, <1>2 DEF Pending

\* Steps that read, or end without a write, look; the others change nothing.
LEMMA LookStep ==
  ASSUME UNCHANGED db, Pending' \subseteq Pending \cup {balance}
  PROVE  Statement!Next
BY DEF db, Statement!Next, Statement!Look, Statement!entries

LEMMA ChargeStep ==
  ASSUME TypeOK, IInv, NEW w \in Workers, NEW acked \in BOOLEAN, CommitCharge(w, acked)
  PROVE  [Statement!Next]_(Statement!vars)
<1> DEFINE j == worker[w].job
           read == worker[w].read
<1>1. /\ worker[w].pc = "charging" /\ Release(w)
      /\ UNCHANGED <<given, refunded, clerk>>
  BY DEF CommitCharge
<1>2. Pending' \subseteq Pending /\ read \in Pending
  BY <1>1, EndedPending DEF Pending
<1>3. CASE ~Covers(read)
  <2>1. UNCHANGED <<balance, charged>>
    BY <1>3 DEF CommitCharge
  <2> QED
    BY <1>1, <1>2, <2>1 DEF Statement!Next, Statement!Look, Statement!entries
<1>4. CASE Covers(read)
  <2>1. /\ balance' = Written(read, read - Cost)
        /\ charged' = [charged EXCEPT ![j] = charged[j] + 1]
    BY <1>4 DEF CommitCharge
  <2>2. read \in Int
    BY DEF TypeOK, Process
  <2>3. balance' = read - Cost /\ read >= Cost
    BY <1>4, <2>1, <2>2, CreditAssumption DEF Written, Covers
  <2>4. j \in Jobs /\ worker[w].found /\ ~version[j]
    BY <1>1 DEF IInv, HeldJobs
  <2>5. charged[j] = 0
    BY <2>4 DEF IInv, ChargedOnce, TypeOK
  <2>6. charged' = [charged EXCEPT ![j] = 1]
    BY <2>1, <2>5
  <2>7. Statement!Charge(j)
    BY <1>1, <1>2, <2>3, <2>5, <2>6 DEF Statement!Charge
  <2> QED
    BY <1>2, <2>4, <2>7 DEF Statement!Next, Statement!Write
<1> QED
  BY <1>3, <1>4

LEMMA RefundStep ==
  ASSUME TypeOK, IInv, NEW w \in Workers, NEW acked \in BOOLEAN, CommitRefund(w, acked)
  PROVE  Statement!Next
<1> DEFINE j == worker[w].job
           read == worker[w].read
<1>1. /\ worker[w].pc = "refunding" /\ Release(w)
      /\ balance' = Written(read, read + Cost)
      /\ given' = given + Cost
      /\ refunded' = [refunded EXCEPT ![j] = @ + 1]
      /\ UNCHANGED <<charged, clerk>>
  BY DEF CommitRefund
<1>2. Pending' \subseteq Pending /\ read \in Pending
  BY <1>1, EndedPending DEF Pending
<1>3. j \in Jobs /\ read \in Int
  BY <1>1 DEF IInv, HeldJobs, TypeOK, Process
<1>4. balance' = read + Cost
  BY <1>1, <1>3, CreditAssumption DEF Written
<1>5. Statement!Refund(j)
  BY <1>1, <1>2, <1>4 DEF Statement!Refund
<1> QED
  BY <1>2, <1>3, <1>5 DEF Statement!Next, Statement!Write

LEMMA ChangeStep ==
  ASSUME TypeOK, NEW c \in Clerks, CommitChange(c)
  PROVE  [Statement!Next]_(Statement!vars)
<1> DEFINE read == clerk[c].read
           low == IF read < FreePlan THEN read ELSE FreePlan
<1>1. UNCHANGED <<worker, charged, refunded>>
  BY DEF CommitChange
<1>2. Pending' \subseteq Pending /\ read \in Pending
  BY <1>1, ClerkPending
<1>3. read \in Int /\ balance \in Int
  BY DEF TypeOK, Change
<1>4. CASE clerk[c].op = "reset"
  <2>1. balance' = Written(read, Monthly) /\ given' = given + Monthly
    BY <1>4 DEF CommitChange
  <2>2. balance' = Monthly \/ (Monthly = read /\ balance' = balance)
    BY <2>1 DEF Written
  <2>3. Statement!Reset
    BY <1>1, <1>2, <2>1, <2>2 DEF Statement!Reset
  <2> QED
    BY <1>2, <2>3 DEF Statement!Next, Statement!Write
<1>5. CASE clerk[c].op = "grant"
  <2>1. balance' = Written(read, read + Grant) /\ given' = given + Grant
    BY <1>5 DEF CommitChange
  <2>2. balance' = read + Grant \/ (Grant = 0 /\ balance' = balance)
    BY <1>3, <2>1, CreditAssumption DEF Written
  <2>3. Statement!Add
    BY <1>1, <1>2, <2>1, <2>2 DEF Statement!Add
  <2> QED
    BY <1>2, <2>3 DEF Statement!Next, Statement!Write
<1>6. CASE clerk[c].op = "expire"
  <2>1. balance' = Written(read, low) /\ given' = given
    BY <1>6 DEF CommitChange
  <2>2. CASE read > FreePlan
    <3>1. balance' = FreePlan
      BY <1>3, <2>1, <2>2, CreditAssumption DEF Written
    <3>2. Statement!Expire
      BY <1>1, <1>2, <2>1, <2>2, <3>1 DEF Statement!Expire, Statement!entries
    <3> QED
      BY <1>2, <3>2 DEF Statement!Next, Statement!Write
  <2>3. CASE ~(read > FreePlan)
    <3>1. low = read
      BY <1>3, <2>3, CreditAssumption
    <3>2. balance' = balance
      BY <2>1, <3>1 DEF Written
    <3>3. Statement!Look
      BY <1>1, <1>2, <2>1, <3>2 DEF Statement!Look, Statement!entries
    <3> QED
      BY <3>3 DEF Statement!Next
  <2> QED
    BY <2>2, <2>3
<1> QED
  BY <1>4, <1>5, <1>6 DEF CommitChange

LEMMA LedgerStep ==
  ASSUME TypeOK, IInv, [Next]_vars PROVE [Statement!Next]_(Statement!vars)
<1>1. ASSUME UNCHANGED <<worker, clerk, balance, given, charged, refunded>>
      PROVE  UNCHANGED Statement!vars
  BY <1>1 DEF Statement!vars, Statement!entries, Pending
<1>2. ASSUME NEW j \in Jobs, Requests(j) PROVE [Statement!Next]_(Statement!vars)
  BY <1>1, <1>2 DEF Requests, Ask, CommitRequest, RollBackRequest, db
<1>3. ASSUME NEW w \in Workers, NEW j \in Jobs, NEW retry \in 0 .. TaskRetries,
             Take(w, j, retry)
      PROVE  Statement!Next
  <2>1. UNCHANGED db /\ clerk' = clerk
    BY <1>3 DEF Take
  <2>2. worker'[w].pc \in {"charging", "refunding"} => worker'[w].read = balance
    BY <1>3 DEF Take, TypeOK
  <2>3. Pending' \subseteq Pending \cup {balance}
    BY <1>3, <2>1, <2>2, TakenJob, WorkerPending
  <2> QED
    BY <2>1, <2>3, LookStep
<1>4. ASSUME NEW w \in Workers, Generate(w) \/ Fail(w) PROVE Statement!Next
  <2>1. UNCHANGED db /\ clerk' = clerk
    BY <1>4 DEF Generate, Fail
  <2>2. Pending' \subseteq Pending \cup {balance}
    BY <1>4, <2>1, DoneJob, WorkerPending
  <2> QED
    BY <2>1, <2>2, LookStep
<1>5. ASSUME NEW w \in Workers, NEW acked \in BOOLEAN,
             TimeLimit(w) \/ Lose(w) \/ Refused(w, acked)
      PROVE  Statement!Next
  <2>1. UNCHANGED <<db, clerk>> /\ Release(w)
    BY <1>5 DEF TimeLimit, Lose, Refused
  <2> QED
    BY <2>1, EndedPending, LookStep
<1>6. ASSUME NEW c \in Clerks, NEW op \in Desk, Begin(c, op) PROVE Statement!Next
  <2>1. UNCHANGED <<db, worker>>
    BY <1>6 DEF Begin
  <2>2. Pending' \subseteq Pending \cup {balance}
    BY <1>6, <2>1, ClerkRow DEF Pending
  <2> QED
    BY <2>1, <2>2, LookStep
<1>7. ASSUME NEW c \in Clerks, RollBackChange(c) PROVE Statement!Next
  <2>1. UNCHANGED <<db, worker>>
    BY <1>7 DEF RollBackChange
  <2> QED
    BY <1>7, <2>1, ClerkPending, LookStep
<1>8. CASE UNCHANGED vars
  BY <1>1, <1>8 DEF vars, db
<1> QED
  BY <1>2, <1>3, <1>4, <1>5, <1>6, <1>7, <1>8, ChargeStep, RefundStep, ChangeStep
     DEF Next, Work, DeskWork

\* Credits implements Ledger: whatever overlaps, is retried or lost, the balance
\* is what some transaction made of a balance it had read, with its one entry.
THEOREM LedgerKeptHolds == Spec => LedgerKept
<1>1. Init => Statement!Init
  BY DEF Init, Statement!Init, Pending, IdleWorker, IdleClerk
<1>2. TypeOK /\ IInv /\ [Next]_vars => [Statement!Next]_(Statement!vars)
  BY LedgerStep
<1> QED
  BY <1>1, <1>2, TypeCorrect, IInvHolds, PTL DEF Spec, LedgerKept, Statement!Spec

\* In the ledger, what has been read is bounded like the balance it was, and the
\* amount given only grows, so that a balance written late is bounded too.
LedgerBounded ==
  given \in Nat /\ balance \in 0 .. given /\ \A read \in Pending : read \in 0 .. given

LEMMA BoundedStep ==
  ASSUME LedgerBounded, [Statement!Next]_(Statement!vars) PROVE LedgerBounded'
<1> USE CreditAssumption DEF LedgerBounded
<1>1. CASE Statement!Look
  BY <1>1 DEF Statement!Look, Statement!entries
<1>2. ASSUME Pending' \subseteq Pending, given' \in Nat, given' >= given, balance' \in 0 .. given'
      PROVE  LedgerBounded'
  BY <1>2
<1>3. ASSUME Pending' \subseteq Pending, NEW j \in Jobs, Statement!Charge(j) PROVE LedgerBounded'
  BY <1>2, <1>3 DEF Statement!Charge
<1>4. ASSUME Pending' \subseteq Pending, NEW j \in Jobs, Statement!Refund(j) PROVE LedgerBounded'
  BY <1>2, <1>4 DEF Statement!Refund
<1>5. ASSUME Pending' \subseteq Pending, Statement!Reset PROVE LedgerBounded'
  BY <1>2, <1>5 DEF Statement!Reset
<1>6. ASSUME Pending' \subseteq Pending, Statement!Add PROVE LedgerBounded'
  BY <1>2, <1>6 DEF Statement!Add
<1>7. ASSUME Pending' \subseteq Pending, Statement!Expire PROVE LedgerBounded'
  BY <1>2, <1>7 DEF Statement!Expire, Statement!entries
<1>8. CASE UNCHANGED Statement!vars
  BY <1>8 DEF Statement!vars, Statement!entries
<1> QED
  BY <1>1, <1>3, <1>4, <1>5, <1>6, <1>7, <1>8 DEF Statement!Next, Statement!Write

\* Whatever implements Ledger keeps the balance between zero and what was given.
THEOREM LedgerBoundsBalance == LedgerKept => []BalanceBounded
<1>1. Statement!Init => LedgerBounded
  BY CreditAssumption DEF Statement!Init, LedgerBounded
<1>2. LedgerBounded /\ [Statement!Next]_(Statement!vars) => LedgerBounded'
  BY BoundedStep
<1>3. LedgerBounded => BalanceBounded
  BY DEF LedgerBounded, BalanceBounded
<1> QED
  BY <1>1, <1>2, <1>3, PTL DEF LedgerKept, Statement!Spec

\* Whatever is overwritten, the balance stays between zero and what was given.
THEOREM BalanceBoundedHolds == Spec => []BalanceBounded
BY LedgerKeptHolds, LedgerBoundsBalance, PTL
=============================================================================
