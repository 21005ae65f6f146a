------------------------------ MODULE Credits ------------------------------
(***************************************************************************)
(* The credits of one workspace and the generation jobs that use them: the *)
(* requests that check the balance and send a job, the workers that carry  *)
(* it out and deduct, or fail and refund, and the resets, expiries and     *)
(* grants that set the balance meanwhile.                                  *)
(*                                                                         *)
(* Transactions overlap.  Each takes the balance from the row as it has    *)
(* read it and writes the new one when it commits; nothing it has read is  *)
(* locked.                                                                 *)
(***************************************************************************)
EXTENDS Integers

CONSTANTS Jobs,          \* ids of generation jobs, each with a draft of its own
          Workers,       \* generation processes
          Clerks,        \* sessions of the beat's credit tasks and of the admins
          Cost,          \* credits for one job
          Initial,       \* balance that the workspace starts with
          Monthly,       \* monthly_credits of the plan
          FreePlan,      \* monthly_credits of the free plan
          Grant,         \* amount of an admin's grant
          TaskRetries,   \* max_retries of run_content_generation
          MaxChanges,    \* bound: resets, expiries and grants
          MaxLosses      \* bound: workers lost

ASSUME CreditAssumption ==
  /\ Cost \in Nat \ {0}
  /\ Initial \in Nat /\ Monthly \in Nat /\ FreePlan \in Nat /\ Grant \in Nat
  /\ TaskRetries \in Nat /\ MaxChanges \in Nat /\ MaxLosses \in Nat

VARIABLES
  balance,      \* credit_balances.balance
  given,        \* Initial, and the positive credits_delta of credit_transactions
  charged,      \* ledger rows of each job: deductions
  refunded,     \* ledger rows of each job: refunds
  job,          \* generation_jobs.status
  version,      \* version 1 of the job's draft exists
  request,      \* the session that initiates the job
  waiting,      \* the job's messages, by the number of retries behind them
  worker,       \* the state of each generation process
  clerk,        \* the state of each session of the desk
  subscribed,   \* the owner's subscription is one of the active kinds
  changes,      \* sessions of the desk begun
  losses        \* workers lost

db   == <<balance, given, charged, refunded, job, version, subscribed>>
vars == <<db, request, waiting, worker, clerk, changes, losses>>

Status == {"NONE", "QUEUED", "SUCCESS", "FAILED"}
Desk   == {"reset", "expire", "grant"}

\* found: the job's row was there, and is locked since its RUNNING was flushed;
\* read: the balance as loaded for the deduction or the refund.
IdleWorker == [pc |-> "idle", job |-> "none", retry |-> 0, found |-> FALSE, read |-> 0]
IdleClerk  == [pc |-> "idle", op |-> "reset", read |-> 0]

Init ==
  /\ balance = Initial /\ given = Initial
  /\ charged = [j \in Jobs |-> 0]
  /\ refunded = [j \in Jobs |-> 0]
  /\ job = [j \in Jobs |-> "NONE"]
  /\ version = [j \in Jobs |-> FALSE]
  /\ request = [j \in Jobs |-> "none"]
  /\ waiting = [j \in Jobs |-> {}]
  /\ worker = [w \in Workers |-> IdleWorker]
  /\ clerk = [c \in Clerks |-> IdleClerk]
  /\ subscribed = TRUE
  /\ changes = 0 /\ losses = 0

----------------------------------------------------------------------------
(***************************************************************************)
(* Requests                                                                *)
(***************************************************************************)
\* Fault: any balance will do.
Covers_Positive(credits) == credits > 0

Covers(credits) == credits >= Cost

\* The balance is checked and not deducted; the message leaves before the rows
\* of job and draft are committed.
Ask(j) ==
  /\ request[j] = "none"
  /\ subscribed /\ Covers(balance)
  /\ request' = [request EXCEPT ![j] = "sent"]
  /\ waiting' = [waiting EXCEPT ![j] = {0}]
  /\ UNCHANGED <<db, worker, clerk, changes, losses>>

CommitRequest(j) ==
  /\ request[j] = "sent"
  /\ request' = [request EXCEPT ![j] = "done"]
  /\ job' = [job EXCEPT ![j] = "QUEUED"]
  /\ UNCHANGED <<balance, given, charged, refunded, version, subscribed,
                 waiting, worker, clerk, changes, losses>>

RollBackRequest(j) ==
  /\ request[j] = "sent"
  /\ request' = [request EXCEPT ![j] = "done"]
  /\ UNCHANGED <<db, waiting, worker, clerk, changes, losses>>

----------------------------------------------------------------------------
(***************************************************************************)
(* Generation workers                                                      *)
(***************************************************************************)
\* The row of a job is locked from the flush of RUNNING to the commit.
JobFree(j) == \A w \in Workers : ~(worker[w].found /\ worker[w].job = j)

\* A job that is not there raises, and goes on to the refund.  A retry comes
\* ten seconds later at the earliest, and the request has ended by then.
Take(w, j, retry) ==
  /\ worker[w].pc = "idle"
  /\ retry \in waiting[j]
  /\ retry > 0 => request[j] # "sent"
  /\ waiting' = [waiting EXCEPT ![j] = @ \ {retry}]
  /\ \/ /\ job[j] = "NONE"
        /\ worker' = [worker EXCEPT ![w] = [pc |-> "refunding", job |-> j, retry |-> retry,
                                            found |-> FALSE, read |-> balance]]
     \/ /\ job[j] # "NONE"
        /\ JobFree(j)
        /\ worker' = [worker EXCEPT ![w] = [pc |-> "running", job |-> j, retry |-> retry,
                                            found |-> TRUE, read |-> 0]]
  /\ UNCHANGED <<db, request, clerk, changes, losses>>

\* Fault: the number of the version is not unique.
Generate_Again(w) ==
  /\ worker[w].pc = "running"
  /\ worker' = [worker EXCEPT ![w].pc = "charging", ![w].read = balance]
  /\ UNCHANGED <<db, request, waiting, clerk, changes, losses>>

\* The version is inserted, the job's SUCCESS flushed and the balance read.
Generate(w) ==
  /\ worker[w].pc = "running"
  /\ ~version[worker[w].job]
  /\ worker' = [worker EXCEPT ![w].pc = "charging", ![w].read = balance]
  /\ UNCHANGED <<db, request, waiting, clerk, changes, losses>>

\* A call of the AI services raises: FAILED is flushed and the balance read.
Fail(w) ==
  /\ worker[w].pc = "running"
  /\ worker' = [worker EXCEPT ![w].pc = "refunding", ![w].read = balance]
  /\ UNCHANGED <<db, request, waiting, clerk, changes, losses>>

\* Fault: one retry too many.
Messages_PastTheLast(w, again, acked) ==
  LET r == worker[w].retry IN
    /\ acked \/ losses < MaxLosses
    /\ losses' = IF acked THEN losses ELSE losses + 1
    /\ waiting' = [waiting EXCEPT ![worker[w].job] =
                     @ \cup (IF again /\ r <= TaskRetries THEN {r + 1} ELSE {})
                       \cup (IF acked THEN {} ELSE {r})]

\* The message of the next try, and the one in hand, which comes back when the
\* worker is lost before it is acknowledged.
Messages(w, again, acked) ==
  LET r == worker[w].retry IN
    /\ acked \/ losses < MaxLosses
    /\ losses' = IF acked THEN losses ELSE losses + 1
    /\ waiting' = [waiting EXCEPT ![worker[w].job] =
                     @ \cup (IF again /\ r < TaskRetries THEN {r + 1} ELSE {})
                       \cup (IF acked THEN {} ELSE {r})]

Release(w) == worker' = [worker EXCEPT ![w] = IdleWorker]

\* The unique index refuses a second version 1.  The session is rolled back,
\* the refund raises on it and is given up.
Refused(w, acked) ==
  /\ worker[w].pc = "running"
  /\ version[worker[w].job]
  /\ Messages(w, TRUE, acked)
  /\ Release(w)
  /\ UNCHANGED <<db, request, clerk, changes>>

\* Fault: the UPDATE adds the difference to what is there by now.
Written_Relative(read, new) == balance + (new - read)

\* The UPDATE of the one column: written only when it differs from what was read.
Written(read, new) == IF new = read THEN balance ELSE new

\* Fault: a job that cannot be paid for succeeds without its version.
CommitCharge_Unpaid(w, acked) ==
  LET j == worker[w].job
      read == worker[w].read
  IN  /\ worker[w].pc = "charging"
      /\ job' = [job EXCEPT ![j] = "SUCCESS"]
      /\ IF Covers(read)
           THEN /\ balance' = Written(read, read - Cost)
                /\ charged' = [charged EXCEPT ![j] = @ + 1]
                /\ version' = [version EXCEPT ![j] = TRUE]
           ELSE UNCHANGED <<balance, charged, version>>
      /\ Messages(w, FALSE, acked)
      /\ Release(w)
      /\ UNCHANGED <<given, refunded, subscribed, request, clerk, changes>>

\* deduct takes nothing when the balance is too low, which the task ignores.
CommitCharge(w, acked) ==
  LET j == worker[w].job
      read == worker[w].read
  IN  /\ worker[w].pc = "charging"
      /\ version' = [version EXCEPT ![j] = TRUE]
      /\ job' = [job EXCEPT ![j] = "SUCCESS"]
      /\ IF Covers(read)
           THEN /\ balance' = Written(read, read - Cost)
                /\ charged' = [charged EXCEPT ![j] = @ + 1]
           ELSE UNCHANGED <<balance, charged>>
      /\ Messages(w, FALSE, acked)
      /\ Release(w)
      /\ UNCHANGED <<given, refunded, subscribed, request, clerk, changes>>

CommitRefund(w, acked) ==
  LET j == worker[w].job
      read == worker[w].read
  IN  /\ worker[w].pc = "refunding"
      /\ job' = IF worker[w].found THEN [job EXCEPT ![j] = "FAILED"] ELSE job
      /\ balance' = Written(read, read + Cost)
      /\ given' = given + Cost
      /\ refunded' = [refunded EXCEPT ![j] = @ + 1]
      /\ Messages(w, TRUE, acked)
      /\ Release(w)
      /\ UNCHANGED <<charged, version, subscribed, request, clerk, changes>>

\* The soft time limit raises out of the event loop and past the handlers of
\* the coroutine: nothing is committed, nothing refunded, and the task retries.
TimeLimit(w) ==
  /\ worker[w].pc # "idle"
  /\ Messages(w, TRUE, TRUE)
  /\ Release(w)
  /\ UNCHANGED <<db, request, clerk, changes>>

\* The worker dies before the commit and the message comes back.
Lose(w) ==
  /\ worker[w].pc # "idle"
  /\ losses < MaxLosses
  /\ losses' = losses + 1
  /\ waiting' = [waiting EXCEPT ![worker[w].job] = @ \cup {worker[w].retry}]
  /\ Release(w)
  /\ UNCHANGED <<db, request, clerk, changes>>

----------------------------------------------------------------------------
(***************************************************************************)
(* Resets, expiries and grants                                             *)
(***************************************************************************)
\* Only a subscription of an active kind is reset or expires.
Begin(c, op) ==
  /\ clerk[c].pc = "idle"
  /\ changes < MaxChanges
  /\ op # "grant" => subscribed
  /\ clerk' = [clerk EXCEPT ![c] = [pc |-> "open", op |-> op, read |-> balance]]
  /\ changes' = changes + 1
  /\ UNCHANGED <<db, request, waiting, worker, losses>>

\* The ledger row of a reset says that the whole allocation was added, whatever
\* it replaces; an expiry, which caps the balance, has none.
CommitChange(c) ==
  LET read == clerk[c].read IN
    /\ clerk[c].pc = "open"
    /\ \/ /\ clerk[c].op = "reset"
          /\ balance' = Written(read, Monthly)
          /\ given' = given + Monthly
          /\ UNCHANGED subscribed
       \/ /\ clerk[c].op = "expire"
          /\ balance' = Written(read, IF read < FreePlan THEN read ELSE FreePlan)
          /\ subscribed' = FALSE
          /\ UNCHANGED given
       \/ /\ clerk[c].op = "grant"
          /\ balance' = Written(read, read + Grant)
          /\ given' = given + Grant
          /\ UNCHANGED subscribed
    /\ clerk' = [clerk EXCEPT ![c] = IdleClerk]
    /\ UNCHANGED <<charged, refunded, job, version, request, waiting, worker,
                   changes, losses>>

RollBackChange(c) ==
  /\ clerk[c].pc = "open"
  /\ clerk' = [clerk EXCEPT ![c] = IdleClerk]
  /\ UNCHANGED <<db, request, waiting, worker, changes, losses>>

----------------------------------------------------------------------------
Requests(j) == Ask(j) \/ CommitRequest(j) \/ RollBackRequest(j)

Work(w) ==
  \/ \E j \in Jobs, retry \in 0 .. TaskRetries : Take(w, j, retry)
  \/ Generate(w)
  \/ Fail(w)
  \/ \E acked \in BOOLEAN : Refused(w, acked) \/ CommitCharge(w, acked) \/ CommitRefund(w, acked)
  \/ TimeLimit(w)
  \/ Lose(w)

DeskWork(c) ==
  \/ \E op \in Desk : Begin(c, op)
  \/ CommitChange(c)
  \/ RollBackChange(c)

Next ==
  \/ \E j \in Jobs : Requests(j)
  \/ \E w \in Workers : Work(w)
  \/ \E c \in Clerks : DeskWork(c)

Spec == Init /\ [][Next]_vars

----------------------------------------------------------------------------
(***************************************************************************)
(* Properties                                                              *)
(***************************************************************************)
Process == [pc : {"idle", "running", "charging", "refunding"}, job : Jobs \cup {"none"},
            retry : 0 .. TaskRetries, found : BOOLEAN, read : Int]
Change  == [pc : {"idle", "open"}, op : Desk, read : Int]

\* Every variable has its type, the rows those of their tables.
TypeOK ==
  /\ balance \in Int /\ given \in Nat
  /\ charged \in [Jobs -> Nat]
  /\ refunded \in [Jobs -> Nat]
  /\ job \in [Jobs -> Status]
  /\ version \in [Jobs -> BOOLEAN]
  /\ request \in [Jobs -> {"none", "sent", "done"}]
  /\ waiting \in [Jobs -> SUBSET (0 .. TaskRetries)]
  /\ worker \in [Workers -> Process]
  /\ clerk \in [Clerks -> Change]
  /\ subscribed \in BOOLEAN
  /\ changes \in Nat /\ losses \in Nat

\* However the sessions overlap and overwrite each other, the balance never
\* falls below zero and never exceeds what the ledger says was given: updates
\* are lost, credits are not invented.
BalanceBounded == balance \in 0 .. given

ChargedOnce == \A j \in Jobs : charged[j] <= 1 /\ (charged[j] = 1 => version[j])

\* A job is paid for once at most, and only with the version it has written,
\* although its message is tried, delivered again and worked on by two workers:
\* the unique number of the version stands between the charge and a repetition.
\* A refund has no such number: it may be repeated by every try, whether the job
\* was paid for or not, and by all the tries again for each worker that is lost.
PaymentsBounded ==
  /\ ChargedOnce
  /\ \A j \in Jobs : charged[j] + refunded[j] <= (TaskRetries + 1) * (losses + 1)

\* A job is SUCCESS only with its version, and a version leaves its job SUCCESS,
\* or FAILED when the message came back after the commit and the next try failed.
OutcomeTrue ==
  \A j \in Jobs :
    /\ job[j] = "SUCCESS" => version[j]
    /\ version[j] => job[j] \in {"SUCCESS", "FAILED"}

\* Jobs, retries, locks, lost workers and sessions that overlap come to no more
\* than Ledger allows: balances that were read write over each other, each with
\* its one entry, and a job is charged once.
Pending ==
  {worker[w].read : w \in {v \in Workers : worker[v].pc \in {"charging", "refunding"}}}
    \cup {clerk[c].read : c \in {d \in Clerks : clerk[d].pc = "open"}}

Statement == INSTANCE Ledger WITH pending <- Pending

LedgerKept == Statement!Spec

----------------------------------------------------------------------------
(***************************************************************************)
(* What the documentation says and the code does not do                    *)
(***************************************************************************)
\* credit_service.py:152, "Refund credits when a job fails after deduction.":
\* what is refunded for a job was deducted for it.
RefundsCovered == \A j \in Jobs : refunded[j] <= charged[j]
=============================================================================
