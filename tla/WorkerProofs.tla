---------------------------- MODULE WorkerProofs ----------------------------
(***************************************************************************)
(* Proofs about the rows of the queue: how often a row is tried and        *)
(* mailed, that its end is final, that active rows have different keys,    *)
(* and that a claimed row is in hand.                                      *)
(***************************************************************************)
EXTENDS DeliveryProofs

(***************************************************************************)
(* What a step may do to one row                                           *)
(***************************************************************************)

(* The steps of the worker: the row of its job changes, and no other.       *)
WorkerActs ==
    \/ \E i \in DOMAIN queue : ClaimNext(i)
    \/ ClaimCommits \/ ClaimRaises \/ GuardAdmits \/ GuardCancels \/ GuardRaises
    \/ SmtpAccepts \/ SmtpFails \/ SmtpAnswerLost \/ SessionLost
    \/ MarkSent \/ MarkSentCommits \/ MarkSentUnacknowledged \/ MarkSentRaises
    \/ MarkFailed \/ MarkFailedCommits \/ MarkFailedRaises \/ Crash

(* What anybody else may do to a row: cancel it, take it up again at a     *)
(* restart, or change when it is due.                                      *)
Cancelled(j, k) == IsActive(j) /\ k = [j EXCEPT !.status = "CANCELLED"]
TakenUp(j, k) == j.status = "SENDING" /\ k = [j EXCEPT !.status = "RETRY", !.due = TRUE]

KeptByOthers(j, k) ==
    k = j \/ Cancelled(j, k) \/ (~up /\ TakenUp(j, k)) \/ Retimed(j, k)

OthersAct ==
    /\ UNCHANGED <<worker, job, attempts, session>> /\ faults' \in {faults, faults + 1}
    /\ \A i \in DOMAIN queue : KeptByOthers(queue[i], queue'[i])

(* Every step is one of the worker or keeps the rows that well. *)
LEMMA WhoActs ==
    ASSUME IInv, [Next]_vars
    PROVE  WorkerActs \/ OthersAct
<1>0. TypeOK /\ queue \in Seq(Job)
  BY DEF IInv, TypeOK
<1>1. ASSUME NEW c \in Client, Manage(c) PROVE OthersAct
  <2>1. UNCHANGED <<worker, job, attempts, session, faults>>
    BY <1>1 DEF Manage, workerVars
  <2>2. queue' = queue \/ queue' = CancelledFor(queue, request[c].device)
    BY <1>1 DEF Manage, tables
  <2>3. \A i \in DOMAIN queue : KeptByOthers(queue[i], queue'[i])
    BY <2>2 DEF CancelledFor, KeptByOthers, Cancelled
  <2> QED
    BY <2>1, <2>3 DEF OthersAct
<1>2. CASE Commits
  <2>1. UNCHANGED <<worker, job, attempts, session, faults>>
    BY <1>2 DEF Commits, ProcessHeartbeat, NotifyStale, workerVars
  <2>2. \A i \in DOMAIN queue : queue'[i] = queue[i]
    BY <1>0, <1>2, CommitInserts DEF ExtendedRows
  <2> QED
    BY <2>1, <2>2 DEF OthersAct, KeptByOthers
<1>3. CASE ClockStep
  <2>1. UNCHANGED <<worker, job, attempts, session>> /\ faults' \in {faults, faults + 1}
    BY <1>0, <1>3, ClockKeeps DEF ClockStep, BackoffElapses, ClockSetBack, Fault
  <2>2. \A k \in DOMAIN queue : KeptByOthers(queue[k], queue'[k])
    BY <1>0, <1>3, ClockKeeps DEF KeptByOthers
  <2> QED
    BY <2>1, <2>2 DEF OthersAct
<1>4. CASE Restart
  <2>1. UNCHANGED <<worker, job, attempts, session, faults>> /\ ~up
    BY <1>4 DEF Restart, workerVars
  <2>2. \A k \in DOMAIN queue : KeptByOthers(queue[k], queue'[k])
    BY <1>4, <2>1 DEF Restart, Recovered, KeptByOthers, TakenUp
  <2> QED
    BY <2>1, <2>2 DEF OthersAct
<1>5. ASSUME UNCHANGED <<queue, worker, job, attempts, session, faults>> PROVE OthersAct
  BY <1>5 DEF OthersAct, KeptByOthers
<1>6. CASE UNCHANGED vars
  BY <1>5, <1>6 DEF vars
<1>7. CASE ConsumerStep /\ ~Commits
  BY <1>5, <1>7 DEF ConsumerStep, Commits, Begin, LockStateRow, LockHeartbeatRow, tables, workerVars
<1>8. ASSUME NEW c \in Client, ApiStep(c) PROVE OthersAct
  BY <1>1, <1>5, <1>8 DEF ApiStep, LockManagement, LockDeviceRow, Refuse, RollBack, tables, workerVars
<1>9. ASSUME NEW c \in Client, NEW op \in Operation, NEW d \in Device, Receive(c, op, d)
      PROVE  OthersAct
  BY <1>5, <1>9 DEF Receive, tables, workerVars
<1> QED
  BY <1>2, <1>3, <1>4, <1>6, <1>7, <1>8, <1>9 DEF Next, WorkerStep, FaultStep, WorkerActs, ClockStep

(* The only rows a step adds are new ones. *)
LEMMA AddedRows ==
    ASSUME IInv, [Next]_vars
    PROVE  /\ queue' \in Seq(Job) /\ DOMAIN queue \subseteq DOMAIN queue'
           /\ \A i \in DOMAIN queue' \ DOMAIN queue :
                 /\ IsNew(queue'[i], Admitted) /\ KeyIsFree(queue', i)
                 /\ OthersAct
<1>0. TypeOK
  BY DEF IInv
<1>1. CASE UpdatedRows(queue, queue')
  BY <1>0, <1>1, QueueStep DEF UpdatedRows
<1>2. CASE Commits /\ ExtendedRows(queue, queue', Admitted)
  <2>1. UNCHANGED <<worker, job, attempts, session, faults>>
    BY <1>2 DEF Commits, ProcessHeartbeat, NotifyStale, workerVars
  <2>2. OthersAct
    BY <1>2, <2>1 DEF OthersAct, KeptByOthers, ExtendedRows
  <2> QED
    BY <1>0, <1>2, <2>2, QueueStep DEF ExtendedRows
<1> QED
  BY <1>0, <1>1, <1>2, QueueStep

LEMMA KeptFacts ==
    ASSUME NEW j \in Job, NEW k, KeptByOthers(j, k)
    PROVE  /\ k.attempts = j.attempts /\ k.mails = j.mails
           /\ k.device = j.device /\ k.type = j.type /\ k.signature = j.signature
           /\ \/ k.status = j.status
              \/ IsActive(j) /\ k.status = "CANCELLED"
              \/ j.status = "SENDING" /\ k.status = "RETRY" /\ ~up
  BY DEF KeptByOthers, Cancelled, TakenUp, Retimed, Job

(***************************************************************************)
(* The books: what the counters of a row say of its status, of the worker  *)
(* and of the faults                                                       *)
(***************************************************************************)
RowBooks(i) ==
    /\ queue[i].attempts <= MaxAttempts
    /\ queue[i].status = "DEAD" => queue[i].attempts = MaxAttempts
    /\ IsActive(queue[i]) => queue[i].attempts < MaxAttempts
    /\ queue[i].status = "SENT" => queue[i].mails >= 1
    /\ queue[i].mails <= 1 + faults
    /\ \/ queue[i].mails <= faults
       \/ queue[i].status = "SENT"
       \/ worker \in {"accepted", "settling"} /\ session /\ job = i

(* The count the worker read is still that of the row it claimed, and a mail *)
(* it may repeat after a lost session was repeated because of a fault.      *)
JobBooks ==
    /\ worker = "claiming" \/ (worker # "idle" /\ queue[job].status = "SENDING") =>
          attempts = queue[job].attempts
    /\ worker \in {"accepted", "settling"} => queue[job].mails >= 1
    /\ worker = "smtp" /\ ~session => queue[job].mails < faults
    /\ worker \in {"idle", "claiming", "claimed"} => session

Books == (\A i \in DOMAIN queue : RowBooks(i)) /\ JobBooks

(* Numbers that all the steps below compare. *)
LEMMA Counts ==
    ASSUME TypeOK
    PROVE  /\ faults \in Nat /\ MaxAttempts \in Nat /\ 0 < MaxAttempts /\ attempts \in Nat
           /\ \A i \in DOMAIN queue :
                 queue[i] \in Job /\ queue[i].attempts \in Nat /\ queue[i].mails \in Nat
<1>1. \A i \in DOMAIN queue : queue[i] \in Job
  BY LenProperties, ElementOfSeq DEF TypeOK
<1>2. faults \in Nat /\ attempts \in Nat
  BY BoundsAssumption DEF TypeOK
<1>3. MaxAttempts \in Nat /\ 0 < MaxAttempts
  BY MaxAttemptsAssumption
<1> QED
  BY <1>1, <1>2, <1>3 DEF Job

LEMMA OthersKeepBooks ==
    ASSUME IInv, Books, [Next]_vars, OthersAct
    PROVE  Books'
<1>0. TypeOK /\ TypeOK' /\ GuardHoldsLock
  BY TypeStep DEF IInv, LocksProtect
<1>1. /\ UNCHANGED <<worker, job, attempts, session>>
      /\ faults \in Nat /\ faults' \in Nat /\ faults <= faults'
  BY <1>0, Counts DEF OthersAct
<1>2. ASSUME NEW i \in DOMAIN queue PROVE RowBooks(i)'
  <2>1. queue[i] \in Job /\ KeptByOthers(queue[i], queue'[i])
    BY <1>0, Counts DEF OthersAct
  <2>2. /\ queue'[i].attempts = queue[i].attempts /\ queue'[i].mails = queue[i].mails
        /\ \/ queue'[i].status = queue[i].status
           \/ IsActive(queue[i]) /\ queue'[i].status = "CANCELLED"
           \/ IsActive(queue[i]) /\ queue'[i].status = "RETRY"
    BY <2>1, KeptFacts DEF IsActive, Active
  <2>3. /\ queue[i].mails \in Nat /\ queue[i].mails <= 1 + faults
        /\ queue[i].mails <= faults => queue'[i].mails <= faults'
    BY <1>0, <1>1, <2>2, Counts DEF Books, RowBooks
  <2>4. queue'[i].mails <= 1 + faults'
    BY <1>1, <2>2, <2>3
  <2> QED
    BY <1>1, <2>2, <2>3, <2>4 DEF Books, RowBooks, IsActive, Active, Claimable
<1>3. ASSUME NEW i \in DOMAIN queue' \ DOMAIN queue PROVE RowBooks(i)'
  BY <1>1, <1>3, AddedRows, MaxAttemptsAssumption DEF IsNew, RowBooks
<1>4. JobBooks'
  <2>1. CASE worker = "idle"
    BY <1>1, <2>1 DEF Books, JobBooks
  <2>2. CASE worker # "idle"
    <3>1. job \in DOMAIN queue /\ queue[job] \in Job /\ KeptByOthers(queue[job], queue'[job])
      BY <1>0, <2>2, JobDevice DEF OthersAct
    <3>2. /\ queue'[job].attempts = queue[job].attempts /\ queue'[job].mails = queue[job].mails
          /\ queue'[job].status = "SENDING" => queue[job].status = "SENDING"
      BY <3>1, KeptFacts
    <3>3. queue[job].mails < faults => queue'[job].mails < faults'
      BY <1>0, <1>1, <3>1, <3>2, Counts
    <3> QED
      BY <1>1, <2>2, <3>2, <3>3 DEF Books, JobBooks
  <2> QED
    BY <2>1, <2>2
<1> QED
  BY <1>2, <1>3, <1>4, AddedRows DEF Books

(* A step of the worker that leaves the queue alone. *)
LEMMA RowsUntouched ==
    ASSUME TypeOK, Books, queue' = queue,
           \/ faults' = faults + 1
           \/ faults' = faults /\ (worker \notin {"accepted", "settling"} \/ ~session)
    PROVE  \A i \in DOMAIN queue' : RowBooks(i)'
<1> SUFFICES ASSUME NEW i \in DOMAIN queue PROVE RowBooks(i)'
  OBVIOUS
<1>1. RowBooks(i)
  BY DEF Books
<1>2. /\ queue[i].mails \in Nat /\ faults \in Nat
  BY Counts
<1> QED
  BY <1>1, <1>2 DEF RowBooks

LEMMA WorkerKeepsBooks ==
    ASSUME IInv, Books, [Next]_vars, WorkerActs
    PROVE  Books'
<1>0. TypeOK /\ SmtpUnderGuard /\ TypeOK' /\ ClaimHoldsRow
  BY TypeStep DEF IInv, LocksProtect
<1>a. faults \in Nat /\ MaxAttempts \in Nat /\ 0 < MaxAttempts /\ attempts \in Nat
  BY <1>0, Counts
<1>b. \A i \in DOMAIN queue :
         RowBooks(i) /\ queue[i] \in Job /\ queue[i].attempts \in Nat /\ queue[i].mails \in Nat
  BY <1>0, Counts DEF Books
<1>c. JobBooks
  BY DEF Books
<1>d. worker # "idle" => job \in DOMAIN queue
  BY <1>0 DEF TypeOK
<1>1. ASSUME NEW n \in DOMAIN queue, ClaimNext(n) PROVE Books'
  <2>1. /\ worker = "idle" /\ worker' = "claiming" /\ job' = n /\ attempts' = queue[n].attempts
        /\ UNCHANGED <<queue, session, faults>>
    BY <1>1 DEF ClaimNext, tables
  <2>2. JobBooks'
    BY <1>c, <2>1 DEF JobBooks
  <2> QED
    BY <1>0, <2>1, <2>2, RowsUntouched DEF Books
<1>e. ASSUME worker = "claiming", queue' = ClaimedRow(queue, job)
      PROVE  /\ DOMAIN queue' = DOMAIN queue
             /\ \A i \in DOMAIN queue :
                   /\ queue'[i].attempts = queue[i].attempts /\ queue'[i].mails = queue[i].mails
                   /\ queue'[i].status = IF i = job THEN "SENDING" ELSE queue[i].status
             /\ queue[job].status \in Claimable
  <2>1. job \in DOMAIN queue /\ queue[job].status \in Claimable
    BY <1>0, <1>d, <1>e DEF ClaimHoldsRow
  <2>2. DOMAIN queue' = DOMAIN queue
        /\ \A i \in DOMAIN queue :
              queue'[i] = IF i = job THEN [queue[i] EXCEPT !.status = "SENDING"] ELSE queue[i]
    BY <1>e DEF ClaimedRow
  <2> QED
    BY <1>b, <2>1, <2>2 DEF Job
<1>13. CASE ClaimCommits
  <2>1. /\ worker = "claiming" /\ worker' = "claimed" /\ queue' = ClaimedRow(queue, job)
        /\ UNCHANGED <<job, attempts, session, faults>>
    BY <1>13 DEF ClaimCommits
  <2>2. \A i \in DOMAIN queue : RowBooks(i)'
    BY <1>b, <1>e, <2>1 DEF RowBooks, IsActive, Active, Claimable
  <2>3. JobBooks'
    BY <1>c, <1>d, <1>e, <2>1 DEF JobBooks
  <2> QED
    BY <1>e, <2>1, <2>2, <2>3 DEF Books
<1>14. CASE ClaimRaises
  <2>1. /\ worker = "claiming" /\ worker' = "idle" /\ faults' = faults + 1
        /\ queue' \in {queue, ClaimedRow(queue, job)}
    BY <1>14 DEF ClaimRaises, ToIdle, Fault
  <2>2. session'
    BY <1>14, Zenon DEF ClaimRaises, ToIdle
  <2>3. JobBooks'
    BY <2>1, <2>2 DEF JobBooks
  <2>4. CASE queue' = queue
    BY <1>0, <2>1, <2>3, <2>4, RowsUntouched DEF Books
  <2>5. CASE queue' = ClaimedRow(queue, job)
    <3>1. \A i \in DOMAIN queue :
             /\ queue[i].mails <= 1 + faults => queue[i].mails <= 1 + (faults + 1)
             /\ queue[i].mails <= faults => queue[i].mails <= faults + 1
      BY <1>a, <1>b
    <3>2. \A i \in DOMAIN queue : RowBooks(i)'
      BY <1>b, <1>e, <2>1, <2>5, <3>1 DEF RowBooks, IsActive, Active, Claimable
    <3> QED
      BY <1>e, <2>1, <2>3, <2>5, <3>2 DEF Books
  <2> QED
    BY <2>1, <2>4, <2>5
<1>2. CASE GuardAdmits
  <2>1. /\ worker = "claimed" /\ worker' = "smtp"
        /\ UNCHANGED <<queue, job, attempts, session, faults>>
    BY <1>2 DEF GuardAdmits, tables
  <2>2. JobBooks'
    BY <1>c, <2>1 DEF JobBooks
  <2> QED
    BY <1>0, <2>1, <2>2, RowsUntouched DEF Books
<1>3. CASE GuardRaises
  <2>1. /\ worker = "claimed" /\ worker' = "failed"
        /\ UNCHANGED <<queue, job, attempts, session, faults>>
    BY <1>3 DEF GuardRaises, tables
  <2>2. JobBooks'
    BY <1>c, <2>1 DEF JobBooks
  <2> QED
    BY <1>0, <2>1, <2>2, RowsUntouched DEF Books
<1>4. CASE SmtpFails
  <2>1. /\ worker = "smtp" /\ worker' = "failed"
        /\ UNCHANGED <<queue, job, attempts, session, faults>>
    BY <1>4 DEF SmtpFails, tables
  <2>2. JobBooks'
    BY <1>c, <2>1 DEF JobBooks
  <2> QED
    BY <1>0, <2>1, <2>2, RowsUntouched DEF Books
<1>5. CASE SessionLost
  <2>1. /\ Guarded /\ session /\ ~session' /\ faults' = faults + 1
        /\ UNCHANGED <<queue, job, attempts, worker>>
    BY <1>5, Zenon DEF SessionLost, Fault, tables
  <2>2. JobBooks'
    <3>1. worker = "smtp" => queue[job].mails <= faults
      BY <1>0, <1>b, <1>d, <2>1 DEF RowBooks, SmtpUnderGuard, Guarded
    <3>2. worker = "smtp" => queue[job].mails < faults + 1
      BY <1>a, <1>b, <1>d, <3>1
    <3> QED
      BY <1>c, <2>1, <3>2 DEF JobBooks, Guarded
  <2> QED
    BY <1>0, <2>1, <2>2, RowsUntouched DEF Books
<1>6. CASE MarkSentRaises
  <2>1. /\ worker \in {"accepted", "settling"} /\ ~session /\ worker' = "failed"
        /\ UNCHANGED <<queue, job, attempts, session, faults>>
    BY <1>6 DEF MarkSentRaises, tables
  <2>2. JobBooks'
    BY <1>c, <2>1 DEF JobBooks
  <2> QED
    BY <1>0, <2>1, <2>2, RowsUntouched DEF Books
<1>7. CASE MarkFailedRaises \/ Crash
  <2>1. queue' = queue /\ faults' = faults + 1 /\ worker' = "idle"
    BY <1>7 DEF MarkFailedRaises, Crash, Fault, ToIdle, tables
  <2>2. session'
    BY <1>7, Zenon DEF MarkFailedRaises, Crash, ToIdle
  <2>3. JobBooks'
    BY <2>1, <2>2 DEF JobBooks
  <2> QED
    BY <1>0, <2>1, <2>3, RowsUntouched DEF Books
<1>8. CASE GuardCancels
  <2>1. /\ worker = "claimed" /\ worker' = "idle" /\ job \in DOMAIN queue
        /\ queue' = SettledRow(queue, job, "CANCELLED") /\ faults' = faults
    BY <1>8, <1>d DEF GuardCancels, ToIdle
  <2>2. session'
    BY <1>8, Zenon DEF GuardCancels, ToIdle
  <2>3. /\ DOMAIN queue' = DOMAIN queue
        /\ \A i \in DOMAIN queue :
              /\ queue'[i].attempts = queue[i].attempts /\ queue'[i].mails = queue[i].mails
              /\ queue'[i].status = queue[i].status
                 \/ (queue[i].status = "SENDING" /\ queue'[i].status = "CANCELLED")
    BY <1>b, <2>1 DEF SettledRow, Job
  <2>4. \A i \in DOMAIN queue : RowBooks(i)'
    BY <1>b, <2>1, <2>3 DEF RowBooks, IsActive, Active, Claimable
  <2> QED
    BY <2>1, <2>2, <2>3, <2>4 DEF Books, JobBooks
<1>9. CASE SmtpAccepts
  <2>1. /\ worker = "smtp" /\ worker' = "accepted" /\ job \in DOMAIN queue
        /\ queue' = [queue EXCEPT ![job].mails = @ + 1]
        /\ UNCHANGED <<job, attempts, session, faults>>
    BY <1>9, <1>d DEF SmtpAccepts, CountMail
  <2>2. /\ DOMAIN queue' = DOMAIN queue
        /\ \A i \in DOMAIN queue :
              /\ queue'[i].attempts = queue[i].attempts /\ queue'[i].status = queue[i].status
              /\ queue'[i].mails = IF i = job THEN queue[i].mails + 1 ELSE queue[i].mails
    BY <1>b, <2>1 DEF Job
  <2>3. /\ session => queue[job].mails <= faults
        /\ ~session => queue[job].mails < faults
    BY <1>0, <1>b, <1>c, <2>1 DEF RowBooks, JobBooks, SmtpUnderGuard, Guarded
  <2>4. RowBooks(job)'
    <3>1. queue[job].mails + 1 <= 1 + faults /\ 1 <= queue[job].mails + 1
      BY <1>a, <1>b, <2>1, <2>3
    <3>2. ~session => queue[job].mails + 1 <= faults
      BY <1>a, <1>b, <2>1, <2>3
    <3> QED
      BY <1>b, <2>1, <2>2, <3>1, <3>2 DEF RowBooks, IsActive
  <2>5. \A i \in DOMAIN queue : i # job => RowBooks(i)'
    BY <1>b, <2>1, <2>2 DEF RowBooks, IsActive
  <2>6. JobBooks'
    <3>1. queue[job].mails + 1 >= 1
      BY <1>b, <2>1
    <3> QED
      BY <1>c, <2>1, <2>2, <3>1 DEF JobBooks
  <2>7. \A i \in DOMAIN queue : RowBooks(i)'
    <3> SUFFICES ASSUME NEW i \in DOMAIN queue PROVE RowBooks(i)'
      OBVIOUS
    <3>1. CASE i = job
      BY <2>1, <2>4, <3>1 DEF RowBooks
    <3> QED
      BY <2>5, <3>1
  <2> QED
    BY <2>2, <2>6, <2>7 DEF Books
<1>10. CASE SmtpAnswerLost
  <2>1. /\ worker = "smtp" /\ worker' = "failed" /\ job \in DOMAIN queue
        /\ queue' = [queue EXCEPT ![job].mails = @ + 1] /\ faults' = faults + 1
        /\ UNCHANGED <<job, attempts, session>>
    BY <1>10, <1>d DEF SmtpAnswerLost, CountMail, Fault
  <2>2. /\ DOMAIN queue' = DOMAIN queue
        /\ \A i \in DOMAIN queue :
              /\ queue'[i].attempts = queue[i].attempts /\ queue'[i].status = queue[i].status
              /\ queue'[i].mails = IF i = job THEN queue[i].mails + 1 ELSE queue[i].mails
    BY <1>b, <2>1 DEF Job
  <2>3. queue[job].mails <= faults
    BY <1>0, <1>a, <1>b, <1>c, <2>1 DEF RowBooks, JobBooks, SmtpUnderGuard, Guarded
  <2>4. \A i \in DOMAIN queue : queue'[i].mails <= faults + 1
                                /\ (queue[i].mails >= 1 => queue'[i].mails >= 1)
    <3> SUFFICES ASSUME NEW i \in DOMAIN queue
                 PROVE  queue'[i].mails <= faults + 1
                        /\ (queue[i].mails >= 1 => queue'[i].mails >= 1)
      OBVIOUS
    <3>1. queue[i].mails <= 1 + faults /\ queue[i].mails \in Nat
      BY <1>b DEF RowBooks
    <3> QED
      BY <1>a, <2>2, <2>3, <3>1
  <2>5. \A i \in DOMAIN queue : RowBooks(i)'
    <3>1. faults + 1 <= 1 + (faults + 1)
      BY <1>a
    <3>2. \A i \in DOMAIN queue : queue'[i].mails <= 1 + (faults + 1)
      BY <1>a, <1>b, <2>2, <2>4
    <3> QED
      BY <1>b, <2>1, <2>2, <2>4, <3>2 DEF RowBooks, IsActive
  <2>6. JobBooks'
    BY <1>c, <2>1, <2>2 DEF JobBooks
  <2> QED
    BY <2>2, <2>5, <2>6 DEF Books
<1>15. CASE MarkSent
  <2>1. /\ worker = "accepted" /\ worker' = "settling"
        /\ UNCHANGED <<queue, job, attempts, session, faults>>
    BY <1>15 DEF MarkSent, tables
  <2>2. \A i \in DOMAIN queue : RowBooks(i)'
    BY <1>b, <2>1 DEF RowBooks
  <2>3. JobBooks'
    BY <1>c, <2>1 DEF JobBooks
  <2> QED
    BY <2>1, <2>2, <2>3 DEF Books
<1>16. CASE MarkFailed
  <2>1. /\ worker = "failed" /\ worker' = "failing"
        /\ UNCHANGED <<queue, job, attempts, session, faults>>
    BY <1>16 DEF MarkFailed, tables
  <2>2. JobBooks'
    BY <1>c, <2>1 DEF JobBooks
  <2> QED
    BY <1>0, <2>1, <2>2, RowsUntouched DEF Books
<1>11. CASE MarkSentCommits \/ MarkSentUnacknowledged
  <2>1. /\ worker = "settling" /\ session /\ job \in DOMAIN queue
        /\ queue' = SettledRow(queue, job, "SENT") /\ faults' = faults
        /\ \/ worker' = "idle"
           \/ worker' = "failed" /\ UNCHANGED <<job, attempts, session>>
    BY <1>11, <1>d DEF MarkSentCommits, MarkSentUnacknowledged, ToIdle
  <2>2. session'
    <3>1. CASE MarkSentCommits
      BY <3>1, Zenon DEF MarkSentCommits, ToIdle
    <3>2. CASE MarkSentUnacknowledged
      BY <3>2, Zenon DEF MarkSentUnacknowledged
    <3> QED
      BY <1>11, <3>1, <3>2
  <2>3. queue[job].status = "SENDING" /\ queue[job].mails >= 1
    BY <1>0, <1>c, <2>1 DEF SmtpUnderGuard, Guarded, JobBooks
  <2>4. /\ DOMAIN queue' = DOMAIN queue
        /\ \A i \in DOMAIN queue :
              /\ queue'[i].attempts = queue[i].attempts /\ queue'[i].mails = queue[i].mails
              /\ queue'[i].status = IF i = job THEN "SENT" ELSE queue[i].status
    BY <1>b, <2>1, <2>3 DEF SettledRow, Job
  <2>5. \A i \in DOMAIN queue : RowBooks(i)'
    BY <1>b, <2>1, <2>3, <2>4 DEF RowBooks, IsActive, Active, Claimable
  <2>6. JobBooks'
    BY <1>c, <2>1, <2>2, <2>4 DEF JobBooks
  <2> QED
    BY <2>4, <2>5, <2>6 DEF Books
<1>12. CASE MarkFailedCommits
  <2>1. /\ worker = "failing" /\ worker' = "idle" /\ job \in DOMAIN queue /\ faults' = faults
        /\ queue' = FailedRow(queue, job, attempts + 1 >= MaxAttempts)
    BY <1>12, <1>d DEF MarkFailedCommits, Exhausted, ToIdle
  <2>2. session'
    BY <1>12, Zenon DEF MarkFailedCommits, ToIdle
  <2>3. CASE queue[job].status # "SENDING"
    <3>1. queue' = queue
      BY <2>1, <2>3 DEF FailedRow
    <3>2. JobBooks'
      BY <2>1, <2>2 DEF JobBooks
    <3> QED
      BY <1>0, <2>1, <3>1, <3>2, RowsUntouched DEF Books
  <2>4. CASE queue[job].status = "SENDING"
    <3>1. attempts = queue[job].attempts /\ queue[job].attempts < MaxAttempts
      BY <1>b, <1>c, <2>1, <2>4 DEF JobBooks, RowBooks, IsActive, Active
    <3>2. /\ DOMAIN queue' = DOMAIN queue
          /\ \A i \in DOMAIN queue : i # job => queue'[i] = queue[i]
          /\ queue'[job] = FailedJob(queue[job], attempts + 1 >= MaxAttempts)
      BY <2>1, <2>4 DEF FailedRow
    <3>3. /\ queue'[job].mails = queue[job].mails
          /\ queue'[job].attempts = attempts + 1
          /\ queue'[job].status = IF attempts + 1 >= MaxAttempts THEN "DEAD" ELSE "RETRY"
      BY <1>b, <2>1, <3>1, <3>2 DEF FailedJob, Job
    <3>n. PICK n \in DOMAIN queue : n = job
      BY <2>1
    <3>4. RowBooks(n)'
      <4>1. /\ attempts + 1 <= MaxAttempts
            /\ attempts + 1 >= MaxAttempts => attempts + 1 = MaxAttempts
            /\ ~(attempts + 1 >= MaxAttempts) => attempts + 1 < MaxAttempts
        BY <1>a, <3>1
      <4>2. queue[job].mails <= faults /\ queue[job].mails <= 1 + faults
        BY <1>b, <2>1, <2>4 DEF RowBooks
      <4>3. queue'[job].status = "DEAD" => attempts + 1 >= MaxAttempts
        BY <3>3
      <4>4. queue'[job].status \in {"DEAD", "RETRY"}
            /\ (queue'[job].status = "RETRY" => ~(attempts + 1 >= MaxAttempts))
        BY <3>3
      <4> QED
        BY <2>1, <3>n, <3>3, <4>1, <4>2, <4>3, <4>4 DEF RowBooks, IsActive, Active, Claimable
    <3>5. \A i \in DOMAIN queue : i # n => RowBooks(i)'
      BY <1>b, <2>1, <3>n, <3>2 DEF RowBooks
    <3>6. JobBooks'
      BY <2>1, <2>2 DEF JobBooks
    <3> QED
      BY <3>2, <3>4, <3>5, <3>6 DEF Books
  <2> QED
    BY <2>3, <2>4
<1> QED
  BY <1>1, <1>2, <1>3, <1>4, <1>5, <1>6, <1>7, <1>8, <1>9, <1>10, <1>11, <1>12,
     <1>13, <1>14, <1>15, <1>16 DEF WorkerActs

(***************************************************************************)
(* Rows that are settled, and rows that are not                            *)
(***************************************************************************)

(* The steps of the worker that leave the queue alone. *)
WorkerLeavesQueue ==
    \/ \E i \in DOMAIN queue : ClaimNext(i)
    \/ GuardAdmits \/ GuardRaises \/ SmtpFails \/ SessionLost \/ MarkSent \/ MarkSentRaises
    \/ MarkFailed \/ MarkFailedRaises \/ Crash

LEMMA QueueLeft == ASSUME WorkerLeavesQueue PROVE queue' = queue
BY DEF WorkerLeavesQueue, ClaimNext, GuardAdmits, GuardRaises, SmtpFails, SessionLost, MarkSent,
   MarkSentRaises, MarkFailed, MarkFailedRaises, Crash, tables

(* No step changes the status or the count of a row that is settled. *)
LEMMA SettledStays ==
    ASSUME IInv, [Next]_vars, NEW i \in DOMAIN queue, queue[i].status \in Terminal
    PROVE  queue'[i].status = queue[i].status /\ queue'[i].attempts = queue[i].attempts
<1>0. TypeOK /\ queue[i] \in Job /\ (worker # "idle" => job \in DOMAIN queue)
  BY Counts DEF IInv, TypeOK
<1>1. queue[i].status \notin Active
  BY DEF Terminal, Active, Claimable
<1>2. CASE OthersAct
  BY <1>0, <1>1, <1>2, KeptFacts DEF OthersAct, IsActive, Active
<1>3. CASE ClaimCommits \/ ClaimRaises
  <2>1. job # i
    BY <1>1, <1>3 DEF IInv, LocksProtect, ClaimHoldsRow, ClaimCommits, ClaimRaises, Active
  <2> QED
    BY <1>3, <2>1 DEF ClaimCommits, ClaimRaises, ClaimedRow
<1>4. CASE SmtpAccepts \/ SmtpAnswerLost
  BY <1>0, <1>4 DEF SmtpAccepts, SmtpAnswerLost, CountMail, Job
<1>5. CASE GuardCancels \/ MarkSentCommits \/ MarkSentUnacknowledged
  BY <1>1, <1>5 DEF GuardCancels, MarkSentCommits, MarkSentUnacknowledged, SettledRow, Active
<1>6. CASE MarkFailedCommits
  BY <1>1, <1>6 DEF MarkFailedCommits, FailedRow, Active
<1>7. CASE WorkerLeavesQueue
  BY <1>7, QueueLeft
<1> QED
  BY <1>2, <1>3, <1>4, <1>5, <1>6, <1>7, WhoActs DEF WorkerActs, WorkerLeavesQueue

(* Updates awaken no row, and an insertion finds its key free. *)
LEMMA KeysStep ==
    ASSUME IInv, ActiveKeysUnique, [Next]_vars
    PROVE  ActiveKeysUnique'
<1>0. TypeOK /\ queue \in Seq(Job) /\ queue' \in Seq(Job)
  BY AddedRows DEF IInv, TypeOK
<1>1. CASE UpdatedRows(queue, queue')
  BY <1>1 DEF UpdatedRows, ActiveKeysUnique, SameKey
<1>2. CASE ExtendedRows(queue, queue', Admitted)
  <2>1. ASSUME NEW i \in DOMAIN queue', NEW k \in DOMAIN queue', k < i,
               IsActive(queue'[i]), IsActive(queue'[k])
        PROVE  ~SameKey(queue'[i], queue'[k]) /\ ~SameKey(queue'[k], queue'[i])
    <3>1. k \in 1 .. i - 1 /\ k # i
      BY <1>0, <2>1, LenProperties
    <3>2. CASE i \in DOMAIN queue
      <4>1. k \in DOMAIN queue
        BY <1>0, <2>1, <3>2, LenProperties
      <4> QED
        BY <1>2, <2>1, <3>1, <3>2, <4>1 DEF ExtendedRows, ActiveKeysUnique
    <3>3. CASE i \notin DOMAIN queue
      <4>1. ~SameKey(queue'[i], queue'[k])
        BY <1>2, <2>1, <3>1, <3>3 DEF ExtendedRows, KeyIsFree
      <4> QED
        BY <4>1 DEF SameKey
    <3> QED
      BY <3>2, <3>3
  <2>2. \A i, k \in DOMAIN queue' : i # k => i < k \/ k < i
    BY <1>0, LenProperties
  <2> QED
    BY <2>1, <2>2 DEF ActiveKeysUnique
<1> QED
  BY <1>0, <1>1, <1>2, QueueStep

LEMMA InitBooks == ASSUME Init PROVE Books /\ ActiveKeysUnique
<1>1. DOMAIN queue = {} /\ worker = "idle"
  BY EmptySeq DEF Init
<1>2. session
  BY Zenon DEF Init
<1> QED
  BY <1>1, <1>2 DEF Books, JobBooks, ActiveKeysUnique

(***************************************************************************)
(* Rows that are claimed                                                   *)
(***************************************************************************)

(* Only the commit of a claim makes a row SENDING, that of the job in hand.  *)
LEMMA SendingStep ==
    ASSUME IInv, [Next]_vars, NEW i \in DOMAIN queue', queue'[i].status = "SENDING"
    PROVE  i \in DOMAIN queue /\ (queue[i].status = "SENDING" \/ (worker # "idle" /\ job = i))
<1>0. TypeOK
  BY DEF IInv
<1>1. i \in DOMAIN queue
  BY <1>0, AddedRows DEF IsNew
<1>2. queue[i] \in Job
  BY <1>0, <1>1, Counts
<1>3. CASE OthersAct
  BY <1>1, <1>2, <1>3, KeptFacts DEF OthersAct
<1>4. CASE ClaimCommits \/ ClaimRaises
  BY <1>1, <1>4 DEF ClaimCommits, ClaimRaises, ClaimedRow
<1>5. CASE SmtpAccepts \/ SmtpAnswerLost
  BY <1>1, <1>2, <1>5 DEF SmtpAccepts, SmtpAnswerLost, CountMail, Job
<1>6. CASE GuardCancels \/ MarkSentCommits \/ MarkSentUnacknowledged
  BY <1>1, <1>2, <1>6 DEF GuardCancels, MarkSentCommits, MarkSentUnacknowledged, SettledRow, Job
<1>7. CASE MarkFailedCommits
  BY <1>1, <1>2, <1>7 DEF MarkFailedCommits, FailedRow, FailedJob, Job
<1>8. CASE WorkerLeavesQueue
  BY <1>1, <1>8, QueueLeft
<1> QED
  BY <1>1, <1>3, <1>4, <1>5, <1>6, <1>7, <1>8, WhoActs DEF WorkerActs, WorkerLeavesQueue

(* The steps in which the worker drops its job with the row still SENDING.  *)
Drops == ClaimRaises \/ MarkFailedRaises \/ Crash

(* Any other step that ends the job has settled or failed its row.          *)
LEMMA JobKept ==
    ASSUME IInv, [Next]_vars, ~Drops, worker # "idle", queue'[job].status = "SENDING"
    PROVE  worker' # "idle" /\ job' = job
<1>0. TypeOK /\ job \in DOMAIN queue /\ queue[job] \in Job
  BY JobDevice DEF IInv
<1>1. CASE OthersAct
  BY <1>1 DEF OthersAct
<1>2. CASE \/ ClaimCommits \/ GuardAdmits \/ GuardRaises \/ SmtpAccepts \/ SmtpFails
           \/ SmtpAnswerLost \/ SessionLost \/ MarkSent \/ MarkSentUnacknowledged
           \/ MarkSentRaises \/ MarkFailed
  BY <1>2 DEF ClaimCommits, GuardAdmits, GuardRaises, SmtpAccepts, SmtpFails, SmtpAnswerLost,
     SessionLost, MarkSent, MarkSentUnacknowledged, MarkSentRaises, MarkFailed
<1>3. ~(\E i \in DOMAIN queue : ClaimNext(i))
  BY DEF ClaimNext
<1>4. ~(GuardCancels \/ MarkSentCommits)
  BY <1>0 DEF GuardCancels, MarkSentCommits, SettledRow, Job
<1>5. ~MarkFailedCommits
  BY <1>0 DEF MarkFailedCommits, FailedRow, FailedJob, Job
<1> QED
  BY <1>1, <1>2, <1>3, <1>4, <1>5, WhoActs DEF WorkerActs, Drops

(* A step adds no orphan, or it is a fault that drops one job.              *)
LEMMA OrphansStep ==
    ASSUME IInv, [Next]_vars
    PROVE  /\ Orphans' \subseteq Orphans \cup {job}
           /\ ~Drops => Orphans' \subseteq Orphans
<1>0. TypeOK
  BY DEF IInv
<1>1. ASSUME NEW i \in Orphans', i \notin Orphans
      PROVE  Drops /\ i = job
  <2>1. i \in DOMAIN queue' /\ queue'[i].status = "SENDING" /\ (worker' = "idle" \/ job' # i)
    BY <1>1 DEF Orphans
  <2>2. i \in DOMAIN queue /\ (queue[i].status = "SENDING" \/ (worker # "idle" /\ job = i))
    BY <2>1, SendingStep
  <2>3. worker # "idle" /\ job = i
    BY <1>1, <2>2 DEF Orphans
  <2>4. Drops
    BY <2>1, <2>3, JobKept
  <2> QED
    BY <2>3, <2>4
<1> QED
  BY <1>1

(* A restart takes up every claimed row.                                    *)
LEMMA RestartStep ==
    ASSUME IInv, [Next]_vars, up', ~up
    PROVE  Orphans' = {}
<1>0. TypeOK
  BY DEF IInv
<1>1. Restart
  <2>1. up' # up
    OBVIOUS
  <2> QED
    BY <2>1, Zenon DEF Next, ConsumerStep, Begin, LockStateRow, LockHeartbeatRow,
       ProcessHeartbeat, NotifyStale, ApiStep, Receive, LockManagement, LockDeviceRow, Refuse,
       Manage, RollBack, WorkerStep, ClaimNext, ClaimCommits, ClaimRaises, GuardAdmits,
       GuardCancels, GuardRaises, SmtpAccepts, SmtpFails, MarkSent, MarkSentCommits,
       MarkSentUnacknowledged, MarkSentRaises, MarkFailed, MarkFailedCommits, BackoffElapses,
       ClockSetBack, FaultStep, SmtpAnswerLost, SessionLost, MarkFailedRaises, Crash, vars
<1>2. queue' = Recovered(queue)
  BY <1>1 DEF Restart
<1>3. \A i \in DOMAIN queue' : queue'[i].status # "SENDING"
  BY <1>0, <1>2, Counts DEF Recovered, Job
<1> QED
  BY <1>3 DEF Orphans

(* A step without a fault leaves the count of faults, and one that drops a  *)
(* job adds to it.                                                          *)
LEMMA FaultsStep ==
    ASSUME IInv, [Next]_vars
    PROVE  faults' \in Nat /\ faults <= faults' /\ (Drops => faults' = faults + 1)
<1>0. TypeOK /\ faults \in Nat
  BY Counts DEF IInv
<1>1. faults' = faults \/ faults' = faults + 1
  BY WhoActs DEF OthersAct, WorkerActs, ClaimNext, ClaimCommits, ClaimRaises, GuardAdmits,
     GuardCancels, GuardRaises, SmtpAccepts, SmtpFails, SmtpAnswerLost, SessionLost, MarkSent,
     MarkSentCommits, MarkSentUnacknowledged, MarkSentRaises, MarkFailed, MarkFailedCommits,
     MarkFailedRaises, Crash, Fault
<1>2. Drops => faults' = faults + 1
  BY DEF Drops, ClaimRaises, MarkFailedRaises, Crash, Fault
<1> QED
  BY <1>0, <1>1, <1>2

(* The orphans a step adds are accounted for by the faults it is.           *)
LEMMA LostStep ==
    ASSUME IInv, [Next]_vars
    PROVE  faults + Cardinality(Orphans' \ Orphans) <= faults'
<1>0. faults \in Nat /\ faults' \in Nat /\ faults <= faults'
  BY FaultsStep, Counts DEF IInv
<1>1. CASE Orphans' \ Orphans = {}
  <2>1. Cardinality(Orphans' \ Orphans) = 0
    BY <1>1, FS_EmptySet
  <2> QED
    BY <1>0, <2>1
<1>2. CASE Orphans' \ Orphans # {}
  <2>1. Orphans' \ Orphans = {job} /\ faults' = faults + 1
    BY <1>2, OrphansStep, FaultsStep
  <2>2. Cardinality({job}) = 1
    BY FS_Singleton
  <2> QED
    BY <1>0, <2>1, <2>2
<1> QED
  BY <1>1, <1>2

(***************************************************************************)
(* Theorems                                                                *)
(***************************************************************************)

(* The attempts, mails and faults that the queue, the job in hand and the   *)
(* fault counter record always add up.                                      *)
THEOREM BooksBalance == Spec => []Books
<1>1. Init => Books
  BY InitBooks
<1>2. IInv /\ Books /\ [Next]_vars => Books'
  BY WhoActs, OthersKeepBooks, WorkerKeepsBooks
<1> QED
  BY <1>1, <1>2, Inductive, PTL DEF Spec

(* However claims, failures, cancellations and recoveries interleave, a row *)
(* counts at most MaxAttempts failures and is DEAD exactly at the last.     *)
THEOREM RetriesAreBounded == Spec => []RetriesBounded
<1>1. Books => RetriesBounded
  BY DEF Books, RowBooks, RetriesBounded
<1> QED
  BY <1>1, BooksBalance, PTL

(* A mail is repeated at most once per fault, and SENT means mailed. *)
THEOREM MailsAreExplained == Spec => []MailsExplained
<1>1. Books => MailsExplained
  BY DEF Books, RowBooks, MailsExplained
<1> QED
  BY <1>1, BooksBalance, PTL

(* No update of the queue can hit its unique index. *)
THEOREM KeysStayUnique == Spec => []ActiveKeysUnique
<1>1. Init => ActiveKeysUnique
  BY InitBooks
<1>2. IInv /\ ActiveKeysUnique /\ [Next]_vars => ActiveKeysUnique'
  BY KeysStep
<1> QED
  BY <1>1, <1>2, Inductive, PTL DEF Spec

(* What was sent, given up or cancelled stays so. *)
THEOREM EndsAreFinal == Spec => TerminalIsFinal
<1>1. IInv /\ [Next]_vars =>
         [\A i \in DOMAIN queue : queue[i].status \in Terminal =>
             /\ queue'[i].status = queue[i].status
             /\ queue'[i].attempts = queue[i].attempts]_vars
  BY SettledStays
<1> QED
  BY <1>1, Inductive, PTL DEF Spec, TerminalIsFinal

(* A row stays SENDING without a worker only by a fault, one row for each,  *)
(* and a restart takes up all of them.                                      *)
THEOREM ClaimsAreInHand == Spec => ClaimsLostByFaults
<1>1. IInv /\ [Next]_vars =>
         [/\ faults + Cardinality(Orphans' \ Orphans) <= faults'
          /\ ~up /\ up' => Orphans' = {}]_vars
  BY LostStep, RestartStep
<1> QED
  BY <1>1, Inductive, PTL DEF Spec, ClaimsLostByFaults
=============================================================================
