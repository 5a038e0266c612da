---------------------- MODULE DeliveryRefinementProofs ----------------------
(***************************************************************************)
(* Delivery implements NotificationLog, for any devices, signatures,       *)
(* requests and bounds: each step is one of the log or changes nothing it  *)
(* shows.                                                                  *)
(***************************************************************************)
EXTENDS DeliveryRefinement, WorkerProofs

Shown == <<NoticeLog, Mailed, Covered>>

(* The log of a table is a sequence of entries. *)
LEMMA LogOf ==
    ASSUME NEW q \in Seq(Job), NEW l, l = [i \in DOMAIN q |-> EntryOf(q[i])]
    PROVE  /\ l \in Seq(Promise!Entry) /\ Len(l) = Len(q)
           /\ DOMAIN l = DOMAIN q
           /\ \A i \in DOMAIN q :
                 /\ l[i] = EntryOf(q[i])
                 /\ l[i].notice = NoticeOf(q[i]) /\ NoticeOf(q[i]) \in Notices
                 /\ l[i].outcome = Outcome(q[i].status)
                 /\ l[i].mails = q[i].mails
                 /\ Promise!IsOpen(l[i]) <=> IsActive(q[i])
<1>0. DOMAIN q = 1 .. Len(q) /\ Len(q) \in Nat
  BY LenProperties
<1>1. \A i \in DOMAIN q : q[i] \in Job
  BY LenProperties, ElementOfSeq
<1>2. \A i \in DOMAIN q :
         /\ NoticeOf(q[i]) \in Notices
         /\ Outcome(q[i].status) \in {"open", "sent", "dead", "cancelled"}
         /\ Outcome(q[i].status) = "open" <=> IsActive(q[i])
         /\ q[i].mails \in Nat
  BY <1>1 DEF Job, NoticeOf, Notices, Outcome, IsActive, Active, Claimable, Terminal
<1>3. \A i \in DOMAIN q : EntryOf(q[i]) \in Promise!Entry
  BY <1>2 DEF EntryOf, Promise!Entry
<1>4. l \in [1 .. Len(q) -> Promise!Entry]
  BY <1>0, <1>3
<1>5. l \in Seq(Promise!Entry) /\ Len(l) = Len(q)
  BY <1>0, <1>4, SeqDef
<1> QED
  BY <1>2, <1>4, <1>5 DEF EntryOf, Promise!IsOpen

LEMMA LogOfTable ==
    ASSUME TypeOK
    PROVE  /\ NoticeLog \in Seq(Promise!Entry) /\ Len(NoticeLog) = Len(queue)
           /\ DOMAIN NoticeLog = DOMAIN queue
           /\ \A i \in DOMAIN queue :
                 /\ NoticeLog[i] = EntryOf(queue[i])
                 /\ NoticeLog[i].mails = queue[i].mails
                 /\ Promise!IsOpen(NoticeLog[i]) <=> IsActive(queue[i])
<1>1. queue \in Seq(Job) /\ NoticeLog = [i \in DOMAIN queue |-> EntryOf(queue[i])]
  BY DEF TypeOK, NoticeLog
<1> QED
  BY <1>1, LogOf

LEMMA InitLogged == ASSUME Init PROVE Promise!Init
<1>1. NoticeLog = <<>>
  BY EmptySeq DEF Init, NoticeLog
<1>2. Mailed = 0 /\ Covered = FALSE
  BY DEF Init, Mailed, Covered, Mailing, Guarded
<1> QED
  BY <1>1, <1>2 DEF Promise!Init

(* A step that keeps the rows of the log, whatever it does else. *)
LEMMA SameEntries ==
    ASSUME DOMAIN queue' = DOMAIN queue,
           \A i \in DOMAIN queue : EntryOf(queue'[i]) = EntryOf(queue[i])
    PROVE  NoticeLog' = NoticeLog
  BY DEF NoticeLog

(* What others do to rows is to withdraw notices that are not being mailed. *)
LEMMA OthersWithdraw ==
    ASSUME IInv, IInv', OthersAct, DOMAIN queue' = DOMAIN queue
    PROVE  (\E S \in SUBSET Promise!Opens : Promise!Withdraw(S)) \/ UNCHANGED Shown
<1> DEFINE S == {i \in DOMAIN queue : IsActive(queue[i]) /\ ~IsActive(queue'[i])}
<1>0. TypeOK /\ TypeOK' /\ SmtpUnderGuard'
  BY DEF IInv
<1>1. UNCHANGED <<Mailed, Covered>>
  BY DEF OthersAct, Mailed, Covered, Mailing, Guarded
<1>2. ASSUME NEW i \in DOMAIN queue
      PROVE  EntryOf(queue'[i]) = IF i \in S THEN [EntryOf(queue[i]) EXCEPT !.outcome = "cancelled"]
                                  ELSE EntryOf(queue[i])
  <2>1. queue[i] \in Job /\ KeptByOthers(queue[i], queue'[i])
    BY <1>0, Counts DEF OthersAct
  <2>2. /\ queue'[i].mails = queue[i].mails /\ NoticeOf(queue'[i]) = NoticeOf(queue[i])
        /\ \/ queue'[i].status = queue[i].status
           \/ IsActive(queue[i]) /\ queue'[i].status = "CANCELLED"
           \/ queue[i].status = "SENDING" /\ queue'[i].status = "RETRY"
    BY <2>1, KeptFacts DEF NoticeOf
  <2>3. Outcome(queue'[i].status) = IF i \in S THEN "cancelled" ELSE Outcome(queue[i].status)
    BY <2>1, <2>2 DEF Outcome, IsActive, Active, Claimable, Terminal, Job
  <2> QED
    BY <2>2, <2>3 DEF EntryOf
<1>3. NoticeLog' = [i \in DOMAIN NoticeLog |->
                       IF i \in S THEN [NoticeLog[i] EXCEPT !.outcome = "cancelled"] ELSE NoticeLog[i]]
  BY <1>2 DEF NoticeLog
<1>4. S \in SUBSET Promise!Opens
  BY <1>0, LogOfTable DEF Promise!Opens
<1>5. Covered => Mailed \notin S
  <2>1. Covered => queue'[job].status = "SENDING" /\ Mailed = job
    BY <1>0 DEF Covered, Mailing, Mailed, OthersAct, SmtpUnderGuard, Guarded
  <2> QED
    BY <2>1 DEF IsActive, Active
<1> HIDE DEF S
<1>6. CASE S # {}
  BY <1>1, <1>3, <1>4, <1>5, <1>6 DEF Promise!Withdraw
<1>7. CASE S = {}
  BY <1>1, <1>2, <1>7, SameEntries DEF Shown
<1> QED
  BY <1>6, <1>7

(* A commit of the consumer queues notices, or none. *)
LEMMA CommitsNotify ==
    ASSUME IInv, IInv', [Next]_vars, ExtendedRows(queue, queue', Admitted), OthersAct
    PROVE  Promise!Notify \/ UNCHANGED Shown
<1>0. TypeOK /\ TypeOK'
  BY DEF IInv
<1>1. UNCHANGED <<Mailed, Covered>>
  BY DEF OthersAct, Mailed, Covered, Mailing, Guarded
<1>2. CASE DOMAIN queue' = DOMAIN queue
  BY <1>1, <1>2, SameEntries DEF ExtendedRows, Shown
<1>3. CASE DOMAIN queue' # DOMAIN queue
  <2>1. /\ DOMAIN queue = 1 .. Len(queue) /\ Len(queue) \in Nat
        /\ DOMAIN queue' = 1 .. Len(queue') /\ Len(queue') \in Nat
    BY <1>0, LenProperties DEF TypeOK
  <2>2. Len(queue) < Len(queue')
    <3>1. Len(queue) <= Len(queue')
      <4>1. Len(queue) = 0 \/ Len(queue) \in DOMAIN queue
        BY <2>1
      <4>2. Len(queue) = 0 \/ Len(queue) \in DOMAIN queue'
        BY <4>1 DEF ExtendedRows
      <4> QED
        BY <2>1, <4>2
    <3>2. Len(queue) # Len(queue')
      BY <1>3, <2>1
    <3>3. Len(queue) \in Nat /\ Len(queue') \in Nat
      BY <2>1
    <3> QED
      BY <3>1, <3>2, <3>3
  <2>3. /\ NoticeLog \in Seq(Promise!Entry) /\ Len(NoticeLog) = Len(queue)
        /\ DOMAIN NoticeLog = DOMAIN queue
        /\ \A i \in DOMAIN queue : NoticeLog[i] = EntryOf(queue[i])
    BY <1>0, LogOfTable
  <2>4. /\ NoticeLog' \in Seq(Promise!Entry) /\ Len(NoticeLog') = Len(queue')
        /\ DOMAIN NoticeLog' = DOMAIN queue'
        /\ \A i \in DOMAIN queue' :
              /\ NoticeLog'[i] = EntryOf(queue'[i])
              /\ NoticeLog'[i].notice = NoticeOf(queue'[i])
              /\ NoticeLog'[i].mails = queue'[i].mails
              /\ Promise!IsOpen(NoticeLog'[i]) <=> IsActive(queue'[i])
    <3>1. queue' \in Seq(Job) /\ NoticeLog' = [i \in DOMAIN queue' |-> EntryOf(queue'[i])]
      BY <1>0 DEF TypeOK, NoticeLog
    <3> QED
      BY <3>1, LogOf
  <2>5. \A i \in DOMAIN NoticeLog : NoticeLog'[i] = NoticeLog[i]
    BY <2>3, <2>4 DEF ExtendedRows
  <2>6. ASSUME NEW i \in DOMAIN NoticeLog' \ DOMAIN NoticeLog
        PROVE  /\ Promise!IsOpen(NoticeLog'[i]) /\ NoticeLog'[i].mails = 0
               /\ \A k \in 1 .. i - 1 : Promise!IsOpen(NoticeLog'[k]) =>
                     <<NoticeLog'[i].notice, NoticeLog'[k].notice>> \notin SameNotices
    <3>1. IsNew(queue'[i], Admitted) /\ KeyIsFree(queue', i) /\ i \in DOMAIN queue'
      BY <2>3, <2>4, <2>6 DEF ExtendedRows
    <3>2. IsActive(queue'[i]) /\ queue'[i].mails = 0
      BY <3>1 DEF IsNew, IsActive, Active, Claimable
    <3>3. ASSUME NEW k \in 1 .. i - 1, Promise!IsOpen(NoticeLog'[k])
          PROVE  <<NoticeLog'[i].notice, NoticeLog'[k].notice>> \notin SameNotices
      <4>1. k \in DOMAIN queue' /\ IsActive(queue'[k])
        BY <2>1, <2>4, <3>1, <3>3
      <4>2. ~SameKey(queue'[i], queue'[k])
        BY <3>1, <4>1 DEF KeyIsFree
      <4>3. ~SameKey(NoticeOf(queue'[i]), NoticeOf(queue'[k]))
        BY <4>2 DEF SameKey, NoticeOf
      <4> QED
        BY <2>4, <3>1, <4>1, <4>3 DEF SameNotices
    <3> QED
      BY <2>4, <3>1, <3>2, <3>3
  <2> QED
    BY <1>1, <2>2, <2>3, <2>4, <2>5, <2>6 DEF Promise!Notify
<1> QED
  BY <1>2, <1>3

(* What an update of its status makes of a notice. *)
LEMMA EntryUpdated ==
    ASSUME NEW j \in Job
    PROVE  /\ EntryOf([j EXCEPT !.status = "CANCELLED"]) = [EntryOf(j) EXCEPT !.outcome = "cancelled"]
           /\ \A dead \in BOOLEAN :
                 EntryOf(FailedJob(j, dead)) =
                    [EntryOf(j) EXCEPT !.outcome = IF dead THEN "dead" ELSE "open"]
<1>1. /\ Outcome("CANCELLED") = "cancelled" /\ Outcome("DEAD") = "dead"
      /\ Outcome("RETRY") = "open"
  BY DEF Outcome, Active, Claimable
<1>2. EntryOf([j EXCEPT !.status = "CANCELLED"]) = [EntryOf(j) EXCEPT !.outcome = "cancelled"]
  BY <1>1 DEF EntryOf, NoticeOf, Job
<1>3. ASSUME NEW dead \in BOOLEAN
      PROVE  EntryOf(FailedJob(j, dead)) =
                [EntryOf(j) EXCEPT !.outcome = IF dead THEN "dead" ELSE "open"]
  <2>1. CASE dead
    <3>1. /\ FailedJob(j, dead).status = "DEAD" /\ FailedJob(j, dead).mails = j.mails
          /\ NoticeOf(FailedJob(j, dead)) = NoticeOf(j)
      BY <2>1 DEF FailedJob, NoticeOf, Job
    <3>2. (IF dead THEN "dead" ELSE "open") = "dead"
      BY <2>1, Zenon
    <3> QED
      BY <1>1, <3>1, <3>2 DEF EntryOf
  <2>2. CASE ~dead
    <3>1. /\ FailedJob(j, dead).status = "RETRY" /\ FailedJob(j, dead).mails = j.mails
          /\ NoticeOf(FailedJob(j, dead)) = NoticeOf(j)
      BY <2>2 DEF FailedJob, NoticeOf, Job
    <3> QED
      BY <1>1, <2>2, <3>1 DEF EntryOf
  <2> QED
    BY <2>1, <2>2
<1> QED
  BY <1>2, <1>3

(* A step of the worker is a step of an attempt, a giving up, the           *)
(* withdrawal of a notice it finds excluded, or shows nothing.              *)
LEMMA WorkerAttempts ==
    ASSUME IInv, Books, [Next]_vars, WorkerActs
    PROVE  Promise!Next \/ UNCHANGED Shown
<1>0. TypeOK /\ SmtpUnderGuard /\ JobBooks
  BY DEF IInv, Books
<1>a. /\ DOMAIN NoticeLog = DOMAIN queue /\ DOMAIN queue = 1 .. Len(queue) /\ Len(queue) \in Nat
      /\ \A i \in DOMAIN queue :
            /\ NoticeLog[i] = EntryOf(queue[i]) /\ NoticeLog[i].mails = queue[i].mails
            /\ Promise!IsOpen(NoticeLog[i]) <=> IsActive(queue[i])
            /\ queue[i] \in Job
  BY <1>0, LogOfTable, Counts, LenProperties DEF TypeOK
<1>b. worker # "idle" => job \in DOMAIN queue /\ job # 0
  BY <1>0, <1>a DEF TypeOK
<1> USE DEF Shown, Mailed, Covered, Mailing, Guarded
<1>1. ASSUME NEW n \in DOMAIN queue, ClaimNext(n) PROVE UNCHANGED Shown
  BY <1>1 DEF ClaimNext, tables, NoticeLog
<1>c. CASE ClaimCommits \/ ClaimRaises
  <2>1. /\ worker = "claiming" /\ worker' \in {"idle", "claimed"}
        /\ queue[job].status \in Claimable
        /\ queue' = queue \/ queue' = [queue EXCEPT ![job].status = "SENDING"]
    BY <1>c DEF ClaimCommits, ClaimRaises, ToIdle, ClaimedRow, IInv, LocksProtect, ClaimHoldsRow
  <2>2. \A i \in DOMAIN queue : EntryOf(queue'[i]) = EntryOf(queue[i])
    <3>1. CASE queue' = queue
      BY <3>1
    <3>2. CASE queue' = [queue EXCEPT ![job].status = "SENDING"]
      BY <1>a, <2>1, <3>2 DEF EntryOf, NoticeOf, Outcome, Active, Claimable, Job
    <3> QED
      BY <2>1, <3>1, <3>2
  <2>3. DOMAIN queue' = DOMAIN queue
    BY <2>1
  <2> QED
    BY <2>1, <2>2, <2>3, SameEntries
<1>2. CASE GuardAdmits
  <2>1. /\ worker = "claimed" /\ worker' = "smtp" /\ queue[job].status = "SENDING"
        /\ UNCHANGED <<queue, job, session>>
    BY <1>2 DEF GuardAdmits, Deliverable, tables
  <2>2. session
    BY <1>0, <2>1 DEF JobBooks
  <2>3. Mailed = 0 /\ Mailed' = job /\ Covered' = TRUE /\ NoticeLog' = NoticeLog
    BY <2>1, <2>2 DEF NoticeLog
  <2>4. job \in Promise!Opens
    BY <1>a, <1>b, <2>1 DEF Promise!Opens, IsActive, Active
  <2>5. Promise!StartAttempt(job)
    BY <2>3, <2>4 DEF Promise!StartAttempt
  <2> QED
    BY <1>a, <1>b, <2>1, <2>5 DEF Promise!Next
<1>3. CASE GuardCancels
  <2>1. /\ worker = "claimed" /\ worker' = "idle" /\ queue' = SettledRow(queue, job, "CANCELLED")
    BY <1>3 DEF GuardCancels, ToIdle
  <2>2. CASE queue[job].status # "SENDING"
    BY <2>1, <2>2 DEF SettledRow, NoticeLog
  <2>3. CASE queue[job].status = "SENDING"
    <3>1. queue' = [queue EXCEPT ![job].status = "CANCELLED"]
      BY <2>1, <2>3 DEF SettledRow
    <3>2. \A i \in DOMAIN queue :
             EntryOf(queue'[i]) = IF i \in {job} THEN [EntryOf(queue[i]) EXCEPT !.outcome = "cancelled"]
                                  ELSE EntryOf(queue[i])
      BY <1>a, <3>1, EntryUpdated
    <3>3. NoticeLog' = [i \in DOMAIN NoticeLog |->
             IF i \in {job} THEN [NoticeLog[i] EXCEPT !.outcome = "cancelled"] ELSE NoticeLog[i]]
      BY <1>a, <3>1, <3>2 DEF NoticeLog
    <3>4. {job} \in SUBSET Promise!Opens
      BY <1>a, <1>b, <2>1, <2>3 DEF Promise!Opens, IsActive, Active
    <3>5. UNCHANGED <<Mailed, Covered>> /\ ~Covered
      BY <2>1
    <3>6. Promise!Withdraw({job})
      BY <3>3, <3>5 DEF Promise!Withdraw
    <3> QED
      BY <3>4, <3>6 DEF Promise!Next
  <2> QED
    BY <2>2, <2>3
<1>4. CASE GuardRaises \/ MarkFailed \/ MarkFailedRaises
  BY <1>4 DEF GuardRaises, MarkFailed, MarkFailedRaises, ToIdle, tables, NoticeLog
<1>d. CASE MarkSent
  BY <1>d DEF MarkSent, tables, NoticeLog
<1>5. CASE SmtpAccepts \/ SmtpAnswerLost
  <2>1. /\ worker = "smtp" /\ queue' = [queue EXCEPT ![job].mails = @ + 1]
        /\ \/ worker' = "accepted" /\ UNCHANGED <<job, session>>
           \/ worker' = "failed"
    BY <1>5 DEF SmtpAccepts, SmtpAnswerLost, CountMail
  <2>2. \A i \in DOMAIN queue :
           EntryOf(queue'[i]) = IF i = job THEN [EntryOf(queue[i]) EXCEPT !.mails = @ + 1]
                                ELSE EntryOf(queue[i])
    BY <1>a, <2>1 DEF EntryOf, NoticeOf, Job
  <2>3. NoticeLog' = [NoticeLog EXCEPT ![job].mails = @ + 1]
    BY <1>a, <2>1, <2>2 DEF NoticeLog
  <2>4. Mailed = job /\ job # 0
    BY <1>b, <2>1
  <2>5. UNCHANGED <<Mailed, Covered>> \/ (Mailed' = 0 /\ Covered' = FALSE)
    BY <2>1
  <2>6. Promise!Accept
    BY <2>3, <2>4, <2>5 DEF Promise!Accept, Promise!EndAttempt
  <2> QED
    BY <2>6 DEF Promise!Next
<1>6. CASE SmtpFails \/ MarkSentRaises \/ Crash
  <2>1. queue' = queue /\ worker' \in {"failed", "idle"}
    BY <1>6 DEF SmtpFails, MarkSentRaises, Crash, ToIdle, tables
  <2>2. NoticeLog' = NoticeLog /\ Mailed' = 0 /\ Covered' = FALSE
    BY <2>1 DEF NoticeLog
  <2>3. CASE Mailed # 0
    BY <2>2, <2>3 DEF Promise!FinishAttempt, Promise!EndAttempt, Promise!Next
  <2>4. CASE Mailed = 0
    <3>1. Covered = FALSE
      BY <1>b, <2>4
    <3> QED
      BY <2>2, <2>4, <3>1
  <2> QED
    BY <2>3, <2>4
<1>7. CASE SessionLost
  <2>1. /\ worker \in {"smtp", "accepted", "settling"} /\ session /\ ~session'
        /\ UNCHANGED <<queue, job, worker>>
    BY <1>7, Zenon DEF SessionLost, tables
  <2>2. NoticeLog' = NoticeLog /\ Mailed' = Mailed /\ Covered /\ Covered' = FALSE
    BY <2>1 DEF NoticeLog
  <2> QED
    BY <2>2 DEF Promise!LoseCover, Promise!Next
<1>8. CASE MarkSentCommits \/ MarkSentUnacknowledged
  <2>1. /\ worker = "settling" /\ session /\ queue' = SettledRow(queue, job, "SENT")
        /\ worker' \in {"idle", "failed"}
    BY <1>8 DEF MarkSentCommits, MarkSentUnacknowledged, ToIdle
  <2>2. queue[job].status = "SENDING" /\ queue[job].mails >= 1 /\ job \in DOMAIN queue
    BY <1>0, <1>b, <2>1 DEF SmtpUnderGuard, JobBooks
  <2>3. queue' = [queue EXCEPT ![job].status = "SENT"]
    BY <2>1, <2>2 DEF SettledRow
  <2>4. \A i \in DOMAIN queue :
           EntryOf(queue'[i]) = IF i = job THEN [EntryOf(queue[i]) EXCEPT !.outcome = "sent"]
                                ELSE EntryOf(queue[i])
    BY <1>a, <2>3 DEF EntryOf, NoticeOf, Outcome, Active, Claimable, Job
  <2>5. NoticeLog' = [NoticeLog EXCEPT ![job].outcome = "sent"]
    BY <1>a, <2>3, <2>4 DEF NoticeLog
  <2>6. Mailed = job /\ job # 0 /\ Covered /\ Mailed' = 0 /\ Covered' = FALSE
    BY <1>b, <2>1
  <2>7. job \in Promise!Opens /\ NoticeLog[job].mails >= 1
    BY <1>a, <2>2 DEF Promise!Opens, IsActive, Active
  <2> QED
    BY <2>5, <2>6, <2>7 DEF Promise!FinishAttempt, Promise!EndAttempt, Promise!Next
<1>9. CASE MarkFailedCommits
  <2>1. /\ worker = "failing" /\ worker' = "idle"
        /\ queue' = FailedRow(queue, job, Exhausted(attempts + 1)) /\ job \in DOMAIN queue
    BY <1>9, <1>b DEF MarkFailedCommits, ToIdle
  <2>2. Mailed = 0 /\ UNCHANGED <<Mailed, Covered>>
    BY <2>1
  <2>3. CASE queue[job].status # "SENDING"
    BY <2>1, <2>2, <2>3 DEF FailedRow, NoticeLog
  <2>4. CASE queue[job].status = "SENDING"
    <3> DEFINE dead == Exhausted(attempts + 1)
               outcome == IF dead THEN "dead" ELSE "open"
    <3>1. /\ DOMAIN queue' = DOMAIN queue
          /\ \A i \in DOMAIN queue :
                queue'[i] = IF i = job THEN FailedJob(queue[i], dead) ELSE queue[i]
      BY <2>1, <2>4 DEF FailedRow
    <3>2. \A i \in DOMAIN queue :
             EntryOf(queue'[i]) = IF i = job THEN [EntryOf(queue[i]) EXCEPT !.outcome = outcome]
                                  ELSE EntryOf(queue[i])
      <4>1. dead \in BOOLEAN
        BY DEF Exhausted
      <4> HIDE DEF dead
      <4>2. EntryOf(FailedJob(queue[job], dead)) = [EntryOf(queue[job]) EXCEPT !.outcome = outcome]
        BY <1>a, <2>1, <4>1, EntryUpdated
      <4> HIDE DEF outcome
      <4> QED
        BY <3>1, <4>2
    <3>3. NoticeLog' = [NoticeLog EXCEPT ![job].outcome = outcome]
      BY <1>a, <3>1, <3>2 DEF NoticeLog
    <3>4. job \in Promise!Opens /\ EntryOf(queue[job]).outcome = "open"
      BY <1>a, <2>1, <2>4 DEF Promise!Opens, IsActive, Active, EntryOf, Outcome
    <3>5. CASE dead
      <4>1. Promise!GiveUp(job)
        BY <2>2, <3>3, <3>4, <3>5 DEF Promise!GiveUp
      <4> QED
        BY <1>a, <2>1, <4>1 DEF Promise!Next
    <3>6. CASE ~dead
      <4>1. \A i \in DOMAIN queue : EntryOf(queue'[i]) = EntryOf(queue[i])
        BY <3>2, <3>4, <3>6 DEF EntryOf
      <4> QED
        BY <2>2, <3>1, <4>1, SameEntries
    <3> QED
      BY <3>5, <3>6
  <2> QED
    BY <2>3, <2>4
<1> QED
  BY <1>1, <1>c, <1>2, <1>3, <1>4, <1>d, <1>5, <1>6, <1>7, <1>8, <1>9 DEF WorkerActs

(* The tables, the threads and the requests keep the promise of the log. *)
THEOREM PromiseKept == Spec => KeepsPromise
<1>1. Init => Promise!Init
  BY InitLogged
<1>2. IInv /\ IInv' /\ Books /\ [Next]_vars => [Promise!Next]_Shown
  <2> SUFFICES ASSUME IInv, IInv', Books, [Next]_vars PROVE Promise!Next \/ UNCHANGED Shown
    OBVIOUS
  <2>1. CASE WorkerActs
    BY <2>1, WorkerAttempts
  <2>2. CASE OthersAct
    <3>1. CASE UpdatedRows(queue, queue')
      BY <2>2, <3>1, OthersWithdraw DEF UpdatedRows, Promise!Next
    <3>2. CASE ExtendedRows(queue, queue', Admitted)
      BY <2>2, <3>2, CommitsNotify DEF Promise!Next
    <3> QED
      BY <3>1, <3>2, QueueStep DEF IInv
  <2> QED
    BY <2>1, <2>2, WhoActs
<1> QED
  BY <1>1, <1>2, Inductive, BooksBalance, PTL DEF Spec, KeepsPromise, Promise!Spec, Shown
=============================================================================
