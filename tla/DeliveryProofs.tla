--------------------------- MODULE DeliveryProofs ---------------------------
(***************************************************************************)
(* Proofs about Delivery, for any devices, signatures, requests and        *)
(* bounds.                                                                 *)
(***************************************************************************)
EXTENDS Delivery, NotificationQueueProofs, FiniteSetTheorems

(* The inductive invariant. *)
IInv == TypeOK /\ LocksProtect /\ ExcludedIsQuiet /\ SmtpUnderGuard

(***************************************************************************)
(* The queue                                                               *)
(***************************************************************************)

(* Counting an accepted mail and the end of a backoff update one row. *)
LEMMA CountedTable ==
    ASSUME NEW q \in Seq(Job), NEW i \in DOMAIN q
    PROVE  /\ [q EXCEPT ![i].mails = @ + 1] \in Seq(Job)
           /\ UpdatedRows(q, [q EXCEPT ![i].mails = @ + 1])
<1> DEFINE r == [q EXCEPT ![i].mails = @ + 1]
<1>1. \A k \in DOMAIN q : q[k] \in Job
  BY LenProperties, ElementOfSeq
<1>2. DOMAIN r = DOMAIN q /\ r = [k \in DOMAIN r |-> r[k]]
  OBVIOUS
<1>3. \A k \in DOMAIN q :
         r[k] = IF k = i THEN [q[k] EXCEPT !.mails = q[k].mails + 1] ELSE q[k]
  OBVIOUS
<1>4. \A k \in DOMAIN q : r[k] \in Job
  <2>1. ASSUME NEW j \in Job PROVE [j EXCEPT !.mails = j.mails + 1] \in Job
    <3>1. j.mails + 1 \in Nat
      BY DEF Job
    <3> QED
      BY <3>1 DEF Job
  <2> QED
    BY <1>1, <1>3, <2>1
<1>5. r \in Seq(Job)
  BY <1>2, <1>4, TableOfRows
<1>6. UpdatedRows(q, r)
  BY <1>1, <1>2, <1>3 DEF UpdatedRows, IsActive, Job
<1> QED
  BY <1>5, <1>6

(* The end of a backoff updates one row. *)
LEMMA DueTable ==
    ASSUME NEW q \in Seq(Job), NEW i \in DOMAIN q
    PROVE  /\ [q EXCEPT ![i].due = TRUE] \in Seq(Job)
           /\ UpdatedRows(q, [q EXCEPT ![i].due = TRUE])
<1> DEFINE r == [q EXCEPT ![i].due = TRUE]
<1>1. \A k \in DOMAIN q : q[k] \in Job
  BY LenProperties, ElementOfSeq
<1>2. DOMAIN r = DOMAIN q /\ r = [k \in DOMAIN r |-> r[k]]
  OBVIOUS
<1>3. \A k \in DOMAIN q : r[k] = IF k = i THEN [q[k] EXCEPT !.due = TRUE] ELSE q[k]
  OBVIOUS
<1>4. \A k \in DOMAIN q : r[k] \in Job
  BY <1>1, <1>3 DEF Job
<1>5. r \in Seq(Job)
  BY <1>2, <1>4, TableOfRows
<1>6. UpdatedRows(q, r)
  BY <1>1, <1>2, <1>3 DEF UpdatedRows, IsActive, Job
<1> QED
  BY <1>5, <1>6

(* So does setting back the clock, which makes rows wait again. *)
LEMMA SetBackTable ==
    ASSUME NEW q \in Seq(Job), NEW S
    PROVE  LET r == [k \in DOMAIN q |-> IF k \in S THEN [q[k] EXCEPT !.due = FALSE] ELSE q[k]]
           IN r \in Seq(Job) /\ UpdatedRows(q, r)
<1> DEFINE r == [k \in DOMAIN q |-> IF k \in S THEN [q[k] EXCEPT !.due = FALSE] ELSE q[k]]
<1>1. \A k \in DOMAIN q : q[k] \in Job
  BY LenProperties, ElementOfSeq
<1>2. \A k \in DOMAIN q : r[k] \in Job
  BY <1>1 DEF Job
<1>3. r \in Seq(Job)
  BY <1>2, TableOfRows
<1>4. UpdatedRows(q, r)
  BY <1>1 DEF UpdatedRows, IsActive, Job
<1> QED
  BY <1>3, <1>4

(* The steps of the clock: rows become due, or wait again. *)
ClockStep ==
    \/ \E i \in DOMAIN queue : BackoffElapses(i)
    \/ \E S \in SUBSET DueIds(queue) : ClockSetBack(S)

(* They change nothing but when a row is due. *)
Retimed(j, k) ==
    \/ k = [j EXCEPT !.due = TRUE]
    \/ "clock set back" \in FaultKind /\ k = [j EXCEPT !.due = FALSE]

LEMMA ClockKeeps ==
    ASSUME TypeOK, ClockStep
    PROVE  /\ UNCHANGED <<device, state, mgmtLock, rowLock, up, task, view, row,
                          worker, job, attempts, session, request>>
           /\ DOMAIN queue' = DOMAIN queue
           /\ \A k \in DOMAIN queue :
                 /\ queue'[k] = queue[k] \/ Retimed(queue[k], queue'[k])
                 /\ queue'[k].status = queue[k].status
<1>1. UNCHANGED <<device, state, mgmtLock, rowLock, up, task, view, row,
                  worker, job, attempts, session, request>>
  BY DEF ClockStep, BackoffElapses, ClockSetBack, consumerVars, workerVars
<1>2. \A k \in DOMAIN queue : queue'[k] = queue[k] \/ Retimed(queue[k], queue'[k])
  BY DEF ClockStep, BackoffElapses, ClockSetBack, Fault, Retimed
<1>3. \A k \in DOMAIN queue : queue[k] \in Job
  BY LenProperties, ElementOfSeq DEF TypeOK
<1>4. DOMAIN queue' = DOMAIN queue
  BY DEF ClockStep, BackoffElapses, ClockSetBack
<1> QED
  BY <1>1, <1>2, <1>3, <1>4 DEF Retimed, Job

(* The actions that update rows of the queue and insert none. *)
UpdatesQueue ==
    \/ ClockStep \/ ClaimCommits \/ ClaimRaises
    \/ GuardCancels \/ SmtpAccepts \/ SmtpAnswerLost
    \/ MarkSentCommits \/ MarkSentUnacknowledged \/ MarkFailedCommits \/ Restart

(* Each statement that inserts nothing leaves every row where it was and    *)
(* awakens none.                                                            *)
LEMMA QueueUpdated ==
    ASSUME IInv, UpdatesQueue
    PROVE  queue' \in Seq(Job) /\ UpdatedRows(queue, queue')
<1>1. queue \in Seq(Job) /\ (worker # "idle" => job \in DOMAIN queue) /\ attempts \in Nat
  BY DEF IInv, TypeOK
<1>2. Exhausted(attempts + 1) \in BOOLEAN
  BY DEF Exhausted
<1>3. CASE ClaimCommits \/ ClaimRaises
  <2>1. job \in DOMAIN queue /\ queue' \in {queue, ClaimedRow(queue, job)}
    BY <1>1, <1>3 DEF ClaimCommits, ClaimRaises
  <2>2. queue[job].status \in Claimable
    BY <1>3 DEF ClaimCommits, ClaimRaises, IInv, LocksProtect, ClaimHoldsRow
  <2> QED
    BY <1>1, <2>1, <2>2, ClaimedTable DEF UpdatedRows
<1>4. ASSUME NEW i \in DOMAIN queue, BackoffElapses(i)
      PROVE  queue' \in Seq(Job) /\ UpdatedRows(queue, queue')
  BY <1>1, <1>4, DueTable DEF BackoffElapses
<1>5. CASE GuardCancels
  BY <1>1, <1>5, SettledTable DEF GuardCancels, Terminal
<1>6. CASE SmtpAccepts
  BY <1>1, <1>6, CountedTable DEF SmtpAccepts, CountMail
<1>7. CASE SmtpAnswerLost
  BY <1>1, <1>7, CountedTable DEF SmtpAnswerLost, CountMail
<1>8. CASE MarkSentCommits
  BY <1>1, <1>8, SettledTable DEF MarkSentCommits, Terminal
<1>9. CASE MarkSentUnacknowledged
  BY <1>1, <1>9, SettledTable DEF MarkSentUnacknowledged, Terminal
<1>10. CASE MarkFailedCommits
  BY <1>1, <1>2, <1>10, FailedTable DEF MarkFailedCommits
<1>11. CASE Restart
  BY <1>1, <1>11, RecoveredTable DEF Restart
<1>12. ASSUME NEW S \in SUBSET DueIds(queue), ClockSetBack(S)
       PROVE  queue' \in Seq(Job) /\ UpdatedRows(queue, queue')
  BY <1>1, <1>12, SetBackTable DEF ClockSetBack
<1> QED
  BY <1>3, <1>4, <1>5, <1>6, <1>7, <1>8, <1>9, <1>10, <1>11, <1>12 DEF UpdatesQueue, ClockStep

(* j is a row just inserted for a device of D. *)
IsNew(j, D) == j.device \in D /\ j.status = "PENDING" /\ j.attempts = 0 /\ j.mails = 0 /\ j.due

(* No active row before the row i has its key. *)
KeyIsFree(r, i) == \A k \in 1 .. i - 1 : IsActive(r[k]) => ~SameKey(r[i], r[k])

(* r is the table q with rows added for devices of D, none a duplicate. *)
ExtendedRows(q, r, D) ==
    /\ DOMAIN q \subseteq DOMAIN r
    /\ \A i \in DOMAIN q : r[i] = q[i]
    /\ \A i \in DOMAIN r \ DOMAIN q : IsNew(r[i], D) /\ KeyIsFree(r, i)

(* The devices the consumer has locked and found monitored. *)
Admitted == {d \in Device : rowLock[d] = Consumer /\ Allows(row[d])}

(* A mail queued for a device of D adds at most a row of D. *)
LEMMA InsertedExtends ==
    ASSUME NEW q \in Seq(Job), NEW D, NEW d \in D \cap Device,
           NEW type \in Type, NEW sig \in Signature
    PROVE  /\ Inserted(q, NewJob(d, type, sig)) \in Seq(Job)
           /\ ExtendedRows(q, Inserted(q, NewJob(d, type, sig)), D)
<1> DEFINE new == NewJob(d, type, sig)
           r == Inserted(q, new)
<1>1. new \in Job /\ IsNew(new, D)
  BY NewJobType DEF NewJob, IsNew
<1>2. DOMAIN q = 1 .. Len(q) /\ Len(q) \in Nat
  BY LenProperties
<1> HIDE DEF new
<1>3. /\ r \in Seq(Job) /\ DOMAIN q \subseteq DOMAIN r
      /\ \A i \in DOMAIN q : r[i] = q[i]
      /\ \A i \in DOMAIN r \ DOMAIN q : r[i] = new /\ i = Len(q) + 1 /\ ~Duplicate(q, new)
  BY <1>1, InsertedTable
<1>4. ASSUME NEW i \in DOMAIN r \ DOMAIN q PROVE KeyIsFree(r, i)
  <2>1. i = Len(q) + 1 /\ r[i] = new
    BY <1>3
  <2>2. \A k \in 1 .. i - 1 : k \in DOMAIN q /\ r[k] = q[k]
    BY <1>2, <1>3, <2>1
  <2>3. \A k \in DOMAIN q : IsActive(q[k]) => ~SameKey(new, q[k])
    BY <1>3 DEF Duplicate, SameKey
  <2> QED
    BY <2>1, <2>2, <2>3 DEF KeyIsFree
<1> QED
  BY <1>1, <1>3, <1>4 DEF ExtendedRows, new

(* Adding rows of D twice is adding rows of D. *)
LEMMA ExtendedTwice ==
    ASSUME NEW D, NEW p \in Seq(Job), NEW q \in Seq(Job), NEW r \in Seq(Job),
           ExtendedRows(p, q, D), ExtendedRows(q, r, D)
    PROVE  ExtendedRows(p, r, D)
<1>1. DOMAIN p = 1 .. Len(p) /\ DOMAIN q = 1 .. Len(q) /\ DOMAIN r = 1 .. Len(r)
      /\ Len(p) \in Nat /\ Len(q) \in Nat /\ Len(r) \in Nat
  BY LenProperties
<1>2. ASSUME NEW i \in DOMAIN q \ DOMAIN p PROVE IsNew(r[i], D) /\ KeyIsFree(r, i)
  <2>1. \A k \in 1 .. i : k \in DOMAIN q /\ r[k] = q[k]
    BY <1>1 DEF ExtendedRows
  <2>2. i \in 1 .. i /\ \A k \in 1 .. i - 1 : k \in 1 .. i
    BY <1>1
  <2> QED
    BY <2>1, <2>2 DEF ExtendedRows, KeyIsFree
<1> QED
  BY <1>2 DEF ExtendedRows

(* A heartbeat queues mails only for a device the consumer has locked and   *)
(* found monitored.                                                         *)
LEMMA HeartbeatInserts ==
    ASSUME TypeOK, NEW mesResume \in BOOLEAN, NEW mesNotify \in BOOLEAN,
           ProcessHeartbeat(mesResume, mesNotify)
    PROVE  queue' \in Seq(Job) /\ ExtendedRows(queue, queue', Admitted)
<1> DEFINE d == task.device
           sig == task.signature
           allowed == Allows(row[d])
           resumed == IF Resumes(view[d]) /\ allowed /\ mesResume
                      THEN Inserted(queue, NewJob(d, "RECEIVING", sig)) ELSE queue
<1>1. queue \in Seq(Job) /\ d \in Device /\ sig \in Signature
  BY DEF TypeOK, ProcessHeartbeat, Heartbeat
<1>2. allowed => d \in Admitted \cap Device
  BY <1>1 DEF Admitted, ProcessHeartbeat
<1>3. resumed \in Seq(Job) /\ ExtendedRows(queue, resumed, Admitted)
  <2>1. CASE Resumes(view[d]) /\ allowed /\ mesResume
    BY <1>1, <1>2, <2>1, InsertedExtends DEF Type
  <2>2. CASE ~(Resumes(view[d]) /\ allowed /\ mesResume)
    BY <1>1, <2>2 DEF ExtendedRows
  <2> QED
    BY <2>1, <2>2
<1>4. ASSUME NEW type \in Type, allowed,
             queue' = Inserted(resumed, NewJob(d, type, sig))
      PROVE  queue' \in Seq(Job) /\ ExtendedRows(queue, queue', Admitted)
  <2>1. queue' \in Seq(Job) /\ ExtendedRows(resumed, queue', Admitted)
    BY <1>1, <1>2, <1>3, <1>4, InsertedExtends
  <2> QED
    BY <1>1, <1>3, <2>1, ExtendedTwice
<1>5. \/ queue' = resumed
      \/ allowed /\ queue' = Inserted(resumed, NewJob(d, "ALERT", sig))
      \/ allowed /\ queue' = Inserted(resumed, NewJob(d, "RECOVERY", sig))
  BY DEF ProcessHeartbeat
<1> QED
  BY <1>3, <1>4, <1>5 DEF Type

(* So does a stale check, which queues one mail for each device. *)
LEMMA StaleCheckInserts ==
    ASSUME TypeOK, NEW silent \in SUBSET MayBeSilent, NEW mesAllows \in SUBSET silent,
           NotifyStale(silent, mesAllows)
    PROVE  queue' \in Seq(Job) /\ ExtendedRows(queue, queue', Admitted)
<1> DEFINE notified == {d \in silent \cap mesAllows : Allows(row[d])}
           missing(d) == NewJob(d, "MISSING", view[d].signature)
           fresh == {d \in notified : ~Duplicate(queue, missing(d))}
           n == Cardinality(fresh)
<1>1. queue \in Seq(Job)
  BY DEF TypeOK
<1>2. \A d \in silent : d \in Device /\ view[d] \in StateRow /\ rowLock[d] = Consumer
  BY DEF MayBeSilent, NotifyStale, ToLock, TypeOK
<1>3. fresh \subseteq Admitted
  BY <1>2 DEF Admitted
<1>4. n \in Nat
  <2>1. IsFiniteSet(fresh)
    BY <1>3, DeviceAssumption, FS_Subset DEF Admitted
  <2> QED
    BY <2>1, FS_CardinalityType
<1>5. PICK f \in Listings(fresh) :
         queue' = queue \o [i \in 1 .. n |-> missing(f[i])]
  BY DEF NotifyStale
<1>6. /\ f \in [1 .. n -> fresh]
      /\ \A i, j \in 1 .. n : i < j => f[i] < f[j]
  BY <1>5 DEF Listings
<1> DEFINE added == [i \in 1 .. n |-> missing(f[i])]
<1>7. \A d \in fresh :
         missing(d) \in Job /\ missing(d).device = d /\ IsNew(missing(d), Admitted)
         /\ \A k \in DOMAIN queue : IsActive(queue[k]) => ~SameKey(missing(d), queue[k])
  <2> SUFFICES ASSUME NEW d \in fresh
               PROVE  missing(d) \in Job /\ missing(d).device = d /\ IsNew(missing(d), Admitted)
                      /\ \A k \in DOMAIN queue : IsActive(queue[k]) => ~SameKey(missing(d), queue[k])
    OBVIOUS
  <2>1. d \in Device /\ view[d].signature \in Signature
    BY <1>2 DEF StateRow
  <2>2. missing(d) \in Job
    BY <2>1, NewJobType DEF Type
  <2>3. missing(d).device = d /\ IsNew(missing(d), Admitted)
    BY <1>3 DEF NewJob, IsNew
  <2>4. ~Duplicate(queue, missing(d))
    OBVIOUS
  <2>5. \A k \in DOMAIN queue : IsActive(queue[k]) => ~SameKey(missing(d), queue[k])
    BY <2>4 DEF Duplicate, SameKey
  <2> QED
    BY <2>2, <2>3, <2>5
<1> HIDE DEF fresh, missing
<1>8. /\ added \in [1 .. n -> Job]
      /\ \A i \in 1 .. n : added[i] = missing(f[i]) /\ f[i] \in fresh
  BY <1>6, <1>7
<1>9. added \in Seq(Job) /\ Len(added) = n
  BY <1>4, <1>8, SeqDef
<1> HIDE DEF added
<1>10. /\ queue \o added \in Seq(Job)
       /\ Len(queue \o added) = Len(queue) + n
       /\ \A i \in 1 .. Len(queue) + n :
             (queue \o added)[i] = IF i <= Len(queue) THEN queue[i] ELSE added[i - Len(queue)]
  BY <1>1, <1>9, ConcatProperties
<1>11. queue' = queue \o added
  BY <1>5 DEF added
<1>12. DOMAIN queue = 1 .. Len(queue) /\ Len(queue) \in Nat
  BY <1>1, LenProperties
<1>13. DOMAIN queue' = 1 .. Len(queue) + n
  BY <1>10, <1>11, LenProperties
<1>14. ASSUME NEW i \in DOMAIN queue' \ DOMAIN queue
       PROVE  /\ i - Len(queue) \in 1 .. n /\ ~(i <= Len(queue)) /\ i \in Nat
              /\ queue'[i] = missing(f[i - Len(queue)]) /\ f[i - Len(queue)] \in fresh
  <2>1. /\ i - Len(queue) \in 1 .. n /\ ~(i <= Len(queue)) /\ i \in 1 .. Len(queue) + n
        /\ i \in Nat
    BY <1>4, <1>12, <1>13
  <2>2. queue'[i] = added[i - Len(queue)]
    BY <1>10, <1>11, <2>1
  <2> QED
    BY <1>8, <2>1, <2>2
<1>15. DOMAIN queue \subseteq DOMAIN queue' /\ \A i \in DOMAIN queue : queue'[i] = queue[i]
  BY <1>4, <1>10, <1>11, <1>12, <1>13
<1>16. ASSUME NEW i \in DOMAIN queue' \ DOMAIN queue, NEW k \in 1 .. i - 1, IsActive(queue'[k])
       PROVE  ~SameKey(queue'[i], queue'[k])
  <2>1. CASE k \in DOMAIN queue
    BY <1>7, <1>14, <1>15, <1>16, <2>1
  <2>2. CASE k \notin DOMAIN queue
    <3>1. k \in DOMAIN queue' \ DOMAIN queue /\ k - Len(queue) < i - Len(queue)
      BY <1>4, <1>12, <1>13, <1>14, <2>2
    <3>2. f[k - Len(queue)] < f[i - Len(queue)]
      BY <1>6, <1>14, <3>1
    <3>3. /\ queue'[k].device = f[k - Len(queue)] /\ queue'[i].device = f[i - Len(queue)]
          /\ f[k - Len(queue)] \in Nat
      BY <1>3, <1>7, <1>14, <3>1, DeviceAssumption DEF Admitted
    <3> QED
      BY <3>2, <3>3 DEF SameKey
  <2> QED
    BY <2>1, <2>2
<1>17. \A i \in DOMAIN queue' \ DOMAIN queue : IsNew(queue'[i], Admitted) /\ KeyIsFree(queue', i)
  BY <1>7, <1>14, <1>16 DEF KeyIsFree
<1> QED
  BY <1>10, <1>11, <1>15, <1>17 DEF ExtendedRows

(***************************************************************************)
(* Types                                                                   *)
(***************************************************************************)

(* The conjuncts of TypeOK on the variables one actor owns, so that each    *)
(* action is shown to keep only those it changes.                           *)
ConsumerType ==
    /\ task \in Heartbeat \cup {StaleCheck, None}
    /\ view \in [Device -> StateRow \cup {None}]
    /\ row \in [Device -> DeviceRow \cup {None}]

WorkerType ==
    /\ worker \in {"idle", "claiming", "claimed", "smtp", "accepted", "settling",
                   "failed", "failing"}
    /\ job \in Nat /\ (worker = "idle" \/ job \in DOMAIN queue)
    /\ attempts \in Nat /\ session \in BOOLEAN

TableType ==
    /\ device \in [Device -> DeviceRow \cup {None}]
    /\ state \in [Device -> StateRow \cup {None}]
    /\ queue \in Seq(Job)

LockType ==
    /\ mgmtLock \in [Device -> Client \cup {Worker, None}]
    /\ rowLock \in [Device -> Client \cup {Consumer, None}]

OtherType ==
    up \in BOOLEAN /\ request \in [Client -> Request \cup {None}] /\ faults \in 0 .. MaxFaults

(* The consumer's own variables keep their types. *)
LEMMA ConsumerTypeStep ==
    ASSUME IInv, [Next]_vars
    PROVE  ConsumerType'
<1> USE DEF ConsumerType
<1>0. TypeOK /\ RowsCurrent
  BY DEF IInv, LocksProtect
<1>1. ASSUME NEW t \in Heartbeat \cup {StaleCheck}, Begin(t)
      PROVE  ConsumerType'
  BY <1>0, <1>1 DEF TypeOK, Begin
<1>2. ASSUME NEW d \in Device, LockStateRow(d)
      PROVE  ConsumerType'
  BY <1>0, <1>2 DEF TypeOK, LockStateRow
<1>3. CASE LockHeartbeatRow
  BY <1>0, <1>3 DEF TypeOK, LockHeartbeatRow, NewDevice, DeviceRow
<1>4. CASE EndTransaction
  BY <1>4 DEF EndTransaction, Nothing
<1>5. CASE UNCHANGED <<task, view, row>>
  BY <1>0, <1>5 DEF TypeOK
<1>6. ASSUME ConsumerStep
      PROVE  ConsumerType'
  BY <1>1, <1>2, <1>3, <1>4, <1>6 DEF ConsumerStep, ProcessHeartbeat, NotifyStale
<1>7. ASSUME ~ConsumerStep
      PROVE  EndTransaction \/ UNCHANGED <<task, view, row>>
  BY <1>7 DEF Next, ApiStep, Receive, LockManagement, LockDeviceRow, Refuse, Manage, RollBack,
     WorkerStep, ClaimNext, ClaimCommits, ClaimRaises, GuardAdmits, GuardCancels, GuardRaises,
     SmtpAccepts, SmtpFails, MarkSent, MarkSentCommits, MarkSentUnacknowledged, MarkSentRaises,
     MarkFailed, MarkFailedCommits, BackoffElapses, ClockSetBack, FaultStep, SmtpAnswerLost,
     SessionLost, MarkFailedRaises, Crash, Restart, consumerVars, vars
<1> QED
  BY <1>4, <1>5, <1>6, <1>7

(* The steps of the consumer that commit a transaction. *)
Commits ==
    \/ \E mesResume, mesNotify \in BOOLEAN : ProcessHeartbeat(mesResume, mesNotify)
    \/ \E silent \in SUBSET MayBeSilent : \E mesAllows \in SUBSET silent :
          NotifyStale(silent, mesAllows)

(* The rows a commit of the consumer adds are of devices it has admitted. *)
LEMMA CommitInserts ==
    ASSUME TypeOK, Commits
    PROVE  queue' \in Seq(Job) /\ ExtendedRows(queue, queue', Admitted)
BY HeartbeatInserts, StaleCheckInserts DEF Commits

(* Whatever changes the queue updates rows, inserts rows or cancels rows. *)
LEMMA QueueUnchanged ==
    ASSUME [Next]_vars, ~UpdatesQueue, ~Commits, ~\E c \in Client : Manage(c)
    PROVE  UNCHANGED queue
BY DEF Commits, UpdatesQueue, ClockStep, Next, ConsumerStep, Begin, LockStateRow, LockHeartbeatRow,
   ApiStep, Receive, LockManagement, LockDeviceRow, Refuse, RollBack, WorkerStep, ClaimNext,
   GuardAdmits, GuardRaises, SmtpFails, MarkSent, MarkSentRaises, MarkFailed, FaultStep,
   SessionLost, MarkFailedRaises, Crash, tables, vars

(* Every step keeps the table a table, and only a commit of the consumer    *)
(* adds rows.                                                               *)
LEMMA QueueStep ==
    ASSUME IInv, [Next]_vars
    PROVE  /\ queue' \in Seq(Job)
           /\ UpdatedRows(queue, queue') \/ (Commits /\ ExtendedRows(queue, queue', Admitted))
<1>0. TypeOK
  BY DEF IInv
<1>1. queue \in Seq(Job)
  BY <1>0 DEF TypeOK
<1>2. CASE UpdatesQueue
  BY <1>2, QueueUpdated
<1>3. CASE Commits
  BY <1>0, <1>3, CommitInserts
<1>4. ASSUME NEW c \in Client, Manage(c), queue' # queue
      PROVE  queue' \in Seq(Job) /\ UpdatedRows(queue, queue')
  <2>1. request[c].device \in Device
    BY <1>0, <1>4 DEF Manage, TypeOK, Request
  <2>2. queue' = CancelledFor(queue, request[c].device)
    BY <1>4 DEF Manage, tables
  <2> QED
    BY <1>1, <2>1, <2>2, CancelledTable
<1>5. CASE UNCHANGED queue
  BY <1>1, <1>5 DEF UpdatedRows
<1> QED
  BY <1>2, <1>3, <1>4, <1>5, QueueUnchanged

(* The worker's own variables keep their types. *)
LEMMA WorkerTypeStep ==
    ASSUME IInv, [Next]_vars
    PROVE  WorkerType'
<1> USE DEF WorkerType
<1>0. TypeOK /\ DOMAIN queue \subseteq DOMAIN queue'
  BY QueueStep DEF IInv, UpdatedRows, ExtendedRows
<1>1. ASSUME NEW i \in DOMAIN queue, ClaimNext(i)
      PROVE  WorkerType'
  <2>1. i \in Nat /\ queue[i].attempts \in Nat
    <3>1. queue \in Seq(Job) /\ i \in 1 .. Len(queue)
      BY <1>0, LenProperties DEF TypeOK
    <3>2. queue[i] \in Job
      BY <3>1, ElementOfSeq
    <3> QED
      BY <3>1, <3>2 DEF Job
  <2> QED
    BY <1>0, <1>1, <2>1 DEF TypeOK, ClaimNext
<1>2. CASE ToIdle
  BY <1>2 DEF ToIdle
<1>3. CASE UNCHANGED workerVars
  BY <1>0, <1>3 DEF TypeOK, workerVars
<1>4. ASSUME worker # "idle", UNCHANGED <<job, attempts>>, session' \in BOOLEAN,
             worker' \in {"claimed", "smtp", "accepted", "settling", "failed", "failing"}
      PROVE  WorkerType'
  BY <1>0, <1>4 DEF TypeOK
<1> DEFINE Moves ==
             \/ ClaimCommits \/ GuardAdmits \/ GuardRaises \/ SmtpAccepts \/ SmtpFails
             \/ SmtpAnswerLost \/ SessionLost \/ MarkSent \/ MarkSentUnacknowledged
             \/ MarkSentRaises \/ MarkFailed
<1>5. ASSUME Moves
      PROVE  /\ worker # "idle" /\ UNCHANGED <<job, attempts>> /\ session' \in BOOLEAN
             /\ worker' \in {"claimed", "smtp", "accepted", "settling", "failed", "failing"}
  BY <1>0, <1>5 DEF TypeOK, ClaimCommits, GuardAdmits, GuardRaises, SmtpAccepts, SmtpFails,
     SmtpAnswerLost, SessionLost, Guarded, MarkSent, MarkSentUnacknowledged, MarkSentRaises,
     MarkFailed
<1>6. ASSUME ~\E i \in DOMAIN queue : ClaimNext(i), ~Moves
      PROVE  ToIdle \/ UNCHANGED workerVars
  BY <1>6 DEF Next, ConsumerStep, Begin, LockStateRow, LockHeartbeatRow, ProcessHeartbeat,
     NotifyStale, ApiStep, Receive, LockManagement, LockDeviceRow, Refuse, Manage, RollBack,
     WorkerStep, ClaimRaises, GuardCancels, MarkSentCommits, MarkFailedCommits,
     BackoffElapses, ClockSetBack, FaultStep, MarkFailedRaises, Crash, Restart, vars, workerVars
<1> QED
  BY <1>1, <1>2, <1>3, <1>4, <1>5, <1>6

(* What a management operation writes is a devices row. *)
LEMMA TargetType == ASSUME NEW op \in Operation PROVE Target(op) \in DeviceRow
BY DEF Operation, Target, DeviceRow

(* What save writes is a device_states row. *)
LEMMA SavedRowType ==
    ASSUME TypeOK, NEW d \in Device, NEW sig \in Signature, NEW admitted \in BOOLEAN
    PROVE  SavedRow(d, sig, admitted) \in StateRow
<1>1. view[d] = None \/ view[d] \in StateRow
  BY DEF TypeOK
<1>2. AlertRegistered(view[d], sig, admitted) \in BOOLEAN
  BY DEF AlertRegistered
<1>3. Allows(row[d]) \in BOOLEAN
  BY DEF Allows
<1> QED
  BY <1>2, <1>3 DEF SavedRow, StateRow

(* The three tables keep their types. *)
LEMMA TableTypeStep ==
    ASSUME IInv, [Next]_vars
    PROVE  TableType'
<1> USE DEF TableType
<1>0. TypeOK /\ RowsCurrent /\ queue' \in Seq(Job)
  BY QueueStep DEF IInv, LocksProtect
<1>1. ASSUME NEW mesResume \in BOOLEAN, NEW mesNotify \in BOOLEAN,
             ProcessHeartbeat(mesResume, mesNotify)
      PROVE  TableType'
  <2> DEFINE d == task.device
             admitted == Allows(row[d]) /\ mesNotify
  <2>1. d \in Device /\ task.signature \in Signature
    BY <1>1 DEF ProcessHeartbeat, Heartbeat
  <2>2. device' = [device EXCEPT ![d] = row[d]]
    BY <1>1 DEF ProcessHeartbeat
  <2>3. state' = Saved(d, SavedRow(d, task.signature, admitted))
    BY <1>1 DEF ProcessHeartbeat
  <2>4. SavedRow(d, task.signature, admitted) \in StateRow
    BY <1>0, <2>1, SavedRowType
  <2>5. device' \in [Device -> DeviceRow \cup {None}]
    BY <1>0, <2>1, <2>2 DEF TypeOK
  <2>6. state' \in [Device -> StateRow \cup {None}]
    BY <1>0, <2>1, <2>3, <2>4 DEF TypeOK, Saved
  <2> QED
    BY <1>0, <2>5, <2>6
<1>2. ASSUME NEW silent \in SUBSET MayBeSilent, NEW mesAllows \in SUBSET silent,
             NotifyStale(silent, mesAllows)
      PROVE  TableType'
  <2> DEFINE notified == {d \in silent \cap mesAllows : Allows(row[d])}
  <2>1. state' = [d \in Device |-> IF d \in notified
                                  THEN [state[d] EXCEPT !.stale = TRUE] ELSE state[d]]
    BY <1>2 DEF NotifyStale, Marked
  <2>2. \A d \in notified : d \in Device /\ state[d] \in StateRow
    BY <1>0 DEF MayBeSilent, RowsCurrent, TypeOK
  <2>3. \A d \in notified : [state[d] EXCEPT !.stale = TRUE] \in StateRow
    BY <2>2 DEF StateRow
  <2>4. state' \in [Device -> StateRow \cup {None}]
    BY <1>0, <2>1, <2>3 DEF TypeOK
  <2> QED
    BY <1>0, <1>2, <2>4 DEF NotifyStale, TypeOK
<1>3. ASSUME NEW c \in Client, Manage(c)
      PROVE  TableType'
  <2> DEFINE d == request[c].device
             target == Target(request[c].op)
  <2>1. d \in Device /\ target \in DeviceRow
    BY <1>0, <1>3, TargetType DEF Manage, TypeOK, Request
  <2>2. CASE UNCHANGED tables
    BY <1>0, <2>2 DEF TypeOK, tables
  <2>3. CASE /\ device' = [device EXCEPT ![d] = target]
             /\ state' = IF state[d] = None THEN state
                         ELSE [state EXCEPT ![d].stale = FALSE, ![d].alert = FALSE]
    <3>1. device' \in [Device -> DeviceRow \cup {None}]
      BY <1>0, <2>1, <2>3 DEF TypeOK
    <3>2. CASE state[d] = None
      BY <1>0, <2>3, <3>1, <3>2 DEF TypeOK
    <3>3. CASE state[d] # None
      <4>1. state[d] \in StateRow
        BY <1>0, <2>1, <3>3 DEF TypeOK
      <4>2. [state[d] EXCEPT !.stale = FALSE, !.alert = FALSE] \in StateRow
        BY <4>1 DEF StateRow
      <4>3. state' = [state EXCEPT ![d] = [state[d] EXCEPT !.stale = FALSE, !.alert = FALSE]]
        BY <1>0, <2>1, <2>3, <3>3 DEF TypeOK
      <4> QED
        BY <1>0, <2>1, <3>1, <4>2, <4>3 DEF TypeOK
    <3> QED
      BY <3>2, <3>3
  <2> QED
    BY <1>3, <2>2, <2>3 DEF Manage
<1>4. ASSUME ~ConsumerStep, \A c \in Client : ~Manage(c)
      PROVE  UNCHANGED <<device, state>>
  BY <1>4 DEF Next, ApiStep, Receive, LockManagement, LockDeviceRow, Refuse, RollBack,
     WorkerStep, ClaimNext, ClaimCommits, ClaimRaises, GuardAdmits, GuardCancels, GuardRaises,
     SmtpAccepts, SmtpFails, MarkSent, MarkSentCommits, MarkSentUnacknowledged, MarkSentRaises,
     MarkFailed, MarkFailedCommits, BackoffElapses, ClockSetBack, FaultStep, SmtpAnswerLost,
     SessionLost, MarkFailedRaises, Crash, Restart, tables, vars
<1>6. CASE UNCHANGED <<device, state>>
  BY <1>0, <1>6 DEF TypeOK
<1>7. ASSUME ConsumerStep, ~UNCHANGED <<device, state>>
      PROVE  Commits
  BY <1>7 DEF Commits, ConsumerStep, Begin, LockStateRow, LockHeartbeatRow, tables
<1> QED
  BY <1>1, <1>2, <1>3, <1>4, <1>6, <1>7 DEF Commits

(* Releasing locks keeps a lock table a lock table. *)
LEMMA UnlockedType ==
    ASSUME NEW Owner, None \in Owner, NEW locks \in [Device -> Owner], NEW o
    PROVE  Unlocked(locks, o) \in [Device -> Owner]
BY DEF Unlocked

(* The two lock tables keep their types. *)
LEMMA LockTypeStep ==
    ASSUME IInv, [Next]_vars
    PROVE  LockType'
<1> USE DEF LockType
<1> DEFINE MgmtOwner == Client \cup {Worker, None}
           RowOwner == Client \cup {Consumer, None}
<1>0. /\ TypeOK
      /\ mgmtLock \in [Device -> MgmtOwner] /\ rowLock \in [Device -> RowOwner]
  BY DEF IInv, TypeOK
<1>1. ASSUME NEW d \in Device, LockStateRow(d)
      PROVE  LockType'
  BY <1>0, <1>1 DEF LockStateRow
<1>2. CASE LockHeartbeatRow
  BY <1>0, <1>2 DEF LockHeartbeatRow
<1>3. CASE EndTransaction /\ UNCHANGED mgmtLock
  BY <1>0, <1>3 DEF EndTransaction
<1>4. ASSUME NEW c \in Client, EndRequest(c)
      PROVE  LockType'
  <2>1. mgmtLock' \in [Device -> MgmtOwner]
    BY <1>0, <1>4, UnlockedType DEF EndRequest
  <2>2. rowLock' \in [Device -> RowOwner]
    BY <1>0, <1>4, UnlockedType DEF EndRequest
  <2> QED
    BY <2>1, <2>2
<1>5. ASSUME NEW c \in Client, LockManagement(c) \/ LockDeviceRow(c)
      PROVE  LockType'
  BY <1>0, <1>5 DEF LockManagement, LockDeviceRow, consumerVars
<1>6. CASE ReleaseGuard /\ (EndTransaction \/ UNCHANGED rowLock)
  <2>1. mgmtLock' \in [Device -> MgmtOwner]
    BY <1>0, <1>6, UnlockedType DEF ReleaseGuard
  <2>2. rowLock' \in [Device -> RowOwner]
    BY <1>0, <1>6 DEF EndTransaction
  <2> QED
    BY <2>1, <2>2
<1>7. CASE GuardAdmits
  BY <1>0, <1>7 DEF GuardAdmits, consumerVars
<1>8. CASE UNCHANGED <<mgmtLock, rowLock>>
  BY <1>0, <1>8
<1>9. CASE ConsumerStep
  BY <1>1, <1>2, <1>3, <1>8, <1>9 DEF ConsumerStep, Begin, ProcessHeartbeat, NotifyStale
<1>10. ASSUME NEW c \in Client, ApiStep(c)
       PROVE  LockType'
  BY <1>4, <1>5, <1>10 DEF ApiStep, Refuse, Manage, RollBack
<1>11. CASE WorkerStep \/ FaultStep
  BY <1>6, <1>7, <1>8, <1>11 DEF WorkerStep, ClaimNext, ClaimCommits, ClaimRaises, GuardCancels,
     GuardRaises, SmtpAccepts, SmtpFails, MarkSent, MarkSentCommits, MarkSentUnacknowledged,
     MarkSentRaises, MarkFailed, MarkFailedCommits, FaultStep, SmtpAnswerLost, SessionLost,
     MarkFailedRaises, Crash, ClockSetBack, consumerVars
<1>12. ASSUME \/ Restart \/ UNCHANGED vars \/ \E i \in DOMAIN queue : BackoffElapses(i)
              \/ \E c \in Client, op \in Operation, d \in Device : Receive(c, op, d)
       PROVE  LockType'
  BY <1>8, <1>12 DEF Restart, BackoffElapses, Receive, consumerVars, vars
<1> QED
  BY <1>9, <1>10, <1>11, <1>12 DEF Next

(* The process flag, the requests and the fault count keep their types. *)
LEMMA OtherTypeStep ==
    ASSUME IInv, [Next]_vars
    PROVE  OtherType'
<1> USE DEF OtherType
<1>0. TypeOK
  BY DEF IInv
<1>1. faults' \in 0 .. MaxFaults
  <2>1. faults' = faults \/ (faults < MaxFaults /\ faults' = faults + 1)
    BY DEF Next, ConsumerStep, Begin, LockStateRow, LockHeartbeatRow, ProcessHeartbeat,
       NotifyStale, ApiStep, Receive, LockManagement, LockDeviceRow, Refuse, Manage, RollBack,
       WorkerStep, ClaimNext, ClaimCommits, ClaimRaises, GuardAdmits, GuardCancels, GuardRaises,
       SmtpAccepts, SmtpFails, MarkSent, MarkSentCommits, MarkSentUnacknowledged,
       MarkSentRaises, MarkFailed, MarkFailedCommits, BackoffElapses, ClockSetBack, FaultStep,
       SmtpAnswerLost, SessionLost, MarkFailedRaises, Crash, Restart, Fault, vars
  <2> QED
    BY <1>0, <2>1, BoundsAssumption DEF TypeOK
<1>2. up' \in BOOLEAN
  <2>1. up' \in {up, TRUE, FALSE}
    BY DEF Next, ConsumerStep, Begin, LockStateRow, LockHeartbeatRow, ProcessHeartbeat,
       NotifyStale, ApiStep, Receive, LockManagement, LockDeviceRow, Refuse, Manage, RollBack,
       WorkerStep, ClaimNext, ClaimCommits, ClaimRaises, GuardAdmits, GuardCancels, GuardRaises,
       SmtpAccepts, SmtpFails, MarkSent, MarkSentCommits, MarkSentUnacknowledged,
       MarkSentRaises, MarkFailed, MarkFailedCommits, BackoffElapses, ClockSetBack, FaultStep,
       SmtpAnswerLost, SessionLost, MarkFailedRaises, Crash, Restart, vars
  <2> QED
    BY <1>0, <2>1 DEF TypeOK
<1>3. request' \in [Client -> Request \cup {None}]
  <2>1. ASSUME NEW c \in Client, EndRequest(c)
        PROVE  request' \in [Client -> Request \cup {None}]
    BY <1>0, <2>1 DEF TypeOK, EndRequest
  <2>2. ASSUME NEW c \in Client, LockManagement(c) \/ LockDeviceRow(c)
        PROVE  request' \in [Client -> Request \cup {None}]
    <3>1. request[c] \in Request
      BY <1>0, <2>2 DEF TypeOK, LockManagement, LockDeviceRow
    <3>2. \A at \in {"row", "commit"} : [request[c] EXCEPT !.at = at] \in Request
      BY <3>1 DEF Request
    <3>3. \E at \in {"row", "commit"} :
             request' = [request EXCEPT ![c] = [request[c] EXCEPT !.at = at]]
      BY <1>0, <2>2 DEF TypeOK, LockManagement, LockDeviceRow
    <3> QED
      BY <1>0, <3>2, <3>3 DEF TypeOK
  <2>3. ASSUME NEW c \in Client, NEW op \in Operation, NEW d \in Device, Receive(c, op, d)
        PROVE  request' \in [Client -> Request \cup {None}]
    BY <1>0, <2>3 DEF TypeOK, Receive, Request
  <2>4. ASSUME NEW c \in Client, ApiStep(c)
        PROVE  request' \in [Client -> Request \cup {None}]
    BY <2>1, <2>2, <2>4 DEF ApiStep, Refuse, Manage, RollBack
  <2>5. ASSUME ~\E c \in Client : ApiStep(c),
               ~\E c \in Client, op \in Operation, d \in Device : Receive(c, op, d)
        PROVE  UNCHANGED request
    BY <2>5 DEF Next, ConsumerStep, Begin, LockStateRow, LockHeartbeatRow, ProcessHeartbeat,
       NotifyStale, WorkerStep, ClaimNext, ClaimCommits, ClaimRaises, GuardAdmits, GuardCancels,
       GuardRaises, SmtpAccepts, SmtpFails, MarkSent, MarkSentCommits, MarkSentUnacknowledged,
       MarkSentRaises, MarkFailed, MarkFailedCommits, BackoffElapses, ClockSetBack, FaultStep,
       SmtpAnswerLost, SessionLost, MarkFailedRaises, Crash, Restart, vars
  <2> QED
    BY <1>0, <2>3, <2>4, <2>5 DEF TypeOK
<1> QED
  BY <1>1, <1>2, <1>3

(* Every step keeps the type of every variable. *)
LEMMA TypeStep ==
    ASSUME IInv, [Next]_vars
    PROVE  TypeOK'
<1>1. ConsumerType' /\ WorkerType' /\ TableType' /\ LockType' /\ OtherType'
  BY ConsumerTypeStep, WorkerTypeStep, TableTypeStep, LockTypeStep, OtherTypeStep
<1> QED
  BY <1>1 DEF TypeOK, ConsumerType, WorkerType, TableType, LockType, OtherType

(***************************************************************************)
(* Locks                                                                   *)
(***************************************************************************)

(* The owners of a lock are distinct, and none of them is None, nor is any  *)
(* row of a table.                                                          *)
LEMMA NamesDistinct ==
    /\ \A c \in Client : c # Consumer /\ c # Worker /\ c # None
    /\ Consumer # None /\ Worker # None
    /\ None \notin DeviceRow /\ None \notin StateRow /\ None \notin Heartbeat
    /\ None \notin Request /\ StaleCheck # None /\ StaleCheck \notin Heartbeat
BY NamesAssumption

(* No step of the consumer gives up or changes a devices row: it locks free *)
(* rows, writes back what it read, and inserts a missing row.               *)
LEMMA ConsumerKeepsDevices ==
    ASSUME IInv, ConsumerStep
    PROVE  /\ UNCHANGED <<mgmtLock, up, request, worker, job, attempts, session>>
           /\ \A d \in Device : device[d] # None => device'[d] = device[d]
           /\ \A d \in Device, c \in Client : rowLock[d] = c => rowLock'[d] = c
<1>0. TypeOK /\ RowsCurrent
  BY DEF IInv, LocksProtect
<1>1. UNCHANGED <<mgmtLock, up, request, worker, job, attempts, session>>
  BY DEF ConsumerStep, Begin, LockStateRow, LockHeartbeatRow, ProcessHeartbeat, NotifyStale,
     workerVars
<1>2. ASSUME NEW mesResume \in BOOLEAN, NEW mesNotify \in BOOLEAN,
             ProcessHeartbeat(mesResume, mesNotify),
             NEW d \in Device, device[d] # None
      PROVE  device'[d] = device[d]
  <2>1. task.device \in Device /\ rowLock[task.device] = Consumer
    BY <1>2 DEF ProcessHeartbeat, Heartbeat
  <2>2. device' = [device EXCEPT ![task.device] = row[task.device]]
    BY <1>2 DEF ProcessHeartbeat
  <2> QED
    BY <1>0, <1>2, <2>1, <2>2 DEF RowsCurrent, TypeOK
<1>3. \A d \in Device : device[d] # None => device'[d] = device[d]
  BY <1>2 DEF ConsumerStep, Begin, LockStateRow, LockHeartbeatRow, NotifyStale, tables
<1>4. ASSUME NEW d \in Device, NEW c \in Client, rowLock[d] = c
      PROVE  rowLock'[d] = c
  <2>1. c # Consumer /\ c # None
    BY NamesDistinct
  <2>2. CASE EndTransaction
    BY <1>4, <2>1, <2>2 DEF EndTransaction
  <2>3. ASSUME NEW e \in Device, LockStateRow(e)
        PROVE  rowLock'[d] = c
    BY <1>0, <1>4, <2>1, <2>3 DEF LockStateRow, TypeOK
  <2>4. CASE LockHeartbeatRow
    BY <1>0, <1>4, <2>1, <2>4 DEF LockHeartbeatRow, TypeOK
  <2> QED
    BY <1>4, <2>2, <2>3, <2>4 DEF ConsumerStep, Begin, ProcessHeartbeat, NotifyStale
<1> QED
  BY <1>1, <1>3, <1>4

(* A step of a request leaves the locks of the others alone. *)
LEMMA RequestKeepsLocks ==
    ASSUME TypeOK, NEW b \in Client, ApiStep(b),
           NEW d \in Device, NEW o, o # b, o # None
    PROVE  /\ mgmtLock[d] = o => mgmtLock'[d] = o
           /\ rowLock[d] = o => rowLock'[d] = o
<1>1. CASE EndRequest(b)
  BY <1>1 DEF EndRequest, Unlocked
<1>2. CASE LockManagement(b) \/ LockDeviceRow(b)
  BY <1>2 DEF LockManagement, LockDeviceRow, TypeOK, consumerVars
<1> QED
  BY <1>1, <1>2 DEF ApiStep, Refuse, Manage, RollBack

(* A step of a request changes no devices row but the one the request has   *)
(* locked, and removes none.                                                *)
LEMMA RequestKeepsDevices ==
    ASSUME IInv, NEW b \in Client, ApiStep(b), NEW d \in Device
    PROVE  /\ device[d] # None => device'[d] # None
           /\ mgmtLock[d] # b \/ rowLock[d] # b => device'[d] = device[d]
<1>0. TypeOK /\ RequestHoldsLocks
  BY DEF IInv, LocksProtect
<1>1. CASE UNCHANGED device
  BY <1>1
<1>2. CASE Manage(b)
  <2> DEFINE e == request[b].device
             target == Target(request[b].op)
  <2>1. e \in Device /\ target # None
    BY <1>0, <1>2, TargetType, NamesDistinct DEF Manage, TypeOK, Request
  <2>2. UNCHANGED device \/ device' = [device EXCEPT ![e] = target]
    BY <1>2 DEF Manage, tables
  <2>3. mgmtLock[e] = b /\ rowLock[e] = b
    BY <1>0, <1>2 DEF RequestHoldsLocks, Manage
  <2> QED
    BY <1>0, <2>1, <2>2, <2>3 DEF TypeOK
<1> QED
  BY <1>1, <1>2 DEF ApiStep, LockManagement, LockDeviceRow, Refuse, RollBack, tables

(* The steps that are neither the consumer's nor a request's own. *)
OtherStep ==
    \/ WorkerStep \/ FaultStep \/ Restart
    \/ \E i \in DOMAIN queue : BackoffElapses(i)
    \/ \E c \in Client, op \in Operation, d \in Device : Receive(c, op, d)
    \/ UNCHANGED vars

(* They leave devices and device_states and the locks of the requests alone. *)
LEMMA OthersKeep ==
    ASSUME TypeOK, OtherStep
    PROVE  /\ UNCHANGED <<device, state>>
           /\ \A d \in Device, c \in Client :
                 /\ mgmtLock[d] = c => mgmtLock'[d] = c
                 /\ rowLock[d] = c => rowLock'[d] = c
           /\ UNCHANGED <<task, view, row, rowLock>> \/ EndTransaction
<1>1. UNCHANGED <<device, state>>
  BY DEF OtherStep, Receive, WorkerStep, ClaimNext, ClaimCommits, ClaimRaises, GuardAdmits,
     GuardCancels, GuardRaises, SmtpAccepts, SmtpFails, MarkSent, MarkSentCommits,
     MarkSentUnacknowledged, MarkSentRaises, MarkFailed, MarkFailedCommits, BackoffElapses,
     ClockSetBack, FaultStep, SmtpAnswerLost, SessionLost, MarkFailedRaises, Crash, Restart,
     tables, vars
<1>2. UNCHANGED <<task, view, row, rowLock>> \/ EndTransaction
  BY DEF OtherStep, Receive, WorkerStep, ClaimNext, ClaimCommits, ClaimRaises, GuardAdmits,
     GuardCancels, GuardRaises, SmtpAccepts, SmtpFails, MarkSent, MarkSentCommits,
     MarkSentUnacknowledged, MarkSentRaises, MarkFailed, MarkFailedCommits, BackoffElapses,
     ClockSetBack, FaultStep, SmtpAnswerLost, SessionLost, MarkFailedRaises, Crash, Restart,
     consumerVars, vars
<1>3. UNCHANGED mgmtLock \/ ReleaseGuard \/ GuardAdmits
  BY DEF OtherStep, Receive, WorkerStep, ClaimNext, ClaimCommits, ClaimRaises, GuardCancels,
     GuardRaises, SmtpAccepts, SmtpFails, MarkSent, MarkSentCommits, MarkSentUnacknowledged,
     MarkSentRaises, MarkFailed, MarkFailedCommits, BackoffElapses, ClockSetBack, FaultStep,
     SmtpAnswerLost, SessionLost, MarkFailedRaises, Crash, Restart, vars
<1>4. ASSUME NEW d \in Device, NEW c \in Client
      PROVE  /\ mgmtLock[d] = c => mgmtLock'[d] = c
             /\ rowLock[d] = c => rowLock'[d] = c
  <2>1. c # Consumer /\ c # Worker /\ c # None
    BY NamesDistinct
  <2>2. rowLock[d] = c => rowLock'[d] = c
    BY <1>2, <2>1 DEF EndTransaction
  <2>3. mgmtLock[d] = c => mgmtLock'[d] = c
    BY <1>3, <2>1 DEF ReleaseGuard, Unlocked, GuardAdmits, TypeOK
  <2> QED
    BY <2>2, <2>3
<1> QED
  BY <1>1, <1>2, <1>4

(* A request keeps its locks until it ends. *)
LEMMA RequestLocksStep ==
    ASSUME IInv, [Next]_vars
    PROVE  RequestHoldsLocks'
<1>0. TypeOK /\ RequestHoldsLocks
  BY DEF IInv, LocksProtect
<1> SUFFICES ASSUME NEW c \in Client, request'[c] # None
             PROVE  /\ request'[c].at \in {"row", "commit"} => mgmtLock'[request'[c].device] = c
                    /\ request'[c].at = "commit" =>
                          /\ rowLock'[request'[c].device] = c
                          /\ device'[request'[c].device] # None
  BY DEF RequestHoldsLocks
<1> DEFINE d == request[c].device
           Held == /\ mgmtLock[d] = c => mgmtLock'[d] = c
                   /\ rowLock[d] = c => rowLock'[d] = c
                   /\ device[d] # None => device'[d] # None
<1>1. request[c] # None => d \in Device
  BY <1>0 DEF TypeOK, Request
<1>2. CASE request'[c] = request[c] /\ Held
  BY <1>0, <1>2 DEF RequestHoldsLocks
<1>3. CASE ConsumerStep
  <2>1. request'[c] = request[c] /\ d \in Device
    BY <1>1, <1>3, ConsumerKeepsDevices
  <2>2. Held
    BY <1>3, <2>1, ConsumerKeepsDevices
  <2> QED
    BY <1>2, <2>1, <2>2
<1>4. ASSUME NEW b \in Client, b # c, ApiStep(b)
      PROVE  request'[c] = request[c] /\ Held
  <2>1. request'[c] = request[c]
    BY <1>0, <1>4 DEF TypeOK, ApiStep, LockManagement, LockDeviceRow, Refuse, Manage, RollBack,
       EndRequest
  <2>2. d \in Device
    BY <1>1, <2>1
  <2>3. (mgmtLock[d] = c => mgmtLock'[d] = c) /\ (rowLock[d] = c => rowLock'[d] = c)
    BY <1>0, <1>4, <2>2, NamesDistinct, RequestKeepsLocks
  <2>4. device[d] # None => device'[d] # None
    BY <1>4, <2>2, RequestKeepsDevices
  <2> QED
    BY <2>1, <2>3, <2>4
<1>5. CASE ApiStep(c)
  <2>1. ~EndRequest(c)
    BY <1>0 DEF TypeOK, EndRequest
  <2>2. LockManagement(c) \/ LockDeviceRow(c)
    BY <1>5, <2>1 DEF ApiStep, Refuse, Manage, RollBack
  <2>3. request[c] # None /\ d \in Device /\ request'[c].device = d
    <3>1. request[c] \in Request
      BY <1>0, <2>2 DEF TypeOK, LockManagement, LockDeviceRow
    <3>2. \E at \in {"row", "commit"} : request'[c] = [request[c] EXCEPT !.at = at]
      BY <1>0, <2>2 DEF TypeOK, LockManagement, LockDeviceRow
    <3> QED
      BY <1>1, <3>1, <3>2, NamesDistinct DEF Request
  <2>4. CASE LockManagement(c)
    BY <1>0, <2>3, <2>4 DEF TypeOK, LockManagement
  <2>5. CASE LockDeviceRow(c)
    <3>1. mgmtLock'[d] = c
      BY <1>0, <2>3, <2>5 DEF RequestHoldsLocks, LockDeviceRow
    <3>2. rowLock'[d] = c
      BY <1>0, <2>3, <2>5 DEF TypeOK, LockDeviceRow
    <3>3. device'[d] # None
      BY <2>5 DEF LockDeviceRow, Accepts, tables
    <3> QED
      BY <2>3, <3>1, <3>2, <3>3
  <2> QED
    BY <2>2, <2>4, <2>5
<1>6. ASSUME NEW op \in Operation, NEW e \in Device, Receive(c, op, e)
      PROVE  request'[c].at = "management"
  BY <1>0, <1>6 DEF TypeOK, Receive
<1>7. ASSUME OtherStep, ~\E op \in Operation, e \in Device : Receive(c, op, e)
      PROVE  request'[c] = request[c] /\ Held
  <2>1. request'[c] = request[c]
    BY <1>0, <1>7 DEF TypeOK, OtherStep, Receive, WorkerStep, ClaimNext, ClaimCommits,
       ClaimRaises, GuardAdmits, GuardCancels, GuardRaises, SmtpAccepts, SmtpFails, MarkSent,
       MarkSentCommits, MarkSentUnacknowledged, MarkSentRaises, MarkFailed, MarkFailedCommits,
       BackoffElapses, ClockSetBack, FaultStep, SmtpAnswerLost, SessionLost, MarkFailedRaises,
       Crash, Restart, vars
  <2>2. Held
    BY <1>0, <1>1, <1>7, <2>1, OthersKeep
  <2> QED
    BY <2>1, <2>2
<1> QED
  BY <1>2, <1>3, <1>4, <1>5, <1>6, <1>7 DEF Next, OtherStep

(* A claimed row names a device. *)
LEMMA JobDevice ==
    ASSUME TypeOK, worker # "idle"
    PROVE  job \in DOMAIN queue /\ queue[job] \in Job /\ queue[job].device \in Device
<1>1. queue \in Seq(Job) /\ job \in DOMAIN queue
  BY DEF TypeOK
<1>2. queue[job] \in Job
  BY <1>1, LenProperties, ElementOfSeq
<1> QED
  BY <1>1, <1>2 DEF Job

(* The worker keeps the advisory lock until it leaves the guard or loses    *)
(* its session.                                                             *)
LEMMA GuardLockStep ==
    ASSUME IInv, [Next]_vars
    PROVE  GuardHoldsLock'
<1>0. TypeOK /\ GuardHoldsLock
  BY DEF IInv, LocksProtect
<1> DEFINE Guarding == Guarded /\ session
           d == queue[job].device
<1>1. Guarding => job \in DOMAIN queue /\ queue'[job].device = d /\ d \in Device
  <2> SUFFICES ASSUME Guarding PROVE job \in DOMAIN queue /\ queue'[job].device = d /\ d \in Device
    OBVIOUS
  <2>1. job \in DOMAIN queue /\ d \in Device
    BY <1>0, JobDevice DEF Guarded
  <2>2. queue'[job].device = d
    BY <1>0, <2>1, QueueStep DEF UpdatedRows, ExtendedRows
  <2> QED
    BY <2>1, <2>2
<1>2. CASE UNCHANGED <<up, worker, job, session>> /\ (Guarding => mgmtLock'[d] = mgmtLock[d])
  BY <1>0, <1>1, <1>2 DEF GuardHoldsLock, Guarded
<1>3. CASE ConsumerStep
  BY <1>2, <1>3, ConsumerKeepsDevices
<1>4. ASSUME NEW b \in Client, ApiStep(b)
      PROVE  UNCHANGED <<up, worker, job, session>> /\ (Guarding => mgmtLock'[d] = mgmtLock[d])
  <2>1. UNCHANGED <<up, worker, job, session>>
    BY <1>4 DEF ApiStep, LockManagement, LockDeviceRow, Refuse, Manage, RollBack, workerVars
  <2>2. ASSUME Guarding PROVE mgmtLock'[d] = mgmtLock[d]
    <3>1. mgmtLock[d] = Worker /\ Worker # b /\ Worker # None
      BY <1>0, <2>2, NamesDistinct DEF GuardHoldsLock
    <3> QED
      BY <1>0, <1>1, <1>4, <2>2, <3>1, RequestKeepsLocks
  <2> QED
    BY <2>1, <2>2
<1>5. CASE GuardAdmits
  <2>1. job \in DOMAIN queue /\ UNCHANGED <<queue, job, up>> /\ up
    BY <1>0, <1>5 DEF GuardAdmits, TypeOK, tables, GuardHoldsLock
  <2>2. d \in Device
    BY <1>0, <1>5, JobDevice DEF GuardAdmits
  <2> QED
    BY <1>0, <1>5, <2>1, <2>2 DEF GuardAdmits, TypeOK, GuardHoldsLock
<1>6. CASE SmtpAccepts \/ MarkSent
  <2>1. Guarding' => Guarding
    BY <1>6 DEF SmtpAccepts, MarkSent, Guarded
  <2>2. UNCHANGED <<up, job, mgmtLock>> /\ worker # "idle"
    BY <1>6 DEF SmtpAccepts, MarkSent
  <2> QED
    BY <1>0, <1>1, <2>1, <2>2 DEF GuardHoldsLock
<1>7. ASSUME ~Guarding', up' \/ worker' = "idle"
      PROVE  GuardHoldsLock'
  BY <1>7 DEF GuardHoldsLock
<1>8. ASSUME WorkerStep \/ FaultStep \/ Restart, ~GuardAdmits, ~SmtpAccepts, ~MarkSent, ~ClockStep
      PROVE  ~Guarding' /\ (up' \/ worker' = "idle")
  <2>1. ASSUME NEW i \in DOMAIN queue, ClaimNext(i)
        PROVE  worker' = "claiming" /\ up'
    BY <2>1 DEF ClaimNext
  <2>2. worker # "idle" => up
    BY <1>0 DEF GuardHoldsLock
  <2>3. CASE \/ ClaimCommits \/ GuardRaises \/ SmtpFails \/ SmtpAnswerLost
             \/ MarkSentUnacknowledged \/ MarkSentRaises \/ MarkFailed
    <3>1. worker # "idle" /\ up' = up /\ worker' \in {"claimed", "failed", "failing"}
      BY <2>3 DEF ClaimCommits, GuardRaises, SmtpFails, SmtpAnswerLost, MarkSentUnacknowledged,
         MarkSentRaises, MarkFailed
    <3> QED
      BY <2>2, <3>1 DEF Guarded
  <2>4. CASE \/ ClaimRaises \/ GuardCancels \/ MarkSentCommits \/ MarkFailedCommits
             \/ MarkFailedRaises \/ Crash
    BY <2>4 DEF ClaimRaises, GuardCancels, MarkSentCommits, MarkFailedCommits,
       MarkFailedRaises, Crash, ToIdle, Guarded
  <2>5. CASE SessionLost
    <3>1. worker # "idle" /\ up' = up /\ session' = FALSE
      BY <2>5 DEF SessionLost, Guarded
    <3> QED
      BY <2>2, <3>1
  <2>6. CASE Restart
    <3>1. ~up /\ up' = TRUE /\ worker' = worker
      BY <2>6 DEF Restart, workerVars
    <3>2. worker = "idle"
      BY <1>0, <3>1 DEF GuardHoldsLock
    <3> QED
      BY <3>1, <3>2 DEF Guarded
  <2> QED
    BY <1>8, <2>1, <2>3, <2>4, <2>5, <2>6 DEF WorkerStep, FaultStep, ClockStep, Guarded
<1>9. ASSUME \/ ClockStep
             \/ \E c \in Client, op \in Operation, e \in Device : Receive(c, op, e)
             \/ UNCHANGED vars
      PROVE  UNCHANGED <<up, worker, job, session, mgmtLock>>
  BY <1>0, <1>9, ClockKeeps DEF Receive, vars, workerVars
<1> QED
  BY <1>2, <1>3, <1>4, <1>5, <1>6, <1>7, <1>8, <1>9 DEF Next, ClockStep

(* A claim keeps its row claimable: a request that cancels it has to wait.   *)
LEMMA ClaimStep ==
    ASSUME IInv, [Next]_vars
    PROVE  ClaimHoldsRow'
<1>0. TypeOK /\ ClaimHoldsRow /\ GuardHoldsLock /\ queue \in Seq(Job)
  BY DEF IInv, TypeOK, LocksProtect
<1> SUFFICES ASSUME worker' = "claiming"
             PROVE  queue'[job'].status \in Claimable
  BY DEF ClaimHoldsRow
<1>1. ASSUME NEW i \in DOMAIN queue, ClaimNext(i)
      PROVE  queue'[job'].status \in Claimable
  BY <1>1 DEF ClaimNext, IsOldestDue, DueIds, tables
<1>2. ASSUME ~\E i \in DOMAIN queue : ClaimNext(i)
      PROVE  worker = "claiming" /\ job' = job
  BY <1>2 DEF Next, ConsumerStep, Begin, LockStateRow, LockHeartbeatRow, ProcessHeartbeat,
     NotifyStale, ApiStep, Receive, LockManagement, LockDeviceRow, Refuse, Manage, RollBack,
     WorkerStep, ClaimCommits, ClaimRaises, GuardAdmits, GuardCancels, GuardRaises, SmtpAccepts,
     SmtpFails, MarkSent, MarkSentCommits, MarkSentUnacknowledged, MarkSentRaises, MarkFailed,
     MarkFailedCommits, BackoffElapses, ClockSetBack, FaultStep, SmtpAnswerLost, SessionLost,
     MarkFailedRaises, Crash, Restart, ToIdle, vars, workerVars
<1> SUFFICES ASSUME worker = "claiming", job' = job
             PROVE  queue'[job].status \in Claimable
  BY <1>1, <1>2
<1>3. job \in DOMAIN queue /\ queue[job].status \in Claimable
  BY <1>0, JobDevice DEF ClaimHoldsRow
<1>4. CASE UpdatesQueue
  <2>1. CASE ClockStep
    BY <1>0, <1>3, <2>1, ClockKeeps
  <2>2. ~(ClaimCommits \/ ClaimRaises \/ GuardCancels \/ SmtpAccepts \/ SmtpAnswerLost
          \/ MarkSentCommits \/ MarkSentUnacknowledged \/ MarkFailedCommits \/ Restart)
    BY <1>0 DEF ClaimCommits, ClaimRaises, GuardCancels, SmtpAccepts, SmtpAnswerLost,
       MarkSentCommits, MarkSentUnacknowledged, MarkFailedCommits, Restart, ToIdle, GuardHoldsLock
  <2> QED
    BY <1>4, <2>1, <2>2 DEF UpdatesQueue
<1>5. ASSUME NEW c \in Client, Manage(c), queue' # queue
      PROVE  queue'[job].status \in Claimable
  <2> DEFINE e == request[c].device
  <2>1. /\ request[c] # None /\ request[c].at = "commit" /\ device[e] # Target(request[c].op)
        /\ queue' = CancelledFor(queue, e)
    BY <1>5 DEF Manage, tables
  <2>2. \A i \in BeingCancelled : queue[i].device = e => ~HeldByWorker(i)
    BY <1>5 DEF Manage
  <2>3. HeldByWorker(job) /\ IsActive(queue[job])
    BY <1>3 DEF HeldByWorker, IsActive, Active
  <2>4. queue[job].device # e
    BY <1>3, <2>1, <2>2, <2>3 DEF BeingCancelled, Cancelling
  <2> QED
    BY <1>3, <2>1, <2>4 DEF CancelledFor
<1>6. CASE ~UpdatesQueue /\ ~\E c \in Client : Manage(c)
  BY <1>0, <1>3, <1>6, CommitInserts, QueueUnchanged DEF ExtendedRows
<1> QED
  BY <1>3, <1>4, <1>5, <1>6

(* What the consumer has read under its row locks stays true while it holds *)
(* them.                                                                    *)
LEMMA RowsCurrentStep ==
    ASSUME IInv, [Next]_vars
    PROVE  RowsCurrent'
<1>0. TypeOK /\ RowsCurrent /\ TypeOK'
  BY TypeStep DEF IInv, LocksProtect
<1>1. CASE EndTransaction
  <2> SUFFICES ASSUME NEW d \in Device
               PROVE  rowLock'[d] # Consumer /\ view'[d] = None
    BY DEF RowsCurrent
  <2> QED
    BY <1>1, NamesDistinct DEF EndTransaction, Nothing
<1>2. ASSUME NEW t \in Heartbeat \cup {StaleCheck}, Begin(t)
      PROVE  RowsCurrent'
  <2> SUFFICES ASSUME NEW d \in Device
               PROVE  RowsCurrent!(d)'
    BY DEF RowsCurrent
  <2> QED
    BY <1>0, <1>2, NamesDistinct DEF RowsCurrent, Begin, IsLive, tables
<1>3. ASSUME NEW e \in Device, LockStateRow(e)
      PROVE  RowsCurrent'
  <2> SUFFICES ASSUME NEW d \in Device
               PROVE  RowsCurrent!(d)'
    BY DEF RowsCurrent
  <2>1. CASE d # e
    BY <1>0, <1>3, <2>1 DEF RowsCurrent, LockStateRow, TypeOK, tables
  <2>2. CASE d = e
    <3>1. view[d] # None /\ device[d] # None /\ state[d] # None
      BY <1>0, <1>3, <2>2 DEF RowsCurrent, LockStateRow, ToLock
    <3> QED
      BY <1>0, <1>3, <2>2, <3>1 DEF LockStateRow, TypeOK, tables
  <2> QED
    BY <2>1, <2>2
<1>4. CASE LockHeartbeatRow
  <2> SUFFICES ASSUME NEW d \in Device
               PROVE  RowsCurrent!(d)'
    BY DEF RowsCurrent
  <2>1. task \in Heartbeat /\ task.device \in Device
    BY <1>4 DEF LockHeartbeatRow, Heartbeat
  <2> QED
    BY <1>0, <1>4, <2>1 DEF RowsCurrent, LockHeartbeatRow, TypeOK, tables
<1>5. ASSUME NEW c \in Client, ApiStep(c)
      PROVE  RowsCurrent'
  <2> SUFFICES ASSUME NEW d \in Device
               PROVE  RowsCurrent!(d)'
    BY DEF RowsCurrent
  <2>1. UNCHANGED <<task, view, row>>
    BY <1>5 DEF ApiStep, LockManagement, LockDeviceRow, Refuse, Manage, RollBack, consumerVars
  <2>2. rowLock'[d] = Consumer => rowLock[d] = Consumer
    <3>1. CASE EndRequest(c)
      BY <3>1, NamesDistinct DEF EndRequest, Unlocked
    <3>2. CASE LockManagement(c) \/ LockDeviceRow(c)
      BY <1>0, <3>2, NamesDistinct DEF LockManagement, LockDeviceRow, TypeOK, consumerVars
    <3> QED
      BY <1>5, <3>1, <3>2 DEF ApiStep, Refuse, Manage, RollBack
  <2>3. rowLock[d] = Consumer => device'[d] = device[d]
    BY <1>5, RequestKeepsDevices, NamesDistinct
  <2>4. device[d] # None => device'[d] # None
    BY <1>5, RequestKeepsDevices
  <2>5. state[d] # None => state'[d] # None
    <3>1. CASE UNCHANGED state
      BY <3>1
    <3>2. ASSUME NEW e, state' = IF state[e] = None THEN state
                                 ELSE [state EXCEPT ![e].stale = FALSE, ![e].alert = FALSE]
          PROVE  state[d] # None => state'[d] # None
      <4>1. state'[d] \in StateRow \cup {None}
        BY <1>0 DEF TypeOK
      <4>2. ASSUME state[d] \in StateRow PROVE [state[d] EXCEPT !.stale = FALSE, !.alert = FALSE] \in StateRow
        BY <4>2 DEF StateRow
      <4>3. state'[d] = state[d] \/ state'[d] = [state[d] EXCEPT !.stale = FALSE, !.alert = FALSE]
        BY <1>0, <3>2 DEF TypeOK
      <4> QED
        BY <1>0, <4>2, <4>3, NamesDistinct DEF TypeOK
    <3> QED
      BY <1>5, <3>1, <3>2 DEF ApiStep, LockManagement, LockDeviceRow, Refuse, Manage, RollBack,
         tables
  <2> QED
    BY <1>0, <2>1, <2>2, <2>3, <2>4, <2>5 DEF RowsCurrent
<1>6. CASE OtherStep
  <2>1. UNCHANGED <<device, state>>
        /\ (UNCHANGED <<task, view, row, rowLock>> \/ EndTransaction)
    BY <1>0, <1>6, OthersKeep
  <2> QED
    BY <1>0, <1>1, <2>1 DEF RowsCurrent
<1> QED
  BY <1>1, <1>2, <1>3, <1>4, <1>5, <1>6 DEF Next, OtherStep, ConsumerStep, ProcessHeartbeat,
     NotifyStale

(***************************************************************************)
(* Exclusion                                                               *)
(***************************************************************************)

(* A device the consumer admits is monitored once its transaction commits. *)
LEMMA AdmittedMonitored ==
    ASSUME IInv, NEW d \in Admitted, Commits
    PROVE  Monitored(d)'
<1>0. TypeOK /\ RowsCurrent /\ d \in Device /\ rowLock[d] = Consumer /\ Allows(row[d])
  BY DEF IInv, LocksProtect, Admitted
<1>1. CASE device[d] # None
  <2>1. row[d] = device[d]
    BY <1>0, <1>1 DEF RowsCurrent
  <2>2. device'[d] = device[d]
    BY <1>0, <1>1, ConsumerKeepsDevices DEF Commits, ConsumerStep
  <2> QED
    BY <1>0, <2>1, <2>2 DEF Monitored
<1>2. CASE device[d] = None
  <2>1. task \in Heartbeat /\ task.device = d
    BY <1>0, <1>2 DEF RowsCurrent
  <2>2. device' = [device EXCEPT ![task.device] = row[task.device]]
    BY <2>1, NamesDistinct DEF Commits, ProcessHeartbeat, NotifyStale
  <2>3. device'[d] = row[d]
    BY <1>0, <2>1, <2>2 DEF TypeOK
  <2> QED
    BY <1>0, <2>3 DEF Monitored
<1> QED
  BY <1>1, <1>2

(* What a request's commit that changes the devices row does to the device. *)
LEMMA ManageQuiets ==
    ASSUME IInv, NEW c \in Client, Manage(c), NEW d \in Device, device'[d] # device[d]
    PROVE  /\ queue' = CancelledFor(queue, d)
           /\ state'[d] # None => ~state'[d].stale /\ ~state'[d].alert
<1> DEFINE e == request[c].device
<1>0. TypeOK
  BY DEF IInv
<1>1. e \in Device
  BY <1>0 DEF Manage, TypeOK, Request
<1>2. device' # device
  OBVIOUS
<1>3. /\ device' = [device EXCEPT ![e] = Target(request[c].op)]
      /\ queue' = CancelledFor(queue, e)
      /\ state' = IF state[e] = None THEN state
                  ELSE [state EXCEPT ![e].stale = FALSE, ![e].alert = FALSE]
  BY <1>2 DEF Manage, tables
<1>4. e = d
  BY <1>0, <1>1, <1>3 DEF TypeOK
<1>5. CASE state[d] = None
  BY <1>3, <1>4, <1>5
<1>6. CASE state[d] # None
  <2>1. state[d] \in StateRow
    BY <1>0, <1>6 DEF TypeOK
  <2>2. state'[d] = [state[d] EXCEPT !.stale = FALSE, !.alert = FALSE]
    BY <1>0, <1>3, <1>4, <1>6 DEF TypeOK
  <2> QED
    BY <1>3, <1>4, <2>1, <2>2 DEF StateRow
<1> QED
  BY <1>3, <1>4, <1>5, <1>6

(* A device stops being monitored only by a request's commit. *)
LEMMA ExcludedByManage ==
    ASSUME IInv, [Next]_vars, NEW d \in Device, Monitored(d), ~Monitored(d)'
    PROVE  \E c \in Client : Manage(c) /\ device'[d] # device[d]
<1>0. TypeOK
  BY DEF IInv
<1>1. device[d] # None /\ device'[d] # device[d]
  BY DEF Monitored, Allows
<1>2. ~ConsumerStep
  BY <1>1, ConsumerKeepsDevices
<1>3. ~OtherStep
  BY <1>0, <1>1, OthersKeep
<1> QED
  BY <1>1, <1>2, <1>3 DEF Next, OtherStep, ApiStep, LockManagement, LockDeviceRow, Refuse,
     RollBack, tables

(* The queue of an excluded device stays quiet. *)
LEMMA QueueQuietStep ==
    ASSUME IInv, [Next]_vars, NEW d \in Device, ~Monitored(d)',
           NEW i \in DOMAIN queue', queue'[i].device = d
    PROVE  ~IsActive(queue'[i])
<1>0. TypeOK /\ ExcludedIsQuiet /\ queue \in Seq(Job)
  BY DEF IInv, TypeOK
<1>1. CASE Monitored(d)
  <2>1. queue' = CancelledFor(queue, d)
    BY <1>1, ExcludedByManage, ManageQuiets
  <2> QED
    BY <1>0, <2>1, CancelledTable DEF UpdatedRows
<1>2. CASE ~Monitored(d) /\ UpdatedRows(queue, queue')
  BY <1>0, <1>2 DEF ExcludedIsQuiet, UpdatedRows
<1>3. CASE ~Monitored(d) /\ Commits /\ ExtendedRows(queue, queue', Admitted)
  <2>1. d \notin Admitted
    BY <1>3, AdmittedMonitored
  <2> QED
    BY <1>0, <1>3, <2>1 DEF ExcludedIsQuiet, ExtendedRows, IsNew
<1> QED
  BY <1>0, <1>1, <1>2, <1>3, QueueStep

(* The flags of an excluded device stay clear. *)
LEMMA FlagsClearStep ==
    ASSUME IInv, [Next]_vars, NEW d \in Device, ~Monitored(d)', state'[d] # None
    PROVE  ~state'[d].stale /\ ~state'[d].alert
<1>0. TypeOK /\ RowsCurrent /\ ExcludedIsQuiet
  BY DEF IInv, LocksProtect
<1>1. CASE Monitored(d)
  BY <1>1, ExcludedByManage, ManageQuiets
<1>2. CASE ~Monitored(d) /\ state'[d] = state[d]
  BY <1>0, <1>2 DEF ExcludedIsQuiet
<1>3. ASSUME NEW mesResume \in BOOLEAN, NEW mesNotify \in BOOLEAN,
             ProcessHeartbeat(mesResume, mesNotify), state'[d] # state[d]
      PROVE  ~state'[d].stale /\ ~state'[d].alert
  <2> DEFINE new == SavedRow(task.device, task.signature, Allows(row[task.device]) /\ mesNotify)
  <2>1. state' = Saved(task.device, new) /\ device' = [device EXCEPT ![task.device] = row[task.device]]
        /\ task.device \in Device
    BY <1>3 DEF ProcessHeartbeat, Heartbeat
  <2>2. d = task.device /\ state'[d] = new
    BY <1>0, <1>3, <2>1 DEF Saved, TypeOK
  <2>3. ~Allows(row[d])
    BY <1>0, <2>1, <2>2 DEF TypeOK, Monitored
  <2>4. ASSUME NEW admitted
        PROVE  /\ ~SavedRow(d, task.signature, admitted).stale
               /\ ~SavedRow(d, task.signature, admitted).alert
    BY <2>3, Zenon DEF SavedRow
  <2> QED
    BY <2>2, <2>4
<1>4. ASSUME NEW silent \in SUBSET MayBeSilent, NEW mesAllows \in SUBSET silent,
             NotifyStale(silent, mesAllows), state'[d] # state[d]
      PROVE  d \in Admitted /\ Commits
  <2>1. state'[d] = IF d \in {e \in silent \cap mesAllows : Allows(row[e])}
                    THEN [state[d] EXCEPT !.stale = TRUE] ELSE state[d]
    BY <1>4 DEF NotifyStale, Marked
  <2>2. d \in silent /\ Allows(row[d])
    BY <1>4, <2>1
  <2> QED
    BY <1>4, <2>2 DEF Admitted, Commits, MayBeSilent, NotifyStale, ToLock
<1>5. ASSUME NEW c \in Client, Manage(c), state'[d] # state[d]
      PROVE  ~state'[d].stale /\ ~state'[d].alert
  <2> DEFINE e == request[c].device
  <2>1. state' = IF state[e] = None THEN state
                 ELSE [state EXCEPT ![e].stale = FALSE, ![e].alert = FALSE]
    BY <1>5 DEF Manage, tables
  <2>2. e = d /\ state[d] # None
    BY <1>0, <1>5, <2>1 DEF TypeOK
  <2>3. state[d] \in StateRow /\ state'[d] = [state[d] EXCEPT !.stale = FALSE, !.alert = FALSE]
    BY <1>0, <2>1, <2>2 DEF TypeOK
  <2> QED
    BY <2>3 DEF StateRow
<1>6. ASSUME state'[d] # state[d]
      PROVE  Commits \/ \E c \in Client : Manage(c)
  BY <1>0, <1>6, OthersKeep DEF Commits, Next, OtherStep, ConsumerStep, Begin, LockStateRow,
     LockHeartbeatRow, ApiStep, LockManagement, LockDeviceRow, Refuse, RollBack, tables
<1> QED
  BY <1>1, <1>2, <1>3, <1>4, <1>5, <1>6, AdmittedMonitored DEF Commits

(* While the worker is under its guard, no request can complete on its      *)
(* device, and no one else touches its row.                                 *)
LEMMA GuardStep ==
    ASSUME IInv, [Next]_vars
    PROVE  SmtpUnderGuard'
<1>0. TypeOK /\ RowsCurrent /\ GuardHoldsLock /\ RequestHoldsLocks /\ SmtpUnderGuard
  BY DEF IInv, LocksProtect
<1> DEFINE Guarding == Guarded /\ session
           d == queue[job].device
<1> SUFFICES ASSUME Guarding'
             PROVE  Monitored(queue[job].device)' /\ queue'[job'].status = "SENDING"
  BY DEF SmtpUnderGuard
<1>1. CASE GuardAdmits
  BY <1>1 DEF GuardAdmits, Deliverable, Monitored, tables
<1>2. ASSUME ~GuardAdmits
      PROVE  Guarding /\ job' = job
  BY <1>0, <1>2 DEF Next, ConsumerStep, Begin, LockStateRow, LockHeartbeatRow, ProcessHeartbeat,
     NotifyStale, ApiStep, Receive, LockManagement, LockDeviceRow, Refuse, Manage, RollBack,
     WorkerStep, ClaimNext, ClaimCommits, ClaimRaises, GuardCancels, GuardRaises, SmtpAccepts,
     SmtpFails, MarkSent, MarkSentCommits, MarkSentUnacknowledged, MarkSentRaises, MarkFailed,
     MarkFailedCommits, BackoffElapses, ClockSetBack, FaultStep, SmtpAnswerLost, SessionLost,
     MarkFailedRaises, Crash, Restart, ToIdle, Guarded, vars, workerVars
<1>3. ASSUME Guarding
      PROVE  /\ job \in DOMAIN queue /\ queue[job] \in Job /\ d \in Device
             /\ mgmtLock[d] = Worker /\ Monitored(d) /\ queue[job].status = "SENDING"
             /\ queue'[job].device = d
  <2>1. job \in DOMAIN queue /\ queue[job] \in Job /\ d \in Device
    BY <1>0, <1>3, JobDevice DEF Guarded
  <2> QED
    BY <1>0, <1>3, <2>1, QueueStep DEF GuardHoldsLock, SmtpUnderGuard, UpdatedRows, ExtendedRows
<1>4. ASSUME Guarding, job' = job
      PROVE  Monitored(queue[job].device)'
  <2>1. ASSUME NEW c \in Client, Manage(c)
        PROVE  device'[d] = device[d]
    BY <1>3, <1>4, <2>1, RequestKeepsDevices, NamesDistinct DEF ApiStep
  <2> QED
    BY <1>3, <1>4, <2>1, ExcludedByManage
<1>5. ASSUME Guarding, job' = job, UpdatesQueue
      PROVE  queue'[job].status = "SENDING"
  <2>1. CASE ClockStep
    BY <1>0, <1>3, <1>5, <2>1, ClockKeeps
  <2>2. CASE SmtpAccepts
    BY <1>3, <1>5, <2>2 DEF SmtpAccepts, CountMail, Job
  <2>3. ~(ClaimCommits \/ ClaimRaises \/ GuardCancels \/ SmtpAnswerLost \/ MarkSentCommits
          \/ MarkSentUnacknowledged \/ MarkFailedCommits \/ Restart)
    BY <1>0, <1>5 DEF ClaimCommits, ClaimRaises, GuardCancels, SmtpAnswerLost, MarkSentCommits,
       MarkSentUnacknowledged, MarkFailedCommits, Restart, ToIdle, GuardHoldsLock, Guarded
  <2> QED
    BY <1>5, <2>1, <2>2, <2>3 DEF UpdatesQueue
<1>6. ASSUME Guarding, NEW c \in Client, Manage(c)
      PROVE  queue'[job].status = "SENDING"
  <2> DEFINE e == request[c].device
  <2>1. e \in Device /\ mgmtLock[e] = c /\ c # Worker
    BY <1>0, <1>6, NamesDistinct DEF Manage, TypeOK, Request, RequestHoldsLocks
  <2>2. e # d
    BY <1>3, <1>6, <2>1
  <2>3. queue' = queue \/ queue' = CancelledFor(queue, e)
    BY <1>6 DEF Manage, tables
  <2>4. CancelledFor(queue, e)[job] = queue[job]
    <3>1. queue \in Seq(Job)
      BY <1>0 DEF TypeOK
    <3>2. job \in DOMAIN queue /\ queue[job].device # e
      BY <1>3, <1>6, <2>2
    <3> QED
      BY <2>1, <3>1, <3>2, CancelledTable
  <2> QED
    BY <1>3, <1>6, <2>3, <2>4
<1>7. ASSUME Guarding, ~UpdatesQueue, ~\E c \in Client : Manage(c)
      PROVE  queue'[job].status = "SENDING"
  BY <1>0, <1>3, <1>7, CommitInserts, QueueUnchanged DEF ExtendedRows
<1> QED
  BY <1>1, <1>2, <1>3, <1>4, <1>5, <1>6, <1>7

(***************************************************************************)
(* Theorems                                                                *)
(***************************************************************************)

(* The program starts with empty tables and no lock. *)
LEMMA InitStep == ASSUME Init PROVE IInv
<1> USE DEF Init, Nothing
<1>1. queue \in Seq(Job) /\ DOMAIN queue = {}
  BY EmptySeq
<1>2. TypeOK
  BY <1>1, BoundsAssumption DEF TypeOK
<1>3. LocksProtect
  BY NamesDistinct DEF LocksProtect, RequestHoldsLocks, GuardHoldsLock, Guarded, RowsCurrent,
     ClaimHoldsRow
<1>4. ExcludedIsQuiet
  BY <1>1 DEF ExcludedIsQuiet
<1>5. SmtpUnderGuard
  BY DEF SmtpUnderGuard, Guarded
<1> QED
  BY <1>2, <1>3, <1>4, <1>5 DEF IInv

(* The conjunction of the types, of what the locks protect and of the two   *)
(* properties of exclusion holds at the start and is kept by every step of  *)
(* the consumer, the worker and the requests.                               *)
THEOREM Inductive == Spec => []IInv
<1>1. Init => IInv
  BY InitStep
<1>2. IInv /\ [Next]_vars => IInv'
  <2> SUFFICES ASSUME IInv, [Next]_vars PROVE IInv'
    OBVIOUS
  <2>1. TypeOK'
    BY TypeStep
  <2>2. LocksProtect'
    BY RequestLocksStep, GuardLockStep, RowsCurrentStep, ClaimStep DEF LocksProtect
  <2>3. ExcludedIsQuiet'
    BY QueueQuietStep, FlagsClearStep DEF ExcludedIsQuiet
  <2>4. SmtpUnderGuard'
    BY GuardStep
  <2> QED
    BY <2>1, <2>2, <2>3, <2>4 DEF IInv
<1> QED
  BY <1>1, <1>2, PTL DEF Spec

(* Every variable keeps its type. *)
THEOREM TypeCorrect == Spec => []TypeOK
<1>1. IInv => TypeOK
  BY DEF IInv
<1> QED
  BY <1>1, Inductive, PTL

(* Who locks a row or a device is alone to change it. *)
THEOREM LocksHold == Spec => []LocksProtect
<1>1. IInv => LocksProtect
  BY DEF IInv
<1> QED
  BY <1>1, Inductive, PTL

(* Once an exclusion, a deletion or a restoration has committed, no mail of *)
(* the device waits and no flag of it is set.                               *)
THEOREM ExclusionQuiets == Spec => []ExcludedIsQuiet
<1>1. IInv => ExcludedIsQuiet
  BY DEF IInv
<1> QED
  BY <1>1, Inductive, PTL

(* No request excludes a device whose mail is on its way while the guard's  *)
(* session lives.                                                           *)
THEOREM SmtpGuarded == Spec => []SmtpUnderGuard
<1>1. IInv => SmtpUnderGuard
  BY DEF IInv
<1> QED
  BY <1>1, Inductive, PTL

(***************************************************************************)
(* Lock owners                                                             *)
(***************************************************************************)

(* A request that owns a lock is in the middle of its transaction.          *)
LEMMA RequestsInHandStep ==
    ASSUME IInv, RequestsInHand, [Next]_vars
    PROVE  RequestsInHand'
<1>0. TypeOK /\ RequestHoldsLocks
  BY DEF IInv, LocksProtect
<1> SUFFICES ASSUME NEW d \in Device, NEW c \in Client
             PROVE  RequestsInHand!(d, c)'
  BY DEF RequestsInHand
<1>1. RequestsInHand!(d, c) /\ c # Consumer /\ c # Worker /\ c # None
  BY NamesDistinct DEF RequestsInHand
<1>2. ASSUME request'[c] = request[c], mgmtLock'[d] = c => mgmtLock[d] = c,
             rowLock'[d] = c => rowLock[d] = c
      PROVE  RequestsInHand!(d, c)'
  BY <1>1, <1>2
<1>3. CASE ConsumerStep
  <2>1. UNCHANGED <<request, mgmtLock>>
    BY <1>3, ConsumerKeepsDevices
  <2>2. rowLock'[d] = c => rowLock[d] = c
    BY <1>0, <1>1, <1>3 DEF ConsumerStep, Begin, LockStateRow, LockHeartbeatRow,
       ProcessHeartbeat, NotifyStale, EndTransaction, TypeOK
  <2> QED
    BY <1>2, <2>1, <2>2
<1>4. ASSUME NEW b \in Client, b # c, ApiStep(b)
      PROVE  /\ request'[c] = request[c] /\ (mgmtLock'[d] = c => mgmtLock[d] = c)
             /\ (rowLock'[d] = c => rowLock[d] = c)
  <2>1. CASE EndRequest(b)
    BY <1>0, <1>1, <1>4, <2>1 DEF EndRequest, Unlocked, TypeOK
  <2>2. CASE LockManagement(b) \/ LockDeviceRow(b)
    BY <1>0, <1>1, <1>4, <2>2 DEF LockManagement, LockDeviceRow, TypeOK, consumerVars
  <2> QED
    BY <1>4, <2>1, <2>2 DEF ApiStep, Refuse, Manage, RollBack
<1>5. CASE ApiStep(c)
  <2>1. CASE EndRequest(c)
    BY <1>0, <1>1, <2>1 DEF EndRequest, Unlocked
  <2>2. CASE LockManagement(c)
    <3>1. /\ request[c] \in Request /\ request[c].at = "management"
          /\ request'[c] = [request[c] EXCEPT !.at = "row"]
          /\ mgmtLock' = [mgmtLock EXCEPT ![request[c].device] = c] /\ UNCHANGED rowLock
      BY <1>0, <2>2 DEF LockManagement, TypeOK, consumerVars
    <3>2. mgmtLock[d] # c /\ rowLock[d] # c
      BY <1>1, <3>1
    <3>3. request'[c] \in Request /\ request'[c].device = request[c].device
          /\ request'[c].at = "row"
      BY <3>1 DEF Request
    <3> QED
      BY <1>0, <3>1, <3>2, <3>3, NamesDistinct DEF TypeOK
  <2>3. CASE LockDeviceRow(c)
    <3>1. /\ request[c] \in Request /\ request[c].at = "row"
          /\ request'[c] = [request[c] EXCEPT !.at = "commit"]
          /\ rowLock' = [rowLock EXCEPT ![request[c].device] = c] /\ UNCHANGED mgmtLock
      BY <1>0, <2>3 DEF LockDeviceRow, TypeOK
    <3>2. rowLock[d] # c
      BY <1>1, <3>1
    <3>3. request'[c] \in Request /\ request'[c].device = request[c].device
          /\ request'[c].at = "commit"
      BY <3>1 DEF Request
    <3> QED
      BY <1>0, <1>1, <3>1, <3>2, <3>3, NamesDistinct DEF TypeOK
  <2> QED
    BY <1>5, <2>1, <2>2, <2>3 DEF ApiStep, Refuse, Manage, RollBack
<1>6. ASSUME NEW op \in Operation, NEW e \in Device, Receive(c, op, e)
      PROVE  RequestsInHand!(d, c)'
  BY <1>1, <1>6 DEF Receive, consumerVars
<1>7. ASSUME OtherStep, ~\E op \in Operation, e \in Device : Receive(c, op, e)
      PROVE  request'[c] = request[c]
  BY <1>0, <1>7 DEF TypeOK, OtherStep, Receive, WorkerStep, ClaimNext, ClaimCommits,
     ClaimRaises, GuardAdmits, GuardCancels, GuardRaises, SmtpAccepts, SmtpFails, MarkSent,
     MarkSentCommits, MarkSentUnacknowledged, MarkSentRaises, MarkFailed, MarkFailedCommits,
     BackoffElapses, ClockSetBack, FaultStep, SmtpAnswerLost, SessionLost, MarkFailedRaises,
     Crash, Restart, vars
<1>8. ASSUME OtherStep
      PROVE  (mgmtLock'[d] = c => mgmtLock[d] = c) /\ (rowLock'[d] = c => rowLock[d] = c)
  <2>1. UNCHANGED mgmtLock \/ ReleaseGuard \/ GuardAdmits
    BY <1>8 DEF OtherStep, Receive, WorkerStep, ClaimNext, ClaimCommits, ClaimRaises,
       GuardCancels, GuardRaises, SmtpAccepts, SmtpFails, MarkSent, MarkSentCommits,
       MarkSentUnacknowledged, MarkSentRaises, MarkFailed, MarkFailedCommits, BackoffElapses,
       ClockSetBack, FaultStep, SmtpAnswerLost, SessionLost, MarkFailedRaises, Crash, Restart,
       vars
  <2>2. mgmtLock'[d] = c => mgmtLock[d] = c
    BY <1>0, <1>1, <2>1 DEF ReleaseGuard, Unlocked, GuardAdmits, TypeOK
  <2>3. UNCHANGED rowLock \/ EndTransaction
    BY <1>0, <1>8, OthersKeep
  <2> QED
    BY <1>1, <2>2, <2>3 DEF EndTransaction
<1> QED
  BY <1>2, <1>3, <1>4, <1>5, <1>6, <1>7, <1>8 DEF Next, OtherStep

(* The worker owns an advisory lock only inside its guard.                  *)
LEMMA GuardInHandStep ==
    ASSUME IInv, GuardInHand, [Next]_vars
    PROVE  GuardInHand'
<1>0. TypeOK
  BY DEF IInv
<1> DEFINE Early == worker \in {"idle", "claiming", "claimed"}
<1>9. Early' => session'
  <2>1. Early => session
    BY DEF GuardInHand
  <2>2. ASSUME WorkerStep \/ FaultStep, ~ClockStep
        PROVE  ~Early' \/ session' = TRUE \/ (Early /\ session' = session)
    BY <2>2 DEF WorkerStep, FaultStep, ClockStep, ClaimNext, ClaimCommits, ClaimRaises,
       GuardAdmits, GuardCancels, GuardRaises, SmtpAccepts, SmtpFails, MarkSent, MarkSentCommits,
       MarkSentUnacknowledged, MarkSentRaises, MarkFailed, MarkFailedCommits, SmtpAnswerLost,
       SessionLost, Guarded, MarkFailedRaises, Crash, ToIdle
  <2>3. ASSUME ~(WorkerStep \/ FaultStep) PROVE UNCHANGED <<worker, session>>
    BY <2>3, ConsumerKeepsDevices DEF Next, ApiStep, LockManagement, LockDeviceRow, Refuse,
       Manage, RollBack, Receive, BackoffElapses, Restart, vars, workerVars
  <2> QED
    BY <1>0, <2>1, <2>2, <2>3, ClockKeeps
<1> SUFFICES ASSUME NEW d \in Device, mgmtLock'[d] = Worker
             PROVE  Guarded' /\ session' /\ queue'[job'].device = d
  BY <1>9 DEF GuardInHand
<1>1. ASSUME mgmtLock[d] = Worker
      PROVE  Guarded /\ session /\ queue[job].device = d
             /\ queue'[job].device = d
  <2>1. Guarded /\ session /\ queue[job].device = d
    BY <1>1 DEF GuardInHand
  <2>2. job \in DOMAIN queue
    BY <1>0, <2>1, JobDevice DEF Guarded
  <2> QED
    BY <1>0, <2>1, <2>2, QueueStep DEF UpdatedRows, ExtendedRows
<1>2. ASSUME UNCHANGED <<worker, job, session>>, mgmtLock[d] = Worker
      PROVE  Guarded' /\ session' /\ queue'[job'].device = d
  BY <1>1, <1>2 DEF Guarded
<1>3. CASE ReleaseGuard
  BY <1>3, NamesDistinct DEF ReleaseGuard, Unlocked
<1>4. CASE GuardAdmits
  <2>1. CASE d = queue[job].device
    <3>1. UNCHANGED <<queue, job, session>> /\ worker' = "smtp"
      BY <1>4 DEF GuardAdmits, tables
    <3>2. session
      BY <1>4 DEF GuardAdmits, GuardInHand
    <3> QED
      BY <2>1, <3>1, <3>2 DEF Guarded
  <2>2. CASE d # queue[job].device
    <3>1. mgmtLock[d] = Worker
      BY <1>0, <1>4, <2>2 DEF GuardAdmits, TypeOK
    <3> QED
      BY <1>1, <1>4, <3>1 DEF GuardAdmits, Guarded
  <2> QED
    BY <2>1, <2>2
<1>5. ASSUME NEW b \in Client, ApiStep(b)
      PROVE  UNCHANGED <<worker, job, session>> /\ mgmtLock[d] = Worker
  <2>1. UNCHANGED <<worker, job, session>>
    BY <1>5 DEF ApiStep, LockManagement, LockDeviceRow, Refuse, Manage, RollBack, workerVars
  <2>2. CASE EndRequest(b)
    BY <2>1, <2>2, NamesDistinct DEF EndRequest, Unlocked
  <2>3. CASE LockManagement(b) \/ LockDeviceRow(b)
    BY <1>0, <2>1, <2>3, NamesDistinct DEF LockManagement, LockDeviceRow, TypeOK
  <2> QED
    BY <1>5, <2>2, <2>3, <2>1 DEF ApiStep, Refuse, Manage, RollBack
<1>6. ASSUME \/ ConsumerStep \/ Restart \/ UNCHANGED vars
             \/ ClockStep
             \/ \E c \in Client, op \in Operation, e \in Device : Receive(c, op, e)
      PROVE  UNCHANGED <<worker, job, session, mgmtLock>>
  BY <1>0, <1>6, ConsumerKeepsDevices, ClockKeeps DEF Restart, Receive, vars, workerVars
<1>7. ASSUME WorkerStep \/ FaultStep, ~ClockStep, ~ReleaseGuard, ~GuardAdmits, mgmtLock[d] = Worker
      PROVE  Guarded' /\ session' /\ queue'[job'].device = d
  <2>1. SmtpAccepts \/ MarkSent
    BY <1>1, <1>7 DEF WorkerStep, FaultStep, ClockStep, ClaimNext, ClaimCommits, ClaimRaises,
       GuardCancels, GuardRaises, SmtpFails, MarkSentCommits, MarkSentUnacknowledged,
       MarkSentRaises, MarkFailed, MarkFailedCommits, SmtpAnswerLost, SessionLost,
       MarkFailedRaises, Crash, Guarded
  <2>2. worker' \in {"accepted", "settling"} /\ UNCHANGED <<job, session>>
    BY <2>1 DEF SmtpAccepts, MarkSent
  <2> QED
    BY <1>1, <1>7, <2>2 DEF Guarded
<1>8. ASSUME WorkerStep \/ FaultStep, ~ReleaseGuard, ~GuardAdmits
      PROVE  UNCHANGED mgmtLock
  BY <1>8 DEF WorkerStep, FaultStep, ClaimNext, ClaimCommits, ClaimRaises, GuardCancels,
     GuardRaises, SmtpAccepts, SmtpFails, MarkSent, MarkSentCommits, MarkSentUnacknowledged,
     MarkSentRaises, MarkFailed, MarkFailedCommits, SmtpAnswerLost, SessionLost,
     MarkFailedRaises, Crash, ClockSetBack
<1> QED
  BY <1>2, <1>3, <1>4, <1>5, <1>6, <1>7, <1>8 DEF Next, ClockStep

(* The consumer owns rows only inside a transaction, which only a running   *)
(* process has.                                                             *)
LEMMA TaskInHandStep ==
    ASSUME IInv, TaskInHand, [Next]_vars
    PROVE  TaskInHand'
<1>0. TypeOK
  BY DEF IInv
<1>1. CASE EndTransaction
  BY <1>1, NamesDistinct DEF EndTransaction, TaskInHand
<1>2. ASSUME NEW t \in Heartbeat \cup {StaleCheck}, Begin(t)
      PROVE  TaskInHand'
  BY <1>2, NamesDistinct DEF Begin, TaskInHand
<1>3. CASE LockHeartbeatRow \/ \E d \in Device : LockStateRow(d)
  BY <1>3, NamesDistinct DEF LockHeartbeatRow, LockStateRow, TaskInHand
<1>4. ASSUME NEW b \in Client, ApiStep(b)
      PROVE  TaskInHand'
  <2>1. UNCHANGED <<task, up>>
    BY <1>4 DEF ApiStep, LockManagement, LockDeviceRow, Refuse, Manage, RollBack, consumerVars
  <2>2. CASE EndRequest(b)
    BY <2>1, <2>2, NamesDistinct DEF EndRequest, Unlocked, TaskInHand
  <2>3. CASE LockManagement(b) \/ LockDeviceRow(b)
    BY <1>0, <2>1, <2>3, NamesDistinct DEF LockManagement, LockDeviceRow, TaskInHand, TypeOK,
       consumerVars
  <2> QED
    BY <1>4, <2>2, <2>3 DEF ApiStep, Refuse, Manage, RollBack
<1>5. ASSUME OtherStep, ~EndTransaction
      PROVE  TaskInHand'
  <2>1. UNCHANGED <<task, rowLock>>
    BY <1>0, <1>5, OthersKeep
  <2>2. up' = up \/ up'
    BY <1>5 DEF OtherStep, Receive, WorkerStep, ClaimNext, ClaimCommits, ClaimRaises,
       GuardAdmits, GuardCancels, GuardRaises, SmtpAccepts, SmtpFails, MarkSent,
       MarkSentCommits, MarkSentUnacknowledged, MarkSentRaises, MarkFailed, MarkFailedCommits,
       BackoffElapses, ClockSetBack, FaultStep, SmtpAnswerLost, SessionLost, MarkFailedRaises,
       Crash, Restart, vars
  <2> QED
    BY <2>1, <2>2 DEF TaskInHand
<1> QED
  BY <1>1, <1>2, <1>3, <1>4, <1>5 DEF Next, OtherStep, ConsumerStep, ProcessHeartbeat, NotifyStale

(* A lock has an owner only as long as the owner's transaction is open.     *)
THEOREM NoLockOutlives == Spec => []LocksAreHeld
<1>1. Init => LocksAreHeld
  BY NamesDistinct DEF Init, Nothing, LocksAreHeld, RequestsInHand, GuardInHand, Guarded, TaskInHand
<1>2. IInv /\ LocksAreHeld /\ [Next]_vars => LocksAreHeld'
  BY RequestsInHandStep, GuardInHandStep, TaskInHandStep DEF LocksAreHeld
<1> QED
  BY <1>1, <1>2, Inductive, PTL DEF Spec

(* A worker that holds a row is about to commit and waits for nobody.       *)
LEMMA HoldingWaitsForNobody ==
    ASSUME NEW d, WorkerHolds(d), NEW b
    PROVE  worker \in {"claiming", "settling", "failing"} /\ ~WaitsFor(Worker, b)
<1>1. worker \in {"claiming", "settling", "failing"}
  BY DEF WorkerHolds, HeldByWorker
<1> QED
  BY <1>1, NamesAssumption DEF WaitsFor, Wants

(* A request that owns both its locks waits at most for such a worker.      *)
Committing(c) == c \in Client /\ request[c] # None /\ request[c].at = "commit"

LEMMA CommittingWaits ==
    ASSUME NEW c, Committing(c), NEW b, WaitsFor(c, b)
    PROVE  b = Worker /\ \E d \in Device : WorkerHolds(d)
BY NamesDistinct DEF Committing, WaitsFor, Wants

(* The consumer waits for such a worker, or for a request at its commit.    *)
LEMMA ConsumerWaits ==
    ASSUME IInv, LocksAreHeld, NEW b \in Actor, WaitsFor(Consumer, b)
    PROVE  Committing(b) \/ (b = Worker /\ \E d \in Device : WorkerHolds(d))
<1>1. Consumer \notin Client /\ Consumer # Worker
  BY NamesAssumption
<1>2. PICK d \in Device : Wants(Consumer, d, b)
  BY DEF WaitsFor
<1>3. rowLock[d] = b \/ (b = Worker /\ WorkerHolds(d))
  BY <1>1, <1>2 DEF Wants
<1>4. ASSUME rowLock[d] = b PROVE b \in Client
  BY <1>4, NamesAssumption DEF IInv, TypeOK, WaitsFor, Actor
<1> QED
  BY <1>3, <1>4 DEF LocksAreHeld, RequestsInHand, Committing

(* A request that owns the advisory lock of its device waits at most for    *)
(* the consumer: no other request gets that far.                            *)
LEMMA HolderWaits ==
    ASSUME IInv, LocksAreHeld, NEW c \in Client, request[c] # None, request[c].at = "row",
           NEW b \in Actor, WaitsFor(c, b)
    PROVE  b = Consumer
<1>1. PICK d \in Device : request[c].device = d /\ rowLock[d] = b
  <2>1. PICK d \in Device : Wants(c, d, b)
    BY DEF WaitsFor
  <2>2. c # Consumer /\ c # Worker
    BY NamesDistinct
  <2> QED
    BY <2>1, <2>2 DEF Wants, Cancelling
<1>2. mgmtLock[d] = c
  BY <1>1 DEF IInv, LocksProtect, RequestHoldsLocks
<1>3. ASSUME b \in Client PROVE FALSE
  <2>1. request[b] # None /\ request[b].device = d /\ request[b].at = "commit"
    BY <1>1, <1>3 DEF LocksAreHeld, RequestsInHand
  <2>2. mgmtLock[d] = b
    BY <1>3, <2>1 DEF IInv, LocksProtect, RequestHoldsLocks
  <2> QED
    BY <1>2, <2>2 DEF WaitsFor
<1>4. b # Worker
  BY <1>1, NamesAssumption DEF IInv, TypeOK
<1> QED
  BY <1>3, <1>4 DEF Actor

(* Who waits for an advisory lock waits for a request that owns it, or for  *)
(* the worker inside its guard.                                             *)
LEMMA LockWaits ==
    ASSUME IInv, LocksAreHeld, NEW b \in Actor, NEW d \in Device, mgmtLock[d] = b
    PROVE  \/ b \in Client /\ request[b] # None /\ request[b].at \in {"row", "commit"}
           \/ b = Worker /\ Guarded
BY NamesAssumption DEF IInv, TypeOK, Actor, LocksAreHeld, RequestsInHand, GuardInHand

(* Among any actors one waits for none of the others, for any devices and   *)
(* any number of requests under way.                                        *)
LEMMA WaitsEnd ==
    ASSUME IInv, LocksAreHeld
    PROVE  NoDeadlock
<1> SUFFICES ASSUME NEW S \in SUBSET Actor, S # {},
                    \A a \in S : \E b \in S : WaitsFor(a, b)
             PROVE  FALSE
  BY DEF NoDeadlock
<1>1. S \subseteq Actor
  OBVIOUS
<1>2. ASSUME Worker \in S, NEW d \in Device PROVE ~WorkerHolds(d)
  BY <1>2, HoldingWaitsForNobody
<1>3. \A c \in S : ~Committing(c)
  BY <1>2, CommittingWaits
<1>4. Consumer \notin S
  BY <1>1, <1>2, <1>3, ConsumerWaits
<1>5. \A c \in S \cap Client : request[c] # None => request[c].at # "row"
  <2> SUFFICES ASSUME NEW c \in S \cap Client, request[c] # None, request[c].at = "row"
               PROVE  FALSE
    OBVIOUS
  <2>1. PICK b \in S : WaitsFor(c, b)
    OBVIOUS
  <2>2. b = Consumer
    BY <1>1, <2>1, HolderWaits
  <2> QED
    BY <1>4, <2>2
<1>6. ~(Worker \in S /\ Guarded)
  BY NamesAssumption DEF WaitsFor, Wants, Guarded
<1>7. ASSUME NEW b \in S, NEW d \in Device PROVE mgmtLock[d] # b
  BY <1>1, <1>3, <1>5, <1>6, LockWaits DEF Committing
<1>8. PICK a \in S, b \in S : WaitsFor(a, b)
  OBVIOUS
<1>9. PICK d \in Device : Wants(a, d, b)
  BY <1>8 DEF WaitsFor
<1>10. CASE a = Worker
  <2>1. b \in Client /\ Cancelling(b)
    BY <1>7, <1>9, <1>10, NamesAssumption DEF Wants
  <2> QED
    BY <1>3, <2>1 DEF Cancelling, Committing
<1>11. CASE a \in Client
  <2>1. request[a] # None /\ request[a].at = "management" /\ mgmtLock[d] = b
    BY <1>3, <1>5, <1>9, <1>11, NamesDistinct DEF Wants, Cancelling, Committing
  <2> QED
    BY <1>7, <2>1
<1> QED
  BY <1>1, <1>4, <1>10, <1>11 DEF Actor

(* PostgreSQL never has a deadlock to break.                                *)
THEOREM NeverDeadlocked == Spec => []NoDeadlock
<1>1. IInv /\ LocksAreHeld => NoDeadlock
  BY WaitsEnd
<1> QED
  BY <1>1, Inductive, NoLockOutlives, PTL

(* Whoever the consumer waits for is about to commit, or waits only for the *)
(* worker that is, so that neither the SMTP dialogue nor a chain of requests *)
(* holds up consumption.                                                    *)
THEOREM ConsumptionUnblocked == Spec => []ConsumerWaitsBriefly
<1>1. IInv /\ LocksAreHeld => ConsumerWaitsBriefly
  <2> DEFINE CommitsNext == /\ worker \in {"claiming", "settling", "failing"}
                            /\ \A c \in Actor : ~WaitsFor(Worker, c)
  <2> SUFFICES ASSUME IInv, LocksAreHeld, NEW b \in Actor, WaitsFor(Consumer, b)
               PROVE  \/ b = Worker /\ CommitsNext
                      \/ b \in Client /\ \A c \in Actor : WaitsFor(b, c) => c = Worker /\ CommitsNext
    BY DEF ConsumerWaitsBriefly
  <2>1. ASSUME NEW d \in Device, WorkerHolds(d) PROVE CommitsNext
    BY <2>1, HoldingWaitsForNobody
  <2>2. CASE Committing(b)
    BY <2>1, <2>2, CommittingWaits DEF Committing
  <2>3. CASE b = Worker /\ \E d \in Device : WorkerHolds(d)
    BY <2>1, <2>3
  <2> QED
    BY <2>2, <2>3, ConsumerWaits
<1> QED
  BY <1>1, Inductive, NoLockOutlives, PTL
=============================================================================
