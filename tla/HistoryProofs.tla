--------------------------- MODULE HistoryProofs ---------------------------
(***************************************************************************)
(* Proofs about what the queue records: in which order mails are first     *)
(* tried, that flags are backed by warnings, that what ends a warning      *)
(* follows one, who withdraws a mail, and that the state of a deleted      *)
(* device stays as it is.                                                  *)
(***************************************************************************)
EXTENDS WorkerProofs, FunctionTheorems

(***************************************************************************)
(* The order of first attempts                                             *)
(***************************************************************************)

(* A mail not yet tried is due. *)
PendingIsDue == \A i \in DOMAIN queue : queue[i].status = "PENDING" => queue[i].due

(* What a step may do to a row that waits for its first attempt, and that   *)
(* no row comes to wait for one again.                                      *)
LEMMA PendingStep ==
    ASSUME IInv, [Next]_vars, NEW i \in DOMAIN queue
    PROVE  /\ queue'[i].status = "PENDING" =>
                 /\ queue[i].status = "PENDING"
                 /\ queue[i].due => queue'[i].due \/ "clock set back" \in FaultKind
           /\ queue[i].status = "PENDING" =>
                 \/ queue'[i].status \in {"PENDING", "CANCELLED"}
                 \/ worker = "claiming" /\ job = i
<1>0. TypeOK /\ queue[i] \in Job /\ (worker # "idle" => job \in DOMAIN queue)
  BY Counts DEF IInv, TypeOK
<1>1. CASE OthersAct
  <2>1. KeptByOthers(queue[i], queue'[i])
    BY <1>1 DEF OthersAct
  <2>2. CASE Cancelled(queue[i], queue'[i])
    BY <1>0, <2>2 DEF Cancelled, Job
  <2>3. CASE TakenUp(queue[i], queue'[i])
    BY <1>0, <2>3 DEF TakenUp, Job
  <2>4. CASE Retimed(queue[i], queue'[i])
    BY <1>0, <2>4 DEF Retimed, Job
  <2> QED
    BY <2>1, <2>2, <2>3, <2>4 DEF KeptByOthers
<1>2. CASE ClaimCommits \/ ClaimRaises
  BY <1>0, <1>2 DEF ClaimCommits, ClaimRaises, ClaimedRow, Job
<1>3. CASE SmtpAccepts \/ SmtpAnswerLost
  <2>1. queue' = [queue EXCEPT ![job].mails = @ + 1] /\ job \in DOMAIN queue
    BY <1>0, <1>3 DEF SmtpAccepts, SmtpAnswerLost, CountMail
  <2>2. queue'[i] = IF i = job THEN [queue[i] EXCEPT !.mails = queue[i].mails + 1] ELSE queue[i]
    BY <2>1
  <2>3. queue[i].due => queue'[i].due
    BY <1>0, <2>2 DEF Job
  <2>4. queue'[i].status = queue[i].status
    BY <1>0, <2>2 DEF Job
  <2> QED
    BY <2>3, <2>4
<1>4. CASE GuardCancels \/ MarkSentCommits \/ MarkSentUnacknowledged
  BY <1>0, <1>4 DEF GuardCancels, MarkSentCommits, MarkSentUnacknowledged, SettledRow, Job
<1>5. CASE MarkFailedCommits
  BY <1>0, <1>5 DEF MarkFailedCommits, FailedRow, FailedJob, Job
<1>6. CASE WorkerLeavesQueue
  BY <1>6, QueueLeft
<1> QED
  BY <1>1, <1>2, <1>3, <1>4, <1>5, <1>6, WhoActs DEF WorkerActs, WorkerLeavesQueue

(* A position before one of a sequence is one of it. *)
LEMMA PositionBefore ==
    ASSUME NEW m \in Nat, NEW n \in Nat, NEW i \in 1 .. m, NEW j \in 1 .. n, i < j
    PROVE  i \in 1 .. n /\ ~(j <= i)
  OBVIOUS

LEMMA PendingIsDueStep ==
    ASSUME IInv, PendingIsDue, [Next]_vars, "clock set back" \notin FaultKind
    PROVE  PendingIsDue'
<1>1. \A i \in DOMAIN queue : queue'[i].status = "PENDING" => queue'[i].due
  BY PendingStep DEF PendingIsDue
<1>2. \A i \in DOMAIN queue' \ DOMAIN queue : queue'[i].due
  BY AddedRows DEF IsNew
<1> QED
  BY <1>1, <1>2 DEF PendingIsDue

(* A request that is cancelling a row goes on to cancel it.                 *)
LEMMA CancellingStep ==
    ASSUME IInv, [Next]_vars, "change rolls back" \notin FaultKind,
           NEW i \in BeingCancelled, IsActive(queue'[i])
    PROVE  i \in BeingCancelled'
<1>0. TypeOK /\ RequestHoldsLocks /\ i \in DOMAIN queue /\ queue[i] \in Job
  BY Counts DEF IInv, LocksProtect, BeingCancelled
<1>1. i \in DOMAIN queue' /\ queue'[i].device = queue[i].device
  BY <1>0, QueueStep DEF UpdatedRows, ExtendedRows
<1> DEFINE d == queue[i].device
<1>2. PICK c \in Client : Cancelling(c) /\ request[c].device = d
  BY DEF BeingCancelled
<1>3. /\ request[c] # None /\ request[c].at = "commit" /\ device[d] # Target(request[c].op)
      /\ mgmtLock[d] = c /\ device[d] # None /\ d \in Device
  BY <1>0, <1>2 DEF Cancelling, RequestHoldsLocks, Job
<1>4. ~Manage(c)
  <2> SUFFICES ASSUME Manage(c) PROVE FALSE
    OBVIOUS
  <2>1. queue' = CancelledFor(queue, d)
    BY <1>2, <1>3 DEF Manage, tables
  <2>2. queue'[i].status = "CANCELLED"
    BY <1>0, <2>1 DEF CancelledFor, BeingCancelled, Job
  <2> QED
    BY <2>2 DEF IsActive, Active, Claimable
<1>5. ~ApiStep(c)
  BY <1>3, <1>4 DEF ApiStep, LockManagement, LockDeviceRow, Refuse, RollBack
<1>6. request'[c] = request[c] /\ device'[d] = device[d]
  <2>1. CASE ConsumerStep
    BY <1>3, <2>1, ConsumerKeepsDevices
  <2>2. ASSUME NEW b \in Client, b # c, ApiStep(b)
        PROVE  request'[c] = request[c] /\ device'[d] = device[d]
    <3>1. device'[d] = device[d]
      BY <1>3, <2>2, RequestKeepsDevices
    <3>2. request'[c] = request[c]
      BY <1>0, <2>2 DEF TypeOK, ApiStep, LockManagement, LockDeviceRow, Refuse, Manage, RollBack,
         EndRequest
    <3> QED
      BY <3>1, <3>2
  <2>3. CASE OtherStep
    <3>1. UNCHANGED device
      BY <1>0, <2>3, OthersKeep
    <3>2. request'[c] = request[c]
      BY <1>0, <1>3, <2>3 DEF TypeOK, OtherStep, Receive, WorkerStep, ClaimNext, ClaimCommits,
         ClaimRaises, GuardAdmits, GuardCancels, GuardRaises, SmtpAccepts, SmtpFails, MarkSent,
         MarkSentCommits, MarkSentUnacknowledged, MarkSentRaises, MarkFailed, MarkFailedCommits,
         BackoffElapses, ClockSetBack, FaultStep, SmtpAnswerLost, SessionLost, MarkFailedRaises,
         Crash, Restart, vars
    <3> QED
      BY <3>1, <3>2
  <2> QED
    BY <1>5, <2>1, <2>2, <2>3 DEF Next, OtherStep
<1> QED
  BY <1>1, <1>2, <1>3, <1>6 DEF BeingCancelled, Cancelling

(* The worker claims a row past untried ones only if these are being        *)
(* cancelled.                                                               *)
ClaimInOrder ==
    worker = "claiming" =>
        \A i \in DOMAIN queue : i < job /\ queue[i].status = "PENDING" => i \in BeingCancelled

LEMMA ClaimInOrderStep ==
    ASSUME IInv, PendingIsDue, ClaimInOrder, [Next]_vars, "change rolls back" \notin FaultKind
    PROVE  ClaimInOrder'
<1>0. TypeOK /\ queue \in Seq(Job) /\ queue' \in Seq(Job)
  BY AddedRows DEF IInv, TypeOK
<1> SUFFICES ASSUME worker' = "claiming", NEW i \in DOMAIN queue', i < job',
                    queue'[i].status = "PENDING"
             PROVE  i \in BeingCancelled'
  BY DEF ClaimInOrder
<1>1. ASSUME NEW n \in DOMAIN queue, ClaimNext(n)
      PROVE  i \in BeingCancelled'
  <2>1. UNCHANGED <<queue, device, request>> /\ job' = n /\ i \in DueIds(queue)
    BY <1>1 DEF ClaimNext, tables, PendingIsDue, DueIds, Claimable
  <2>2. PICK locked \in SUBSET BeingCancelled : IsOldestDue(queue, locked, n)
    BY <1>1 DEF ClaimNext
  <2>3. ~(n <= i)
    <3>1. i \in 1 .. Len(queue) /\ n \in 1 .. Len(queue) /\ Len(queue) \in Nat
      BY <1>0, <2>1, LenProperties DEF DueIds
    <3>2. i < n
      BY <2>1
    <3> QED
      BY <3>1, <3>2, PositionBefore
  <2>4. i \in BeingCancelled
    BY <2>1, <2>2, <2>3 DEF IsOldestDue
  <2>5. BeingCancelled' = BeingCancelled
    BY <2>1 DEF BeingCancelled, Cancelling
  <2> QED
    BY <2>4, <2>5
<1>2. ASSUME ~\E n \in DOMAIN queue : ClaimNext(n)
      PROVE  i \in BeingCancelled'
  <2>1. worker = "claiming" /\ job' = job
    BY <1>2, WhoActs DEF OthersAct, WorkerActs, ClaimCommits, ClaimRaises, GuardAdmits,
       GuardCancels, GuardRaises, SmtpAccepts, SmtpFails, SmtpAnswerLost, SessionLost, Guarded,
       MarkSent, MarkSentCommits, MarkSentUnacknowledged, MarkSentRaises, MarkFailed,
       MarkFailedCommits, MarkFailedRaises, Crash, ToIdle
  <2>2. i \in DOMAIN queue
    <3>1. /\ Len(queue) \in Nat /\ Len(queue') \in Nat
          /\ DOMAIN queue = 1 .. Len(queue) /\ DOMAIN queue' = 1 .. Len(queue')
      BY <1>0, LenProperties
    <3>2. job \in DOMAIN queue /\ i < job
      BY <1>0, <2>1, JobDevice
    <3> QED
      BY <3>1, <3>2, PositionBefore
  <2>3. queue[i].status = "PENDING"
    BY <2>2, PendingStep
  <2>4. i \in BeingCancelled
    BY <2>1, <2>2, <2>3 DEF ClaimInOrder
  <2> QED
    BY <2>4, CancellingStep DEF IsActive, Active, Claimable
<1> QED
  BY <1>1, <1>2

(* A claim passes over no untried row but those being cancelled, and these  *)
(* end CANCELLED.                                                           *)
LEMMA OrderStep ==
    ASSUME IInv, ClaimInOrder, FirstAttemptsInOrder, [Next]_vars,
           "change rolls back" \notin FaultKind
    PROVE  FirstAttemptsInOrder'
<1>0. queue \in Seq(Job) /\ queue' \in Seq(Job)
  BY AddedRows DEF IInv, TypeOK
<1> SUFFICES ASSUME NEW i \in DOMAIN queue', NEW j \in DOMAIN queue',
                    i < j, queue'[i].status = "PENDING", i \notin BeingCancelled'
             PROVE  queue'[j].status \in {"PENDING", "CANCELLED"}
  BY DEF FirstAttemptsInOrder
<1>1. CASE j \notin DOMAIN queue
  BY <1>1, AddedRows DEF IsNew
<1>2. CASE j \in DOMAIN queue
  <2>1. i \in DOMAIN queue
    <3>1. /\ Len(queue) \in Nat /\ Len(queue') \in Nat
          /\ DOMAIN queue = 1 .. Len(queue) /\ DOMAIN queue' = 1 .. Len(queue')
      BY <1>0, LenProperties
    <3> QED
      BY <1>2, <3>1, PositionBefore
  <2>2. queue[i].status = "PENDING"
    BY <2>1, PendingStep
  <2>3. i \notin BeingCancelled
    BY CancellingStep DEF IsActive, Active, Claimable
  <2>4. queue[j].status \in {"PENDING", "CANCELLED"}
    BY <1>2, <2>1, <2>2, <2>3 DEF FirstAttemptsInOrder
  <2>5. ~(worker = "claiming" /\ job = j)
    BY <2>1, <2>2, <2>3 DEF ClaimInOrder
  <2>6. CASE queue[j].status = "PENDING"
    BY <1>2, <2>5, <2>6, PendingStep
  <2>7. CASE queue[j].status = "CANCELLED"
    BY <1>2, <2>7, SettledStays DEF Terminal
  <2> QED
    BY <2>4, <2>6, <2>7
<1> QED
  BY <1>1, <1>2

LEMMA InitOrder == ASSUME Init PROVE PendingIsDue /\ ClaimInOrder /\ FirstAttemptsInOrder
<1>1. DOMAIN queue = {} /\ worker = "idle"
  BY EmptySeq DEF Init
<1> QED
  BY <1>1 DEF PendingIsDue, ClaimInOrder, FirstAttemptsInOrder

(***************************************************************************)
(* The state of a deleted device                                           *)
(***************************************************************************)
LEMMA FrozenStep ==
    ASSUME IInv, [Next]_vars, NEW d \in Device,
           device[d] # None, device[d].deleted, device'[d] = device[d]
    PROVE  state'[d] = state[d]
<1>0. TypeOK /\ RowsCurrent
  BY DEF IInv, LocksProtect
<1>1. ASSUME NEW mesResume \in BOOLEAN, NEW mesNotify \in BOOLEAN,
             ProcessHeartbeat(mesResume, mesNotify)
      PROVE  state'[d] = state[d]
  <2> DEFINE e == task.device
             new == SavedRow(e, task.signature, Allows(row[e]) /\ mesNotify)
  <2>1. state' = Saved(e, new) /\ rowLock[e] = Consumer /\ e \in Device
    BY <1>1 DEF ProcessHeartbeat, Heartbeat
  <2>2. e = d => row[e].deleted
    BY <1>0, <2>1 DEF RowsCurrent
  <2> HIDE DEF new
  <2> QED
    BY <1>0, <2>1, <2>2 DEF Saved, TypeOK
<1>2. ASSUME NEW silent \in SUBSET MayBeSilent, NEW mesAllows \in SUBSET silent,
             NotifyStale(silent, mesAllows)
      PROVE  state'[d] = state[d]
  <2>1. d \in silent => row[d] = device[d]
    BY <1>0, <1>2 DEF NotifyStale, ToLock, MayBeSilent, RowsCurrent
  <2>2. ~(d \in silent \cap mesAllows /\ Allows(row[d]))
    BY <2>1 DEF Allows
  <2> QED
    BY <1>2, <2>2 DEF NotifyStale, Marked
<1>3. ASSUME NEW c \in Client, Manage(c)
      PROVE  state'[d] = state[d]
  <2>1. request[c].device \in Device
    BY <1>0, <1>3 DEF Manage, TypeOK, Request
  <2>2. CASE UNCHANGED tables
    BY <2>2 DEF tables
  <2>3. CASE /\ device[request[c].device] # Target(request[c].op)
             /\ device' = [device EXCEPT ![request[c].device] = Target(request[c].op)]
             /\ state' = IF state[request[c].device] = None THEN state
                         ELSE [state EXCEPT ![request[c].device].stale = FALSE,
                                            ![request[c].device].alert = FALSE]
    <3>1. d # request[c].device
      BY <1>0, <2>1, <2>3 DEF TypeOK
    <3> QED
      BY <1>0, <2>1, <2>3, <3>1 DEF TypeOK
  <2> QED
    BY <1>3, <2>2, <2>3 DEF Manage
<1>4. ASSUME state'[d] # state[d]
      PROVE  Commits \/ \E c \in Client : Manage(c)
  BY <1>0, <1>4, OthersKeep DEF Commits, Next, OtherStep, ConsumerStep, Begin, LockStateRow,
     LockHeartbeatRow, ApiStep, LockManagement, LockDeviceRow, Refuse, RollBack, tables
<1> QED
  BY <1>1, <1>2, <1>3, <1>4 DEF Commits

(***************************************************************************)
(* Warnings                                                                *)
(***************************************************************************)

(* The table has a mail of this type for the device, in whatever status. *)
Warned(q, d, type) == \E i \in DOMAIN q : q[i].device = d /\ q[i].type = type

(* A flag that is set, in the table or in the copy load_all returned, was   *)
(* set with a warning.                                                      *)
FlagsWarned(q, f) ==
    \A d \in Device : f[d] # None =>
        /\ f[d].stale => Warned(q, d, "MISSING")
        /\ f[d].alert => Warned(q, d, "ALERT")

WarningsRecorded == FlagsWarned(queue, state) /\ FlagsWarned(queue, view)

(* No row leaves the table or changes its device or type. *)
LEMMA RowsStay ==
    ASSUME IInv, [Next]_vars
    PROVE  /\ queue \in Seq(Job) /\ queue' \in Seq(Job)
           /\ \A i \in DOMAIN queue :
                 /\ i \in DOMAIN queue'
                 /\ queue'[i].device = queue[i].device /\ queue'[i].type = queue[i].type
           /\ \A d, type : Warned(queue, d, type) => Warned(queue', d, type)
<1>1. TypeOK /\ queue \in Seq(Job)
  BY DEF IInv, TypeOK
<1>2. \A i \in DOMAIN queue :
         /\ i \in DOMAIN queue'
         /\ queue'[i].device = queue[i].device /\ queue'[i].type = queue[i].type
  BY <1>1, QueueStep DEF UpdatedRows, ExtendedRows
<1> QED
  BY <1>1, <1>2, QueueStep DEF Warned

(* An insertion leaves an active row with the key of the mail, its own or   *)
(* the one it duplicates.                                                   *)
LEMMA InsertedIsThere ==
    ASSUME NEW q \in Seq(Job), NEW new \in Job, new.status = "PENDING"
    PROVE  \E i \in DOMAIN Inserted(q, new) :
              /\ Inserted(q, new)[i].device = new.device
              /\ Inserted(q, new)[i].type = new.type
              /\ IsActive(Inserted(q, new)[i])
<1>1. CASE Duplicate(q, new)
  BY <1>1 DEF Duplicate, Inserted, SameKey
<1>2. CASE ~Duplicate(q, new)
  <2>1. Inserted(q, new) = Append(q, new) /\ Len(q) \in Nat
    BY <1>2, LenProperties DEF Inserted
  <2>2. Len(q) + 1 \in DOMAIN Append(q, new) /\ Append(q, new)[Len(q) + 1] = new
    BY <2>1, AppendProperties
  <2> QED
    BY <2>1, <2>2 DEF IsActive, Active, Claimable
<1> QED
  BY <1>1, <1>2

LEMMA InsertedAdds ==
    ASSUME NEW q \in Seq(Job), NEW new \in Job, NEW r, r = Inserted(q, new)
    PROVE  /\ \A i \in DOMAIN q : r[i] = q[i]
           /\ \A i \in DOMAIN r \ DOMAIN q : r[i] = new
<1>1. CASE Duplicate(q, new)
  BY <1>1 DEF Inserted
<1>2. CASE ~Duplicate(q, new)
  <2>1. r = Append(q, new) /\ DOMAIN q = 1 .. Len(q) /\ Len(q) \in Nat
    BY <1>2, LenProperties DEF Inserted
  <2> QED
    BY <2>1, AppendProperties
<1> QED
  BY <1>1, <1>2

(* A heartbeat announces an end only of what the state it read was flagged  *)
(* with, and flags a device as alerted only with an ALERT in the table.     *)
LEMMA HeartbeatWarns ==
    ASSUME TypeOK, NEW mesResume \in BOOLEAN, NEW mesNotify \in BOOLEAN,
           ProcessHeartbeat(mesResume, mesNotify)
    PROVE  /\ \A i \in DOMAIN queue' \ DOMAIN queue :
                 LET d == queue'[i].device IN
                  /\ d \in Device
                  /\ queue'[i].type = "RECEIVING" => view[d] # None /\ view[d].stale
                  /\ queue'[i].type = "RECOVERY" => view[d] # None /\ view[d].alert
           /\ Alerts(view[task.device], task.signature) /\ Allows(row[task.device]) /\ mesNotify
                 => Warned(queue', task.device, "ALERT")
<1> DEFINE d == task.device
           sig == task.signature
           allowed == Allows(row[d])
           resumed == IF Resumes(view[d]) /\ allowed /\ mesResume
                      THEN Inserted(queue, NewJob(d, "RECEIVING", sig)) ELSE queue
<1>1. queue \in Seq(Job) /\ d \in Device /\ sig \in Signature
  BY DEF TypeOK, ProcessHeartbeat, Heartbeat
<1>2. ASSUME NEW type \in Type
      PROVE  /\ NewJob(d, type, sig) \in Job /\ NewJob(d, type, sig).device = d
             /\ NewJob(d, type, sig).type = type /\ NewJob(d, type, sig).status = "PENDING"
  BY <1>1, NewJobType DEF NewJob
<1>3. /\ resumed \in Seq(Job) /\ DOMAIN queue \subseteq DOMAIN resumed
      /\ \A i \in DOMAIN resumed \ DOMAIN queue :
            /\ resumed[i].device = d /\ resumed[i].type = "RECEIVING"
            /\ Resumes(view[d])
  <2>1. CASE Resumes(view[d]) /\ allowed /\ mesResume
    BY <1>1, <1>2, <2>1, InsertedTable DEF Type
  <2>2. CASE ~(Resumes(view[d]) /\ allowed /\ mesResume)
    BY <1>1, <2>2
  <2> QED
    BY <2>1, <2>2
<1>4. \/ queue' = resumed /\ ~(allowed /\ mesNotify /\ Alerts(view[d], sig))
      \/ /\ queue' = Inserted(resumed, NewJob(d, "ALERT", sig))
      \/ /\ queue' = Inserted(resumed, NewJob(d, "RECOVERY", sig))
         /\ Recovers(view[d], sig)
  BY DEF ProcessHeartbeat
<1>5. Alerts(view[d], sig) => ~Recovers(view[d], sig)
  BY DEF Alerts, Recovers
<1>6. /\ Resumes(view[d]) => view[d] # None /\ view[d].stale
      /\ Recovers(view[d], sig) => view[d] # None /\ view[d].alert
  BY DEF Resumes, Recovers
<1> HIDE DEF resumed
<1>7. ASSUME NEW type \in Type, queue' = Inserted(resumed, NewJob(d, type, sig))
      PROVE  /\ \A i \in DOMAIN queue' \ DOMAIN resumed :
                   queue'[i].device = d /\ queue'[i].type = type
             /\ \A i \in DOMAIN resumed : queue'[i] = resumed[i]
             /\ Warned(queue', d, type)
  <2> DEFINE new == NewJob(d, type, sig)
  <2>1. new \in Job /\ new.device = d /\ new.type = type /\ new.status = "PENDING"
    BY <1>2
  <2>2. queue' = Inserted(resumed, new)
    BY <1>7
  <2> HIDE DEF new, d
  <2>3. /\ \A i \in DOMAIN resumed : queue'[i] = resumed[i]
        /\ \A i \in DOMAIN queue' \ DOMAIN resumed : queue'[i] = new
    <3>1. new \in Job /\ resumed \in Seq(Job)
      BY <1>3, <2>1
    <3> QED
      BY <2>2, <3>1, InsertedAdds
  <2>4. Warned(queue', d, type)
    BY <1>3, <2>1, <2>2, InsertedIsThere DEF Warned
  <2> QED
    BY <2>1, <2>3, <2>4
<1>8. CASE queue' = resumed /\ ~(allowed /\ mesNotify /\ Alerts(view[d], sig))
  BY <1>1, <1>3, <1>6, <1>8
<1>9. CASE queue' = Inserted(resumed, NewJob(d, "ALERT", sig))
  <2>1. /\ \A i \in DOMAIN queue' \ DOMAIN resumed :
               queue'[i].device = d /\ queue'[i].type = "ALERT"
        /\ \A i \in DOMAIN resumed : queue'[i] = resumed[i]
        /\ Warned(queue', d, "ALERT")
    BY <1>7, <1>9 DEF Type
  <2> QED
    BY <1>1, <1>3, <1>6, <2>1
<1>10. CASE queue' = Inserted(resumed, NewJob(d, "RECOVERY", sig)) /\ Recovers(view[d], sig)
  <2>1. /\ \A i \in DOMAIN queue' \ DOMAIN resumed :
               queue'[i].device = d /\ queue'[i].type = "RECOVERY"
        /\ \A i \in DOMAIN resumed : queue'[i] = resumed[i]
    BY <1>7, <1>10 DEF Type
  <2> QED
    BY <1>1, <1>3, <1>5, <1>6, <1>10, <2>1
<1> QED
  BY <1>4, <1>8, <1>9, <1>10

(* A stale check adds only MISSING rows, and leaves an active one for every *)
(* device it flags.                                                         *)
LEMMA StaleCheckWarns ==
    ASSUME TypeOK, NEW silent \in SUBSET MayBeSilent, NEW mesAllows \in SUBSET silent,
           NotifyStale(silent, mesAllows)
    PROVE  /\ \A i \in DOMAIN queue' \ DOMAIN queue : queue'[i].type = "MISSING"
           /\ \A d \in silent \cap mesAllows : Allows(row[d]) =>
                 \E i \in DOMAIN queue' :
                    queue'[i].device = d /\ queue'[i].type = "MISSING" /\ IsActive(queue'[i])
<1> DEFINE notified == {d \in silent \cap mesAllows : Allows(row[d])}
           missing(d) == NewJob(d, "MISSING", view[d].signature)
           fresh == {d \in notified : ~Duplicate(queue, missing(d))}
           n == Cardinality(fresh)
<1>1. queue \in Seq(Job)
  BY DEF TypeOK
<1>2. \A d \in silent : d \in Device /\ view[d] \in StateRow
  BY DEF MayBeSilent, TypeOK
<1>3. fresh \subseteq Device
  BY <1>2
<1>4. IsFiniteSet(fresh) /\ n \in Nat
  BY <1>3, DeviceAssumption, FS_Subset, FS_CardinalityType
<1>5. PICK f \in Listings(fresh) :
         queue' = queue \o [i \in 1 .. n |-> missing(f[i])]
  BY DEF NotifyStale
<1>6. /\ f \in [1 .. n -> fresh]
      /\ \A i, j \in 1 .. n : i < j => f[i] < f[j]
  BY <1>5 DEF Listings
<1> DEFINE added == [i \in 1 .. n |-> missing(f[i])]
<1>7. \A d \in silent :
         /\ missing(d) \in Job /\ missing(d).device = d
         /\ missing(d).type = "MISSING" /\ IsActive(missing(d))
  <2> SUFFICES ASSUME NEW d \in silent
               PROVE  /\ missing(d) \in Job /\ missing(d).device = d
                      /\ missing(d).type = "MISSING" /\ IsActive(missing(d))
    OBVIOUS
  <2>1. d \in Device /\ view[d].signature \in Signature
    BY <1>2 DEF StateRow
  <2>2. missing(d) \in Job
    BY <2>1, NewJobType DEF Type
  <2> QED
    BY <2>2 DEF NewJob, IsActive, Active, Claimable
<1>8. \A d \in fresh : \E i \in 1 .. n : f[i] = d
  <2>1. f \in Injection(1 .. n, fresh)
    <3>1. \A i, j \in 1 .. n : f[i] = f[j] => i = j
      <4> SUFFICES ASSUME NEW i \in 1 .. n, NEW j \in 1 .. n, f[i] = f[j] PROVE i = j
        OBVIOUS
      <4>1. f[i] \in Nat /\ f[j] \in Nat
        BY <1>3, <1>6, DeviceAssumption
      <4>2. ~(i < j) /\ ~(j < i)
        BY <1>6, <4>1
      <4> QED
        BY <1>4, <4>2
    <3> QED
      BY <1>6, <3>1, Fun_IsInj
  <2>2. IsFiniteSet(1 .. n) /\ Cardinality(1 .. n) = n
    BY <1>4, FS_Interval
  <2>3. f \in Surjection(1 .. n, fresh)
    BY <1>4, <2>1, <2>2, FS_Injection
  <2> QED
    BY <2>3 DEF Surjection
<1>9. fresh \subseteq silent
  OBVIOUS
<1>10. \A d \in notified : d \in silent /\ (d \notin fresh => Duplicate(queue, missing(d)))
  OBVIOUS
<1> HIDE DEF fresh, missing
<1>11. /\ added \in [1 .. n -> Job]
       /\ \A i \in 1 .. n : added[i] = missing(f[i]) /\ f[i] \in silent
  BY <1>6, <1>7, <1>9
<1>12. added \in Seq(Job) /\ Len(added) = n
  BY <1>4, <1>11, SeqDef
<1> HIDE DEF added
<1>13. /\ queue \o added \in Seq(Job)
       /\ Len(queue \o added) = Len(queue) + n
       /\ \A i \in 1 .. Len(queue) + n :
             (queue \o added)[i] = IF i <= Len(queue) THEN queue[i] ELSE added[i - Len(queue)]
  BY <1>1, <1>12, ConcatProperties
<1>14. queue' = queue \o added
  BY <1>5 DEF added
<1>15. DOMAIN queue = 1 .. Len(queue) /\ Len(queue) \in Nat
  BY <1>1, LenProperties
<1>16. DOMAIN queue' = 1 .. Len(queue) + n
  BY <1>13, <1>14, LenProperties
<1>17. ASSUME NEW i \in DOMAIN queue' \ DOMAIN queue PROVE queue'[i].type = "MISSING"
  <2>1. i \in 1 .. Len(queue) + n /\ ~(i <= Len(queue)) /\ i - Len(queue) \in 1 .. n
    BY <1>4, <1>15, <1>16
  <2>2. queue'[i] = missing(f[i - Len(queue)]) /\ f[i - Len(queue)] \in silent
    BY <1>11, <1>13, <1>14, <2>1
  <2> QED
    BY <1>7, <2>2
<1>18. ASSUME NEW d \in notified
       PROVE  \E i \in DOMAIN queue' :
                 queue'[i].device = d /\ queue'[i].type = "MISSING" /\ IsActive(queue'[i])
  <2>1. CASE d \in fresh
    <3>1. PICK k \in 1 .. n : f[k] = d
      BY <1>8, <2>1
    <3>2. Len(queue) + k \in 1 .. Len(queue) + n /\ ~(Len(queue) + k <= Len(queue))
          /\ (Len(queue) + k) - Len(queue) = k
      BY <1>4, <1>15
    <3>3. queue'[Len(queue) + k] = missing(d)
      BY <1>11, <1>13, <1>14, <3>1, <3>2
    <3> QED
      BY <1>7, <1>10, <1>16, <3>2, <3>3
  <2>2. CASE d \notin fresh
    <3>1. Duplicate(queue, missing(d)) /\ d \in silent
      BY <1>10, <2>2
    <3>2. PICK i \in DOMAIN queue : IsActive(queue[i]) /\ SameKey(queue[i], missing(d))
      BY <3>1 DEF Duplicate
    <3>3. queue'[i] = queue[i] /\ i \in DOMAIN queue'
      BY <1>4, <1>13, <1>14, <1>15, <1>16
    <3> QED
      BY <1>7, <3>1, <3>2, <3>3 DEF SameKey
  <2> QED
    BY <2>1, <2>2
<1> QED
  BY <1>17, <1>18

(* What a step may do to the flags of a device in the table. *)
LEMMA StateStep ==
    ASSUME IInv, [Next]_vars, NEW d \in Device, state'[d] # state[d]
    PROVE  \/ \E mesResume, mesNotify \in BOOLEAN :
                 /\ ProcessHeartbeat(mesResume, mesNotify) /\ d = task.device
                 /\ state'[d] = SavedRow(d, task.signature, Allows(row[d]) /\ mesNotify)
           \/ \E silent \in SUBSET MayBeSilent : \E mesAllows \in SUBSET silent :
                 /\ NotifyStale(silent, mesAllows)
                 /\ d \in silent \cap mesAllows /\ Allows(row[d])
                 /\ state[d] # None /\ state'[d] = [state[d] EXCEPT !.stale = TRUE]
           \/ /\ \E c \in Client : Manage(c)
              /\ state[d] # None
              /\ state'[d] = [state[d] EXCEPT !.stale = FALSE, !.alert = FALSE]
<1>0. TypeOK /\ RowsCurrent
  BY DEF IInv, LocksProtect
<1>1. ASSUME NEW mesResume \in BOOLEAN, NEW mesNotify \in BOOLEAN,
             ProcessHeartbeat(mesResume, mesNotify)
      PROVE  /\ d = task.device
             /\ state'[d] = SavedRow(d, task.signature, Allows(row[d]) /\ mesNotify)
  <2> DEFINE e == task.device
             new == SavedRow(e, task.signature, Allows(row[e]) /\ mesNotify)
  <2>1. state' = Saved(e, new) /\ e \in Device
    BY <1>1 DEF ProcessHeartbeat, Heartbeat
  <2>2. e = d /\ state'[d] = new
    <3> HIDE DEF new
    <3> QED
      BY <1>0, <2>1 DEF Saved, TypeOK
  <2> QED
    BY <2>2
<1>2. ASSUME NEW silent \in SUBSET MayBeSilent, NEW mesAllows \in SUBSET silent,
             NotifyStale(silent, mesAllows)
      PROVE  /\ d \in silent \cap mesAllows /\ Allows(row[d])
             /\ state[d] # None /\ state'[d] = [state[d] EXCEPT !.stale = TRUE]
  <2>1. d \in silent \cap mesAllows /\ Allows(row[d]) /\ state'[d] = [state[d] EXCEPT !.stale = TRUE]
    BY <1>2 DEF NotifyStale, Marked
  <2>2. state[d] # None
    BY <1>0, <2>1 DEF MayBeSilent, RowsCurrent
  <2> QED
    BY <2>1, <2>2
<1>3. ASSUME NEW c \in Client, Manage(c)
      PROVE  state[d] # None /\ state'[d] = [state[d] EXCEPT !.stale = FALSE, !.alert = FALSE]
  <2>1. /\ state' = IF state[request[c].device] = None THEN state
                    ELSE [state EXCEPT ![request[c].device].stale = FALSE,
                                       ![request[c].device].alert = FALSE]
        /\ request[c].device \in Device
    BY <1>0, <1>3 DEF Manage, tables, TypeOK, Request
  <2>2. request[c].device = d /\ state[d] # None
    BY <1>0, <2>1 DEF TypeOK
  <2> QED
    BY <1>0, <2>1, <2>2 DEF TypeOK
<1>4. Commits \/ \E c \in Client : Manage(c)
  BY <1>0, OthersKeep DEF Commits, Next, OtherStep, ConsumerStep, Begin, LockStateRow,
     LockHeartbeatRow, ApiStep, LockManagement, LockDeviceRow, Refuse, RollBack, tables
<1> QED
  BY <1>1, <1>2, <1>3, <1>4 DEF Commits

(* A copy the consumer reads is one of the table, and it keeps it or drops  *)
(* it.                                                                      *)
LEMMA ViewStep ==
    ASSUME IInv, [Next]_vars, NEW d \in Device
    PROVE  view'[d] \in {None, view[d], state[d]}
<1>0. TypeOK
  BY DEF IInv
<1>1. CASE EndTransaction
  BY <1>1 DEF EndTransaction, Nothing
<1>2. ASSUME NEW t \in Heartbeat \cup {StaleCheck}, Begin(t) PROVE view'[d] \in {None, state[d]}
  BY <1>2 DEF Begin
<1>3. ASSUME NEW e \in Device, LockStateRow(e) PROVE view'[d] \in {None, view[d]}
  BY <1>0, <1>3 DEF LockStateRow, TypeOK
<1>4. CASE LockHeartbeatRow
  BY <1>4 DEF LockHeartbeatRow
<1>5. ASSUME NEW c \in Client, ApiStep(c) PROVE view' = view
  BY <1>5 DEF ApiStep, LockManagement, LockDeviceRow, Refuse, Manage, RollBack, consumerVars
<1>6. CASE OtherStep
  BY <1>0, <1>1, <1>6, OthersKeep
<1> QED
  BY <1>1, <1>2, <1>3, <1>4, <1>5, <1>6 DEF Next, OtherStep, ConsumerStep, ProcessHeartbeat,
     NotifyStale

LEMMA WarningsStep ==
    ASSUME IInv, WarningsRecorded, [Next]_vars
    PROVE  WarningsRecorded'
<1>0. TypeOK
  BY DEF IInv
<1>1. \A d, type : Warned(queue, d, type) => Warned(queue', d, type)
  BY RowsStay
<1>2. ASSUME NEW d \in Device, view'[d] # None
      PROVE  /\ view'[d].stale => Warned(queue', d, "MISSING")
             /\ view'[d].alert => Warned(queue', d, "ALERT")
  BY <1>1, <1>2, ViewStep DEF WarningsRecorded, FlagsWarned
<1>3. ASSUME NEW d \in Device, state'[d] # None
      PROVE  /\ state'[d].stale => Warned(queue', d, "MISSING")
             /\ state'[d].alert => Warned(queue', d, "ALERT")
  <2>1. CASE state'[d] = state[d]
    BY <1>1, <1>3, <2>1 DEF WarningsRecorded, FlagsWarned
  <2>2. ASSUME NEW mesResume \in BOOLEAN, NEW mesNotify \in BOOLEAN,
               ProcessHeartbeat(mesResume, mesNotify), d = task.device,
               state'[d] = SavedRow(d, task.signature, Allows(row[d]) /\ mesNotify)
        PROVE  ~state'[d].stale /\ (state'[d].alert => Warned(queue', d, "ALERT"))
    <3> DEFINE admitted == Allows(row[d]) /\ mesNotify
    <3>1. /\ ~state'[d].stale
          /\ state'[d].alert => AlertRegistered(view[d], task.signature, admitted)
      <4> SUFFICES ASSUME NEW a
                   PROVE  /\ ~SavedRow(d, task.signature, a).stale
                          /\ SavedRow(d, task.signature, a).alert
                                => AlertRegistered(view[d], task.signature, a)
        BY <2>2
      <4> QED
        BY Zenon DEF SavedRow
    <3>2. CASE Alerts(view[d], task.signature)
      <4>1. AlertRegistered(view[d], task.signature, admitted) => admitted
        BY <3>2, Zenon DEF AlertRegistered
      <4> QED
        BY <1>0, <2>2, <3>1, <3>2, <4>1, HeartbeatWarns
    <3>3. CASE ~Alerts(view[d], task.signature)
      <4>1. AlertRegistered(view[d], task.signature, admitted)
              => task.signature \notin UpSignature /\ view[d].alert
        BY <3>3, Zenon DEF AlertRegistered
      <4>2. task.signature \notin UpSignature => view[d] # None
        BY <3>3 DEF Alerts
      <4> QED
        BY <1>1, <3>1, <4>1, <4>2 DEF WarningsRecorded, FlagsWarned
    <3> QED
      BY <3>2, <3>3
  <2>3. ASSUME NEW silent \in SUBSET MayBeSilent, NEW mesAllows \in SUBSET silent,
               NotifyStale(silent, mesAllows), d \in silent \cap mesAllows, Allows(row[d]),
               state[d] # None, state'[d] = [state[d] EXCEPT !.stale = TRUE]
        PROVE  Warned(queue', d, "MISSING") /\ (state'[d].alert => Warned(queue', d, "ALERT"))
    <3>1. Warned(queue', d, "MISSING")
      BY <1>0, <2>3, StaleCheckWarns DEF Warned
    <3>2. state'[d].alert => state[d].alert
      BY <1>0, <2>3 DEF TypeOK, StateRow
    <3> QED
      BY <1>1, <2>3, <3>1, <3>2 DEF WarningsRecorded, FlagsWarned
  <2>4. CASE state[d] # None /\ state'[d] = [state[d] EXCEPT !.stale = FALSE, !.alert = FALSE]
    BY <1>0, <2>4 DEF TypeOK, StateRow
  <2> QED
    BY <2>1, <2>2, <2>3, <2>4, StateStep
<1> QED
  BY <1>2, <1>3 DEF WarningsRecorded, FlagsWarned

(* An end is queued only from a flag, which was set with its warning. *)
LEMMA EndsStep ==
    ASSUME IInv, WarningsRecorded, EndsFollowWarnings, [Next]_vars
    PROVE  EndsFollowWarnings'
<1>0. TypeOK /\ queue \in Seq(Job) /\ queue' \in Seq(Job)
  BY RowsStay DEF IInv
<1> SUFFICES ASSUME NEW j \in DOMAIN queue', queue'[j].type \in {"RECEIVING", "RECOVERY"}
             PROVE  \E i \in 1 .. j - 1 :
                       /\ queue'[i].device = queue'[j].device
                       /\ queue'[i].type = Announces(queue'[j].type)
  BY DEF EndsFollowWarnings
<1>1. CASE j \in DOMAIN queue
  <2>1. queue'[j].device = queue[j].device /\ queue'[j].type = queue[j].type
    BY <1>1, RowsStay
  <2>2. PICK i \in 1 .. j - 1 :
           queue[i].device = queue[j].device /\ queue[i].type = Announces(queue[j].type)
    BY <1>1, <2>1 DEF EndsFollowWarnings
  <2>3. i \in DOMAIN queue
    BY <1>0, <1>1, LenProperties
  <2> QED
    BY <2>1, <2>2, <2>3, RowsStay
<1>2. CASE j \notin DOMAIN queue
  <2>1. Commits
    BY <1>0, <1>2, QueueStep DEF UpdatedRows
  <2>2. PICK mesResume \in BOOLEAN, mesNotify \in BOOLEAN : ProcessHeartbeat(mesResume, mesNotify)
    BY <1>0, <1>2, <2>1, StaleCheckWarns DEF Commits
  <2> DEFINE d == queue'[j].device
  <2>3. /\ d \in Device
        /\ queue'[j].type = "RECEIVING" => view[d] # None /\ view[d].stale
        /\ queue'[j].type = "RECOVERY" => view[d] # None /\ view[d].alert
    BY <1>0, <1>2, <2>2, HeartbeatWarns
  <2>4. Warned(queue, d, Announces(queue'[j].type))
    BY <2>3 DEF WarningsRecorded, FlagsWarned, Announces
  <2>5. PICK i \in DOMAIN queue : queue[i].device = d /\ queue[i].type = Announces(queue'[j].type)
    BY <2>4 DEF Warned
  <2>6. i \in 1 .. j - 1
    BY <1>0, <1>2, LenProperties
  <2> QED
    BY <2>5, <2>6, RowsStay
<1> QED
  BY <1>1, <1>2

(* The guard never finds a row to cancel: whatever ended the monitoring of   *)
(* its device cancelled the row before, in the same transaction.            *)
LEMMA OnlyRequestsCancel ==
    ASSUME IInv, [Next]_vars, NEW i \in DOMAIN queue,
           queue[i].status # "CANCELLED", queue'[i].status = "CANCELLED"
    PROVE  \E c \in Client : Manage(c)
<1>0. TypeOK /\ ExcludedIsQuiet /\ queue[i] \in Job /\ queue[i].device \in Device
  <2>1. TypeOK /\ ExcludedIsQuiet
    BY DEF IInv
  <2>2. queue[i] \in Job
    BY <2>1, Counts
  <2> QED
    BY <2>1, <2>2 DEF Job
<1>1. ~GuardCancels
  <2> SUFFICES ASSUME GuardCancels PROVE FALSE
    OBVIOUS
  <2>1. /\ job \in DOMAIN queue /\ ~Deliverable /\ queue' = SettledRow(queue, job, "CANCELLED")
    BY <1>0 DEF GuardCancels, TypeOK
  <2>2. job = i /\ queue[i].status = "SENDING"
    BY <2>1 DEF SettledRow
  <2>3. ~Monitored(queue[i].device)
    BY <2>1, <2>2 DEF Deliverable
  <2> QED
    BY <1>0, <2>2, <2>3 DEF ExcludedIsQuiet, IsActive, Active
<1>2. ~Commits
  BY <1>0, CommitInserts DEF ExtendedRows
<1>3. ~UpdatesQueue
  <2> SUFFICES ASSUME UpdatesQueue PROVE FALSE
    OBVIOUS
  <2>1. CASE ClaimCommits \/ ClaimRaises
    BY <1>0, <2>1 DEF ClaimCommits, ClaimRaises, ClaimedRow, Job
  <2>2. CASE ClockStep
    BY <1>0, <2>2, ClockKeeps
  <2>3. CASE SmtpAccepts \/ SmtpAnswerLost
    <3>1. queue' = [queue EXCEPT ![job].mails = @ + 1] /\ job \in DOMAIN queue
      BY <1>0, <2>3 DEF SmtpAccepts, SmtpAnswerLost, CountMail, TypeOK
    <3>2. queue'[i] = IF i = job THEN [queue[i] EXCEPT !.mails = queue[i].mails + 1] ELSE queue[i]
      BY <3>1
    <3> QED
      BY <1>0, <3>2 DEF Job
  <2>4. CASE MarkSentCommits \/ MarkSentUnacknowledged
    BY <1>0, <2>4 DEF MarkSentCommits, MarkSentUnacknowledged, SettledRow, Job
  <2>5. CASE MarkFailedCommits
    BY <1>0, <2>5 DEF MarkFailedCommits, FailedRow, FailedJob, Job
  <2>6. CASE Restart
    BY <1>0, <2>6 DEF Restart, Recovered, Job
  <2> QED
    BY <1>1, <2>1, <2>2, <2>3, <2>4, <2>5, <2>6 DEF UpdatesQueue
<1> QED
  BY <1>2, <1>3, QueueUnchanged

(* A mail is cancelled only with the flag of its device cleared. *)
LEMMA CancelledUnflagged ==
    ASSUME IInv, [Next]_vars, NEW i \in DOMAIN queue,
           queue[i].status # "CANCELLED", queue'[i].status = "CANCELLED",
           state'[queue[i].device] # None
    PROVE  ~state'[queue[i].device].stale
<1> DEFINE d == queue[i].device
<1>0. TypeOK /\ d \in Device
  <2>1. TypeOK
    BY DEF IInv
  <2>2. queue[i] \in Job
    BY <2>1, Counts
  <2> QED
    BY <2>1, <2>2 DEF Job
<1>1. PICK c \in Client : Manage(c)
  BY OnlyRequestsCancel
<1> DEFINE e == request[c].device
<1>2. /\ e \in Device /\ device[e] # Target(request[c].op)
      /\ device' = [device EXCEPT ![e] = Target(request[c].op)]
      /\ queue' = CancelledFor(queue, e)
  BY <1>0, <1>1 DEF Manage, tables, TypeOK, Request
<1>3. e = d
  BY <1>2 DEF CancelledFor
<1>4. device'[d] # device[d]
  BY <1>0, <1>2, <1>3 DEF TypeOK
<1> QED
  BY <1>0, <1>1, <1>4, ManageQuiets

LEMMA BackedStep ==
    ASSUME IInv, StaleFlagBacked, [Next]_vars
    PROVE  StaleFlagBacked'
<1>0. TypeOK
  BY DEF IInv
<1> SUFFICES ASSUME NEW d \in Device, state'[d] # None, state'[d].stale
             PROVE  \E i \in DOMAIN queue' :
                       /\ queue'[i].device = d /\ queue'[i].type = "MISSING"
                       /\ queue'[i].status # "CANCELLED"
  BY DEF StaleFlagBacked
<1>1. CASE state'[d] = state[d]
  <2>1. PICK i \in DOMAIN queue :
           queue[i].device = d /\ queue[i].type = "MISSING" /\ queue[i].status # "CANCELLED"
    BY <1>1 DEF StaleFlagBacked
  <2>2. queue'[i].status # "CANCELLED"
    BY <2>1, CancelledUnflagged
  <2> QED
    BY <2>1, <2>2, RowsStay
<1>2. ASSUME NEW silent \in SUBSET MayBeSilent, NEW mesAllows \in SUBSET silent,
             NotifyStale(silent, mesAllows), d \in silent \cap mesAllows, Allows(row[d])
      PROVE  \E i \in DOMAIN queue' :
                queue'[i].device = d /\ queue'[i].type = "MISSING" /\ IsActive(queue'[i])
  BY <1>0, <1>2, StaleCheckWarns
<1>3. ~\E mesResume, mesNotify \in BOOLEAN :
         state'[d] = SavedRow(d, task.signature, Allows(row[d]) /\ mesNotify)
  <2>1. ASSUME NEW a PROVE ~SavedRow(d, task.signature, a).stale
    BY Zenon DEF SavedRow
  <2> QED
    BY <2>1
<1>4. ~(state[d] # None /\ state'[d] = [state[d] EXCEPT !.stale = FALSE, !.alert = FALSE])
  BY <1>0 DEF TypeOK, StateRow
<1> QED
  BY <1>1, <1>2, <1>3, <1>4, StateStep DEF IsActive, Active, Claimable

(***************************************************************************)
(* The flag of an alert and the status it is for                           *)
(***************************************************************************)
Alerted(q, d, sig) ==
    \E i \in DOMAIN q : q[i].device = d /\ q[i].type = "ALERT" /\ q[i].signature = sig

FlagsAlerted(q, f) ==
    \A d \in Device : f[d] # None /\ f[d].alert => Alerted(q, d, f[d].signature)

(* The copy load_all returned may be older than the table, but not older    *)
(* than the mails it speaks of.                                             *)
AlertsRecorded == FlagsAlerted(queue, state) /\ FlagsAlerted(queue, view)

LEMMA AlertsStay ==
    ASSUME IInv, [Next]_vars, NEW d, NEW sig, Alerted(queue, d, sig)
    PROVE  Alerted(queue', d, sig)
<1>1. TypeOK
  BY DEF IInv
<1>2. PICK i \in DOMAIN queue :
         queue[i].device = d /\ queue[i].type = "ALERT" /\ queue[i].signature = sig
  BY DEF Alerted
<1>3. /\ i \in DOMAIN queue' /\ queue'[i].device = queue[i].device
      /\ queue'[i].type = queue[i].type /\ queue'[i].signature = queue[i].signature
  BY <1>1, QueueStep DEF UpdatedRows, ExtendedRows
<1> QED
  BY <1>2, <1>3 DEF Alerted

(* An ALERT that is let through is in the table, or one with its status was *)
(* there before.                                                            *)
LEMMA HeartbeatAlerts ==
    ASSUME TypeOK, NEW mesResume \in BOOLEAN, NEW mesNotify \in BOOLEAN,
           ProcessHeartbeat(mesResume, mesNotify),
           Alerts(view[task.device], task.signature), Allows(row[task.device]), mesNotify
    PROVE  Alerted(queue', task.device, task.signature)
<1> DEFINE d == task.device
           sig == task.signature
           resumed == IF Resumes(view[d]) /\ Allows(row[d]) /\ mesResume
                      THEN Inserted(queue, NewJob(d, "RECEIVING", sig)) ELSE queue
           new == NewJob(d, "ALERT", sig)
<1>1. queue \in Seq(Job) /\ d \in Device /\ sig \in Signature
  BY DEF TypeOK, ProcessHeartbeat, Heartbeat
<1>2. NewJob(d, "RECEIVING", sig) \in Job /\ new \in Job
  BY <1>1, NewJobType DEF Type
<1>3. resumed \in Seq(Job)
  BY <1>1, <1>2, InsertedTable
<1>4. queue' = Inserted(resumed, new)
  <2>1. \/ queue' = resumed /\ ~(Allows(row[d]) /\ mesNotify /\ Alerts(view[d], sig))
        \/ queue' = Inserted(resumed, new)
        \/ /\ queue' = Inserted(resumed, NewJob(d, "RECOVERY", sig))
           /\ Recovers(view[d], sig)
    BY DEF ProcessHeartbeat
  <2>2. ~Recovers(view[d], sig)
    BY DEF Alerts, Recovers
  <2> QED
    BY <2>1, <2>2
<1>5. new.device = d /\ new.type = "ALERT" /\ new.signature = sig
  BY DEF NewJob
<1> HIDE DEF resumed, new, d, sig
<1>6. CASE Duplicate(resumed, new)
  BY <1>4, <1>5, <1>6 DEF Duplicate, Inserted, SameKey, Alerted, d, sig
<1>7. CASE ~Duplicate(resumed, new)
  <2>1. queue' = Append(resumed, new) /\ Len(resumed) \in Nat
    BY <1>3, <1>4, <1>7, LenProperties DEF Inserted
  <2>2. Len(resumed) + 1 \in DOMAIN queue' /\ queue'[Len(resumed) + 1] = new
    BY <1>2, <1>3, <2>1, AppendProperties
  <2> QED
    BY <1>5, <2>2 DEF Alerted, d, sig
<1> QED
  BY <1>6, <1>7

(* A device keeps the flag only while its status stays, and gets it with a   *)
(* mail.                                                                    *)
LEMMA AlertsStep ==
    ASSUME IInv, AlertsRecorded, [Next]_vars
    PROVE  AlertsRecorded'
<1>0. TypeOK
  BY DEF IInv
<1>1. ASSUME NEW d \in Device, view'[d] # None, view'[d].alert
      PROVE  Alerted(queue', d, view'[d].signature)
  BY <1>1, ViewStep, AlertsStay DEF AlertsRecorded, FlagsAlerted
<1>2. ASSUME NEW d \in Device, state'[d] # None, state'[d].alert
      PROVE  Alerted(queue', d, state'[d].signature)
  <2>1. CASE state'[d] = state[d]
    BY <1>2, <2>1, AlertsStay DEF AlertsRecorded, FlagsAlerted
  <2>2. ASSUME NEW mesResume \in BOOLEAN, NEW mesNotify \in BOOLEAN,
               ProcessHeartbeat(mesResume, mesNotify), d = task.device,
               state'[d] = SavedRow(d, task.signature, Allows(row[d]) /\ mesNotify)
        PROVE  Alerted(queue', d, state'[d].signature)
    <3> DEFINE admitted == Allows(row[d]) /\ mesNotify
    <3>1. /\ state'[d].signature = task.signature
          /\ state'[d].alert => AlertRegistered(view[d], task.signature, admitted)
      <4> SUFFICES ASSUME NEW a
                   PROVE  /\ SavedRow(d, task.signature, a).signature = task.signature
                          /\ SavedRow(d, task.signature, a).alert
                                => AlertRegistered(view[d], task.signature, a)
        BY <2>2
      <4> QED
        BY Zenon DEF SavedRow
    <3>2. CASE Alerts(view[d], task.signature)
      <4>1. AlertRegistered(view[d], task.signature, admitted) => admitted
        BY <3>2, Zenon DEF AlertRegistered
      <4>2. Allows(row[d]) /\ mesNotify
        BY <1>2, <3>1, <4>1, Zenon
      <4> QED
        BY <1>0, <2>2, <3>1, <3>2, <4>2, HeartbeatAlerts
    <3>3. CASE ~Alerts(view[d], task.signature)
      <4>1. AlertRegistered(view[d], task.signature, admitted)
              => task.signature \notin UpSignature /\ view[d].alert
        BY <3>3, Zenon DEF AlertRegistered
      <4>2. task.signature \notin UpSignature /\ view[d].alert
        BY <1>2, <3>1, <4>1, Zenon
      <4>3. view[d] # None /\ view[d].signature = task.signature
        BY <3>3, <4>2 DEF Alerts
      <4>4. Alerted(queue, d, task.signature)
        BY <4>2, <4>3 DEF AlertsRecorded, FlagsAlerted
      <4> QED
        BY <3>1, <4>4, AlertsStay
    <3> QED
      BY <3>2, <3>3
  <2>3. CASE state[d] # None /\ state'[d] = [state[d] EXCEPT !.stale = TRUE]
    <3>1. state'[d].alert = state[d].alert /\ state'[d].signature = state[d].signature
      BY <1>0, <2>3 DEF TypeOK, StateRow
    <3>2. state[d].alert
      BY <1>2, <3>1, Zenon
    <3> QED
      BY <2>3, <3>1, <3>2, AlertsStay DEF AlertsRecorded, FlagsAlerted
  <2>4. CASE state[d] # None /\ state'[d] = [state[d] EXCEPT !.stale = FALSE, !.alert = FALSE]
    BY <1>0, <1>2, <2>4 DEF TypeOK, StateRow
  <2> QED
    BY <2>1, <2>2, <2>3, <2>4, StateStep
<1> QED
  BY <1>1, <1>2 DEF AlertsRecorded, FlagsAlerted

(* Without requests no mail is ever cancelled. *)
NoneCancelled == \A i \in DOMAIN queue : queue[i].status # "CANCELLED"

LEMMA NoneCancelledStep ==
    ASSUME Client = {}, IInv, NoneCancelled, [Next]_vars
    PROVE  NoneCancelled'
<1> SUFFICES ASSUME NEW i \in DOMAIN queue' PROVE queue'[i].status # "CANCELLED"
  BY DEF NoneCancelled
<1>1. CASE i \in DOMAIN queue
  BY <1>1, OnlyRequestsCancel DEF NoneCancelled
<1>2. CASE i \notin DOMAIN queue
  BY <1>2, AddedRows DEF IsNew
<1> QED
  BY <1>1, <1>2

(***************************************************************************)
(* Theorems                                                                *)
(***************************************************************************)

(* Whatever fails and restarts, mails are first tried in the order in which *)
(* they were queued, but for those that are being cancelled.  Two things    *)
(* would break it: a wall clock that is set back, which makes an untried    *)
(* mail wait, and a request that rolls back after claim_next skipped the    *)
(* rows it had locked.                                                      *)
THEOREM TriedInOrder ==
    ASSUME FaultKind \cap {"clock set back", "change rolls back"} = {}
    PROVE  Spec => []FirstAttemptsInOrder
<1>0. "clock set back" \notin FaultKind /\ "change rolls back" \notin FaultKind
  OBVIOUS
<1>1. Init => PendingIsDue /\ ClaimInOrder /\ FirstAttemptsInOrder
  BY InitOrder
<1>2. IInv /\ PendingIsDue /\ ClaimInOrder /\ FirstAttemptsInOrder /\ [Next]_vars
         => PendingIsDue' /\ ClaimInOrder' /\ FirstAttemptsInOrder'
  BY <1>0, PendingIsDueStep, ClaimInOrderStep, OrderStep
<1> QED
  BY <1>1, <1>2, Inductive, PTL DEF Spec

(* No transaction under way changes the state of a device once its deletion *)
(* has committed.                                                           *)
THEOREM DeletedStaysFrozen == Spec => DeletedIsFrozen
<1>1. IInv /\ [Next]_vars =>
         [\A d \in Device :
             device[d] # None /\ device[d].deleted /\ device'[d] = device[d] =>
                 state'[d] = state[d]]_vars
  BY FrozenStep
<1> QED
  BY <1>1, Inductive, PTL DEF Spec, DeletedIsFrozen

(* A flag that is set, in the table or in the copy that load_all made of it, *)
(* has its warning among the rows of the queue.                             *)
THEOREM WarningsAreRecorded == Spec => []WarningsRecorded
<1>1. Init => WarningsRecorded
  BY DEF Init, Nothing, WarningsRecorded, FlagsWarned
<1>2. IInv /\ WarningsRecorded /\ [Next]_vars => WarningsRecorded'
  BY WarningsStep
<1> QED
  BY <1>1, <1>2, Inductive, PTL DEF Spec

(* No RECEIVING without an earlier MISSING, no RECOVERY without an earlier  *)
(* ALERT, of the same device.                                               *)
THEOREM EndsComeLater == Spec => []EndsFollowWarnings
<1>1. Init => EndsFollowWarnings
  BY EmptySeq DEF Init, EndsFollowWarnings
<1>2. IInv /\ WarningsRecorded /\ EndsFollowWarnings /\ [Next]_vars => EndsFollowWarnings'
  BY EndsStep
<1> QED
  BY <1>1, <1>2, Inductive, WarningsAreRecorded, PTL DEF Spec

(* Whatever is cancelled while a stale check is under way, the flag of a    *)
(* missing device has a MISSING mail behind it.                             *)
THEOREM FlagsAreBacked == Spec => []StaleFlagBacked
<1>1. Init => StaleFlagBacked
  BY DEF Init, Nothing, StaleFlagBacked
<1>2. IInv /\ StaleFlagBacked /\ [Next]_vars => StaleFlagBacked'
  BY BackedStep
<1> QED
  BY <1>1, <1>2, Inductive, PTL DEF Spec

(* The alert flag of a device speaks of a mail for the status it reports,   *)
(* even if the API changed the device while the heartbeat was processed.    *)
THEOREM AlertsAreQueued == Spec => []AlertWasQueued
<1>1. Init => AlertsRecorded
  BY DEF Init, Nothing, AlertsRecorded, FlagsAlerted
<1>2. IInv /\ AlertsRecorded /\ [Next]_vars => AlertsRecorded'
  BY AlertsStep
<1>3. AlertsRecorded => AlertWasQueued
  BY DEF AlertsRecorded, FlagsAlerted, Alerted, AlertWasQueued
<1> QED
  BY <1>1, <1>2, <1>3, Inductive, PTL DEF Spec

(* Every mail that is withdrawn is withdrawn by a request that changed its   *)
(* device: the branch of delivery_guard that cancels finds no row to cancel. *)
THEOREM CancelledByRequests ==
    Spec => [][\A i \in DOMAIN queue :
                  queue[i].status # "CANCELLED" /\ queue'[i].status = "CANCELLED" =>
                      \E c \in Client : Manage(c)]_vars
<1>1. IInv /\ [Next]_vars =>
         [\A i \in DOMAIN queue :
             queue[i].status # "CANCELLED" /\ queue'[i].status = "CANCELLED" =>
                 \E c \in Client : Manage(c)]_vars
  BY OnlyRequestsCancel
<1> QED
  BY <1>1, Inductive, PTL DEF Spec

(* The run lost_alert shows a flag whose mail was cancelled.  Only a         *)
(* request of the API can bring that about: no failure of the worker, of    *)
(* its session or of the process does.                                      *)
THEOREM OnlyRequestsLoseAlerts ==
    ASSUME Client = {}
    PROVE  Spec => []AlertFlagBacked
<1>1. Init => NoneCancelled
  BY EmptySeq DEF Init, NoneCancelled
<1>2. IInv /\ NoneCancelled /\ [Next]_vars => NoneCancelled'
  BY NoneCancelledStep
<1>3. AlertWasQueued /\ NoneCancelled => AlertFlagBacked
  BY DEF AlertWasQueued, NoneCancelled, AlertFlagBacked
<1> QED
  BY <1>1, <1>2, <1>3, Inductive, AlertsAreQueued, PTL DEF Spec
=============================================================================
