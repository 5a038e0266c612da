------------------------------ MODULE Delivery ------------------------------
(***************************************************************************)
(* What the consumer thread, the SMTP worker thread and the management API *)
(* do to the PostgreSQL tables they share: devices, device_states and      *)
(* notification_queue.  The consumer and the worker live in one process    *)
(* that may crash and restart; each API request runs in another process.   *)
(*                                                                         *)
(* The granularity is that of READ COMMITTED.  A transaction is a sequence *)
(* of steps up to its commit: the snapshot its first SELECT reads, each    *)
(* lock it may wait for, and the commit, which publishes all its writes.   *)
(* Statements that touch only rows the transaction has locked, or wait for *)
(* no more than a transaction that is about to commit, are part of the     *)
(* commit step, which then waits.                                          *)
(*                                                                         *)
(* Left open, as inputs: which heartbeats arrive, whether MES lets a mail  *)
(* through, which devices have been silent for the threshold, whether the  *)
(* Kafka gate is open, what the SMTP server answers, what the API is asked *)
(* to do.                                                                  *)
(***************************************************************************)
EXTENDS NotificationQueue

CONSTANTS
    Client,        \* the API requests that may be under way at one time
    Consumer,      \* the consumer, as owner of row locks
    Worker,        \* the worker, as owner of a management lock
    None,          \* no row, no owner, nothing under way
    StaleCheck,    \* the task of _notify_stale_devices
    MaxJobs,       \* bound: no consumer transaction begins at this queue length
    FaultKind,     \* the kinds of fault that may happen
    MaxFaults      \* bound on how many of them do

DeviceRow == [enabled : BOOLEAN, deleted : BOOLEAN]
StateRow == [signature : Signature, stale : BOOLEAN, alert : BOOLEAN]
Heartbeat == [device : Device, signature : Signature]
Operation == {"enable", "disable", "delete", "restore"}
Request == [op : Operation, device : Device, at : {"management", "row", "commit"}]

ASSUME NamesAssumption ==
    /\ {Consumer, Worker, None} \cap Client = {}
    /\ Consumer # None /\ Worker # None /\ Consumer # Worker
    /\ None \notin DeviceRow \cup StateRow \cup Request \cup Heartbeat
    /\ StaleCheck # None /\ StaleCheck \notin Heartbeat
ASSUME BoundsAssumption == MaxJobs \in Nat /\ MaxFaults \in Nat

VARIABLES
    device,        \* devices: the committed row of each device, or None
    state,         \* device_states: the committed row of each device, or None
    queue,         \* notification_queue
    mgmtLock,      \* owner of each device's advisory lock
    rowLock,       \* owner of each devices row locked FOR UPDATE
    up,            \* does the consumer process run?
    task,          \* what the consumer's open transaction is for, or None
    view,          \* device_states as load_all returns it
    row,           \* devices rows as the consumer read them under its locks
    worker,        \* where the worker is in process_once
    job,           \* id of the claimed row, 0 for none
    attempts,      \* attempt_count as claim_next read it
    session,       \* is the database session of delivery_guard alive?
    request,       \* what each API request is doing, or None
    faults         \* faults so far

tables == <<device, state, queue>>
consumerVars == <<task, view, row, rowLock>>
workerVars == <<worker, job, attempts, session>>
vars == <<device, state, queue, mgmtLock, rowLock, up, task, view, row,
          worker, job, attempts, session, request, faults>>

(***************************************************************************)
(* Rows                                                                    *)
(***************************************************************************)
NewDevice == [enabled |-> TRUE, deleted |-> FALSE]
IsLive(d) == device[d] # None /\ ~device[d].deleted
Allows(r) == r # None /\ r.enabled /\ ~r.deleted
Monitored(d) == Allows(device[d])
Nothing == [d \in Device |-> None]

Fault(kind) == kind \in FaultKind /\ faults < MaxFaults /\ faults' = faults + 1

Target(op) ==
    CASE op = "enable" -> [enabled |-> TRUE, deleted |-> FALSE]
      [] op \in {"disable", "restore"} -> [enabled |-> FALSE, deleted |-> FALSE]
      [] op = "delete" -> [enabled |-> FALSE, deleted |-> TRUE]

(***************************************************************************)
(* Row locks in notification_queue.  They are those of updates that are    *)
(* not committed yet, so what a transaction is in the middle of says which *)
(* rows it has locked.                                                     *)
(***************************************************************************)

(* The guard's transaction is open, unless its session was lost. *)
Guarded == worker \in {"smtp", "accepted", "settling"}

(* The worker has locked the row and is about to commit.  The update of    *)
(* mark_failed meets no row that is not SENDING, and the end of the        *)
(* session undoes that of mark_sent.                                       *)
HeldByWorker(i) ==
    /\ job = i
    /\ \/ worker = "claiming"
       \/ worker = "settling" /\ session
       \/ worker = "failing" /\ queue[i].status = "SENDING"

(* A request that updates the queue, and the rows the requests have to     *)
(* lock, one by one.  Which of them they have locked by now is left open.  *)
Cancelling(c) ==
    /\ request[c] # None /\ request[c].at = "commit"
    /\ device[request[c].device] # Target(request[c].op)

BeingCancelled ==
    {i \in DOMAIN queue :
        /\ IsActive(queue[i])
        /\ \E c \in Client : Cancelling(c) /\ request[c].device = queue[i].device}

(* Nothing makes the INSERT of the job wait. *)
Insertable(new) == \A i \in DOMAIN queue : HeldByWorker(i) => ~SameKey(queue[i], new)

Init ==
    /\ device = Nothing /\ state = Nothing /\ queue = <<>>
    /\ mgmtLock = Nothing /\ rowLock = Nothing
    /\ up = TRUE
    /\ task = None /\ view = Nothing /\ row = Nothing
    /\ worker = "idle" /\ job = 0 /\ attempts = 0 /\ session = TRUE
    /\ request = [c \in Client |-> None]
    /\ faults = 0

(***************************************************************************)
(* The consumer.  Every transaction starts with load_all: one snapshot     *)
(* joins the two tables, then FOR UPDATE OF d locks the devices rows one   *)
(* by one.  A row that changed since the snapshot is read again, and its   *)
(* device_states half is not.                                              *)
(***************************************************************************)
Begin(t) ==
    /\ up /\ task = None /\ Len(queue) < MaxJobs
    /\ task' = t
    /\ view' = [d \in Device |-> IF IsLive(d) THEN state[d] ELSE None]
    /\ UNCHANGED <<tables, mgmtLock, rowLock, up, row, workerVars, request, faults>>

ToLock == {d \in Device : view[d] # None /\ rowLock[d] # Consumer}

LockStateRow(d) ==
    /\ task # None
    /\ d \in ToLock /\ \A e \in ToLock : d <= e
    /\ rowLock[d] = None
    /\ rowLock' = [rowLock EXCEPT ![d] = Consumer]
    /\ row' = [row EXCEPT ![d] = device[d]]
    /\ view' = [view EXCEPT ![d] = IF device[d].deleted THEN None ELSE @]
    /\ UNCHANGED <<tables, mgmtLock, up, task, workerVars, request, faults>>

(* monitoring_allowed for a device load_all did not lock: one never heard   *)
(* of, one with no state yet, or a deleted one.                             *)
LockHeartbeatRow ==
    /\ task \in Heartbeat /\ ToLock = {}
    /\ LET d == task.device IN
        /\ rowLock[d] = None
        /\ rowLock' = [rowLock EXCEPT ![d] = Consumer]
        /\ row' = [row EXCEPT ![d] = IF device[d] = None THEN NewDevice ELSE device[d]]
    /\ UNCHANGED <<tables, mgmtLock, up, task, view, workerVars, request, faults>>

EndTransaction ==
    /\ task' = None /\ view' = Nothing /\ row' = Nothing
    /\ rowLock' = [d \in Device |-> IF rowLock[d] = Consumer THEN None ELSE rowLock[d]]

(* Slip: every heartbeat of a known device announces a resumption. *)
ResumesAlways(prev) == prev # None

(* The decisions of _process_state, from the state load_all returned. *)
Resumes(prev) == prev # None /\ prev.stale

(* Slip: a device that is alerted already stays so without a new mail. *)
AlertsOnce(prev, sig) == sig \notin UpSignature /\ (prev = None \/ ~prev.alert)

Alerts(prev, sig) ==
    /\ sig \notin UpSignature
    /\ prev = None \/ prev.signature # sig \/ ~prev.alert

Recovers(prev, sig) ==
    /\ sig \in UpSignature
    /\ prev # None /\ prev.signature \notin UpSignature /\ prev.alert

AlertRegistered(prev, sig, admitted) ==
    /\ sig \notin UpSignature
    /\ IF Alerts(prev, sig) THEN admitted ELSE prev.alert

(* Slip: save stores the flag without asking whether the device is monitored. *)
SavedRowUngated(d, sig, admitted) ==
    [signature |-> sig, stale |-> FALSE,
     alert |-> AlertRegistered(view[d], sig, admitted)]

SavedRow(d, sig, admitted) ==
    [signature |-> sig, stale |-> FALSE,
     alert |-> AlertRegistered(view[d], sig, admitted) /\ Allows(row[d])]

(* Slip: save writes the state of a deleted device too. *)
SavedAlways(d, new) == [state EXCEPT ![d] = new]

Saved(d, new) == IF row[d].deleted THEN state ELSE [state EXCEPT ![d] = new]

(* The types of the mails that the heartbeat in hand is about to queue.    *)
MailTypes(mesResume, mesNotify) ==
    LET prev == view[task.device]
        sig == task.signature
    IN {t \in Type :
          /\ Allows(row[task.device])
          /\ \/ t = "RECEIVING" /\ mesResume /\ Resumes(prev)
             \/ t = "ALERT" /\ mesNotify /\ Alerts(prev, sig)
             \/ t = "RECOVERY" /\ mesNotify /\ Recovers(prev, sig)}

(***************************************************************************)
(* The rest of the transaction of _process.  mesResume and mesNotify are   *)
(* the two answers of alert_decision, which may differ: the cache is       *)
(* refreshed by another thread.  An INSERT waits for the worker to commit  *)
(* what it did to the row with the same key.                               *)
(***************************************************************************)
ProcessHeartbeat(mesResume, mesNotify) ==
    /\ task \in Heartbeat /\ ToLock = {} /\ rowLock[task.device] = Consumer
    /\ LET d == task.device
           sig == task.signature
           admitted == Allows(row[d]) /\ mesNotify
           resumed == IF Resumes(view[d]) /\ Allows(row[d]) /\ mesResume
                      THEN Inserted(queue, NewJob(d, "RECEIVING", sig)) ELSE queue
       IN
        /\ \A t \in MailTypes(mesResume, mesNotify) : Insertable(NewJob(d, t, sig))
        /\ queue' = CASE admitted /\ Alerts(view[d], sig) ->
                            Inserted(resumed, NewJob(d, "ALERT", sig))
                      [] admitted /\ Recovers(view[d], sig) ->
                            Inserted(resumed, NewJob(d, "RECOVERY", sig))
                      [] OTHER -> resumed
        /\ device' = [device EXCEPT ![d] = row[d]]
        /\ state' = Saved(d, SavedRow(d, sig, admitted))
    /\ EndTransaction
    /\ UNCHANGED <<mgmtLock, up, workerVars, request, faults>>

(* The devices a stale check may find silent for the threshold.  The check *)
(* stops short, as with no silent device, while the Kafka gate is shut.    *)
MayBeSilent == {d \in Device : view[d] # None /\ ~view[d].stale}

(* S listed in the order of load_all. *)
Listings(S) ==
    {f \in [1 .. Cardinality(S) -> S] :
        \A i, j \in 1 .. Cardinality(S) : i < j => f[i] < f[j]}

(* Slip: the device is marked whether or not MES let the mail through. *)
MarkedAnyway(silent, notified) == silent

(* _notify_stale_states marks what _enqueue_if_equipment_active lets pass. *)
Marked(silent, notified) == notified

(***************************************************************************)
(* The rest of the transaction of _notify_stale_devices: of the silent     *)
(* devices MES lets the mails of the notified ones through, provided they  *)
(* are monitored.  A mail that duplicates an active row is not inserted    *)
(* and its device is marked all the same.                                  *)
(***************************************************************************)
NotifyStale(silent, mesAllows) ==
    /\ task = StaleCheck /\ ToLock = {}
    /\ LET notified == {d \in silent \cap mesAllows : Allows(row[d])}
           missing(d) == NewJob(d, "MISSING", view[d].signature)
           fresh == {d \in notified : ~Duplicate(queue, missing(d))}
       IN
        /\ \A d \in notified : Insertable(missing(d))
        /\ \E f \in Listings(fresh) :
              queue' = queue \o [i \in 1 .. Cardinality(fresh) |-> missing(f[i])]
        /\ state' = [d \in Device |->
                        IF d \in Marked(silent, notified)
                        THEN [state[d] EXCEPT !.stale = TRUE] ELSE state[d]]
    /\ EndTransaction
    /\ UNCHANGED <<device, mgmtLock, up, workerVars, request, faults>>

(***************************************************************************)
(* The management API.  A request takes the advisory lock of the device,   *)
(* then the devices row FOR UPDATE, then changes and commits.              *)
(***************************************************************************)
(* Otherwise the answer is 404, for an unknown device, or 409: a deleted   *)
(* one has to be restored first, and there is nothing to restore.          *)
Accepts(op, r) == r # None /\ (op = "delete" \/ r.deleted = (op = "restore"))

Receive(c, op, d) ==
    /\ request[c] = None
    /\ request' = [request EXCEPT ![c] = [op |-> op, device |-> d, at |-> "management"]]
    /\ UNCHANGED <<tables, mgmtLock, consumerVars, up, workerVars, faults>>

(* Slip: the API and the worker lock different keys. *)
LockManagementElsewhere(c) ==
    /\ request[c] # None /\ request[c].at = "management"
    /\ mgmtLock[request[c].device] \notin Client
    /\ mgmtLock' = [mgmtLock EXCEPT ![request[c].device] = c]
    /\ request' = [request EXCEPT ![c].at = "row"]
    /\ UNCHANGED <<tables, consumerVars, up, workerVars, faults>>

(* Slip: the two locks are taken in any order. *)
LockManagementInAnyOrder(c) ==
    /\ request[c] # None /\ request[c].at = "management"
    /\ LET d == request[c].device IN
        \/ /\ rowLock[d] = None
           /\ rowLock' = [rowLock EXCEPT ![d] = c]
           /\ UNCHANGED <<mgmtLock, request>>
        \/ /\ mgmtLock[d] = None
           /\ mgmtLock' = [mgmtLock EXCEPT ![d] = c]
           /\ request' = [request EXCEPT ![c].at = "row"]
           /\ UNCHANGED rowLock
    /\ UNCHANGED <<tables, up, task, view, row, workerVars, faults>>

LockManagement(c) ==
    /\ request[c] # None /\ request[c].at = "management"
    /\ mgmtLock[request[c].device] = None
    /\ mgmtLock' = [mgmtLock EXCEPT ![request[c].device] = c]
    /\ request' = [request EXCEPT ![c].at = "row"]
    /\ UNCHANGED <<tables, consumerVars, up, workerVars, faults>>

Unlocked(locks, owner) == [d \in Device |-> IF locks[d] = owner THEN None ELSE locks[d]]

EndRequest(c) ==
    /\ request' = [request EXCEPT ![c] = None]
    /\ mgmtLock' = Unlocked(mgmtLock, c)
    /\ rowLock' = Unlocked(rowLock, c)

LockDeviceRow(c) ==
    /\ request[c] # None /\ request[c].at = "row"
    /\ rowLock[request[c].device] \in {None, c}
    /\ Accepts(request[c].op, device[request[c].device])
    /\ rowLock' = [rowLock EXCEPT ![request[c].device] = c]
    /\ request' = [request EXCEPT ![c].at = "commit"]
    /\ UNCHANGED <<tables, mgmtLock, up, task, view, row, workerVars, faults>>

Refuse(c) ==
    /\ request[c] # None /\ request[c].at = "row"
    /\ rowLock[request[c].device] \in {None, c}
    /\ ~Accepts(request[c].op, device[request[c].device])
    /\ EndRequest(c)
    /\ UNCHANGED <<tables, up, task, view, row, workerVars, faults>>

(* manage and its commit.  A request that leaves enabled and deleted as    *)
(* they are touches neither the queue nor the flags; one that does not     *)
(* waits for the commit of a worker that has a row of the device locked.   *)
Manage(c) ==
    /\ request[c] # None /\ request[c].at = "commit"
    /\ \A i \in BeingCancelled :
          queue[i].device = request[c].device => ~HeldByWorker(i)
    /\ LET d == request[c].device
           target == Target(request[c].op)
       IN IF device[d] = target
          THEN UNCHANGED tables
          ELSE /\ device' = [device EXCEPT ![d] = target]
               /\ queue' = CancelledFor(queue, d)
               /\ state' = IF state[d] = None THEN state
                           ELSE [state EXCEPT ![d].stale = FALSE, ![d].alert = FALSE]
    /\ EndRequest(c)
    /\ UNCHANGED <<up, task, view, row, workerVars, faults>>

(* The transaction rolls back: a lock or statement timeout answered with   *)
(* 503, a lost connection, the end of the API process.  Once it updates    *)
(* the tables that is a fault of its own, which is not counted.            *)
RollBack(c) ==
    /\ request[c] # None
    /\ request[c].at # "commit" \/ "change rolls back" \in FaultKind
    /\ EndRequest(c)
    /\ UNCHANGED <<tables, up, task, view, row, workerVars, faults>>

(***************************************************************************)
(* The SMTP worker: process_once, one transaction for claim_next, one for  *)
(* delivery_guard with the SMTP dialogue and mark_sent inside, and one for *)
(* mark_failed when anything in the second raised.                         *)
(***************************************************************************)
ToIdle == worker' = "idle" /\ job' = 0 /\ attempts' = 0 /\ session' = TRUE

(* Slip: a session-level advisory lock, which outlives the transaction. *)
KeepGuard == UNCHANGED mgmtLock

ReleaseGuard == mgmtLock' = Unlocked(mgmtLock, Worker)

(* The select of claim_next and its update of the row it has locked. *)
ClaimNext(i) ==
    /\ up /\ worker = "idle"
    /\ \E locked \in SUBSET BeingCancelled : IsOldestDue(queue, locked, i)
    /\ worker' = "claiming" /\ job' = i /\ attempts' = queue[i].attempts
    /\ UNCHANGED <<tables, mgmtLock, consumerVars, up, session, request, faults>>

ClaimCommits ==
    /\ worker = "claiming"
    /\ queue' = ClaimedRow(queue, job)
    /\ worker' = "claimed"
    /\ UNCHANGED <<device, state, mgmtLock, consumerVars, up, job, attempts, session,
                   request, faults>>

(* claim_next raises, and whether its commit took effect is open.  The     *)
(* call is outside the try of process_once: _run logs it and polls on.     *)
ClaimRaises ==
    /\ worker = "claiming" /\ Fault("claim raises")
    /\ queue' \in {queue, ClaimedRow(queue, job)}
    /\ ToIdle
    /\ UNCHANGED <<device, state, mgmtLock, consumerVars, up, request>>

Deliverable == Monitored(queue[job].device) /\ queue[job].status = "SENDING"

GuardAdmits ==
    /\ worker = "claimed" /\ mgmtLock[queue[job].device] = None
    /\ Deliverable
    /\ mgmtLock' = [mgmtLock EXCEPT ![queue[job].device] = Worker]
    /\ worker' = "smtp"
    /\ UNCHANGED <<tables, consumerVars, up, job, attempts, session, request, faults>>

GuardCancels ==
    /\ worker = "claimed" /\ mgmtLock[queue[job].device] = None
    /\ ~Deliverable
    /\ queue' = SettledRow(queue, job, "CANCELLED")
    /\ ToIdle
    /\ UNCHANGED <<device, state, mgmtLock, consumerVars, up, request, faults>>

(* The guard cannot connect, or waits for the advisory lock for longer     *)
(* than lock_timeout.                                                      *)
GuardRaises ==
    /\ worker = "claimed"
    /\ worker' = "failed"
    /\ UNCHANGED <<tables, mgmtLock, consumerVars, up, job, attempts, session,
                   request, faults>>

CountMail == queue' = [queue EXCEPT ![job].mails = @ + 1]

SmtpAccepts ==
    /\ worker = "smtp"
    /\ CountMail
    /\ worker' = "accepted"
    /\ UNCHANGED <<device, state, mgmtLock, consumerVars, up, job, attempts, session,
                   request, faults>>

(* The exception leaves the guard, whose transaction rolls back. *)
SmtpFails ==
    /\ worker = "smtp"
    /\ worker' = "failed"
    /\ ReleaseGuard
    /\ UNCHANGED <<tables, consumerVars, up, job, attempts, session, request, faults>>

(* The server took the mail and the client sees an error all the same. *)
SmtpAnswerLost ==
    /\ worker = "smtp" /\ Fault("answer lost")
    /\ CountMail
    /\ worker' = "failed"
    /\ ReleaseGuard
    /\ UNCHANGED <<device, state, consumerVars, up, job, attempts, session, request>>

(* The guard's connection ends while the worker talks to the SMTP server,  *)
(* which it does not notice before its next statement.                     *)
SessionLost ==
    /\ Guarded /\ session /\ Fault("session lost")
    /\ session' = FALSE
    /\ ReleaseGuard
    /\ UNCHANGED <<tables, consumerVars, up, worker, job, attempts, request>>

(* The update of mark_sent, inside the guard's transaction. *)
MarkSent ==
    /\ worker = "accepted" /\ session
    /\ worker' = "settling"
    /\ UNCHANGED <<tables, mgmtLock, consumerVars, up, job, attempts, session,
                   request, faults>>

MarkSentCommits ==
    /\ worker = "settling" /\ session
    /\ queue' = SettledRow(queue, job, "SENT")
    /\ ReleaseGuard /\ ToIdle
    /\ UNCHANGED <<device, state, consumerVars, up, request, faults>>

(* The commit took effect and its acknowledgement did not arrive. *)
MarkSentUnacknowledged ==
    /\ worker = "settling" /\ session
    /\ queue' = SettledRow(queue, job, "SENT")
    /\ worker' = "failed"
    /\ ReleaseGuard
    /\ UNCHANGED <<device, state, consumerVars, up, job, attempts, session,
                   request, faults>>

(* The update or the commit finds the session lost. *)
MarkSentRaises ==
    /\ worker \in {"accepted", "settling"} /\ ~session
    /\ worker' = "failed"
    /\ UNCHANGED <<tables, mgmtLock, consumerVars, up, job, attempts, session,
                   request, faults>>

(* Slip: one attempt too many. *)
ExhaustedAfter(n) == n > MaxAttempts

(* dead, for the attempt that just failed being the n-th *)
Exhausted(n) == n >= MaxAttempts

(* The update of mark_failed. *)
MarkFailed ==
    /\ worker = "failed"
    /\ worker' = "failing"
    /\ UNCHANGED <<tables, mgmtLock, consumerVars, up, job, attempts, session,
                   request, faults>>

MarkFailedCommits ==
    /\ worker = "failing"
    /\ queue' = FailedRow(queue, job, Exhausted(attempts + 1))
    /\ ToIdle
    /\ UNCHANGED <<device, state, mgmtLock, consumerVars, up, request, faults>>

(* mark_failed itself raises: _run logs it and polls on. *)
MarkFailedRaises ==
    /\ worker \in {"failed", "failing"} /\ Fault("mark_failed raises")
    /\ ToIdle
    /\ UNCHANGED <<tables, mgmtLock, consumerVars, up, request>>

(* The wall clock reaches the next_attempt_at of a row. *)
BackoffElapses(i) ==
    /\ i \in DOMAIN queue /\ queue[i].status \in Claimable /\ ~queue[i].due
    /\ queue' = [queue EXCEPT ![i].due = TRUE]
    /\ UNCHANGED <<device, state, mgmtLock, consumerVars, up, workerVars, request, faults>>

(* The wall clock is set back, below the next_attempt_at of some due rows. *)
ClockSetBack(S) ==
    /\ S # {} /\ Fault("clock set back")
    /\ queue' = [i \in DOMAIN queue |->
                    IF i \in S THEN [queue[i] EXCEPT !.due = FALSE] ELSE queue[i]]
    /\ UNCHANGED <<device, state, mgmtLock, consumerVars, up, workerVars, request>>

(***************************************************************************)
(* The process of consumer and worker ends: killed, stopped with a mail    *)
(* still in flight, or brought down by a psycopg.Error in the consumer     *)
(* thread.  PostgreSQL rolls back its open transactions.                   *)
(***************************************************************************)
Crash ==
    /\ up /\ Fault("crash")
    /\ up' = FALSE
    /\ EndTransaction
    /\ ReleaseGuard /\ ToIdle
    /\ UNCHANGED <<tables, request>>

Restart ==
    /\ ~up
    /\ up' = TRUE
    /\ queue' = Recovered(queue)
    /\ UNCHANGED <<device, state, mgmtLock, consumerVars, workerVars, request, faults>>

----------------------------------------------------------------------------
ConsumerStep ==
    \/ \E t \in Heartbeat \cup {StaleCheck} : Begin(t)
    \/ \E d \in Device : LockStateRow(d)
    \/ LockHeartbeatRow
    \/ \E mesResume, mesNotify \in BOOLEAN : ProcessHeartbeat(mesResume, mesNotify)
    \/ \E silent \in SUBSET MayBeSilent : \E mesAllows \in SUBSET silent :
            NotifyStale(silent, mesAllows)

ApiStep(c) ==
    \/ LockManagement(c) \/ LockDeviceRow(c) \/ Refuse(c) \/ Manage(c) \/ RollBack(c)

WorkerStep ==
    \/ \E i \in DOMAIN queue : ClaimNext(i)
    \/ ClaimCommits
    \/ GuardAdmits \/ GuardCancels \/ GuardRaises
    \/ SmtpAccepts \/ SmtpFails
    \/ MarkSent \/ MarkSentCommits \/ MarkSentUnacknowledged \/ MarkSentRaises
    \/ MarkFailed \/ MarkFailedCommits

FaultStep ==
    \/ ClaimRaises \/ SmtpAnswerLost \/ SessionLost \/ MarkFailedRaises \/ Crash
    \/ \E S \in SUBSET DueIds(queue) : ClockSetBack(S)

Next ==
    \/ ConsumerStep
    \/ \E c \in Client : ApiStep(c)
    \/ \E c \in Client, op \in Operation, d \in Device : Receive(c, op, d)
    \/ WorkerStep
    \/ \E i \in DOMAIN queue : BackoffElapses(i)
    \/ FaultStep
    \/ Restart

Spec == Init /\ [][Next]_vars

(* The rows a run can queue: a transaction that begins below MaxJobs queues *)
(* one for each device, or two for one.                                     *)
AnyRow == 1 .. MaxJobs + Cardinality(Device)

(***************************************************************************)
(* Fairness.  The worker thread polls for ever, the SMTP dialogue and the  *)
(* wait for the advisory lock time out, and a request does not keep the    *)
(* lock of a row for ever, nor lock it whenever the worker polls; a        *)
(* backoff is finite; the deployment restarts the process.  Nothing is     *)
(* assumed of the consumer, of the API otherwise, or of the faults.        *)
(***************************************************************************)
FairSpec ==
    /\ Spec
    /\ WF_vars(WorkerStep)
    /\ \A i \in AnyRow : WF_vars(BackoffElapses(i))
    /\ WF_vars(Restart)

(***************************************************************************)
(* Fairness with an SMTP server that may never answer.  The consumer       *)
(* executes the transaction it began, and PostgreSQL queues the waiters of *)
(* a row lock; a request that holds or can take the row lock goes on to    *)
(* its commit, and the worker commits the update it has made.  Nothing     *)
(* else is assumed of the worker, nor that anything times out.             *)
(***************************************************************************)
ConsumerProceeds == task # None /\ ConsumerStep
RequestProceeds(c) == LockDeviceRow(c) \/ Refuse(c) \/ Manage(c)
WorkerCommits == ClaimCommits \/ MarkSentCommits \/ MarkFailedCommits

HungSmtpSpec ==
    /\ Spec
    /\ SF_vars(ConsumerProceeds)
    /\ \A c \in Client : WF_vars(RequestProceeds(c))
    /\ WF_vars(WorkerCommits)
    /\ WF_vars(Restart)

----------------------------------------------------------------------------
(***************************************************************************)
(* Properties                                                              *)
(***************************************************************************)

(* Every variable has its type; the job is that of a row once claimed. *)
TypeOK ==
    /\ device \in [Device -> DeviceRow \cup {None}]
    /\ state \in [Device -> StateRow \cup {None}]
    /\ queue \in Seq(Job)
    /\ mgmtLock \in [Device -> Client \cup {Worker, None}]
    /\ rowLock \in [Device -> Client \cup {Consumer, None}]
    /\ up \in BOOLEAN
    /\ task \in Heartbeat \cup {StaleCheck, None}
    /\ view \in [Device -> StateRow \cup {None}]
    /\ row \in [Device -> DeviceRow \cup {None}]
    /\ worker \in {"idle", "claiming", "claimed", "smtp", "accepted", "settling",
                   "failed", "failing"}
    /\ job \in Nat /\ (worker = "idle" \/ job \in DOMAIN queue)
    /\ attempts \in Nat
    /\ session \in BOOLEAN
    /\ request \in [Client -> Request \cup {None}]
    /\ faults \in 0 .. MaxFaults

(* A device that is excluded from monitoring or deleted has no mail waiting *)
(* and neither flag set, whatever the consumer and the worker were in the   *)
(* middle of when the API committed (README: the unsent queue and the flags *)
(* are cleared by exclusion, deletion and restoration).                     *)
ExcludedIsQuiet ==
    \A d \in Device : ~Monitored(d) =>
        /\ \A i \in DOMAIN queue : queue[i].device = d => ~IsActive(queue[i])
        /\ state[d] # None => ~state[d].stale /\ ~state[d].alert

(* While the worker talks to the SMTP server and its database session       *)
(* lives, the device is monitored and the row is still claimed: the API     *)
(* cannot complete an exclusion in between (delivery_guard).                *)
SmtpUnderGuard ==
    Guarded /\ session =>
        Monitored(queue[job].device) /\ queue[job].status = "SENDING"

(* No two active rows have the same key, although rows leave and re-enter   *)
(* the active statuses by claims, failures and recovery: none of those      *)
(* updates may hit the unique index of postgres.py:53.                      *)
ActiveKeysUnique ==
    \A i, j \in DOMAIN queue :
        i # j /\ IsActive(queue[i]) /\ IsActive(queue[j]) => ~SameKey(queue[i], queue[j])

(* A row counts at most MaxAttempts failures, is DEAD exactly at the last   *)
(* one, and can be claimed only before it, although process_once decides    *)
(* from the count it read when it claimed the row and mark_failed           *)
(* increments the one in the table.                                         *)
RetriesBounded ==
    \A i \in DOMAIN queue :
        /\ queue[i].attempts <= MaxAttempts
        /\ queue[i].status = "DEAD" => queue[i].attempts = MaxAttempts
        /\ IsActive(queue[i]) => queue[i].attempts < MaxAttempts

(* The mail of a row is accepted more than once only if as many faults      *)
(* happened (delivery is at least once, and exactly once without them), and *)
(* a row is SENT only if its mail was accepted.                             *)
MailsExplained ==
    \A i \in DOMAIN queue :
        /\ queue[i].mails <= 1 + faults
        /\ queue[i].status = "SENT" => queue[i].mails >= 1

(* The claimed rows that no worker has in hand.                             *)
Orphans == {i \in DOMAIN queue : queue[i].status = "SENDING" /\ (worker = "idle" \/ job # i)}

(* A mail overtakes an older one only when that one has been tried or is    *)
(* being cancelled: a row still waiting for its first attempt, of a device  *)
(* that no request is changing, has no younger row that was ever claimed.   *)
(* Backoff, restarts and cancellations reorder retries only.  It takes a    *)
(* wall clock that is not set back, and changes that commit once they       *)
(* update the queue: claim_next skips the rows they have locked.            *)
FirstAttemptsInOrder ==
    \A i, j \in DOMAIN queue :
        i < j /\ queue[i].status = "PENDING" /\ i \notin BeingCancelled =>
            queue[j].status \in {"PENDING", "CANCELLED"}

(* A device is flagged as missing only if a MISSING mail was queued for it  *)
(* and not cancelled since: the flag never silences a warning nobody will   *)
(* get.                                                                     *)
StaleFlagBacked ==
    \A d \in Device : state[d] # None /\ state[d].stale =>
        \E i \in DOMAIN queue :
            queue[i].device = d /\ queue[i].type = "MISSING" /\ queue[i].status # "CANCELLED"

(* The type of the warning that a type of end refers to. *)
Announces(type) == CASE type = "RECEIVING" -> "MISSING" [] type = "RECOVERY" -> "ALERT"

(* What ends a warning follows one: each RECEIVING comes after a MISSING,   *)
(* and each RECOVERY after an ALERT, of the same device.                    *)
EndsFollowWarnings ==
    \A j \in DOMAIN queue : queue[j].type \in {"RECEIVING", "RECOVERY"} =>
        \E i \in 1 .. j - 1 :
            queue[i].device = queue[j].device /\ queue[i].type = Announces(queue[j].type)

(* Who holds which lock, and what the holder has read under it.  Together   *)
(* these are why ExcludedIsQuiet and SmtpUnderGuard are inductive.          *)

(* A request past a lock owns it, and past the second its device exists. *)
RequestHoldsLocks ==
    \A c \in Client : request[c] # None =>
        /\ request[c].at \in {"row", "commit"} => mgmtLock[request[c].device] = c
        /\ request[c].at = "commit" =>
              rowLock[request[c].device] = c /\ device[request[c].device] # None

(* The worker owns the advisory lock as long as its session lives, and the  *)
(* worker of a process that is down does nothing.                           *)
GuardHoldsLock ==
    /\ Guarded /\ session => mgmtLock[queue[job].device] = Worker
    /\ ~up => worker = "idle"

(* The consumer's copies of the devices rows it has locked are current; a   *)
(* row it is about to insert is that of the heartbeat in hand.              *)
RowsCurrent ==
    \A d \in Device :
        /\ rowLock[d] = Consumer =>
              IF device[d] = None
              THEN row[d] = NewDevice /\ task \in Heartbeat /\ task.device = d
              ELSE row[d] = device[d]
        /\ view[d] # None => device[d] # None /\ state[d] # None

(* No request cancels a row between the select of claim_next and its commit. *)
ClaimHoldsRow == worker = "claiming" => queue[job].status \in Claimable

LocksProtect ==
    /\ RequestHoldsLocks
    /\ GuardHoldsLock
    /\ RowsCurrent
    /\ ClaimHoldsRow

(* What the owner of a lock is in the middle of.                            *)
RequestsInHand ==
    \A d \in Device, c \in Client :
        /\ mgmtLock[d] = c =>
              /\ request[c] # None /\ request[c].device = d
              /\ request[c].at \in {"row", "commit"}
        /\ rowLock[d] = c =>
              request[c] # None /\ request[c].device = d /\ request[c].at = "commit"

GuardInHand ==
    /\ \A d \in Device : mgmtLock[d] = Worker =>
          Guarded /\ session /\ queue[job].device = d
    /\ worker \in {"idle", "claiming", "claimed"} => session

TaskInHand ==
    /\ \A d \in Device : rowLock[d] = Consumer => task # None
    /\ task # None => up

(* No lock outlives the transaction that took it, whichever way that ended: *)
(* commit, refusal, rollback, timeout, lost session or crash.  Both locks   *)
(* are bound to a transaction (pg_advisory_xact_lock, FOR UPDATE).          *)
LocksAreHeld == RequestsInHand /\ GuardInHand /\ TaskInHand

(* The devices row the consumer locks next. *)
NextRow(d) ==
    \/ d \in ToLock /\ \A e \in ToLock : d <= e
    \/ ToLock = {} /\ task \in Heartbeat /\ task.device = d

(* The worker is about to commit an update of a row of the device. *)
WorkerHolds(d) == \E i \in DOMAIN queue : HeldByWorker(i) /\ queue[i].device = d

(* a may have to wait until the owner gives up a lock on the device d, or   *)
(* on a row of its queue: for an INSERT, for the UPDATE of a request that   *)
(* cancels, or for that of mark_failed.                                     *)
Wants(a, d, owner) ==
    \/ /\ a = Consumer /\ task # None
       /\ \/ NextRow(d) /\ rowLock[d] = owner
          \/ rowLock[d] = Consumer /\ owner = Worker /\ WorkerHolds(d)
    \/ /\ a \in Client /\ request[a] # None /\ request[a].device = d
       /\ \/ request[a].at = "management" /\ mgmtLock[d] = owner
          \/ request[a].at = "row" /\ rowLock[d] = owner
          \/ Cancelling(a) /\ owner = Worker /\ WorkerHolds(d)
    \/ /\ a = Worker /\ worker \in {"claimed", "failed"} /\ queue[job].device = d
       /\ \/ worker = "claimed" /\ mgmtLock[d] = owner
          \/ /\ worker = "failed" /\ owner \in Client
             /\ Cancelling(owner) /\ request[owner].device = d

Actor == Client \cup {Consumer, Worker}
WaitsFor(a, b) == b # a /\ \E d \in Device : Wants(a, d, b)

(* Whatever locks the consumer, the worker and the requests hold, among any *)
(* of them one waits for none of the others: PostgreSQL never meets a       *)
(* deadlock it would have to break by failing the consumer's transaction,   *)
(* which ends the process (run: a psycopg.Error is not caught).             *)
NoDeadlock ==
    \A S \in (SUBSET Actor) \ {{}} : \E a \in S : \A b \in S : ~WaitsFor(a, b)

(* Whoever the consumer waits for, at first or second hand, is not in the   *)
(* SMTP dialogue, which takes as long as it takes, nor waiting for somebody *)
(* who is, nor for the consumer: it waits for a request about to commit,    *)
(* which at most waits for the worker, and for the worker only while that   *)
(* is itself about to commit and waits for nobody (lock_management: only    *)
(* management and SMTP are serialised, consumption is not blocked).         *)
ConsumerWaitsBriefly ==
    LET CommitsNext ==
            /\ worker \in {"claiming", "settling", "failing"}
            /\ \A c \in Actor : ~WaitsFor(Worker, c)
    IN \A b \in Actor : WaitsFor(Consumer, b) =>
          \/ b = Worker /\ CommitsNext
          \/ b \in Client /\ \A c \in Actor : WaitsFor(b, c) => c = Worker /\ CommitsNext

(* claim_next never selects a SENDING row, so one that nobody works on is   *)
(* stuck.  A step leaves at most one row in that state and only by a fault: *)
(* a crash, a claim whose commit took effect although it raised, or a       *)
(* mark_failed that raised.  A restart takes up every row left so.          *)
ClaimsLostByFaults ==
    [][/\ faults + Cardinality(Orphans' \ Orphans) <= faults'
       /\ ~up /\ up' => Orphans' = {}]_vars

(* SENT, DEAD and CANCELLED are final: no late answer of the worker, no     *)
(* recovery and no request takes a row out of them (mark_failed: a          *)
(* cancelled row is not revived as a retry).                                *)
TerminalIsFinal ==
    [][\A i \in DOMAIN queue : queue[i].status \in Terminal =>
          /\ queue'[i].status = queue[i].status
          /\ queue'[i].attempts = queue[i].attempts]_vars

(* The state of a deleted device stays as it is until it is restored, even  *)
(* if a heartbeat was being processed when the deletion committed.          *)
DeletedIsFrozen ==
    [][\A d \in Device :
          device[d] # None /\ device[d].deleted /\ device'[d] = device[d] =>
              state'[d] = state[d]]_vars

(* Every mail that was queued is sent, given up as DEAD or cancelled.       *)
EveryJobSettles ==
    \A i \in AnyRow :
        (i \in DOMAIN queue /\ IsActive(queue[i])) ~>
            (i \in DOMAIN queue /\ queue[i].status \in Terminal)

(* Every mail that was queued is sent, given up as DEAD or cancelled, or a  *)
(* fault left its row claimed in a process that runs on without it.  A row  *)
(* that a later restart takes up again settles after that.                  *)
JobsSettleOrAreLost ==
    \A i \in AnyRow :
        (i \in DOMAIN queue /\ IsActive(queue[i])) ~>
            (i \in DOMAIN queue /\ (queue[i].status \in Terminal \/ (up /\ i \in Orphans)))

(* An SMTP server that never answers does not stop the consumer: each of    *)
(* its transactions ends, without help from any timeout (lock_management:   *)
(* only management and SMTP are serialised, consumption is not blocked).    *)
ConsumptionContinues == task # None ~> task = None

(* A device is flagged as alerted only if an ALERT mail for the status it   *)
(* reports was queued and not cancelled since.                              *)
AlertFlagBacked ==
    \A d \in Device : state[d] # None /\ state[d].alert =>
        \E i \in DOMAIN queue :
            /\ queue[i].device = d /\ queue[i].type = "ALERT"
            /\ queue[i].signature = state[d].signature
            /\ queue[i].status # "CANCELLED"

(* An alerted device has had an ALERT mail queued for the very status it    *)
(* reports now: when the status of an alerted device changes from one bad   *)
(* level or code to another, the flag is carried over only with a new mail. *)
AlertWasQueued ==
    \A d \in Device : state[d] # None /\ state[d].alert =>
        \E i \in DOMAIN queue :
            /\ queue[i].device = d /\ queue[i].type = "ALERT"
            /\ queue[i].signature = state[d].signature

(* While a device is flagged as missing, the last word queued about its     *)
(* reception is MISSING and not RECEIVING.                                  *)
LastWordIsMissing ==
    \A d \in Device : state[d] # None /\ state[d].stale =>
        \E i \in DOMAIN queue :
            /\ queue[i].device = d /\ queue[i].type = "MISSING"
            /\ \A j \in DOMAIN queue :
                  j > i /\ queue[j].device = d => queue[j].type # "RECEIVING"
=============================================================================
