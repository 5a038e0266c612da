----------------------- MODULE NotificationQueueProofs -----------------------
(***************************************************************************)
(* What each statement preserves of the notification_queue table: its      *)
(* rows keep their type, and an update neither adds a row, nor moves one   *)
(* to another device, nor makes a settled row active.                      *)
(***************************************************************************)
EXTENDS NotificationQueue, SequenceTheorems, TLAPS

(* r is the table q with some of its rows updated, and none awakened. *)
UpdatedRows(q, r) ==
    /\ DOMAIN r = DOMAIN q
    /\ \A i \in DOMAIN q :
          /\ r[i].device = q[i].device
          /\ r[i].type = q[i].type
          /\ r[i].signature = q[i].signature
          /\ IsActive(r[i]) => IsActive(q[i])

(* A row a NewJob describes has the type of a row. *)
LEMMA NewJobType ==
    ASSUME NEW d \in Device, NEW type \in Type, NEW sig \in Signature
    PROVE  NewJob(d, type, sig) \in Job
BY DEF NewJob, Job, Active, Claimable

(* A function on the ids of a table whose values are rows is a table. *)
LEMMA TableOfRows ==
    ASSUME NEW q \in Seq(Job), NEW r,
           DOMAIN r = DOMAIN q, r = [i \in DOMAIN r |-> r[i]],
           \A i \in DOMAIN q : r[i] \in Job
    PROVE  r \in Seq(Job)
<1>1. DOMAIN q = 1 .. Len(q) /\ Len(q) \in Nat
  BY LenProperties
<1>2. r \in [1 .. Len(q) -> Job]
  BY <1>1
<1> QED
  BY <1>1, <1>2, SeqDef

(* INSERT ... ON CONFLICT DO NOTHING leaves the old rows alone, and a row   *)
(* it adds is the one it was given.                                         *)
LEMMA InsertedTable ==
    ASSUME NEW q \in Seq(Job), NEW new \in Job
    PROVE  /\ Inserted(q, new) \in Seq(Job)
           /\ DOMAIN q \subseteq DOMAIN Inserted(q, new)
           /\ \A i \in DOMAIN q : Inserted(q, new)[i] = q[i]
           /\ \A i \in DOMAIN Inserted(q, new) \ DOMAIN q :
                 Inserted(q, new)[i] = new /\ i = Len(q) + 1 /\ ~Duplicate(q, new)
<1>1. CASE Duplicate(q, new)
  BY <1>1 DEF Inserted
<1>2. CASE ~Duplicate(q, new)
  BY <1>2 DEF Inserted
<1> QED
  BY <1>1, <1>2

(* claim_next *)
LEMMA ClaimedTable ==
    ASSUME NEW q \in Seq(Job), NEW i \in DOMAIN q, q[i].status \in Claimable
    PROVE  ClaimedRow(q, i) \in Seq(Job) /\ UpdatedRows(q, ClaimedRow(q, i))
<1> DEFINE r == ClaimedRow(q, i)
<1>1. \A k \in DOMAIN q : q[k] \in Job
  BY LenProperties, ElementOfSeq
<1>2. DOMAIN r = DOMAIN q /\ r = [k \in DOMAIN r |-> r[k]]
  BY DEF ClaimedRow
<1>3. \A k \in DOMAIN q : r[k] = IF k = i THEN [q[k] EXCEPT !.status = "SENDING"] ELSE q[k]
  BY DEF ClaimedRow
<1>4. \A k \in DOMAIN q : r[k] \in Job
  BY <1>1, <1>3 DEF Job, Active
<1>5. r \in Seq(Job)
  BY <1>2, <1>4, TableOfRows
<1>6. UpdatedRows(q, r)
  BY <1>1, <1>2, <1>3 DEF UpdatedRows, IsActive, Active, Job
<1> QED
  BY <1>5, <1>6

(* delivery_guard and mark_sent: a claimed row is settled, or nothing is    *)
(* done.                                                                    *)
LEMMA SettledTable ==
    ASSUME NEW q \in Seq(Job), NEW i \in DOMAIN q, NEW status \in Terminal
    PROVE  SettledRow(q, i, status) \in Seq(Job) /\ UpdatedRows(q, SettledRow(q, i, status))
<1> DEFINE r == SettledRow(q, i, status)
<1>1. \A k \in DOMAIN q : q[k] \in Job
  BY LenProperties, ElementOfSeq
<1>2. CASE q[i].status # "SENDING"
  <2>1. r = q
    BY <1>2 DEF SettledRow
  <2> QED
    BY <2>1 DEF UpdatedRows
<1>3. CASE q[i].status = "SENDING"
  <2>1. DOMAIN r = DOMAIN q /\ r = [k \in DOMAIN r |-> r[k]]
    BY <1>3 DEF SettledRow
  <2>2. \A k \in DOMAIN q : r[k] = IF k = i THEN [q[k] EXCEPT !.status = status] ELSE q[k]
    BY <1>3 DEF SettledRow
  <2>3. \A k \in DOMAIN q : r[k] \in Job
    BY <1>1, <2>2 DEF Job
  <2>4. r \in Seq(Job)
    BY <2>1, <2>3, TableOfRows
  <2>5. UpdatedRows(q, r)
    BY <1>1, <1>3, <2>1, <2>2 DEF UpdatedRows, IsActive, Active, Job
  <2> QED
    BY <2>4, <2>5
<1> QED
  BY <1>2, <1>3

(* What mark_failed makes of a row. *)
LEMMA FailedJobType ==
    ASSUME NEW j \in Job, NEW dead \in BOOLEAN
    PROVE  /\ FailedJob(j, dead) \in Job
           /\ FailedJob(j, dead).device = j.device
           /\ FailedJob(j, dead).type = j.type
           /\ FailedJob(j, dead).signature = j.signature
<1> DEFINE status == IF dead THEN "DEAD" ELSE "RETRY"
<1>1. status \in Active \cup Terminal
  BY DEF Active, Claimable, Terminal
<1>2. j.attempts + 1 \in Nat
  BY DEF Job
<1> HIDE DEF status
<1>3. FailedJob(j, dead) = [j EXCEPT !.status = status, !.attempts = j.attempts + 1,
                                    !.due = FALSE]
  BY DEF FailedJob, status
<1> QED
  BY <1>1, <1>2, <1>3 DEF Job

(* mark_failed *)
LEMMA FailedTable ==
    ASSUME NEW q \in Seq(Job), NEW i \in DOMAIN q, NEW dead \in BOOLEAN
    PROVE  FailedRow(q, i, dead) \in Seq(Job) /\ UpdatedRows(q, FailedRow(q, i, dead))
<1> DEFINE r == FailedRow(q, i, dead)
<1>1. \A k \in DOMAIN q : q[k] \in Job
  BY LenProperties, ElementOfSeq
<1>2. CASE q[i].status # "SENDING"
  <2>1. r = q
    BY <1>2 DEF FailedRow
  <2> QED
    BY <2>1 DEF UpdatedRows
<1>3. CASE q[i].status = "SENDING"
  <2>1. DOMAIN r = DOMAIN q /\ r = [k \in DOMAIN r |-> r[k]]
    BY <1>3 DEF FailedRow
  <2>2. \A k \in DOMAIN q : r[k] = IF k = i THEN FailedJob(q[k], dead) ELSE q[k]
    BY <1>3 DEF FailedRow
  <2>3. \A k \in DOMAIN q :
           /\ FailedJob(q[k], dead) \in Job
           /\ FailedJob(q[k], dead).device = q[k].device
           /\ FailedJob(q[k], dead).type = q[k].type
           /\ FailedJob(q[k], dead).signature = q[k].signature
    BY <1>1, FailedJobType
  <2>4. r \in Seq(Job)
    BY <1>1, <2>1, <2>2, <2>3, TableOfRows
  <2>5. UpdatedRows(q, r)
    BY <1>1, <1>3, <2>1, <2>2, <2>3 DEF UpdatedRows, IsActive, Active
  <2> QED
    BY <2>4, <2>5
<1> QED
  BY <1>2, <1>3

(* manage: the rows of the device are settled, those of others untouched. *)
LEMMA CancelledTable ==
    ASSUME NEW q \in Seq(Job), NEW d \in Device
    PROVE  /\ CancelledFor(q, d) \in Seq(Job)
           /\ UpdatedRows(q, CancelledFor(q, d))
           /\ \A i \in DOMAIN q : q[i].device = d => ~IsActive(CancelledFor(q, d)[i])
           /\ \A i \in DOMAIN q : q[i].device # d => CancelledFor(q, d)[i] = q[i]
<1> DEFINE r == CancelledFor(q, d)
<1>1. \A k \in DOMAIN q : q[k] \in Job
  BY LenProperties, ElementOfSeq
<1>2. DOMAIN r = DOMAIN q /\ r = [k \in DOMAIN r |-> r[k]]
  BY DEF CancelledFor
<1>3. \A k \in DOMAIN q :
         r[k] = IF q[k].device = d /\ IsActive(q[k])
                THEN [q[k] EXCEPT !.status = "CANCELLED"] ELSE q[k]
  BY DEF CancelledFor
<1>4. \A k \in DOMAIN q : r[k] \in Job
  BY <1>1, <1>3 DEF Job, Terminal
<1>5. r \in Seq(Job)
  BY <1>2, <1>4, TableOfRows
<1>6. UpdatedRows(q, r)
  BY <1>1, <1>2, <1>3 DEF UpdatedRows, IsActive, Active, Claimable, Job
<1>7. \A k \in DOMAIN q : q[k].device = d => ~IsActive(r[k])
  BY <1>1, <1>3 DEF IsActive, Active, Claimable, Job
<1>8. \A k \in DOMAIN q : q[k].device # d => r[k] = q[k]
  BY <1>3
<1> QED
  BY <1>5, <1>6, <1>7, <1>8

(* recover_jobs *)
LEMMA RecoveredTable ==
    ASSUME NEW q \in Seq(Job)
    PROVE  Recovered(q) \in Seq(Job) /\ UpdatedRows(q, Recovered(q))
<1> DEFINE r == Recovered(q)
<1>1. \A k \in DOMAIN q : q[k] \in Job
  BY LenProperties, ElementOfSeq
<1>2. DOMAIN r = DOMAIN q /\ r = [k \in DOMAIN r |-> r[k]]
  BY DEF Recovered
<1>3. \A k \in DOMAIN q :
         r[k] = IF q[k].status = "SENDING"
                THEN [q[k] EXCEPT !.status = "RETRY", !.due = TRUE] ELSE q[k]
  BY DEF Recovered
<1>4. \A k \in DOMAIN q : r[k] \in Job
  BY <1>1, <1>3 DEF Job, Active, Claimable
<1>5. r \in Seq(Job)
  BY <1>2, <1>4, TableOfRows
<1>6. UpdatedRows(q, r)
  BY <1>1, <1>2, <1>3 DEF UpdatedRows, IsActive, Active, Job
<1> QED
  BY <1>5, <1>6
=============================================================================
