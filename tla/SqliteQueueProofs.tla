------------------------- MODULE SqliteQueueProofs -------------------------
(***************************************************************************)
(* On every table of jobs, of any length, the statements of the SQLite     *)
(* queue agree with those of the PostgreSQL repository; so they do on every *)
(* table that the consumer, the worker and the API produce.                *)
(***************************************************************************)
EXTENDS MCDelivery, DeliveryProofs, FunctionTheorems

LEMMA RowsOfTable ==
    ASSUME NEW table \in Seq(Job), NEW i \in DOMAIN table
    PROVE  /\ table[i] \in Job
           /\ Row(i, table[i]) \in Rows(table)
           /\ Row(i, table[i]).id = i
           /\ Row(i, table[i]).status = table[i].status
           /\ Row(i, table[i]).due = table[i].due
           /\ Row(i, table[i]).key = Key(table[i])
<1>1. table[i] \in Job
  BY LenProperties, ElementOfSeq
<1> QED
  BY <1>1 DEF Row, Rows

(* What an UPDATE sets in a job is set in its row, and its key stays. *)
LEMMA StatusSet ==
    ASSUME NEW i, NEW j \in Job, NEW s
    PROVE  Row(i, [j EXCEPT !.status = s]) = [Row(i, j) EXCEPT !.status = s]
<1> DEFINE k == [j EXCEPT !.status = s]
<1>1. /\ k.device = j.device /\ k.type = j.type /\ k.signature = j.signature
      /\ k.status = s /\ k.attempts = j.attempts /\ k.due = j.due
  BY DEF Job
<1>2. Key(k) = Key(j)
  BY <1>1 DEF Key
<1> HIDE DEF k
<1>3. Row(i, k) = [Row(i, j) EXCEPT !.status = s]
  BY <1>1, <1>2 DEF Row
<1> QED
  BY <1>3 DEF k

LEMMA AttemptsSet ==
    ASSUME NEW i, NEW j \in Job, NEW n
    PROVE  Row(i, [j EXCEPT !.attempts = n]) = [Row(i, j) EXCEPT !.attempts = n]
<1> DEFINE k == [j EXCEPT !.attempts = n]
<1>1. /\ k.device = j.device /\ k.type = j.type /\ k.signature = j.signature
      /\ k.status = j.status /\ k.attempts = n /\ k.due = j.due
  BY DEF Job
<1>2. Key(k) = Key(j)
  BY <1>1 DEF Key
<1> HIDE DEF k
<1>3. Row(i, k) = [Row(i, j) EXCEPT !.attempts = n]
  BY <1>1, <1>2 DEF Row
<1> QED
  BY <1>3 DEF k

LEMMA DueSet ==
    ASSUME NEW i, NEW j \in Job, NEW b
    PROVE  Row(i, [j EXCEPT !.due = b]) = [Row(i, j) EXCEPT !.due = b]
<1> DEFINE k == [j EXCEPT !.due = b]
<1>1. /\ k.device = j.device /\ k.type = j.type /\ k.signature = j.signature
      /\ k.status = j.status /\ k.attempts = j.attempts /\ k.due = b
  BY DEF Job
<1>2. Key(k) = Key(j)
  BY <1>1 DEF Key
<1> HIDE DEF k
<1>3. Row(i, k) = [Row(i, j) EXCEPT !.due = b]
  BY <1>1, <1>2 DEF Row
<1> QED
  BY <1>3 DEF k

(* The same of an UPDATE that sets several columns. *)
LEMMA RetrySet ==
    ASSUME NEW i, NEW j \in Job
    PROVE  Row(i, [j EXCEPT !.status = "RETRY", !.due = TRUE])
              = [Row(i, j) EXCEPT !.status = "RETRY", !.due = TRUE]
<1> DEFINE k == [j EXCEPT !.status = "RETRY"]
<1>1. k \in Job
  BY DEF Job, Active, Claimable
<1>2. Row(i, k) = [Row(i, j) EXCEPT !.status = "RETRY"]
  BY StatusSet
<1>3. Row(i, [k EXCEPT !.due = TRUE]) = [Row(i, k) EXCEPT !.due = TRUE]
  <2>1. \A b : \A q \in Job : Row(i, [q EXCEPT !.due = b]) = [Row(i, q) EXCEPT !.due = b]
    BY DueSet
  <2> HIDE DEF k
  <2> QED
    BY <1>1, <2>1, Zenon
<1>4. [j EXCEPT !.status = "RETRY", !.due = TRUE] = [k EXCEPT !.due = TRUE]
  OBVIOUS
<1>5. [Row(i, j) EXCEPT !.status = "RETRY", !.due = TRUE]
         = [[Row(i, j) EXCEPT !.status = "RETRY"] EXCEPT !.due = TRUE]
  OBVIOUS
<1> HIDE DEF k
<1> QED
  BY <1>2, <1>3, <1>4, <1>5, Zenon

LEMMA FailureSet ==
    ASSUME NEW i, NEW j \in Job, NEW end \in {"DEAD", "RETRY"}
    PROVE  Row(i, [j EXCEPT !.status = end, !.attempts = @ + 1, !.due = FALSE])
              = [Row(i, j) EXCEPT !.status = end, !.attempts = @ + 1, !.due = FALSE]
<1> DEFINE n == j.attempts + 1
<1> DEFINE k == [j EXCEPT !.status = end]
<1> DEFINE l == [k EXCEPT !.attempts = n]
<1>1. k \in Job
  BY DEF Job, Active, Claimable, Terminal
<1>2. n \in Nat
  BY DEF Job
<1>3. l \in Job
  <2> HIDE DEF k, n
  <2> QED
    BY <1>1, <1>2 DEF Job
<1>4. Row(i, k) = [Row(i, j) EXCEPT !.status = end]
  BY StatusSet
<1>5. Row(i, l) = [Row(i, k) EXCEPT !.attempts = n]
  <2> HIDE DEF k, n
  <2> QED
    BY <1>1, AttemptsSet
<1>6. Row(i, [l EXCEPT !.due = FALSE]) = [Row(i, l) EXCEPT !.due = FALSE]
  <2>1. \A b : \A q \in Job : Row(i, [q EXCEPT !.due = b]) = [Row(i, q) EXCEPT !.due = b]
    BY DueSet
  <2> HIDE DEF l
  <2> QED
    BY <1>3, <2>1, Zenon
<1>7. [j EXCEPT !.status = end, !.attempts = @ + 1, !.due = FALSE] = [l EXCEPT !.due = FALSE]
  OBVIOUS
<1>8. Row(i, j).attempts = j.attempts
  BY DEF Row
<1>9. [Row(i, j) EXCEPT !.status = end, !.attempts = @ + 1, !.due = FALSE]
         = [[[Row(i, j) EXCEPT !.status = end] EXCEPT !.attempts = Row(i, j).attempts + 1]
               EXCEPT !.due = FALSE]
  OBVIOUS
<1>10. Row(i, j).attempts + 1 = n
  BY <1>8
<1> HIDE DEF k, l, n
<1> QED
  BY <1>4, <1>5, <1>6, <1>7, <1>9, <1>10, Zenon

(* Two jobs have the same key exactly if the unique index takes them for    *)
(* duplicates.                                                             *)
LEMMA KeysAreDuplicates ==
    ASSUME NEW j \in Job, NEW k \in Job
    PROVE  Key(j) = Key(k) <=> SameKey(j, k)
BY DEF Key, SameKey, Job

(* An UPDATE that changes every row as its counterpart changes the job. *)
LEMMA PointwiseUpdate ==
    ASSUME NEW table \in Seq(Job), NEW changed, DOMAIN changed = DOMAIN table, NEW g,
           \A i \in DOMAIN table : g[Row(i, table[i])] = Row(i, changed[i])
    PROVE  {g[r] : r \in Rows(table)} = Rows(changed)
BY DEF Rows

LEMMA RecoveryAgrees ==
    ASSUME NEW table \in Seq(Job)
    PROVE  SqliteRecover(Rows(table)) = Rows(Recovered(table))
<1> DEFINE g == [r \in Rows(table) |->
                   IF r.status = "SENDING" THEN [r EXCEPT !.status = "RETRY", !.due = TRUE] ELSE r]
<1>1. SqliteRecover(Rows(table)) = {g[r] : r \in Rows(table)}
  BY DEF SqliteRecover, Update
<1>2. ASSUME NEW i \in DOMAIN table
      PROVE  g[Row(i, table[i])] = Row(i, Recovered(table)[i])
  <2>1. Recovered(table)[i] = IF table[i].status = "SENDING"
                              THEN [table[i] EXCEPT !.status = "RETRY", !.due = TRUE] ELSE table[i]
    BY <1>2 DEF Recovered
  <2>2. g[Row(i, table[i])] = IF table[i].status = "SENDING"
                              THEN [Row(i, table[i]) EXCEPT !.status = "RETRY", !.due = TRUE]
                              ELSE Row(i, table[i])
    BY <1>2, RowsOfTable
  <2>3. Row(i, [table[i] EXCEPT !.status = "RETRY", !.due = TRUE])
           = [Row(i, table[i]) EXCEPT !.status = "RETRY", !.due = TRUE]
    BY <1>2, RowsOfTable, RetrySet
  <2> HIDE DEF g
  <2> QED
    BY <2>1, <2>2, <2>3, Zenon
<1>3. DOMAIN Recovered(table) = DOMAIN table
  BY DEF Recovered
<1> HIDE DEF g
<1> QED
  BY <1>1, <1>2, <1>3, PointwiseUpdate

LEMMA SettlingAgrees ==
    ASSUME NEW table \in Seq(Job), NEW n \in DOMAIN table
    PROVE  SqliteMarkSent(Rows(table), n) = Rows(SettledRow(table, n, "SENT"))
<1> DEFINE g == [r \in Rows(table) |->
                   IF r.id = n /\ r.status = "SENDING" THEN [r EXCEPT !.status = "SENT"] ELSE r]
<1>1. SqliteMarkSent(Rows(table), n) = {g[r] : r \in Rows(table)}
  BY DEF SqliteMarkSent, Update
<1>2. ASSUME NEW i \in DOMAIN table
      PROVE  g[Row(i, table[i])] = Row(i, SettledRow(table, n, "SENT")[i])
  <2>1. SettledRow(table, n, "SENT")[i] =
           IF i = n /\ table[i].status = "SENDING"
           THEN [table[i] EXCEPT !.status = "SENT"] ELSE table[i]
    BY <1>2 DEF SettledRow
  <2>2. g[Row(i, table[i])] = IF i = n /\ table[i].status = "SENDING"
                              THEN [Row(i, table[i]) EXCEPT !.status = "SENT"]
                              ELSE Row(i, table[i])
    BY <1>2, RowsOfTable
  <2>3. Row(i, [table[i] EXCEPT !.status = "SENT"]) = [Row(i, table[i]) EXCEPT !.status = "SENT"]
    <3>1. table[i] \in Job
      BY <1>2, RowsOfTable
    <3>2. \A s : \A q \in Job : Row(i, [q EXCEPT !.status = s]) = [Row(i, q) EXCEPT !.status = s]
      BY StatusSet
    <3> QED
      BY <3>1, <3>2, Zenon
  <2> HIDE DEF g
  <2> QED
    BY <2>1, <2>2, <2>3, Zenon
<1>3. DOMAIN SettledRow(table, n, "SENT") = DOMAIN table
  BY DEF SettledRow
<1> HIDE DEF g
<1> QED
  BY <1>1, <1>2, <1>3, PointwiseUpdate

LEMMA FailureAgrees ==
    ASSUME NEW table \in Seq(Job), NEW n \in DOMAIN table, NEW dead \in BOOLEAN
    PROVE  SqliteMarkFailed(Rows(table), n, dead) = Rows(FailedRow(table, n, dead))
<1> DEFINE end == IF dead THEN "DEAD" ELSE "RETRY"
<1> DEFINE g == [r \in Rows(table) |->
                   IF r.id = n /\ r.status = "SENDING"
                   THEN [r EXCEPT !.status = end, !.attempts = @ + 1, !.due = FALSE] ELSE r]
<1>1. SqliteMarkFailed(Rows(table), n, dead) = {g[r] : r \in Rows(table)}
  BY DEF SqliteMarkFailed, Update
<1>2. ASSUME NEW i \in DOMAIN table
      PROVE  g[Row(i, table[i])] = Row(i, FailedRow(table, n, dead)[i])
  <2>1. FailedRow(table, n, dead)[i] =
           IF i = n /\ table[i].status = "SENDING"
           THEN [table[i] EXCEPT !.status = end, !.attempts = @ + 1, !.due = FALSE]
           ELSE table[i]
    BY <1>2 DEF FailedRow, FailedJob
  <2>2. g[Row(i, table[i])] =
           IF i = n /\ table[i].status = "SENDING"
           THEN [Row(i, table[i]) EXCEPT !.status = end, !.attempts = @ + 1, !.due = FALSE]
           ELSE Row(i, table[i])
    BY <1>2, RowsOfTable
  <2>3. Row(i, [table[i] EXCEPT !.status = end, !.attempts = @ + 1, !.due = FALSE])
           = [Row(i, table[i]) EXCEPT !.status = end, !.attempts = @ + 1, !.due = FALSE]
    <3>1. end \in {"DEAD", "RETRY"} /\ table[i] \in Job
      BY <1>2, RowsOfTable
    <3>2. \A q \in Job, e \in {"DEAD", "RETRY"} :
             Row(i, [q EXCEPT !.status = e, !.attempts = @ + 1, !.due = FALSE])
                = [Row(i, q) EXCEPT !.status = e, !.attempts = @ + 1, !.due = FALSE]
      BY FailureSet
    <3> HIDE DEF end
    <3> QED
      BY <3>1, <3>2, Zenon
  <2> HIDE DEF g, end
  <2> QED
    BY <2>1, <2>2, <2>3, Zenon
<1>3. DOMAIN FailedRow(table, n, dead) = DOMAIN table
  BY DEF FailedRow
<1> HIDE DEF g
<1> QED
  BY <1>1, <1>2, <1>3, PointwiseUpdate

(* The oldest due row is the same in both tables. *)
LEMMA ClaimAgrees ==
    ASSUME NEW table \in Seq(Job)
    PROVE  /\ DueIds(table) = {} => SqliteClaimNext(Rows(table)) = Rows(table)
           /\ \A n \in DOMAIN table : IsOldestDue(table, {}, n) =>
                 SqliteClaimNext(Rows(table)) = Rows(ClaimedRow(table, n))
<1> DEFINE due == {r \in Rows(table) : r.status \in Claimable /\ r.due}
<1> DEFINE g == [r \in Rows(table) |->
                   IF r \in due /\ (\A q \in due : r.id <= q.id)
                   THEN [r EXCEPT !.status = "SENDING"] ELSE r]
<1>1. SqliteClaimNext(Rows(table)) = {g[r] : r \in Rows(table)}
  BY DEF SqliteClaimNext, Update
<1>2. \A i \in DOMAIN table : Row(i, table[i]) \in due <=> i \in DueIds(table)
  BY RowsOfTable DEF DueIds
<1>3. \A q \in due : \E i \in DueIds(table) : q = Row(i, table[i])
  BY <1>2, RowsOfTable DEF Rows
<1>4. ASSUME DueIds(table) = {}
      PROVE  SqliteClaimNext(Rows(table)) = Rows(table)
  <2>1. \A i \in DOMAIN table : g[Row(i, table[i])] = Row(i, table[i])
    BY <1>2, <1>4, RowsOfTable
  <2> HIDE DEF g
  <2> QED
    BY <1>1, <2>1, PointwiseUpdate
<1>5. ASSUME NEW n \in DOMAIN table, IsOldestDue(table, {}, n)
      PROVE  SqliteClaimNext(Rows(table)) = Rows(ClaimedRow(table, n))
  <2>0. n \in DueIds(table) /\ \A j \in DueIds(table) : n <= j
    BY <1>5 DEF IsOldestDue
  <2>1. ASSUME NEW i \in DOMAIN table
        PROVE  g[Row(i, table[i])] = Row(i, ClaimedRow(table, n)[i])
    <3>1. (Row(i, table[i]) \in due /\ \A q \in due : Row(i, table[i]).id <= q.id) <=> i = n
      <4>1. DOMAIN table \subseteq Nat
        BY LenProperties
      <4>2. i = n => Row(i, table[i]) \in due /\ \A q \in due : Row(i, table[i]).id <= q.id
        BY <1>2, <1>3, <2>0, RowsOfTable DEF DueIds
      <4>3. Row(i, table[i]) \in due /\ (\A q \in due : Row(i, table[i]).id <= q.id) => i <= n /\ n <= i
        BY <1>2, <2>0, RowsOfTable DEF DueIds
      <4> QED
        BY <4>1, <4>2, <4>3
    <3>2. g[Row(i, table[i])] = IF i = n THEN [Row(i, table[i]) EXCEPT !.status = "SENDING"]
                                ELSE Row(i, table[i])
      BY <3>1, RowsOfTable
    <3>3. ClaimedRow(table, n)[i] = IF i = n THEN [table[i] EXCEPT !.status = "SENDING"]
                                    ELSE table[i]
      BY DEF ClaimedRow
    <3>4. Row(i, [table[i] EXCEPT !.status = "SENDING"])
             = [Row(i, table[i]) EXCEPT !.status = "SENDING"]
      <4>1. table[i] \in Job
        BY <2>1, RowsOfTable
      <4>2. \A s : \A q \in Job : Row(i, [q EXCEPT !.status = s]) = [Row(i, q) EXCEPT !.status = s]
        BY StatusSet
      <4> QED
        BY <4>1, <4>2, Zenon
    <3> HIDE DEF g
    <3> QED
      BY <3>2, <3>3, <3>4, Zenon
  <2>2. DOMAIN ClaimedRow(table, n) = DOMAIN table
    BY DEF ClaimedRow
  <2> HIDE DEF g
  <2> QED
    BY <1>1, <2>1, <2>2, PointwiseUpdate
<1> QED
  BY <1>4, <1>5

(* As many rows as jobs, so the next number of AUTOINCREMENT is the next    *)
(* index of the table.                                                     *)
LEMMA RowsAreCounted ==
    ASSUME NEW table \in Seq(Job)
    PROVE  Cardinality(Rows(table)) = Len(table)
<1> DEFINE f == [i \in 1 .. Len(table) |-> Row(i, table[i])]
<1>1. DOMAIN table = 1 .. Len(table) /\ Len(table) \in Nat
  BY LenProperties
<1>2. f \in Bijection(1 .. Len(table), Rows(table))
  <2>1. f \in [1 .. Len(table) -> Rows(table)]
    BY <1>1, RowsOfTable
  <2>2. \A i, k \in 1 .. Len(table) : f[i] = f[k] => i = k
    BY <1>1, RowsOfTable
  <2>3. \A r \in Rows(table) : \E i \in 1 .. Len(table) : f[i] = r
    BY <1>1 DEF Rows
  <2> QED
    BY <2>1, <2>2, <2>3, Fun_IsBij
<1>3. IsFiniteSet(1 .. Len(table)) /\ Cardinality(1 .. Len(table)) = Len(table)
  BY <1>1, FS_Interval
<1> QED
  BY <1>2, <1>3, FS_Bijection DEF ExistsBijection

LEMMA InsertionAgrees ==
    ASSUME NEW table \in Seq(Job), NEW new \in Job
    PROVE  SqliteEnqueue(Rows(table), new) = Rows(Inserted(table, new))
<1>1. (\E r \in Rows(table) : r.status \in Active /\ r.key = Key(new)) <=> Duplicate(table, new)
  <2>1. \A i \in DOMAIN table : Row(i, table[i]).key = Key(new) <=> SameKey(table[i], new)
    BY RowsOfTable, KeysAreDuplicates
  <2>2. (\E r \in Rows(table) : r.status \in Active /\ r.key = Key(new))
          <=> \E i \in DOMAIN table :
                 Row(i, table[i]).status \in Active /\ Row(i, table[i]).key = Key(new)
    BY DEF Rows
  <2> QED
    BY <2>1, <2>2, RowsOfTable DEF Duplicate, IsActive
<1>2. CASE Duplicate(table, new)
  BY <1>1, <1>2 DEF SqliteEnqueue, Inserted
<1>3. CASE ~Duplicate(table, new)
  <2>1. Inserted(table, new) = Append(table, new)
    BY <1>3 DEF Inserted
  <2>2. /\ DOMAIN table = 1 .. Len(table) /\ Len(table) \in Nat
        /\ DOMAIN Append(table, new) = 1 .. (Len(table) + 1)
        /\ Append(table, new)[Len(table) + 1] = new
        /\ \A i \in DOMAIN table : Append(table, new)[i] = table[i]
    BY LenProperties, AppendProperties
  <2>3. SqliteEnqueue(Rows(table), new) = Rows(table) \cup {Row(Len(table) + 1, new)}
    BY <1>1, <1>3, RowsAreCounted DEF SqliteEnqueue
  <2>4. Rows(Append(table, new)) = Rows(table) \cup {Row(Len(table) + 1, new)}
    BY <2>2 DEF Rows
  <2> QED
    BY <2>1, <2>3, <2>4
<1> QED
  BY <1>2, <1>3

(* Whatever table of jobs the statements meet, they agree. *)
THEOREM StatementsAgree ==
    ASSUME NEW table \in Seq(Job)
    PROVE  Agrees(table)
<1>1. \A d \in Device, t \in Type, s \in Signature : NewJob(d, t, s) \in Job
  BY NewJobType
<1> QED
  BY <1>1, InsertionAgrees, ClaimAgrees, SettlingAgrees, FailureAgrees, RecoveryAgrees DEF Agrees

(* On every table that consumer, worker and API produce, in any interleaving *)
(* and after any crash, a statement of the SQLite repository does what its  *)
(* counterpart does: a table is never anything but jobs.                    *)
THEOREM SqliteStandsInAlways == Spec => []SqliteStandsIn
<1>1. TypeOK => SqliteStandsIn
  BY StatementsAgree DEF TypeOK, SqliteStandsIn
<1> QED
  BY <1>1, TypeCorrect, PTL
=============================================================================
