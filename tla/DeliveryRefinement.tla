------------------------- MODULE DeliveryRefinement -------------------------
(***************************************************************************)
(* The tables, threads and requests of Delivery keep the promise of        *)
(* NotificationLog.  PENDING, SENDING and RETRY are all open; an attempt   *)
(* is what process_once does inside delivery_guard; it is covered as long  *)
(* as the guard's database session lives.                                  *)
(***************************************************************************)
EXTENDS Delivery

NoticeOf(j) == [device |-> j.device, type |-> j.type, signature |-> j.signature]

Outcome(status) ==
    CASE status \in Active -> "open"
      [] status = "SENT" -> "sent"
      [] status = "DEAD" -> "dead"
      [] status = "CANCELLED" -> "cancelled"

EntryOf(j) == [notice |-> NoticeOf(j), outcome |-> Outcome(j.status), mails |-> j.mails]

Notices == [device : Device, type : Type, signature : Signature]
SameNotices == {pair \in Notices \X Notices : SameKey(pair[1], pair[2])}

NoticeLog == [i \in DOMAIN queue |-> EntryOf(queue[i])]
Mailing == Guarded
Mailed == IF Mailing THEN job ELSE 0
Covered == Mailing /\ session

Promise == INSTANCE NotificationLog WITH
    Notice <- Notices, Same <- SameNotices,
    log <- NoticeLog, attempt <- Mailed, covered <- Covered

(* However the consumer, the worker, the API and crashes interleave, a      *)
(* reader of the mails sees what NotificationLog promises: a notice is      *)
(* withdrawn by an exclusion or a deletion unless it is being mailed, an    *)
(* outcome is final, and only an accepted mail counts as sent.              *)
KeepsPromise == Promise!Spec
=============================================================================
