-------------------------- MODULE MaintenanceMoney --------------------------
(***************************************************************************)
(* MaintenanceService on one job: drafted, sent to finance as one transfer *)
(* or as a deposit and the rest, decided by finance, finished, removed.    *)
(* The operation keys carry the record's financeAttempt, which nothing     *)
(* here ever raises: a second try asks for the same transfers.             *)
(***************************************************************************)
EXTENDS AssetTables

Attempt == 1
Kept == work.status \notin {"none", "removed"}

(* createRecord: an open window, or one with an end.                       *)
CreateRecord(h, u) == \E from \in 1..2, to \in {2, Never} :
  /\ May(h, "draft") /\ work.status = "none" /\ asset[u].status # "RETIRED"
  /\ work' = [NoWork EXCEPT !.status = "DRAFT", !.unit = u, !.from = from, !.to = to]
  /\ UNCHANGED <<register, transfers, job, duty>>

(* update: the details, while nobody has agreed to them.                   *)
UpdateRecord(h) == \E from \in 1..2 \ {work.from} :
  /\ May(h, "editWork") /\ work.status \in {"DRAFT", "FINANCE_REJECTED"}
  /\ work' = [work EXCEPT !.from = from]
  /\ UNCHANGED <<register, transfers, job, duty>>

(* complete: the end is now; any job but a draft or a finished one.        *)
Complete(h) == \E now \in 1..2 :
  /\ May(h, "complete") /\ Kept /\ work.status \notin {"DRAFT", "COMPLETED"}
  /\ work' = [work EXCEPT !.status = "COMPLETED", !.to = now]
  /\ UNCHANGED <<register, transfers, job, duty>>

RemoveRecord(h) ==
  /\ May(h, "removeWork") /\ Kept
  /\ work' = [NoWork EXCEPT !.status = "removed"]
  /\ UNCHANGED <<register, transfers, job, duty>>

-----------------------------------------------------------------------------
(* finalize: the deposit, the rest, then the record.                       *)

(* Faulty: the rest is asked for as the whole.                             *)
WholeRest(j) == [j EXCEPT !.todo = IF j.deposit > 0
  THEN <<[kind |-> "PREPAYMENT", amount |-> j.deposit], [kind |-> "BALANCE", amount |-> j.amount]>>
  ELSE <<[kind |-> "FULL", amount |-> j.amount]>>]

Split(j) == [j EXCEPT !.todo = SelectSeq(
  IF j.deposit > 0
    THEN <<[kind |-> "PREPAYMENT", amount |-> j.deposit],
           [kind |-> "BALANCE", amount |-> j.amount - j.deposit]>>
    ELSE <<[kind |-> "FULL", amount |-> j.amount]>>,
  LAMBDA x : x.amount > 0)]

FinalizeRead(h) == \E amount \in 1..2 : \E deposit \in 0..amount :
  /\ May(h, "finalize") /\ work.status = "DRAFT"
  /\ Begin(h, Split([op |-> "finalize", amount |-> amount, deposit |-> deposit,
                     todo |-> <<>>, full |-> 0, prepaid |-> 0]))
  /\ UNCHANGED <<register, money>>

RaiseNext(h) == \E t \in 1..MaxTransfers :
  /\ Doing(h, "finalize") /\ job[h].todo # <<>>
  /\ LET next == Head(job[h].todo) IN
       /\ Raise(next.kind, Attempt, next.amount, t)
       /\ Begin(h, IF next.kind = "PREPAYMENT"
                     THEN [job[h] EXCEPT !.todo = Tail(@), !.prepaid = t]
                     ELSE [job[h] EXCEPT !.todo = Tail(@), !.full = t])
  /\ UNCHANGED <<register, work>>

(* The record is written by id; an id that was not raised is left as it    *)
(* was.  A record removed meanwhile takes no write.                        *)
OrKept(t, kept) == IF t # 0 THEN t ELSE kept

RecordSent(h) ==
  /\ Doing(h, "finalize") /\ job[h].todo = <<>> /\ Kept
  /\ work' = [work EXCEPT !.status = "PENDING_FINANCE",
                !.amount = job[h].amount, !.deposit = job[h].deposit,
                !.full = OrKept(job[h].full, @), !.prepaid = OrKept(job[h].prepaid, @)]
  /\ Finished(h)
  /\ UNCHANGED <<register, transfers>>

-----------------------------------------------------------------------------
(* financeCallback: finance asks, and its verdict on the transfer takes    *)
(* effect once the record has taken it; refused, it asks again.            *)

Target == [APPROVED |-> "FINANCE_APPROVED", REJECTED |-> "FINANCE_REJECTED"]

Takes(status, verdict) == status \in {Target[verdict], "PENDING_FINANCE"}

CallbackRead(h) == \E t \in DOMAIN transfers, verdict \in DOMAIN Target :
  /\ May(h, "callback") /\ transfers[t].status = "PENDING"
  /\ Kept /\ Takes(work.status, verdict)
  /\ Begin(h, [op |-> "callback", transfer |-> t, verdict |-> verdict,
               again |-> work.status = Target[verdict]])
  /\ UNCHANGED <<register, money>>

CallbackWrite(h) ==
  /\ Doing(h, "callback") /\ (job[h].again \/ Kept)
  /\ work' = IF job[h].again THEN work ELSE [work EXCEPT !.status = Target[job[h].verdict]]
  /\ Decide(job[h].transfer, job[h].verdict)
  /\ Finished(h)
  /\ UNCHANGED register

BookTransfer(h) == \E t \in DOMAIN transfers :
  /\ May(h, "book") /\ Book(t)
  /\ UNCHANGED <<register, work, job, duty>>

MoneyStep(h) ==
  \/ \E u \in Unit : CreateRecord(h, u)
  \/ UpdateRecord(h) \/ Complete(h) \/ RemoveRecord(h)
  \/ FinalizeRead(h) \/ RaiseNext(h) \/ RecordSent(h)
  \/ CallbackRead(h) \/ CallbackWrite(h) \/ BookTransfer(h)
=============================================================================
