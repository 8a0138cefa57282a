-------------------------- MODULE ProcurementMoney --------------------------
(***************************************************************************)
(* The money of an order: raised with finance when the order is approved,  *)
(* decided by finance, and brought in line with the supplier's invoice     *)
(* when the order is settled or its prices are corrected.                  *)
(***************************************************************************)
EXTENDS ProcurementTables

-----------------------------------------------------------------------------
(* approve, then sendToFinance, which reads the order again and asks the   *)
(* same of it: what the first reading saw decides nothing.                 *)

SendCheck(h) ==
  /\ May(h, "approve") /\ order.status = "PENDING_APPROVAL" /\ Payable
  /\ Begun(h, "approve", IF order.deposit > 0 THEN "deposit" ELSE "rest", Total)
  /\ UNCHANGED tables

Rest(h) == job[h].arg - job[h].deposit

(* The deposit first; a fully prepaid order has nothing left to bill.      *)
RaiseDeposit(h) == \E t \in 1..MaxTransfers :
  /\ At(h, "approve", "deposit")
  /\ Raise("PREPAYMENT", job[h].attempt, job[h].deposit, t)
  /\ job' = [job EXCEPT ![h].stage = IF Rest(h) > 0 THEN "rest" ELSE "raised",
                        ![h].paid = <<[type |-> "PREPAYMENT", amount |-> job[h].deposit,
                                       transfer |-> t, status |-> "PENDING"]>>]
  /\ UNCHANGED <<order, payments, stock, wanted, locks>>

RaiseRest(h) == \E t \in 1..MaxTransfers :
  /\ At(h, "approve", "rest")
  /\ Raise(IF job[h].deposit > 0 THEN "BALANCE" ELSE "FULL", job[h].attempt, Rest(h), t)
  /\ job' = [job EXCEPT ![h].stage = "raised",
                        ![h].paid = Append(@, [type |-> "BALANCE", amount |-> Rest(h),
                                               transfer |-> t, status |-> "PENDING"])]
  /\ UNCHANGED <<order, payments, stock, wanted, locks>>

RecordRaised(h) ==
  /\ At(h, "approve", "raised")
  /\ Len(payments \o job[h].paid) <= MaxPayment
  /\ SetStatus("PENDING_FINANCE_APPROVAL")
  /\ payments' = payments \o job[h].paid
  /\ Finished(h)
  /\ UNCHANGED <<stock, wanted, locks, transfers>>

-----------------------------------------------------------------------------
(* financeCallback: finance asks for an answer before its verdict on a     *)
(* transfer takes effect, and asks again as long as it gets none.          *)

CallbackRead(h) == \E t \in DOMAIN transfers, verdict \in {"APPROVED", "REJECTED"} :
  /\ May(h, "callback") /\ transfers[t].status = "PENDING"
  /\ Begun(h, "callback", "read", [transfer |-> t, verdict |-> verdict])
  /\ UNCHANGED tables

RowsOf(t) == {n \in DOMAIN payments : payments[n].transfer = t}

(* The row that carries the transfer takes the verdict; a correction ends  *)
(* there.                                                                  *)
CallbackRow(h) ==
  /\ At(h, "callback", "read")
  /\ LET rows == RowsOf(job[h].arg.transfer) IN
       IF rows = {} THEN Turn(h, "row") /\ UNCHANGED payments
       ELSE LET n == Min(rows) IN
         /\ payments' = [payments EXCEPT ![n].status = job[h].arg.verdict]
         /\ Turn(h, IF payments[n].type \in Correction THEN "answer" ELSE "row")
  /\ UNCHANGED <<order, stock, wanted, locks, transfers>>

Target(h) == IF job[h].arg.verdict = "APPROVED" THEN "FINANCE_APPROVED" ELSE "FINANCE_REJECTED"

(* Faulty: the order's own state is not asked.                             *)
CallbackAnyStatus(h) ==
  /\ At(h, "callback", "row") /\ SetStatus(Target(h)) /\ Turn(h, "answer")
  /\ UNCHANGED <<payments, stock, wanted, locks, transfers>>

(* An order already where the verdict leads is a no-op; any other state    *)
(* but the one that waits for finance is refused, which is an Abort.       *)
CallbackStatus(h) ==
  /\ At(h, "callback", "row")
  /\ \/ job[h].status = Target(h) /\ UNCHANGED order
     \/ job[h].status = "PENDING_FINANCE_APPROVAL" /\ SetStatus(Target(h))
  /\ Turn(h, "answer")
  /\ UNCHANGED <<payments, stock, wanted, locks, transfers>>

(* The answer reaches finance, and the verdict stands.                     *)
CallbackAnswer(h) ==
  /\ At(h, "callback", "answer")
  /\ Decide(job[h].arg.transfer, job[h].arg.verdict)
  /\ Finished(h)
  /\ UNCHANGED <<order, payments, stock, wanted, locks>>

-----------------------------------------------------------------------------
(* reconcileWithFinance: job.value is the invoiced value, job.deposit the  *)
(* deposit, of the order as the caller had read it.                        *)

(* Whether payments and transfers tell one story: each transfer has one    *)
(* row, live and dead alike, at the same amount; the deposit is under way, *)
(* and at most one rest.                                                   *)
Alive(t) == transfers[t].status \in Unbooked \union {"BOOKED"}
LiveOf(type) == {n \in DOMAIN payments : payments[n].type = type /\ Live(payments[n])}
Agreed ==
  /\ \A t \in DOMAIN transfers : Cardinality(RowsOf(t)) = 1
  /\ \A n \in DOMAIN payments : LET t == payments[n].transfer IN
       Live(payments[n]) = Alive(t) /\ transfers[t].amount = payments[n].amount
  /\ {payments[n].amount : n \in LiveOf("PREPAYMENT")} = {order.deposit} \ {0}
  /\ Cardinality(LiveOf("PREPAYMENT")) <= 1 /\ Cardinality(LiveOf("BALANCE")) <= 1

SettleRead(h) ==
  /\ ~Idle(h) /\ job[h].stage = "settle"
  /\ job' = [job EXCEPT ![h].stage = "known", ![h].paid = payments, ![h].agreed = Agreed]
  /\ UNCHANGED tables

LiveRows(h) == SelectSeq(job[h].paid, Live)
IsCorrected(h) == \E p \in Range(LiveRows(h)) : p.type \in Correction
Balances(h) == {n \in DOMAIN job[h].paid : LET p == job[h].paid[n] IN p.type = "BALANCE" /\ Live(p)}

(* Faulty: in place again, although a correction has been raised.          *)
InPlaceAgain(h) == Balances(h) # {}

(* The unbooked rest is corrected in place, once.                          *)
InPlace(h) == Balances(h) # {} /\ ~IsCorrected(h)
Balance(h) == job[h].paid[Min(Balances(h))]
BalanceDue(h) == IF job[h].value > job[h].deposit THEN job[h].value - job[h].deposit ELSE 0
InPlaceIsRight(h) == InPlace(h) /\ Balance(h).amount = BalanceDue(h)

(* Rows exist by the time an order is settled: they are written with the   *)
(* status that leads there.                                                *)
Covered(h) == Sum(LiveRows(h), LAMBDA p : IF p.type = "REFUND" THEN -p.amount ELSE p.amount)
Delta(h) == job[h].value - Covered(h)
DeltaKind(h) == IF Delta(h) > 0 THEN "ADJUSTMENT" ELSE "REFUND"
DeltaAmount(h) == IF Delta(h) > 0 THEN Delta(h) ELSE -Delta(h)
(* Faulty: every correction of a kind under one key.                       *)
FirstAttempt(h) == 1
Attempt(h) == Len(SelectSeq(job[h].paid, LAMBDA p : p.type = DeltaKind(h))) + 1

CorrectBalance(h) ==
  /\ ~Idle(h) /\ job[h].stage = "known" /\ InPlace(h) /\ ~InPlaceIsRight(h)
  /\ Correct(Balance(h).transfer, BalanceDue(h))
  /\ Turn(h, "corrected")
  /\ UNCHANGED <<order, payments, stock, wanted, locks>>

RecordCorrected(h) == LET n == Min(Balances(h)) IN
  /\ ~Idle(h) /\ job[h].stage = "corrected"
  /\ n \in DOMAIN payments
  /\ payments' = [payments EXCEPT ![n].amount = BalanceDue(h), ![n].status = "ADJUSTED"]
  /\ Finished(h)
  /\ UNCHANGED <<order, stock, wanted, locks, transfers>>

(* Booked already (409), corrected before, or no rest at all: the          *)
(* difference becomes a transfer of its own.                               *)
ByDifference(h) ==
  /\ ~InPlaceIsRight(h)
  /\ InPlace(h) => transfers[Balance(h).transfer].status = "BOOKED"

RaiseDifference(h) == \E t \in 1..MaxTransfers :
  /\ ~Idle(h) /\ job[h].stage = "known" /\ ByDifference(h) /\ Delta(h) # 0
  /\ Raise(DeltaKind(h), Attempt(h), DeltaAmount(h), t)
  /\ job' = [job EXCEPT ![h].stage = "differs", ![h].transfer = t]
  /\ UNCHANGED <<order, payments, stock, wanted, locks>>

RecordDifference(h) ==
  /\ ~Idle(h) /\ job[h].stage = "differs"
  /\ order.status # "deleted" /\ Len(payments) < MaxPayment
  /\ payments' = Append(payments, [type |-> DeltaKind(h), amount |-> DeltaAmount(h),
                                   transfer |-> job[h].transfer, status |-> "PENDING"])
  /\ Finished(h)
  /\ UNCHANGED <<order, stock, wanted, locks, transfers>>

NothingToSettle(h) ==
  /\ ~Idle(h) /\ job[h].stage = "known"
  /\ InPlaceIsRight(h) \/ (ByDifference(h) /\ Delta(h) = 0)
  /\ Finished(h)
  /\ UNCHANGED tables

SettleEnds(h) == RecordCorrected(h) \/ RecordDifference(h) \/ NothingToSettle(h)

MoneyStep(h) ==
  \/ SendCheck(h) \/ RaiseDeposit(h) \/ RaiseRest(h) \/ RecordRaised(h)
  \/ CallbackRead(h) \/ CallbackRow(h) \/ CallbackStatus(h) \/ CallbackAnswer(h)
  \/ SettleRead(h) \/ CorrectBalance(h) \/ RaiseDifference(h) \/ SettleEnds(h)
=============================================================================
