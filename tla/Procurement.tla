----------------------------- MODULE Procurement -----------------------------
(***************************************************************************)
(* ProcurementService on one order, from draft to settlement: submitting,  *)
(* approving, placing, receiving in instalments, closing short, correcting *)
(* prices, editing, cancelling and deleting, with its money (see           *)
(* ProcurementMoney) and finance deciding and booking at its own pace.     *)
(***************************************************************************)
EXTENDS ProcurementMoney

CONSTANTS MaxQty  \* bound: the largest quantity a delivery may bring of an item

ASSUME MaxQtyIsNumber == MaxQty \in Nat

-----------------------------------------------------------------------------
(* Transitions that read the status and write another.                     *)

FinalizeCheck(h) == Payable /\ Check(h, "finalize", None, {"DRAFT"})
SendBackCheck(h) == Check(h, "rejectApproval", None, {"PENDING_APPROVAL"})
ConfirmCheck(h)  == Check(h, "confirmOrdered", None, {"FINANCE_APPROVED"})
ResubmitCheck(h) == order.attempt < MaxAttempt /\ Check(h, "resubmit", None, {"FINANCE_REJECTED"})

Becomes(op) == CASE op = "finalize" -> "PENDING_APPROVAL" [] op = "rejectApproval" -> "DRAFT"
                 [] op = "confirmOrdered" -> "ORDERED"

MoveOn(h) == \E op \in {"finalize", "rejectApproval", "confirmOrdered"} :
  /\ At(h, op, "checked") /\ SetStatus(Becomes(op)) /\ Finished(h)
  /\ UNCHANGED <<payments, stock, wanted, locks, transfers>>

(* Faulty: the attempt finance turned down is submitted again.             *)
ResubmitSame(h) ==
  /\ At(h, "resubmit", "checked") /\ SetStatus("DRAFT") /\ Finished(h)
  /\ UNCHANGED <<payments, stock, wanted, locks, transfers>>

(* The one place an order becomes a new attempt.                           *)
Resubmit(h) ==
  /\ At(h, "resubmit", "checked") /\ order.status # "deleted"
  /\ order' = [order EXCEPT !.status = "DRAFT", !.attempt = @ + 1]
  /\ Finished(h)
  /\ UNCHANGED <<payments, stock, wanted, locks, transfers>>

-----------------------------------------------------------------------------
(* update: the lines are deleted and written anew, with nothing received;  *)
(* the deposit only moves in a draft.  overrideSettled: prices only.       *)

EditCheck(h) == \E d \in Draft :
  /\ d.deposit # order.deposit => order.status = "DRAFT"
  /\ order.edition < MaxEdition
  /\ Check(h, "update", d, Status \ (Settled \union {"deleted"}))

EditWrite(h) == LET d == job[h].arg IN
  /\ At(h, "update", "checked") /\ Writable(h, Item, order.edition)
  /\ order' = [order EXCEPT !.lines = NewLines(d.lines), !.deposit = d.deposit, !.edition = @ + 1]
  /\ Finished(h)
  /\ UNCHANGED <<payments, stock, wanted, locks, transfers>>

(* amend writes what the supplier billed, overrideSettled what was agreed; *)
(* both read the order again and settle with finance.  An amendment that   *)
(* changes no price only settles.                                          *)
RepriceCheck(h) == \E i \in {j \in Item : order.lines[j].quantity > 0}, price \in Price :
  \/ Check(h, "amend", [item |-> i, price |-> price], Settled \union {"PARTIALLY_RECEIVED"})
  \/ /\ order.lines[i].price # price
     /\ Check(h, "override", [item |-> i, price |-> price], Settled)

Reprice(h) == LET i == job[h].arg.item  price == job[h].arg.price IN
  /\ At(h, "amend", "checked") \/ At(h, "override", "checked")
  /\ Writable(h, {i}, job[h].edition)
  /\ \/ job[h].op = "amend" /\ order' = IF Cost(order.lines[i]) = price THEN order
                                        ELSE [order EXCEPT !.lines[i].invoiced = price]
     \/ job[h].op = "override" /\ order' = [order EXCEPT !.lines[i].price = price]
  /\ Turn(h, "reread")
  /\ UNCHANGED <<payments, stock, wanted, locks, transfers>>

ReadAgain(h) ==
  /\ ~Idle(h) /\ job[h].stage = "reread" /\ order.status # "deleted"
  /\ job' = [job EXCEPT ![h].stage = "settle", ![h].deposit = order.deposit,
                        ![h].value = InvoicedValue]
  /\ UNCHANGED tables

-----------------------------------------------------------------------------
(* receive: what a delivery brings is validated against the lines as read, *)
(* and counted against the lines as they are once its own are updated.     *)

Asked(h) == {i \in Item : job[h].arg.quantity[i] > 0}

DeliverCheck(h) == \E q \in [Item -> 0..MaxQty], price \in Price \union {None} :
  /\ \E i \in Item : q[i] > 0
  /\ price # None => "invoice" \in duty[h]
  /\ \A i \in Item : q[i] > 0 => q[i] <= Remaining(i)
  /\ Check(h, "receive", [quantity |-> q, price |-> price], {"ORDERED", "PARTIALLY_RECEIVED"})

(* Faulty: what arrived replaces what had arrived before.                  *)
DeliveredOver(h) == [i \in Item |->
  IF i \in Asked(h) THEN [order.lines[i] EXCEPT !.received = job[h].arg.quantity[i]]
  ELSE order.lines[i]]

Delivered(h) == [i \in Item |->
  IF i \notin Asked(h) THEN order.lines[i]
  ELSE [order.lines[i] EXCEPT
    !.received = @ + job[h].arg.quantity[i],
    !.invoiced = IF job[h].arg.price = None THEN @ ELSE job[h].arg.price]]

DeliverLines(h) ==
  /\ At(h, "receive", "checked") /\ Writable(h, Asked(h), job[h].edition)
  /\ locks' = [locks EXCEPT ![h] = Asked(h)]
  /\ Turn(h, "updated")
  /\ UNCHANGED <<order, payments, stock, wanted, transfers>>

(* Faulty: complete as soon as the lines of this delivery are.             *)
DeliverCountOwn(h) ==
  /\ At(h, "receive", "updated")
  /\ Turn(h, IF \A i \in Asked(h) : Delivered(h)[i].received >= order.lines[i].quantity
             THEN "complete" ELSE "partial")
  /\ UNCHANGED tables

(* Other deliveries that have not committed are not counted.               *)
DeliverCount(h) ==
  /\ At(h, "receive", "updated")
  /\ Turn(h, IF \A i \in Item : Delivered(h)[i].received >= order.lines[i].quantity
             THEN "complete" ELSE "partial")
  /\ UNCHANGED tables

DeliverCommit(h) ==
  /\ At(h, "receive", "complete") \/ At(h, "receive", "partial")
  /\ order' = [order EXCEPT !.lines = Delivered(h),
       !.status = IF job[h].stage = "complete" THEN "RECEIVED" ELSE "PARTIALLY_RECEIVED"]
  /\ stock' = [i \in Item |-> stock[i] + job[h].arg.quantity[i]]
  /\ locks' = [locks EXCEPT ![h] = {}]
  /\ IF job[h].stage = "partial" THEN Finished(h)
     ELSE job' = [job EXCEPT ![h].stage = "fulfil", ![h].deposit = order.deposit,
                             ![h].value = InvoicedValue']
  /\ UNCHANGED <<payments, wanted, transfers>>

(* The requisitions the order was raised for are satisfied.                *)
Fulfil(h) ==
  /\ At(h, "receive", "fulfil")
  /\ wanted' = IF order.status = "deleted" THEN wanted ELSE "FULFILLED"
  /\ Turn(h, "settle")
  /\ UNCHANGED <<order, payments, stock, locks, transfers>>

-----------------------------------------------------------------------------
(* closeShort settles with the order as first read.  cancel of an order    *)
(* partly received is closeShort.                                          *)

CloseShortCheck(h) ==
  Check(h, "closeShort", None, {"PARTIALLY_RECEIVED", "ORDERED", "FINANCE_APPROVED"})

CloseShort(h) ==
  /\ At(h, "closeShort", "checked") /\ SetStatus("CLOSED_SHORT") /\ Turn(h, "settle")
  /\ UNCHANGED <<payments, stock, wanted, locks, transfers>>

CancelCheck(h) ==
  Check(h, "cancel", None, Status \ (Settled \union {"CANCELLED", "PARTIALLY_RECEIVED", "deleted"}))
RemoveCheck(h) ==
  Check(h, "remove", [paid |-> \E p \in Range(payments) : Live(p)], Status \ {"RECEIVED", "deleted"})

AtFinance == {"PENDING_FINANCE_APPROVAL", "FINANCE_APPROVED", "ORDERED"}
ReachedFinance(h) ==
  \/ job[h].status \in AtFinance
  \/ job[h].op = "remove" /\ (job[h].status \in {"PARTIALLY_RECEIVED", "CLOSED_SHORT"}
                              \/ job[h].arg.paid)

(* The money is voided before the order changes.                           *)
VoidMoney(h) ==
  /\ At(h, "cancel", "checked") \/ At(h, "remove", "checked")
  /\ IF ReachedFinance(h) THEN VoidAll ELSE UNCHANGED transfers
  /\ Turn(h, "voided")
  /\ UNCHANGED <<order, payments, stock, wanted, locks>>

Cancel(h) ==
  /\ At(h, "cancel", "voided") /\ SetStatus("CANCELLED") /\ Finished(h)
  /\ UNCHANGED <<payments, stock, wanted, locks, transfers>>

(* Lines and payments go with the order.                                   *)
RemoveRow(h) ==
  /\ At(h, "remove", "voided") /\ Writable(h, Item, order.edition)
  /\ SetStatus("deleted") /\ payments' = <<>> /\ Finished(h)
  /\ UNCHANGED <<stock, wanted, locks, transfers>>

-----------------------------------------------------------------------------
Step(h) ==
  \/ MoneyStep(h)
  \/ FinalizeCheck(h) \/ SendBackCheck(h) \/ ConfirmCheck(h) \/ MoveOn(h)
  \/ ResubmitCheck(h) \/ Resubmit(h)
  \/ EditCheck(h) \/ EditWrite(h) \/ RepriceCheck(h) \/ Reprice(h) \/ ReadAgain(h)
  \/ DeliverCheck(h) \/ DeliverLines(h) \/ DeliverCount(h) \/ DeliverCommit(h) \/ Fulfil(h)
  \/ CloseShortCheck(h) \/ CloseShort(h)
  \/ CancelCheck(h) \/ RemoveCheck(h) \/ VoidMoney(h) \/ Cancel(h) \/ RemoveRow(h)
  \/ Abort(h)

Next ==
  /\ \/ \E h \in Handler : Step(h)
     \/ \E t \in DOMAIN transfers : Book(t) /\ UNCHANGED <<order, payments, stock, wanted, locks, job>>
  /\ UNCHANGED duty

Spec == Init /\ [][Next]_vars

-----------------------------------------------------------------------------
Line == [quantity : Nat, price : Nat, received : Nat, invoiced : Nat \union {None}]
Order == [status : Status, deposit : Nat, attempt : 1..MaxAttempt, edition : 1..MaxEdition,
          lines : [Item -> Line]]
Payment == [type : Kind \ {"FULL"}, amount : Nat, transfer : 1..MaxTransfers,
            status : {"PENDING", "APPROVED", "REJECTED", "ADJUSTED"}]
TypeOK ==
  /\ order \in Order
  /\ Len(payments) <= MaxPayment /\ Range(payments) \subseteq Payment
  /\ Len(transfers) <= MaxTransfers /\ Range(transfers) \subseteq Transfer
  /\ stock \in [Item -> Nat] /\ wanted \in {"APPROVED", "FULFILLED"}
  /\ locks \in [Handler -> SUBSET Item]
  /\ \A h \in Handler : Idle(h) \/ job[h].op \in duty[h]

(* One request at a time: what no overlap excuses.                         *)
Serial == Cardinality({h \in Handler : duty[h] # {}}) = 1

(* receive: "Complete only when every line is fully satisfied": whatever   *)
(* deliveries and edits overlap, an order becomes RECEIVED only at a       *)
(* moment when nothing is outstanding.                                     *)
ReceivedWhenComplete ==
  [][order.status # "RECEIVED" /\ order'.status = "RECEIVED" =>
       \A i \in Item : order'.lines[i].received >= order'.lines[i].quantity]_vars

(* receive: stock, assets and movements "all follow what actually          *)
(* ARRIVED": as long as its lines are not written anew, an order counts    *)
(* every unit it has put on the shelf, however deliveries overlap.         *)
LinesCountTheStock ==
  order.edition = 1 => \A i \in Item : stock[i] = order.lines[i].received

(* reconcileWithFinance: "Bring finance in line with what the supplier     *)
(* actually billed".  If rows and finance told one story when it read      *)
(* them, they still do when it ends, and finance has paid or will pay the  *)
(* invoiced value, or the deposit where that is more.                      *)
SettlementSquares ==
  [][\A h \in Handler : Serial /\ SettleEnds(h) /\ job[h].agreed =>
       /\ Agreed'
       /\ \/ Committed' = job[h].value
          \/ Committed' = job[h].deposit /\ job[h].deposit > job[h].value]_vars

(* sendToFinance: "Now the deposit that already exists comes back instead  *)
(* of being raised twice": however often requests are cut off and sent     *)
(* again, a transfer is recorded in one row.                               *)
OneRowPerTransfer ==
  Serial => \A n, k \in DOMAIN payments : payments[n].transfer = payments[k].transfer => n = k

(* The tables are well formed, and record every transfer once.            *)
PaymentsAreSound == TypeOK /\ OneRowPerTransfer

(* An order that waits for finance has a transfer finance can still decide *)
(* on, or it would wait for ever; only a cancellation that has voided its  *)
(* money and was cut off leaves it without, and that can be sent again.    *)
WaitingCanEnd ==
  Serial /\ order.status = "PENDING_FINANCE_APPROVAL" =>
    \E t \in Range(transfers) : t.status \in {"PENDING", "VOID"}

(* cancel: "RECEIVED/CLOSED_SHORT/CANCELLED are final", for a late verdict *)
(* too; what is not received can be deleted.                               *)
FinalStays ==
  [][Serial /\ order.status \in Settled \union {"CANCELLED"} =>
       \/ order'.status = order.status
       \/ order.status # "RECEIVED" /\ order'.status = "deleted"]_vars

=============================================================================
