------------------------- MODULE ProcurementProofs -------------------------
(***************************************************************************)
(* Proofs about Procurement, for any number of handlers, items, instances  *)
(* and any bounds: what is received and counted, which statuses are final, *)
(* and that an order which waits for finance has something to wait for.    *)
(***************************************************************************)
EXTENDS Procurement, Totals

-----------------------------------------------------------------------------
(* The shape of an order, its shelf and its handlers.                      *)
LineRow == [quantity : Nat, price : Nat, received : Nat, invoiced : Nat \union {None}]
OrderRow == [status : Status, deposit : Nat, attempt : Nat, edition : Nat, lines : [Item -> LineRow]]
JobField == {"op", "stage", "arg", "status", "edition", "attempt", "deposit", "value", "paid",
             "agreed", "transfer"}

ArgOK(op, arg) ==
  /\ op = "update" => arg \in Draft
  /\ op \in {"amend", "override"} => arg.item \in Item /\ arg.price \in Price
  /\ op = "receive" =>
       /\ arg.quantity \in [Item -> 0..MaxQty]
       /\ \E i \in Item : arg.quantity[i] > 0
       /\ arg.price \in Price \union {None}

(* What each operation asks of the status it read.                         *)
FromOK(op, status) ==
  /\ op = "finalize" => status = "DRAFT"
  /\ op \in {"approve", "rejectApproval"} => status = "PENDING_APPROVAL"
  /\ op = "confirmOrdered" => status = "FINANCE_APPROVED"
  /\ op = "resubmit" => status = "FINANCE_REJECTED"
  /\ op = "receive" => status \in {"ORDERED", "PARTIALLY_RECEIVED"}
  /\ op \in {"closeShort", "cancel"} => status \notin Settled \union {"CANCELLED"}
  /\ op = "remove" => status # "RECEIVED"

JobOK(j) == DOMAIN j = JobField /\ ArgOK(j.op, j.arg) /\ FromOK(j.op, j.status)

OrderInv ==
  /\ order \in OrderRow /\ order.edition >= 1
  /\ stock \in [Item -> Nat]
  /\ locks \in [Handler -> SUBSET Item]
JobInv ==
  /\ DOMAIN job = Handler
  /\ \A h \in Handler : ~Idle(h) => JobOK(job[h])
TypeInv == OrderInv /\ JobInv

-----------------------------------------------------------------------------
(* What a step does to the handlers' work: one of them begins, goes on or  *)
(* is done.  A delivery has landed when it has updated its lines.          *)
First == {"checked", "deposit", "rest", "read"}
Landing == {"updated", "complete", "partial"}
Begins(h) == \E op, stage, arg :
  /\ stage \in First /\ Idle(h) /\ op \in duty[h] /\ order.status # "deleted" /\ ArgOK(op, arg) /\ FromOK(op, order.status)
  /\ op = "callback" => arg.transfer \in DOMAIN transfers
  /\ op = "approve" => stage \in {"deposit", "rest"}
  /\ Begun(h, op, stage, arg)
GoesOn(h) ==
  /\ ~Idle(h)
  /\ \A g \in Handler : g # h => job'[g] = job[g]
  /\ DOMAIN job' = Handler
  /\ DOMAIN job'[h] = JobField
  /\ job'[h].op = job[h].op /\ job'[h].arg = job[h].arg /\ job'[h].status = job[h].status
  /\ job'[h].edition = job[h].edition /\ job'[h].attempt = job[h].attempt
Ends(h) == ~Idle(h) /\ Finished(h)
JobMoves(h) == Begins(h) \/ GoesOn(h) \/ Ends(h)

(* Turning to another stage changes nothing else of a handler's work.      *)
LEMMA Turns ==
  ASSUME JobInv, NEW h \in Handler, ~Idle(h), NEW s, Turn(h, s)
  PROVE  GoesOn(h) /\ job'[h].stage = s
  BY DEF JobInv, JobOK, Turn, GoesOn, JobField

LEMMA BeginsShape ==
  ASSUME JobInv, NEW h \in Handler, NEW op, NEW stage, NEW arg, Begun(h, op, stage, arg)
  PROVE  /\ DOMAIN job' = Handler
         /\ \A g \in Handler : g # h => job'[g] = job[g]
         /\ DOMAIN job'[h] = JobField
         /\ job'[h].op = op /\ job'[h].stage = stage /\ job'[h].arg = arg
         /\ job'[h].status = order.status /\ job'[h].edition = order.edition
         /\ job'[h].attempt = order.attempt
         /\ job'[h].paid = <<>>
  BY DEF JobInv, Begun, JobField

LEMMA EndsShape ==
  ASSUME JobInv, NEW h \in Handler, Finished(h)
  PROVE  /\ DOMAIN job' = Handler /\ job'[h] = None
         /\ \A g \in Handler : g # h => job'[g] = job[g]
  BY DEF JobInv, Finished

(* Whatever moves the work keeps its shape.                                *)
LEMMA MovesKeepShape ==
  ASSUME JobInv, NEW h \in Handler, JobMoves(h)
  PROVE  JobInv'
<1>1. CASE Begins(h)
  <2>1. PICK op, stage, arg :
          ArgOK(op, arg) /\ FromOK(op, order.status) /\ Begun(h, op, stage, arg)
    BY <1>1 DEF Begins
  <2> QED BY <2>1, BeginsShape DEF JobInv, JobOK, Idle
<1>2. CASE GoesOn(h)
  BY <1>2 DEF JobInv, JobOK, GoesOn, Idle
<1>3. CASE Ends(h)
  BY <1>3, EndsShape DEF JobInv, JobOK, Ends, Idle
<1> QED BY <1>1, <1>2, <1>3 DEF JobMoves

-----------------------------------------------------------------------------
(* The steps, by what they touch.  Reading and validating:                 *)
Reads(h) ==
  \/ SendCheck(h) \/ CallbackRead(h)
  \/ FinalizeCheck(h) \/ SendBackCheck(h) \/ ConfirmCheck(h) \/ ResubmitCheck(h)
  \/ EditCheck(h) \/ RepriceCheck(h) \/ DeliverCheck(h)
  \/ CloseShortCheck(h) \/ CancelCheck(h) \/ RemoveCheck(h)
(* going on with the order and the shelf left alone;                       *)
Carries(h) ==
  \/ RaiseDeposit(h) \/ RaiseRest(h) \/ CallbackRow(h) \/ SettleRead(h) \/ CorrectBalance(h)
  \/ RaiseDifference(h) \/ ReadAgain(h) \/ DeliverCount(h) \/ Fulfil(h) \/ VoidMoney(h)
(* ending with the order and the shelf left alone;                         *)
Closes(h) == CallbackAnswer(h) \/ SettleEnds(h)
(* writing the order's status, and at most its attempt.                    *)
Writes(h) ==
  \/ RecordRaised(h) \/ CallbackStatus(h) \/ MoveOn(h) \/ Resubmit(h)
  \/ CloseShort(h) \/ Cancel(h) \/ RemoveRow(h)

LEMMA StepCases ==
  ASSUME [Next]_vars
  PROVE  \/ UNCHANGED vars
         \/ duty' = duty /\ UNCHANGED <<order, payments, stock, wanted, locks, job>>
              /\ \E t \in DOMAIN transfers : Book(t)
         \/ duty' = duty /\ \E h \in Handler :
              \/ Reads(h) \/ Carries(h) \/ Closes(h) \/ Writes(h)
              \/ EditWrite(h) \/ Reprice(h) \/ DeliverLines(h) \/ DeliverCommit(h) \/ Abort(h)
  BY DEF Next, Step, MoneyStep, Reads, Carries, Closes, Writes

LEMMA ReadsOnly ==
  ASSUME NEW h \in Handler, Reads(h)
  PROVE  Begins(h) /\ UNCHANGED tables
<1>1. CASE SendCheck(h)
  BY <1>1 DEF SendCheck, May, Begins, ArgOK, FromOK, First
<1>2. CASE CallbackRead(h)
  BY <1>2 DEF CallbackRead, May, Begins, ArgOK, FromOK, First
<1>3. CASE EditCheck(h)
  BY <1>3 DEF EditCheck, Check, May, Begins, ArgOK, FromOK, First
<1>4. CASE RepriceCheck(h)
  <2>1. PICK i \in Item, price \in Price, op \in {"amend", "override"} :
          /\ May(h, op) /\ Begun(h, op, "checked", [item |-> i, price |-> price])
          /\ UNCHANGED tables
    BY <1>4 DEF RepriceCheck, Check
  <2>2. ArgOK(op, [item |-> i, price |-> price])
    BY DEF ArgOK
  <2> QED BY <2>1, <2>2 DEF Begins, May, First, FromOK
<1>5. CASE DeliverCheck(h)
  <2>1. PICK q \in [Item -> 0..MaxQty], price \in Price \union {None} :
          /\ \E i \in Item : q[i] > 0
          /\ order.status \in {"ORDERED", "PARTIALLY_RECEIVED"}
          /\ May(h, "receive") /\ Begun(h, "receive", "checked", [quantity |-> q, price |-> price])
          /\ UNCHANGED tables
    BY <1>5 DEF DeliverCheck, Check
  <2>2. ArgOK("receive", [quantity |-> q, price |-> price])
    BY <2>1 DEF ArgOK
  <2> QED BY <2>1, <2>2 DEF Begins, May, First, FromOK
<1>6. ASSUME NEW op \in {"finalize", "rejectApproval", "confirmOrdered", "resubmit", "closeShort",
                         "cancel", "remove"},
             NEW arg, NEW allowed, Check(h, op, arg, allowed),
             \A s \in allowed : FromOK(op, s)
      PROVE  Begins(h) /\ UNCHANGED tables
  BY <1>6 DEF Check, May, Begins, ArgOK, First
<1>7. CASE FinalizeCheck(h) \/ SendBackCheck(h) \/ ConfirmCheck(h) \/ ResubmitCheck(h)
  BY <1>6, <1>7 DEF FinalizeCheck, SendBackCheck, ConfirmCheck, ResubmitCheck, FromOK
<1>8. CASE CloseShortCheck(h)
  <2>1. \A s \in {"PARTIALLY_RECEIVED", "ORDERED", "FINANCE_APPROVED"} : FromOK("closeShort", s)
    BY DEF FromOK, Settled
  <2> QED BY <1>6, <1>8, <2>1 DEF CloseShortCheck
<1>9. CASE CancelCheck(h)
  <2>1. \A s \in Status \ (Settled \union {"CANCELLED", "PARTIALLY_RECEIVED", "deleted"}) :
          FromOK("cancel", s)
    BY DEF FromOK
  <2> QED BY <1>6, <1>9, <2>1 DEF CancelCheck
<1>10. CASE RemoveCheck(h)
  <2>1. \A s \in Status \ {"RECEIVED", "deleted"} : FromOK("remove", s)
    BY DEF FromOK
  <2> QED BY <1>6, <1>10, <2>1 DEF RemoveCheck
<1> QED
  BY <1>1, <1>2, <1>3, <1>4, <1>5, <1>7, <1>8, <1>9, <1>10 DEF Reads

LEMMA PaidShape ==
  ASSUME JobInv, NEW h \in Handler, ~Idle(h), NEW s, NEW p,
         job' = [job EXCEPT ![h].stage = s, ![h].paid = p]
  PROVE  GoesOn(h) /\ job'[h].stage = s /\ job'[h].paid = p
  BY DEF JobInv, JobOK, GoesOn, JobField

LEMMA DifferenceShape ==
  ASSUME JobInv, NEW h \in Handler, ~Idle(h), NEW s, NEW t,
         job' = [job EXCEPT ![h].stage = s, ![h].transfer = t]
  PROVE  GoesOn(h) /\ job'[h].stage = s /\ job'[h].transfer = t
  BY DEF JobInv, JobOK, GoesOn, JobField

RestPaid(h, t) == Append(job[h].paid, [type |-> "BALANCE", amount |-> Rest(h),
                                       transfer |-> t, status |-> "PENDING"])

LEMMA RaisedRest ==
  ASSUME JobInv, NEW h \in Handler, RaiseRest(h)
  PROVE  \E t \in 1..MaxTransfers :
           /\ job' = [job EXCEPT ![h].stage = "raised", ![h].paid = RestPaid(h, t)]
           /\ Raise(IF job[h].deposit > 0 THEN "BALANCE" ELSE "FULL", job[h].attempt, Rest(h), t)
<1>1. PICK t \in 1..MaxTransfers :
        /\ ~Idle(h)
        /\ job' = [job EXCEPT ![h].stage = "raised",
                    ![h].paid = Append(@, [type |-> "BALANCE", amount |-> Rest(h),
                                           transfer |-> t, status |-> "PENDING"])]
        /\ Raise(IF job[h].deposit > 0 THEN "BALANCE" ELSE "FULL", job[h].attempt, Rest(h), t)
  BY DEF RaiseRest, At
<1> DEFINE r == [type |-> "BALANCE", amount |-> Rest(h), transfer |-> t, status |-> "PENDING"]
<1>2. job' = [job EXCEPT ![h].stage = "raised", ![h].paid = Append(@, r)]
  BY <1>1
<1> HIDE DEF r
<1>3. job' = [job EXCEPT ![h].stage = "raised", ![h].paid = Append(job[h].paid, r)]
  BY <1>1, <1>2 DEF JobInv, JobOK, JobField
<1> QED BY <1>1, <1>3 DEF RestPaid, r

LEMMA CarriesOn ==
  ASSUME JobInv, NEW h \in Handler, Carries(h)
  PROVE  /\ GoesOn(h) /\ UNCHANGED <<order, stock, locks>>
         /\ DeliverCount(h) \/ job'[h].stage \notin Landing
<1> USE DEF Landing
<1>1. CASE RaiseDeposit(h) \/ RaiseRest(h) \/ RaiseDifference(h)
  <2>1. CASE RaiseDeposit(h)
    <3> DEFINE s == IF Rest(h) > 0 THEN "rest" ELSE "raised"
    <3>1. PICK p : job' = [job EXCEPT ![h].stage = s, ![h].paid = p]
      BY <2>1 DEF RaiseDeposit
    <3>2. s \notin Landing
      OBVIOUS
    <3> HIDE DEF s
    <3> QED BY <2>1, <3>1, <3>2, PaidShape DEF RaiseDeposit, At
  <2>2. CASE RaiseRest(h)
    <3>1. PICK p : job' = [job EXCEPT ![h].stage = "raised", ![h].paid = p]
      BY <2>2, RaisedRest
    <3>2. GoesOn(h) /\ job'[h].stage = "raised"
      BY <2>2, <3>1, PaidShape DEF RaiseRest, At
    <3> QED BY <2>2, <3>2 DEF RaiseRest
  <2>3. CASE RaiseDifference(h)
    <3>1. PICK t : job' = [job EXCEPT ![h].stage = "differs", ![h].transfer = t]
      BY <2>3 DEF RaiseDifference
    <3>2. GoesOn(h) /\ job'[h].stage = "differs"
      BY <2>3, <3>1, DifferenceShape DEF RaiseDifference
    <3> QED BY <2>3, <3>2 DEF RaiseDifference
  <2> QED BY <1>1, <2>1, <2>2, <2>3
<1>2. CASE SettleRead(h) \/ ReadAgain(h)
  BY <1>2 DEF SettleRead, ReadAgain, JobInv, JobOK, GoesOn, JobField, tables
<1>3. CASE CallbackRow(h)
  BY <1>3, Turns DEF CallbackRow, At
<1>4. CASE CorrectBalance(h) \/ DeliverCount(h) \/ Fulfil(h) \/ VoidMoney(h)
  BY <1>4, Turns DEF CorrectBalance, DeliverCount, Fulfil, VoidMoney, At, tables
<1> QED BY <1>1, <1>2, <1>3, <1>4 DEF Carries

LEMMA ClosesOff ==
  ASSUME NEW h \in Handler, Closes(h)
  PROVE  Ends(h) /\ UNCHANGED <<order, stock, locks>>
  BY DEF Closes, CallbackAnswer, SettleEnds, RecordCorrected, RecordDifference, NothingToSettle,
         Ends, At, tables

-----------------------------------------------------------------------------
(* What a write of the status leaves alone.                                *)
LEMMA StatusSet ==
  ASSUME OrderInv, NEW s \in Status, SetStatus(s)
  PROVE  /\ order' \in OrderRow /\ order'.edition = order.edition /\ order'.lines = order.lines
         /\ order'.attempt = order.attempt /\ order'.status = s
  BY DEF OrderInv, OrderRow, SetStatus

LEMMA WritesStatus ==
  ASSUME OrderInv, JobInv, NEW h \in Handler, Writes(h)
  PROVE  /\ Ends(h) \/ (GoesOn(h) /\ job'[h].stage \notin Landing)
         /\ order' \in OrderRow /\ order'.edition = order.edition /\ order'.lines = order.lines
         /\ order'.status = "RECEIVED" => order.status = "RECEIVED"
         /\ UNCHANGED <<stock, locks>>
<1> USE DEF Landing
<1>1. CASE RecordRaised(h)
  BY <1>1, StatusSet DEF RecordRaised, Status, Ends, At
<1>2. CASE CallbackStatus(h)
  BY <1>2, StatusSet, Turns DEF CallbackStatus, Target, Status, At, OrderInv
<1>3. CASE MoveOn(h)
  BY <1>3, StatusSet DEF MoveOn, Becomes, Status, Ends, At
<1>4. CASE Resubmit(h)
  <2>1. order' = [order EXCEPT !.status = "DRAFT", !.attempt = order.attempt + 1]
    BY <1>4 DEF Resubmit, OrderInv, OrderRow
  <2>2. "DRAFT" \in Status
    BY DEF Status
  <2> DEFINE a == order.attempt + 1
  <2>a. a \in Nat
    BY DEF OrderInv, OrderRow
  <2> HIDE DEF a
  <2>b. order' = [order EXCEPT !.status = "DRAFT", !.attempt = a]
    BY <2>1 DEF a
  <2>3. /\ order' \in OrderRow /\ order'.edition = order.edition /\ order'.lines = order.lines
        /\ order'.status = "DRAFT"
    BY <2>a, <2>b, <2>2 DEF OrderInv, OrderRow
  <2> QED BY <1>4, <2>3 DEF Resubmit, Ends, At
<1>5. CASE CloseShort(h)
  BY <1>5, StatusSet, Turns DEF CloseShort, Status, At
<1>6. CASE Cancel(h)
  BY <1>6, StatusSet DEF Cancel, Status, Ends, At
<1>7. CASE RemoveRow(h)
  BY <1>7, StatusSet DEF RemoveRow, Status, Ends, At
<1> QED BY <1>1, <1>2, <1>3, <1>4, <1>5, <1>6, <1>7 DEF Writes

(* An edit writes the lines anew, under the next edition.                  *)
LEMMA Edits ==
  ASSUME TypeInv, NEW h \in Handler, EditWrite(h)
  PROVE  /\ Ends(h) /\ order' \in OrderRow /\ order'.edition = order.edition + 1
         /\ order'.status = order.status /\ order'.attempt = order.attempt
         /\ UNCHANGED <<stock, locks>>
<1>1. job[h].arg \in Draft
  BY DEF EditWrite, At, TypeInv, JobInv, JobOK, ArgOK
<1> DEFINE d == job[h].arg
<1>2. /\ d.deposit \in Nat /\ d.lines \in [Item -> [quantity : Nat, price : Nat]]
  BY <1>1, DraftsGiven
<1>3. NewLines(d.lines) \in [Item -> LineRow]
  BY <1>2 DEF NewLines, LineRow
<1>4. order' = [order EXCEPT !.lines = NewLines(d.lines), !.deposit = d.deposit, !.edition = @ + 1]
  BY DEF EditWrite
<1> DEFINE n == NewLines(d.lines)  e == d.deposit  k == order.edition + 1
<1>5. order' = [order EXCEPT !.lines = n, !.deposit = e, !.edition = k]
  BY <1>4 DEF TypeInv, OrderInv, OrderRow
<1>6. n \in [Item -> LineRow] /\ e \in Nat /\ k \in Nat
  BY <1>2, <1>3 DEF TypeInv, OrderInv, OrderRow
<1> HIDE DEF n, e, k, d
<1>7. /\ order' \in OrderRow /\ order'.edition = k
      /\ order'.status = order.status /\ order'.attempt = order.attempt
  BY <1>5, <1>6 DEF TypeInv, OrderInv, OrderRow
<1> QED
  BY <1>7 DEF EditWrite, Ends, At, k

(* A correction of prices leaves quantities and what arrived alone.        *)
LEMMA Reprices ==
  ASSUME TypeInv, NEW h \in Handler, Reprice(h)
  PROVE  /\ GoesOn(h) /\ job'[h].stage \notin Landing
         /\ order' \in OrderRow /\ order'.edition = order.edition
         /\ order'.status = order.status /\ order'.attempt = order.attempt
         /\ \A i \in Item : /\ order'.lines[i].received = order.lines[i].received
                            /\ order'.lines[i].quantity = order.lines[i].quantity
         /\ UNCHANGED <<stock, locks>>
<1> DEFINE i == job[h].arg.item  p == job[h].arg.price
<1>1. i \in Item /\ p \in Nat
  BY BoundsAreNumbers DEF Reprice, At, TypeInv, JobInv, JobOK, ArgOK
<1>2. GoesOn(h) /\ job'[h].stage \notin Landing /\ UNCHANGED <<stock, locks>>
  BY Turns DEF Reprice, At, TypeInv, Landing
<1>3. \/ order' = order
      \/ order' = [order EXCEPT !.lines[i].invoiced = p]
      \/ order' = [order EXCEPT !.lines[i].price = p]
  BY DEF Reprice
<1> HIDE DEF i, p
<1>4. CASE order' = [order EXCEPT !.lines[i].invoiced = p]
  BY <1>1, <1>2, <1>4 DEF TypeInv, OrderInv, OrderRow, LineRow
<1>5. CASE order' = [order EXCEPT !.lines[i].price = p]
  BY <1>1, <1>2, <1>5 DEF TypeInv, OrderInv, OrderRow, LineRow
<1> QED BY <1>2, <1>3, <1>4, <1>5 DEF TypeInv, OrderInv

(* A delivery that commits is counted on its lines and on the shelf alike. *)
LEMMA DeliveredShape ==
  ASSUME TypeInv, NEW h \in Handler, ~Idle(h), job[h].op = "receive"
  PROVE  /\ Delivered(h) \in [Item -> LineRow]
         /\ \A i \in Item :
              /\ job[h].arg.quantity[i] \in Nat
              /\ Delivered(h)[i].received = order.lines[i].received + job[h].arg.quantity[i]
              /\ Delivered(h)[i].quantity = order.lines[i].quantity
<1>1. /\ job[h].arg.quantity \in [Item -> 0..MaxQty] /\ job[h].arg.price \in Nat \union {None}
  BY BoundsAreNumbers DEF TypeInv, JobInv, JobOK, ArgOK
<1>2. order.lines \in [Item -> LineRow]
  BY DEF TypeInv, OrderInv, OrderRow
<1> DEFINE q == job[h].arg.quantity  p == job[h].arg.price  L == order.lines
<1>3. ASSUME NEW i \in Item
      PROVE  /\ q[i] \in Nat
             /\ Delivered(h)[i] \in LineRow
             /\ Delivered(h)[i].received = L[i].received + q[i]
             /\ Delivered(h)[i].quantity = L[i].quantity
  <2>0. q[i] \in Nat
    BY <1>1, MaxQtyIsNumber
  <2>1. CASE q[i] > 0
    <3> DEFINE v == IF p = None THEN L[i].invoiced ELSE p
    <3>1. Delivered(h)[i] = [L[i] EXCEPT !.received = @ + q[i],
                              !.invoiced = IF p = None THEN @ ELSE p]
      BY <2>1 DEF Delivered, Asked
    <3>2. L[i] \in LineRow
      BY <1>2
    <3>3. Delivered(h)[i] = [L[i] EXCEPT !.received = L[i].received + q[i], !.invoiced = v]
      BY <3>1, <3>2 DEF LineRow
    <3>4. v \in Nat \union {None}
      BY <1>1, <3>2 DEF LineRow
    <3> DEFINE w == L[i].received + q[i]
    <3>5. w \in Nat
      BY <2>0, <3>2 DEF LineRow
    <3>6. Delivered(h)[i] = [L[i] EXCEPT !.received = w, !.invoiced = v]
      BY <3>3
    <3> HIDE DEF w, v, q, p, L
    <3>7. Delivered(h)[i] \in LineRow /\ Delivered(h)[i].received = w
            /\ Delivered(h)[i].quantity = L[i].quantity
      BY <3>2, <3>4, <3>5, <3>6 DEF LineRow
    <3> QED BY <2>0, <3>7 DEF w
  <2>2. CASE ~(q[i] > 0)
    <3>1. Delivered(h)[i] = L[i] /\ L[i] \in LineRow
      BY <1>2, <2>2 DEF Delivered, Asked
    <3>2. q[i] = 0
      BY <2>0, <2>2
    <3> HIDE DEF q, L
    <3> QED BY <2>0, <3>1, <3>2 DEF LineRow
  <2> QED BY <2>1, <2>2
<1>4. Delivered(h) = [i \in Item |-> Delivered(h)[i]]
  BY DEF Delivered
<1> QED BY <1>3, <1>4

LEMMA Commits ==
  ASSUME TypeInv, NEW h \in Handler, DeliverCommit(h)
  PROVE  /\ Ends(h) \/ (GoesOn(h) /\ job'[h].stage \notin Landing)
         /\ order' \in OrderRow /\ order'.edition = order.edition /\ order'.attempt = order.attempt
         /\ order'.lines = Delivered(h)
         /\ order'.status = IF job[h].stage = "complete" THEN "RECEIVED" ELSE "PARTIALLY_RECEIVED"
         /\ stock' \in [Item -> Nat]
         /\ \A i \in Item : stock'[i] = stock[i] + job[h].arg.quantity[i]
         /\ locks' = [locks EXCEPT ![h] = {}]
<1>1. ~Idle(h) /\ job[h].op = "receive"
  BY DEF DeliverCommit, At
<1> DEFINE d == Delivered(h)
           s == IF job[h].stage = "complete" THEN "RECEIVED" ELSE "PARTIALLY_RECEIVED"
<1>2. d \in [Item -> LineRow] /\ s \in Status /\ \A i \in Item : job[h].arg.quantity[i] \in Nat
  BY <1>1, DeliveredShape DEF Status
<1>3. order' = [order EXCEPT !.lines = d, !.status = s]
  BY DEF DeliverCommit
<1>4. Ends(h) \/ (GoesOn(h) /\ job'[h].stage \notin Landing)
  <2>1. CASE job[h].stage = "partial"
    BY <1>1, <2>1 DEF DeliverCommit, Ends
  <2>2. CASE job[h].stage # "partial"
    <3>1. PICK e, v : job' = [job EXCEPT ![h].stage = "fulfil", ![h].deposit = e, ![h].value = v]
      BY <2>2 DEF DeliverCommit
    <3> QED BY <1>1, <3>1 DEF TypeInv, JobInv, JobOK, GoesOn, JobField, Landing
  <2> QED BY <2>1, <2>2
<1>5. stock' = [i \in Item |-> stock[i] + job[h].arg.quantity[i]]
  BY DEF DeliverCommit
<1>6. stock' \in [Item -> Nat] /\ \A i \in Item : stock'[i] = stock[i] + job[h].arg.quantity[i]
  BY <1>2, <1>5 DEF TypeInv, OrderInv
<1> HIDE DEF d, s
<1>7. order' \in OrderRow /\ order'.edition = order.edition /\ order'.attempt = order.attempt
        /\ order'.lines = d /\ order'.status = s
  BY <1>2, <1>3 DEF TypeInv, OrderInv, OrderRow
<1> QED BY <1>4, <1>6, <1>7 DEF DeliverCommit, d, s

-----------------------------------------------------------------------------
(* Everything a handler does but an edit keeps the quantities ordered and  *)
(* takes nothing back of what arrived.                                     *)
Does(h) ==
  \/ Reads(h) \/ Carries(h) \/ Closes(h) \/ Writes(h)
  \/ Reprice(h) \/ DeliverLines(h) \/ DeliverCommit(h) \/ Abort(h)

LinesGrow == \A i \in Item : /\ order'.lines[i].quantity = order.lines[i].quantity
                             /\ order'.lines[i].received >= order.lines[i].received

LEMMA LinesKept ==
  ASSUME order \in OrderRow,
         \A i \in Item : /\ order'.lines[i].quantity = order.lines[i].quantity
                         /\ order'.lines[i].received = order.lines[i].received
  PROVE  LinesGrow
<1>1. \A i \in Item : order.lines[i].received \in Nat
  BY DEF OrderRow, LineRow
<1> QED BY <1>1 DEF LinesGrow

LEMMA DoesShape ==
  ASSUME TypeInv, NEW h \in Handler, Does(h)
  PROVE  /\ JobMoves(h) /\ order' \in OrderRow /\ order'.edition = order.edition
         /\ stock' \in [Item -> Nat] /\ locks' \in [Handler -> SUBSET Item]
         /\ LinesGrow
         /\ \A g \in Handler : g # h => locks'[g] = locks[g]
<1>0. order \in OrderRow /\ stock \in [Item -> Nat] /\ locks \in [Handler -> SUBSET Item]
  BY DEF TypeInv, OrderInv
<1>1. CASE order' = order /\ stock' = stock /\ locks' = locks /\ JobMoves(h)
  BY <1>0, <1>1, LinesKept
<1>2. CASE Reads(h) \/ Carries(h) \/ Closes(h)
  BY <1>1, <1>2, ReadsOnly, CarriesOn, ClosesOff DEF TypeInv, tables, JobMoves
<1>3. CASE Writes(h)
  BY <1>0, <1>3, WritesStatus, LinesKept DEF TypeInv, JobMoves
<1>4. CASE Reprice(h)
  BY <1>0, <1>4, Reprices, LinesKept DEF JobMoves
<1>5. CASE DeliverLines(h)
  BY <1>0, <1>5, Turns, LinesKept DEF DeliverLines, At, JobMoves, TypeInv, Asked
<1>6. CASE DeliverCommit(h)
  <2>1. ~Idle(h) /\ job[h].op = "receive"
    BY <1>6 DEF DeliverCommit, At
  <2>2. \A i \in Item : /\ job[h].arg.quantity[i] \in Nat /\ order.lines[i].received \in Nat
                        /\ order'.lines[i].received
                             = order.lines[i].received + job[h].arg.quantity[i]
                        /\ order'.lines[i].quantity = order.lines[i].quantity
    BY <1>0, <1>6, <2>1, Commits, DeliveredShape DEF OrderRow, LineRow
  <2>3. LinesGrow
    BY <2>2 DEF LinesGrow
  <2> QED BY <1>0, <1>6, <2>3, Commits DEF JobMoves
<1>7. CASE Abort(h)
  BY <1>0, <1>7, LinesKept DEF Abort, JobMoves, Ends
<1> QED BY <1>2, <1>3, <1>4, <1>5, <1>6, <1>7 DEF Does

LEMMA TypeStep ==
  ASSUME TypeInv, [Next]_vars
  PROVE  TypeInv'
<1>1. CASE UNCHANGED <<order, stock, locks, job>>
  BY <1>1 DEF TypeInv, OrderInv, JobInv, Idle
<1>2. ASSUME NEW h \in Handler, Does(h)
      PROVE  TypeInv'
  <2>1. JobInv'
    BY <1>2, DoesShape, MovesKeepShape DEF TypeInv
  <2> QED BY <1>2, <2>1, DoesShape DEF TypeInv, OrderInv
<1>3. ASSUME NEW h \in Handler, EditWrite(h)
      PROVE  TypeInv'
  <2>1. JobInv'
    BY <1>3, Edits, MovesKeepShape DEF TypeInv, JobMoves
  <2>2. order' \in OrderRow /\ order'.edition >= 1 /\ stock' = stock /\ locks' = locks
    BY <1>3, Edits DEF TypeInv, OrderInv, OrderRow
  <2> QED BY <2>1, <2>2 DEF TypeInv, OrderInv
<1> QED BY <1>1, <1>2, <1>3, StepCases DEF vars, Does

LEMMA TypeStart ==
  ASSUME Init
  PROVE  TypeInv
<1>1. PICK instance \in Instance :
        order = [status |-> "DRAFT", deposit |-> instance.draft.deposit, attempt |-> 1,
                 edition |-> 1, lines |-> NewLines(instance.draft.lines)]
  BY DEF Init
<1>2. instance.draft.deposit \in Nat /\ instance.draft.lines \in [Item -> [quantity : Nat, price : Nat]]
  BY <1>1, DraftsGiven
<1>3. NewLines(instance.draft.lines) \in [Item -> LineRow]
  BY <1>2 DEF NewLines, LineRow
<1>4. order \in OrderRow /\ order.edition >= 1
  BY <1>1, <1>2, <1>3 DEF OrderRow, Status
<1> QED BY <1>4 DEF Init, TypeInv, OrderInv, JobInv, Idle

-----------------------------------------------------------------------------
(* While the lines are those the order was written with, they count what   *)
(* was put on the shelf: a delivery adds to both in the same commit, and   *)
(* an edit that begins a new count is no longer edition one.               *)
LEMMA CountStart ==
  ASSUME Init
  PROVE  LinesCountTheStock
<1>1. \A i \in Item : order.lines[i].received = 0 /\ stock[i] = 0
  BY DEF Init, NewLines
<1> QED BY <1>1 DEF LinesCountTheStock

LEMMA CountStep ==
  ASSUME TypeInv, LinesCountTheStock, [Next]_vars
  PROVE  LinesCountTheStock'
<1>0. order \in OrderRow /\ order.edition >= 1
  BY DEF TypeInv, OrderInv
<1>1. CASE order' = order /\ stock' = stock
  BY <1>1 DEF LinesCountTheStock
<1>2. ASSUME NEW h \in Handler, Writes(h) PROVE LinesCountTheStock'
  BY <1>2, WritesStatus DEF LinesCountTheStock, TypeInv
<1>3. ASSUME NEW h \in Handler, EditWrite(h) PROVE LinesCountTheStock'
  BY <1>0, <1>3, Edits DEF LinesCountTheStock, OrderRow
<1>4. ASSUME NEW h \in Handler, Reprice(h) PROVE LinesCountTheStock'
  BY <1>4, Reprices DEF LinesCountTheStock
<1>5. ASSUME NEW h \in Handler, DeliverCommit(h) PROVE LinesCountTheStock'
  <2>1. ~Idle(h) /\ job[h].op = "receive"
    BY <1>5 DEF DeliverCommit, At
  <2> QED BY <1>5, <2>1, Commits, DeliveredShape DEF LinesCountTheStock
<1>6. ASSUME NEW h \in Handler,
             Reads(h) \/ Carries(h) \/ Closes(h) \/ DeliverLines(h) \/ Abort(h)
      PROVE  order' = order /\ stock' = stock
  BY <1>6, ReadsOnly, CarriesOn, ClosesOff DEF TypeInv, tables, DeliverLines, Abort
<1> QED BY <1>1, <1>2, <1>3, <1>4, <1>5, <1>6, StepCases DEF vars

(* receive: as long as its lines are not written anew, an order counts     *)
(* every unit it has put on the shelf, however its deliveries overlap.     *)
THEOREM ShelfAlwaysCounted == Spec => []LinesCountTheStock
<1>1. Init => TypeInv /\ LinesCountTheStock
  BY TypeStart, CountStart
<1>2. TypeInv /\ LinesCountTheStock /\ [Next]_vars => (TypeInv /\ LinesCountTheStock)'
  BY TypeStep, CountStep
<1> QED BY <1>1, <1>2, PTL DEF Spec

-----------------------------------------------------------------------------
(* A delivery that has updated its lines holds their locks until it ends,  *)
(* and one that has found the order complete is right about it: lines can  *)
(* only be written anew by a handler that holds none of theirs.            *)
LandingInv == \A h \in Handler : ~Idle(h) /\ job[h].op = "receive" =>
  /\ job[h].stage \in Landing => locks[h] = Asked(h)
  /\ job[h].stage = "complete" => \A i \in Item :
       order.lines[i].received + job[h].arg.quantity[i] >= order.lines[i].quantity

LEMMA AskedIsSome ==
  ASSUME JobInv, NEW h \in Handler, ~Idle(h), job[h].op = "receive"
  PROVE  Asked(h) # {} /\ Asked(h) \subseteq Item
  BY DEF JobInv, JobOK, ArgOK, Asked

(* Nobody writes the lines anew under a delivery that has landed.          *)
LEMMA EditsApart ==
  ASSUME TypeInv, LandingInv, NEW h \in Handler, NEW g \in Handler, g # h, EditWrite(h),
         ~Idle(g), job[g].op = "receive"
  PROVE  job[g].stage \notin Landing
  BY AskedIsSome DEF EditWrite, Writable, LandingInv, TypeInv

(* Another handler's landed delivery is not disturbed.                     *)
LEMMA OthersLand ==
  ASSUME TypeInv, LandingInv, NEW h \in Handler, Does(h), NEW g \in Handler, g # h,
         job'[g] # None, job'[g].op = "receive"
  PROVE  /\ job'[g].stage \in Landing => locks'[g] = Asked(g)'
         /\ job'[g].stage = "complete" => \A i \in Item :
              order'.lines[i].received + job'[g].arg.quantity[i] >= order'.lines[i].quantity
<1>1. job'[g] = job[g] /\ locks'[g] = locks[g] /\ LinesGrow /\ order' \in OrderRow
  <2>1. JobMoves(h)
    BY DoesShape
  <2>2. job'[g] = job[g]
    BY <2>1, BeginsShape, EndsShape DEF JobMoves, Begins, GoesOn, Ends, TypeInv
  <2> QED BY <2>2, DoesShape
<1>2. ~Idle(g) /\ job[g].op = "receive" /\ Asked(g)' = Asked(g)
  BY <1>1 DEF Idle, Asked
<1>3. \A i \in Item : /\ order.lines[i].received \in Nat /\ order.lines[i].quantity \in Nat
                      /\ order'.lines[i].received \in Nat /\ job[g].arg.quantity[i] \in Nat
  BY <1>1, <1>2, DeliveredShape DEF TypeInv, OrderInv, OrderRow, LineRow
<1> QED BY <1>1, <1>2, <1>3 DEF LandingInv, LinesGrow

(* Its own handler lands it, and finds it complete, as the invariant says. *)
LEMMA OwnLands ==
  ASSUME TypeInv, LandingInv, NEW h \in Handler, Does(h), job'[h] # None, job'[h].op = "receive"
  PROVE  /\ job'[h].stage \in Landing => locks'[h] = Asked(h)'
         /\ job'[h].stage = "complete" => \A i \in Item :
              order'.lines[i].received + job'[h].arg.quantity[i] >= order'.lines[i].quantity
<1>1. CASE job'[h].stage \notin Landing
  BY <1>1 DEF Landing
<1>2. CASE Reads(h)
  <2>1. job'[h].stage \in First
    BY <1>2, ReadsOnly, BeginsShape DEF Begins, TypeInv
  <2> QED BY <1>1, <2>1 DEF First, Landing
<1>3. CASE DeliverLines(h)
  <2>1. ~Idle(h) /\ GoesOn(h) /\ job'[h].stage = "updated" /\ job[h].op = "receive"
    BY <1>3, Turns DEF DeliverLines, At, TypeInv
  <2>2. locks'[h] = Asked(h) /\ Asked(h)' = Asked(h)
    BY <1>3, <2>1 DEF DeliverLines, TypeInv, OrderInv, GoesOn, Asked
  <2> QED BY <2>1, <2>2
<1>4. CASE DeliverCount(h)
  <2> DEFINE full == \A i \in Item : Delivered(h)[i].received >= order.lines[i].quantity
             s == IF full THEN "complete" ELSE "partial"
  <2>1. ~Idle(h) /\ job[h].op = "receive" /\ job[h].stage = "updated" /\ Turn(h, s)
          /\ order' = order /\ locks' = locks
    BY <1>4 DEF DeliverCount, At, tables
  <2>2. s = "complete" => \A i \in Item :
          order.lines[i].received + job[h].arg.quantity[i] >= order.lines[i].quantity
    BY <2>1, DeliveredShape
  <2> HIDE DEF s
  <2>3. GoesOn(h) /\ job'[h].stage = s
    BY <2>1, Turns DEF TypeInv
  <2>4. locks[h] = Asked(h)
    BY <2>1 DEF LandingInv, Landing
  <2>5. Asked(h)' = Asked(h)
    BY <2>3 DEF GoesOn, Asked
  <2> QED BY <2>1, <2>2, <2>3, <2>4, <2>5 DEF GoesOn
<1> QED
  BY <1>1, <1>2, <1>3, <1>4, CarriesOn, ClosesOff, WritesStatus, Reprices, Commits, EndsShape
     DEF Does, Ends, Abort, TypeInv

LEMMA LandingStep ==
  ASSUME TypeInv, LandingInv, [Next]_vars
  PROVE  LandingInv'
<1>1. CASE UNCHANGED <<order, stock, locks, job>>
  BY <1>1 DEF LandingInv, Idle, Asked
<1>2. ASSUME NEW h \in Handler, Does(h)
      PROVE  LandingInv'
  BY <1>2, OthersLand, OwnLands DEF LandingInv, Idle
<1>3. ASSUME NEW h \in Handler, EditWrite(h), NEW g \in Handler, ~Idle(g)', job'[g].op = "receive"
      PROVE  job'[g].stage \notin Landing
  <2>1. g # h /\ job'[g] = job[g]
    BY <1>3, Edits, EndsShape DEF Ends, TypeInv, Idle
  <2>2. ~Idle(g) /\ job[g].op = "receive"
    BY <1>3, <2>1 DEF Idle
  <2> QED BY <1>3, <2>1, <2>2, EditsApart
<1>4. ASSUME NEW h \in Handler, EditWrite(h)
      PROVE  LandingInv'
  BY <1>3, <1>4 DEF LandingInv, Landing
<1> QED BY <1>1, <1>2, <1>4, StepCases DEF vars, Does

LEMMA LandingStart ==
  ASSUME Init
  PROVE  LandingInv
  BY DEF Init, LandingInv, Idle

(* Only a delivery that found every line satisfied makes an order received. *)
LEMMA CompleteStep ==
  ASSUME TypeInv, LandingInv, [Next]_vars, order.status # "RECEIVED", order'.status = "RECEIVED"
  PROVE  \A i \in Item : order'.lines[i].received >= order'.lines[i].quantity
<1>1. PICK h \in Handler : DeliverCommit(h)
  BY StepCases, ReadsOnly, CarriesOn, ClosesOff, WritesStatus, Edits, Reprices
     DEF vars, TypeInv, tables, DeliverLines, Abort
<1>2. ~Idle(h) /\ job[h].op = "receive"
  BY <1>1 DEF DeliverCommit, At
<1>3. job[h].stage = "complete"
  BY <1>1, Commits
<1>4. \A i \in Item : order.lines[i].received + job[h].arg.quantity[i] >= order.lines[i].quantity
  BY <1>2, <1>3 DEF LandingInv
<1> QED BY <1>1, <1>2, <1>4, Commits, DeliveredShape

(* receive: an order becomes RECEIVED only when nothing of it is           *)
(* outstanding, whatever deliveries, edits and corrections overlap.        *)
THEOREM CompleteWhenReceived == Spec => ReceivedWhenComplete
<1>1. Init => TypeInv /\ LandingInv
  BY TypeStart, LandingStart
<1>2. TypeInv /\ LandingInv /\ [Next]_vars => (TypeInv /\ LandingInv)'
  BY TypeStep, LandingStep
<1> DEFINE A == order.status # "RECEIVED" /\ order'.status = "RECEIVED" =>
                  \A i \in Item : order'.lines[i].received >= order'.lines[i].quantity
<1>3. TypeInv /\ LandingInv /\ [Next]_vars => [A]_vars
  BY CompleteStep
<1> QED BY <1>1, <1>2, <1>3, PTL DEF Spec, ReceivedWhenComplete

-----------------------------------------------------------------------------
(* What is needed of sequences whose elements are not all of one type.     *)
IsSeq(s) == \E S : s \in Seq(S)

LEMMA SeqShape ==
  ASSUME NEW n \in Nat, NEW f, f = [i \in 1..n |-> f[i]]
  PROVE  IsSeq(f) /\ Len(f) = n /\ DOMAIN f = 1..n
<1> DEFINE S == {f[i] : i \in 1..n}
<1>1. f \in [1..n -> S]
  OBVIOUS
<1> HIDE DEF S
<1> QED BY <1>1 DEF IsSeq

LEMMA SeqDomain ==
  ASSUME NEW s, IsSeq(s)
  PROVE  Len(s) \in Nat /\ DOMAIN s = 1..Len(s) /\ s = [i \in 1..Len(s) |-> s[i]]
  BY DEF IsSeq

LEMMA SeqAppended ==
  ASSUME NEW s, IsSeq(s), NEW e
  PROVE  /\ IsSeq(Append(s, e)) /\ DOMAIN Append(s, e) = DOMAIN s \union {Len(s) + 1}
         /\ \A i \in DOMAIN s : Append(s, e)[i] = s[i]
         /\ Append(s, e)[Len(s) + 1] = e
<1>1. PICK S : s \in Seq(S)
  BY DEF IsSeq
<1> DEFINE T == S \union {e}
<1>2. s \in Seq(T) /\ e \in T
  BY <1>1
<1> HIDE DEF T
<1>3. Append(s, e) \in Seq(T)
  BY <1>2
<1> QED BY <1>2, <1>3 DEF IsSeq

LEMMA SeqChanged ==
  ASSUME NEW s, IsSeq(s), NEW f, DOMAIN f = DOMAIN s, f = [i \in DOMAIN s |-> f[i]]
  PROVE  IsSeq(f)
<1>1. Len(s) \in Nat /\ DOMAIN s = 1..Len(s)
  BY SeqDomain
<1> DEFINE n == Len(s)
<1>2. n \in Nat /\ f = [i \in 1..n |-> f[i]]
  BY <1>1
<1> HIDE DEF n
<1> QED BY <1>2, SeqShape

LEMMA SeqJoined ==
  ASSUME NEW s, IsSeq(s), NEW r, IsSeq(r)
  PROVE  /\ IsSeq(s \o r)
         /\ \A i \in DOMAIN (s \o r) :
              \/ i \in DOMAIN s /\ (s \o r)[i] = s[i]
              \/ \E k \in DOMAIN r : (s \o r)[i] = r[k]
<1>1. PICK S : s \in Seq(S)
  BY DEF IsSeq
<1>2. PICK R : r \in Seq(R)
  BY DEF IsSeq
<1> DEFINE T == S \union R
<1>3. s \in Seq(T) /\ r \in Seq(T)
  BY <1>1, <1>2
<1> HIDE DEF T
<1>4. s \o r \in Seq(T) /\ Len(s \o r) = Len(s) + Len(r)
  BY <1>3
<1>5. ASSUME NEW i \in DOMAIN (s \o r)
      PROVE  \/ i \in DOMAIN s /\ (s \o r)[i] = s[i]
             \/ \E k \in DOMAIN r : (s \o r)[i] = r[k]
  <2>1. i \in 1..(Len(s) + Len(r)) /\ Len(s) \in Nat /\ Len(r) \in Nat
          /\ DOMAIN s = 1..Len(s) /\ DOMAIN r = 1..Len(r)
    BY <1>3, <1>4
  <2>2. CASE i <= Len(s)
    BY <1>3, <2>1, <2>2
  <2>3. CASE i > Len(s)
    <3>1. i - Len(s) \in DOMAIN r /\ (s \o r)[i] = r[i - Len(s)]
      BY <1>3, <2>1, <2>3
    <3> QED BY <3>1
  <2> QED BY <2>1, <2>2, <2>3
<1> QED BY <1>4, <1>5 DEF IsSeq

-----------------------------------------------------------------------------
(* One request at a time.  Whoever works is on duty, so a lone desk is the *)
(* only one to move, and what it read of the order stays so until it has   *)
(* written.                                                                *)
Deciding == First \union Landing \union {"raised", "row", "voided"}

DutyInv == \A h \in Handler : ~Idle(h) => job[h].op \in duty[h]
HeadInv == Serial => \A h \in Handler : ~Idle(h) /\ job[h].stage \in Deciding =>
  order.status = job[h].status /\ order.attempt = job[h].attempt

LEMMA LoneDesk ==
  ASSUME Serial, NEW g \in Handler, NEW h \in Handler, duty[g] # {}, duty[h] # {}
  PROVE  g = h
<1> DEFINE D == {k \in Handler : duty[k] # {}}
<1>1. IsFiniteSet(D) /\ Cardinality(D) = 1 /\ g \in D /\ h \in D
  BY HandlersAreFinite, FS_Subset DEF Serial
<1> HIDE DEF D
<1>2. PICK x : D = {x}
  BY <1>1, FS_Singleton
<1> QED BY <1>1, <1>2

LEMMA OthersIdle ==
  ASSUME Serial, DutyInv, NEW h \in Handler, JobMoves(h), NEW g \in Handler, ~Idle(g)
  PROVE  g = h
<1>1. duty[h] # {} /\ duty[g] # {}
  BY DEF JobMoves, Begins, GoesOn, Ends, DutyInv
<1> QED BY <1>1, LoneDesk

LEMMA DutyStep ==
  ASSUME JobInv, DutyInv, NEW h \in Handler, JobMoves(h), duty' = duty
  PROVE  DutyInv'
<1>1. CASE Begins(h)
  <2>1. PICK op, stage, arg : op \in duty[h] /\ Begun(h, op, stage, arg)
    BY <1>1 DEF Begins
  <2> QED BY <2>1, BeginsShape DEF DutyInv, Idle
<1>2. CASE GoesOn(h)
  BY <1>2 DEF DutyInv, GoesOn, Idle
<1>3. CASE Ends(h)
  BY <1>3, EndsShape DEF DutyInv, Ends, Idle
<1> QED BY <1>1, <1>2, <1>3 DEF JobMoves

(* A desk that is still deciding has only read, or goes on with what it    *)
(* read and an order nobody has written.                                   *)
StillDeciding(h) ==
  Reads(h) \/ (order' = order /\ ~Idle(h) /\ job[h].stage \in Deciding /\ GoesOn(h))

(* Where each step takes the work that it does not end.                    *)
Staged(h, stages) == ~Idle(h) /\ GoesOn(h) /\ job'[h].stage \in stages

Settling == {"settle", "known", "corrected", "reread", "fulfil"}

LEMMA Stages ==
  ASSUME TypeInv, NEW h \in Handler, Does(h) \/ EditWrite(h), job'[h] # None
  PROVE  \/ Reads(h) /\ job'[h].stage \in First
         \/ RaiseDeposit(h) /\ Staged(h, {"rest", "raised"})
         \/ RaiseRest(h) /\ Staged(h, {"raised"})
         \/ CallbackRow(h) /\ Staged(h, {"row", "answer"})
         \/ CallbackStatus(h) /\ Staged(h, {"answer"})
         \/ DeliverLines(h) /\ Staged(h, {"updated"})
         \/ DeliverCount(h) /\ Staged(h, {"complete", "partial"})
         \/ VoidMoney(h) /\ Staged(h, {"voided"})
         \/ RaiseDifference(h) /\ Staged(h, {"differs"})
         \/ /\ SettleRead(h) \/ CorrectBalance(h) \/ ReadAgain(h) \/ Fulfil(h)
                 \/ CloseShort(h) \/ Reprice(h) \/ DeliverCommit(h)
            /\ Staged(h, Settling)
<1> USE DEF Staged
<1>0. ~Ends(h)
  BY EndsShape DEF Ends, TypeInv
<1>1. CASE Carries(h)
  <2>1. GoesOn(h) /\ ~Idle(h)
    BY <1>1, CarriesOn DEF TypeInv, GoesOn
  <2>2. CASE RaiseDeposit(h)
    <3> DEFINE s == IF Rest(h) > 0 THEN "rest" ELSE "raised"
    <3>1. PICK p : job' = [job EXCEPT ![h].stage = s, ![h].paid = p]
      BY <2>2 DEF RaiseDeposit
    <3>2. s \in {"rest", "raised"}
      OBVIOUS
    <3> HIDE DEF s
    <3>3. job'[h].stage = s
      BY <2>1, <3>1, PaidShape DEF TypeInv
    <3> QED BY <2>1, <2>2, <3>2, <3>3
  <2>3. CASE RaiseRest(h)
    <3>1. PICK p : job' = [job EXCEPT ![h].stage = "raised", ![h].paid = p]
      BY <2>3, RaisedRest DEF TypeInv
    <3>2. job'[h].stage = "raised"
      BY <2>1, <3>1, PaidShape DEF TypeInv
    <3> QED BY <2>1, <2>3, <3>2
  <2>4. CASE RaiseDifference(h)
    <3>1. PICK t : job' = [job EXCEPT ![h].stage = "differs", ![h].transfer = t]
      BY <2>4 DEF RaiseDifference
    <3>2. job'[h].stage = "differs"
      BY <2>1, <3>1, DifferenceShape DEF TypeInv
    <3> QED BY <2>1, <2>4, <3>2
  <2>5. CASE SettleRead(h) \/ ReadAgain(h)
    <3>1. job'[h].stage \in {"known", "settle"}
      BY <2>1, <2>5 DEF SettleRead, ReadAgain, TypeInv, JobInv, JobOK, JobField
    <3> QED BY <2>1, <2>5, <3>1 DEF Settling
  <2>6. CASE CorrectBalance(h) \/ Fulfil(h)
    <3>1. job'[h].stage \in {"corrected", "settle"}
      BY <2>1, <2>6, Turns DEF CorrectBalance, Fulfil, TypeInv
    <3> QED BY <2>1, <2>6, <3>1 DEF Settling
  <2>7. CASE CallbackRow(h) \/ DeliverCount(h) \/ VoidMoney(h)
    BY <2>1, <2>7, Turns DEF CallbackRow, DeliverCount, VoidMoney, TypeInv
  <2> QED BY <1>1, <2>2, <2>3, <2>4, <2>5, <2>6, <2>7 DEF Carries
<1>2. CASE Closes(h)
  BY <1>0, <1>2, ClosesOff
<1>3. CASE Writes(h)
  <2>1. CallbackStatus(h) \/ CloseShort(h)
    BY <1>0, <1>3 DEF Writes, RecordRaised, MoveOn, Resubmit, Cancel, RemoveRow, Ends, At
  <2> QED BY <2>1, Turns DEF CallbackStatus, CloseShort, At, TypeInv, Settling
<1>4. CASE Reprice(h)
  BY <1>4, Turns DEF Reprice, At, TypeInv, Settling
<1>5. CASE DeliverLines(h)
  BY <1>5, Turns DEF DeliverLines, At, TypeInv
<1>6. CASE DeliverCommit(h)
  <2>1. job[h].stage # "partial"
    BY <1>0, <1>6 DEF DeliverCommit, Ends, At
  <2>2. PICK e, v : job' = [job EXCEPT ![h].stage = "fulfil", ![h].deposit = e, ![h].value = v]
    BY <1>6, <2>1 DEF DeliverCommit
  <2>3. job'[h].stage = "fulfil"
    BY <1>6, <2>2 DEF DeliverCommit, At, TypeInv, JobInv, JobOK, JobField
  <2>4. GoesOn(h) /\ ~Idle(h)
    BY <1>0, <1>6, Commits DEF DeliverCommit, At
  <2> QED BY <1>6, <2>3, <2>4 DEF Settling
<1>7. CASE Abort(h) \/ EditWrite(h)
  BY <1>0, <1>7, Edits DEF Abort, Ends
<1>8. CASE Reads(h)
  BY <1>8, ReadsOnly, BeginsShape DEF Begins, TypeInv
<1> QED BY <1>1, <1>2, <1>3, <1>4, <1>5, <1>6, <1>7, <1>8 DEF Does

LEMMA DecidingStep ==
  ASSUME TypeInv, NEW h \in Handler, Does(h) \/ EditWrite(h),
         job'[h] # None, job'[h].stage \in Deciding
  PROVE  StillDeciding(h)
<1>1. CASE \/ RaiseDeposit(h) \/ RaiseRest(h) \/ CallbackRow(h)
           \/ DeliverLines(h) \/ DeliverCount(h) \/ VoidMoney(h)
  <2>1. ~Idle(h) /\ job[h].stage \in {"deposit", "rest", "read", "updated", "checked"} /\ order' = order
    BY <1>1 DEF RaiseDeposit, RaiseRest, CallbackRow, DeliverLines, DeliverCount, VoidMoney, At, tables
  <2>2. GoesOn(h)
    BY <1>1, CarriesOn, Turns DEF Carries, DeliverLines, At, TypeInv
  <2> QED BY <2>1, <2>2 DEF StillDeciding, Deciding, First, Landing
<1>2. job'[h].stage \notin {"answer", "differs"} \union Settling
  BY DEF Deciding, First, Landing, Settling
<1> QED BY <1>1, <1>2, Stages DEF Staged, StillDeciding

LEMMA MovesAlone ==
  ASSUME TypeInv, NEW h \in Handler, Does(h) \/ EditWrite(h)
  PROVE  JobMoves(h) /\ \A g \in Handler : g # h => job'[g] = job[g]
<1>1. JobMoves(h)
  BY DoesShape, Edits DEF JobMoves
<1> QED BY <1>1, BeginsShape, EndsShape DEF JobMoves, Begins, GoesOn, Ends, TypeInv

LEMMA HeadStep ==
  ASSUME TypeInv, DutyInv, HeadInv, [Next]_vars
  PROVE  HeadInv' /\ DutyInv'
<1>1. CASE UNCHANGED <<order, job, duty>>
  BY <1>1 DEF HeadInv, DutyInv, Idle, Serial
<1>2. ASSUME duty' = duty, NEW h \in Handler, Does(h) \/ EditWrite(h)
      PROVE  HeadInv' /\ DutyInv'
  <2>1. JobMoves(h) /\ \A g \in Handler : g # h => job'[g] = job[g]
    BY <1>2, MovesAlone
  <2>2. DutyInv'
    BY <1>2, <2>1, DutyStep DEF TypeInv
  <2>3. ASSUME Serial, NEW g \in Handler, job'[g] # None, job'[g].stage \in Deciding
        PROVE  order'.status = job'[g].status /\ order'.attempt = job'[g].attempt
    <3>1. g = h
      BY <2>1, <2>3, OthersIdle DEF Idle
    <3>2. StillDeciding(h)
      BY <1>2, <2>3, <3>1, DecidingStep
    <3>3. CASE Reads(h)
      BY <3>1, <3>3, ReadsOnly, BeginsShape DEF Begins, TypeInv, tables
    <3>4. CASE order' = order /\ ~Idle(h) /\ job[h].stage \in Deciding /\ GoesOn(h)
      BY <2>3, <3>1, <3>4 DEF HeadInv, GoesOn
    <3> QED BY <3>2, <3>3, <3>4 DEF StillDeciding
  <2>4. Serial' = Serial
    BY <1>2 DEF Serial
  <2> QED BY <2>2, <2>3, <2>4 DEF HeadInv, Idle
<1> QED BY <1>1, <1>2, StepCases DEF vars, Does

(* What is over stays over: every write of the status is decided on a      *)
(* status that is not final, or is a deletion of what was not received.    *)
LEMMA FinalStep ==
  ASSUME TypeInv, DutyInv, HeadInv, Serial, [Next]_vars,
         order.status \in Settled \union {"CANCELLED"}
  PROVE  \/ order'.status = order.status
         \/ order.status # "RECEIVED" /\ order'.status = "deleted"
<1>0. ASSUME NEW h \in Handler, ~Idle(h), job[h].stage \in Deciding
      PROVE  order.status = job[h].status /\ FromOK(job[h].op, order.status)
  BY <1>0 DEF HeadInv, TypeInv, JobInv, JobOK
<1>1. ASSUME NEW h \in Handler, Writes(h), order'.status # order.status
      PROVE  order.status # "RECEIVED" /\ order'.status = "deleted"
  <2> USE DEF Deciding, First, Settled, FromOK, At
  <2>1. CASE RecordRaised(h)
    BY <1>0, <2>1 DEF RecordRaised
  <2>2. CASE CallbackStatus(h)
    BY <1>0, <1>1, <2>2 DEF CallbackStatus
  <2>3. CASE MoveOn(h)
    BY <1>0, <2>3 DEF MoveOn
  <2>4. CASE Resubmit(h)
    BY <1>0, <2>4 DEF Resubmit
  <2>5. CASE CloseShort(h)
    BY <1>0, <2>5 DEF CloseShort
  <2>6. CASE Cancel(h)
    BY <1>0, <2>6 DEF Cancel
  <2>7. CASE RemoveRow(h)
    BY <1>0, <2>7, StatusSet DEF RemoveRow, TypeInv, Status
  <2> QED BY <1>1, <2>1, <2>2, <2>3, <2>4, <2>5, <2>6, <2>7 DEF Writes
<1>2. ASSUME NEW h \in Handler, DeliverCommit(h)
      PROVE  FALSE
  BY <1>0, <1>2 DEF DeliverCommit, At, Deciding, Landing, FromOK, Settled
<1>3. ASSUME NEW h \in Handler,
             Reads(h) \/ Carries(h) \/ Closes(h) \/ Reprice(h) \/ DeliverLines(h)
               \/ Abort(h) \/ EditWrite(h)
      PROVE  order'.status = order.status
  BY <1>3, ReadsOnly, CarriesOn, ClosesOff, Reprices, Edits DEF TypeInv, tables, DeliverLines, Abort
<1> QED BY <1>1, <1>2, <1>3, StepCases DEF vars

(* cancel: "RECEIVED/CLOSED_SHORT/CANCELLED are final", for a late verdict *)
(* too, where requests come one at a time; what is not received can be     *)
(* deleted.                                                                *)
THEOREM FinalForGood == Spec => FinalStays
<1> DEFINE A == Serial /\ order.status \in Settled \union {"CANCELLED"} =>
                  \/ order'.status = order.status
                  \/ order.status # "RECEIVED" /\ order'.status = "deleted"
           I == TypeInv /\ DutyInv /\ HeadInv
<1>1. Init => I
  BY TypeStart DEF Init, DutyInv, HeadInv, Idle
<1>2. I /\ [Next]_vars => I'
  BY TypeStep, HeadStep
<1>3. I /\ [Next]_vars => [A]_vars
  BY FinalStep
<1> QED BY <1>1, <1>2, <1>3, PTL DEF Spec, FinalStays

-----------------------------------------------------------------------------
(* The rows of finance, and what each of its operations leaves of them.    *)
TransferField == {"kind", "attempt", "amount", "status"}
FinanceInv ==
  /\ IsSeq(transfers)
  /\ \A t \in DOMAIN transfers : DOMAIN transfers[t] = TransferField

FinanceKept ==
  /\ DOMAIN transfers \subseteq DOMAIN transfers'
  /\ \A t \in DOMAIN transfers : /\ transfers'[t].kind = transfers[t].kind
                                 /\ transfers'[t].attempt = transfers[t].attempt

(* New rows only of this kind and attempt, and nothing else changed.       *)
Raised(kind, attempt) ==
  /\ \A t \in DOMAIN transfers : transfers'[t] = transfers[t]
  /\ \A t \in DOMAIN transfers' : t \notin DOMAIN transfers =>
       /\ transfers'[t].kind = kind /\ transfers'[t].attempt = attempt
       /\ transfers'[t].status = "PENDING"

LEMMA RaiseShape ==
  ASSUME FinanceInv, NEW kind, NEW attempt, NEW amount, NEW t, Raise(kind, attempt, amount, t)
  PROVE  /\ FinanceInv' /\ FinanceKept /\ Raised(kind, attempt)
         /\ t \in DOMAIN transfers' /\ transfers'[t].kind = kind /\ transfers'[t].attempt = attempt
<1>1. CASE Keyed(kind, attempt) = {}
  <2> DEFINE r == [kind |-> kind, attempt |-> attempt, amount |-> amount, status |-> "PENDING"]
  <2>1. t = Len(transfers) + 1 /\ transfers' = Append(transfers, r)
    BY <1>1 DEF Raise
  <2>2. DOMAIN r = TransferField /\ r.kind = kind /\ r.attempt = attempt /\ r.status = "PENDING"
    BY DEF TransferField
  <2> HIDE DEF r
  <2>3. /\ IsSeq(transfers') /\ DOMAIN transfers' = DOMAIN transfers \union {t}
        /\ \A u \in DOMAIN transfers : transfers'[u] = transfers[u]
        /\ transfers'[t] = r
    BY <2>1, SeqAppended DEF FinanceInv
  <2> QED BY <2>2, <2>3 DEF FinanceInv, FinanceKept, Raised
<1>2. CASE Keyed(kind, attempt) # {}
  BY <1>2 DEF Raise, Keyed, FinanceInv, FinanceKept, Raised
<1> QED BY <1>1, <1>2

(* A correction changes an amount.                                         *)
LEMMA CorrectShape ==
  ASSUME FinanceInv, NEW t, NEW amount, Correct(t, amount)
  PROVE  /\ FinanceInv' /\ FinanceKept /\ DOMAIN transfers' = DOMAIN transfers
         /\ \A u \in DOMAIN transfers : transfers'[u].status = transfers[u].status
<1>1. transfers' = [transfers EXCEPT ![t].amount = amount]
  BY DEF Correct
<1>2. IsSeq(transfers')
  BY <1>1, SeqChanged DEF FinanceInv
<1> QED BY <1>1, <1>2 DEF FinanceInv, FinanceKept, TransferField

(* Voiding ends what is not booked.                                        *)
LEMMA VoidShape ==
  ASSUME FinanceInv, VoidAll
  PROVE  /\ FinanceInv' /\ FinanceKept /\ DOMAIN transfers' = DOMAIN transfers
         /\ \A u \in DOMAIN transfers : transfers'[u].status \in {transfers[u].status, "VOID"}
<1>1. /\ DOMAIN transfers' = DOMAIN transfers
      /\ transfers' = [u \in DOMAIN transfers |-> transfers'[u]]
      /\ \A u \in DOMAIN transfers :
           transfers'[u] \in {transfers[u], [transfers[u] EXCEPT !.status = "VOID"]}
  BY DEF VoidAll
<1>2. IsSeq(transfers')
  BY <1>1, SeqChanged DEF FinanceInv
<1>3. ASSUME NEW u \in DOMAIN transfers
      PROVE  /\ DOMAIN transfers'[u] = TransferField
             /\ transfers'[u].kind = transfers[u].kind /\ transfers'[u].attempt = transfers[u].attempt
             /\ transfers'[u].status \in {transfers[u].status, "VOID"}
  <2>1. DOMAIN transfers[u] = TransferField
    BY DEF FinanceInv
  <2>2. CASE transfers'[u] = [transfers[u] EXCEPT !.status = "VOID"]
    BY <2>1, <2>2 DEF TransferField
  <2> QED BY <1>1, <2>1, <2>2
<1> QED BY <1>1, <1>2, <1>3 DEF FinanceInv, FinanceKept

(* A verdict is about one row; booking ends what is approved.              *)
LEMMA DecideShape ==
  ASSUME FinanceInv, NEW t, NEW verdict, Decide(t, verdict)
  PROVE  /\ FinanceInv' /\ FinanceKept /\ DOMAIN transfers' = DOMAIN transfers
         /\ \A u \in DOMAIN transfers : u # t => transfers'[u] = transfers[u]
<1> DEFINE s == IF transfers[t].status = "PENDING" THEN verdict ELSE transfers[t].status
<1>1. CASE t \in DOMAIN transfers
  <2>1. transfers' = [transfers EXCEPT ![t].status = IF @ = "PENDING" THEN verdict ELSE @]
    BY DEF Decide
  <2>2. transfers' = [transfers EXCEPT ![t].status = s]
    BY <1>1, <2>1 DEF FinanceInv, TransferField
  <2> HIDE DEF s
  <2>3. IsSeq(transfers')
    BY <2>2, SeqChanged DEF FinanceInv
  <2> QED BY <2>2, <2>3 DEF FinanceInv, FinanceKept, TransferField
<1>2. CASE t \notin DOMAIN transfers
  <2>1. DOMAIN transfers' = DOMAIN transfers /\ \A u \in DOMAIN transfers : transfers'[u] = transfers[u]
    BY <1>2 DEF Decide
  <2>2. transfers' = [u \in DOMAIN transfers |-> transfers'[u]]
    BY DEF Decide
  <2>3. IsSeq(transfers')
    BY <2>1, <2>2, SeqChanged DEF FinanceInv
  <2> QED BY <2>1, <2>3 DEF FinanceInv, FinanceKept
<1> QED BY <1>1, <1>2

LEMMA BookShape ==
  ASSUME FinanceInv, NEW t \in DOMAIN transfers, Book(t)
  PROVE  /\ FinanceInv' /\ FinanceKept /\ DOMAIN transfers' = DOMAIN transfers
         /\ \A u \in DOMAIN transfers : transfers[u].status \in {"PENDING", "VOID"} =>
              transfers'[u].status = transfers[u].status
<1>1. transfers' = [transfers EXCEPT ![t].status = "BOOKED"] /\ transfers[t].status = "APPROVED"
  BY DEF Book
<1>2. IsSeq(transfers')
  BY <1>1, SeqChanged DEF FinanceInv
<1> QED BY <1>1, <1>2 DEF FinanceInv, FinanceKept, TransferField

-----------------------------------------------------------------------------
(* The payment rows.  A row of a correction carries the transfer of one,   *)
(* and an approval records none.                                           *)
PaymentField == {"type", "amount", "transfer", "status"}
IsCorrection(t) == t \in DOMAIN transfers /\ transfers[t].kind \in Correction

RowsOK(rows) == IsSeq(rows) /\ \A n \in DOMAIN rows : DOMAIN rows[n] = PaymentField
NoCorrection(rows) == RowsOK(rows) /\ \A n \in DOMAIN rows : rows[n].type \notin Correction

PaymentInv ==
  /\ RowsOK(payments)
  /\ \A n \in DOMAIN payments :
       payments[n].type \in Correction => IsCorrection(payments[n].transfer)
PaidInv == \A h \in Handler : ~Idle(h) =>
  /\ job[h].op = "approve" =>
       job[h].stage \in {"deposit", "rest", "raised"} /\ NoCorrection(job[h].paid)
  /\ job[h].op = "callback" => job[h].arg.transfer \in DOMAIN transfers
  /\ job[h].stage = "differs" => IsCorrection(job[h].transfer)
MoneyInv == FinanceInv /\ PaymentInv /\ PaidInv

(* A handler leaves finance alone but for these of its steps.              *)
Calls(h) == RaiseDeposit(h) \/ RaiseRest(h) \/ RaiseDifference(h) \/ CorrectBalance(h)
              \/ VoidMoney(h) \/ CallbackAnswer(h)

LEMMA NoCall ==
  ASSUME NEW h \in Handler, Does(h) \/ EditWrite(h), ~Calls(h)
  PROVE  transfers' = transfers
  BY ReadsOnly
     DEF Does, Calls, Carries, Closes, Writes, tables, CallbackRow, SettleRead, ReadAgain,
         DeliverCount, Fulfil, SettleEnds, RecordCorrected, RecordDifference, NothingToSettle,
         RecordRaised, CallbackStatus, MoveOn, Resubmit, CloseShort, Cancel, RemoveRow, EditWrite,
         Reprice, DeliverLines, DeliverCommit, Abort

LEMMA FinanceStep ==
  ASSUME FinanceInv, NEW h \in Handler, Does(h) \/ EditWrite(h)
  PROVE  FinanceInv' /\ FinanceKept
<1>1. CASE transfers' = transfers
  BY <1>1 DEF FinanceInv, FinanceKept
<1>2. CASE RaiseDeposit(h) \/ RaiseRest(h) \/ RaiseDifference(h)
  <2>1. PICK kind, attempt, amount, t : Raise(kind, attempt, amount, t)
    BY <1>2 DEF RaiseDeposit, RaiseRest, RaiseDifference
  <2> QED BY <2>1, RaiseShape
<1>3. CASE CorrectBalance(h)
  BY <1>3, CorrectShape DEF CorrectBalance
<1>4. CASE VoidMoney(h)
  BY <1>1, <1>4, VoidShape DEF VoidMoney
<1>5. CASE CallbackAnswer(h)
  BY <1>5, DecideShape DEF CallbackAnswer
<1> QED BY <1>1, <1>2, <1>3, <1>4, <1>5, NoCall DEF Calls

LEMMA CorrectionStays ==
  ASSUME FinanceKept, NEW t, IsCorrection(t)
  PROVE  IsCorrection(t)'
  BY DEF FinanceKept, IsCorrection

(* Rows change their amount or status, or are added, or go with the order. *)
RowsChanged ==
  /\ RowsOK(payments') /\ DOMAIN payments' = DOMAIN payments
  /\ \A n \in DOMAIN payments : /\ payments'[n].type = payments[n].type
                                /\ payments'[n].transfer = payments[n].transfer

LEMMA RowStatusSet ==
  ASSUME RowsOK(payments), NEW n, NEW s, payments' = [payments EXCEPT ![n].status = s]
  PROVE  RowsChanged
<1>1. IsSeq(payments')
  BY SeqChanged DEF RowsOK
<1> QED BY <1>1 DEF RowsOK, RowsChanged, PaymentField

LEMMA RowCorrected ==
  ASSUME RowsOK(payments), NEW n, NEW a, NEW s,
         payments' = [payments EXCEPT ![n].amount = a, ![n].status = s]
  PROVE  RowsChanged
<1>1. IsSeq(payments')
  BY SeqChanged DEF RowsOK
<1> QED BY <1>1 DEF RowsOK, RowsChanged, PaymentField

LEMMA PaymentStep ==
  ASSUME TypeInv, MoneyInv, NEW h \in Handler, Does(h) \/ EditWrite(h)
  PROVE  PaymentInv'
<1>0. FinanceKept /\ \A t : IsCorrection(t) => IsCorrection(t)'
  BY FinanceStep, CorrectionStays DEF MoneyInv
<1>1. CASE RowsChanged
  BY <1>0, <1>1 DEF MoneyInv, PaymentInv, RowsChanged, RowsOK
<1>2. CASE payments' = payments
  BY <1>0, <1>2 DEF MoneyInv, PaymentInv, RowsOK
<1>3. CASE CallbackRow(h)
  <2>1. payments' = payments \/ \E n, s : payments' = [payments EXCEPT ![n].status = s]
    BY <1>3 DEF CallbackRow
  <2> QED BY <1>1, <1>2, <2>1, RowStatusSet DEF MoneyInv, PaymentInv
<1>4. CASE RecordCorrected(h)
  <2>1. \E n, a, s : payments' = [payments EXCEPT ![n].amount = a, ![n].status = s]
    BY <1>4 DEF RecordCorrected
  <2> QED BY <1>1, <2>1, RowCorrected DEF MoneyInv, PaymentInv
<1>5. CASE RecordDifference(h)
  <2> DEFINE r == [type |-> DeltaKind(h), amount |-> DeltaAmount(h),
                   transfer |-> job[h].transfer, status |-> "PENDING"]
  <2>1. payments' = Append(payments, r) /\ IsCorrection(job[h].transfer)
    BY <1>5 DEF RecordDifference, MoneyInv, PaidInv
  <2>2. DOMAIN r = PaymentField /\ r.transfer = job[h].transfer
    BY DEF PaymentField
  <2> HIDE DEF r
  <2>3. /\ IsSeq(payments') /\ DOMAIN payments' = DOMAIN payments \union {Len(payments) + 1}
        /\ \A n \in DOMAIN payments : payments'[n] = payments[n]
        /\ payments'[Len(payments) + 1] = r
    BY <2>1, SeqAppended DEF MoneyInv, PaymentInv, RowsOK
  <2> QED BY <1>0, <2>1, <2>2, <2>3 DEF MoneyInv, PaymentInv, RowsOK
<1>6. CASE RecordRaised(h)
  <2>1. payments' = payments \o job[h].paid /\ NoCorrection(job[h].paid)
    BY <1>6 DEF RecordRaised, At, MoneyInv, PaidInv
  <2>2. /\ IsSeq(payments')
        /\ \A n \in DOMAIN payments' :
             \/ n \in DOMAIN payments /\ payments'[n] = payments[n]
             \/ \E k \in DOMAIN job[h].paid : payments'[n] = job[h].paid[k]
    BY <2>1, SeqJoined DEF MoneyInv, PaymentInv, RowsOK, NoCorrection
  <2> QED BY <1>0, <2>1, <2>2 DEF MoneyInv, PaymentInv, RowsOK, NoCorrection
<1>7. CASE RemoveRow(h)
  <2>1. payments' = <<>>
    BY <1>7 DEF RemoveRow
  <2>2. IsSeq(payments')
    BY <2>1 DEF IsSeq
  <2> QED BY <2>1, <2>2 DEF PaymentInv, RowsOK
<1>8. CASE /\ ~CallbackRow(h) /\ ~RecordCorrected(h) /\ ~RecordDifference(h)
           /\ ~RecordRaised(h) /\ ~RemoveRow(h)
  <2>1. payments' = payments
    BY <1>8, ReadsOnly
       DEF Does, Carries, Closes, Writes, tables, SettleRead, ReadAgain, DeliverCount, Fulfil,
           SettleEnds, NothingToSettle, CallbackStatus, MoveOn, Resubmit, CloseShort, Cancel,
           EditWrite, Reprice, DeliverLines, DeliverCommit, Abort, RaiseDeposit, RaiseRest,
           RaiseDifference, CorrectBalance, VoidMoney, CallbackAnswer
  <2> QED BY <1>2, <2>1
<1> QED BY <1>3, <1>4, <1>5, <1>6, <1>7, <1>8

(* What an approval has raised so far is what it carries along.            *)
LEMMA ApprovalCarries ==
  ASSUME TypeInv, MoneyInv, NEW h \in Handler, Does(h) \/ EditWrite(h),
         job'[h] # None, job'[h].op = "approve"
  PROVE  job'[h].stage \in {"deposit", "rest", "raised"} /\ NoCorrection(job'[h].paid)
<1> USE DEF Correction
<1>0. ASSUME NEW t, NEW amount, NEW type \in {"PREPAYMENT", "BALANCE"}, NEW r,
             r = [type |-> type, amount |-> amount, transfer |-> t, status |-> "PENDING"]
      PROVE  DOMAIN r = PaymentField /\ r.type \notin Correction
  BY <1>0 DEF PaymentField
<1>1. CASE Reads(h)
  <2>1. job'[h].stage \in {"deposit", "rest"} /\ job'[h].paid = <<>>
    BY <1>1, ReadsOnly, BeginsShape DEF Begins, TypeInv
  <2>2. NoCorrection(<<>>)
    BY DEF NoCorrection, RowsOK, IsSeq
  <2> QED BY <2>1, <2>2
<1>2. ASSUME Staged(h, {"rest", "raised", "row", "answer", "updated", "complete", "partial", "voided",
                        "differs"} \union Settling)
      PROVE  /\ ~Idle(h) /\ job[h].op = "approve" /\ NoCorrection(job[h].paid)
             /\ job[h].stage \in {"deposit", "rest", "raised"}
  BY <1>2 DEF Staged, GoesOn, MoneyInv, PaidInv
<1>3. CASE RaiseDeposit(h) /\ Staged(h, {"rest", "raised"})
  <2>1. PICK t : job' = [job EXCEPT
          ![h].stage = IF Rest(h) > 0 THEN "rest" ELSE "raised",
          ![h].paid = <<[type |-> "PREPAYMENT", amount |-> job[h].deposit,
                         transfer |-> t, status |-> "PENDING"]>>]
    BY <1>3 DEF RaiseDeposit
  <2> DEFINE s == IF Rest(h) > 0 THEN "rest" ELSE "raised"
             r == [type |-> "PREPAYMENT", amount |-> job[h].deposit,
                   transfer |-> t, status |-> "PENDING"]
  <2>2. job' = [job EXCEPT ![h].stage = s, ![h].paid = <<r>>]
    BY <2>1
  <2>3. DOMAIN r = PaymentField /\ r.type \notin Correction
    BY <1>0
  <2> HIDE DEF s, r
  <2>4. job'[h].paid = <<r>>
    BY <1>3, <2>2, PaidShape DEF Staged, TypeInv
  <2>5. NoCorrection(<<r>>)
    <3>1. <<r>> \in Seq({r})
      OBVIOUS
    <3>2. \A n \in DOMAIN <<r>> : <<r>>[n] = r
      OBVIOUS
    <3> QED BY <2>3, <3>1, <3>2 DEF NoCorrection, RowsOK, IsSeq
  <2> QED BY <1>3, <2>4, <2>5 DEF Staged
<1>4. CASE RaiseRest(h) /\ Staged(h, {"raised"})
  <2>1. PICK t : job' = [job EXCEPT ![h].stage = "raised", ![h].paid = RestPaid(h, t)]
    BY <1>4, RaisedRest DEF TypeInv
  <2> DEFINE r == [type |-> "BALANCE", amount |-> Rest(h), transfer |-> t, status |-> "PENDING"]
  <2>2. DOMAIN r = PaymentField /\ r.type \notin Correction
    BY <1>0
  <2>3. job'[h].paid = Append(job[h].paid, r) /\ NoCorrection(job[h].paid)
    BY <1>2, <1>4, <2>1, PaidShape DEF Staged, TypeInv, RestPaid
  <2> HIDE DEF r
  <2>4. NoCorrection(Append(job[h].paid, r))
    BY <2>2, <2>3, SeqAppended DEF NoCorrection, RowsOK
  <2> QED BY <1>4, <2>3, <2>4 DEF Staged
<1>5. ASSUME ~Idle(h), job[h].op = "approve", job[h].stage \in {"deposit", "rest", "raised"}
      PROVE  /\ ~CallbackRow(h) /\ ~CallbackStatus(h) /\ ~DeliverLines(h) /\ ~DeliverCount(h)
             /\ ~VoidMoney(h) /\ ~RaiseDifference(h) /\ ~SettleRead(h) /\ ~CorrectBalance(h)
             /\ ~ReadAgain(h) /\ ~Fulfil(h) /\ ~CloseShort(h) /\ ~Reprice(h) /\ ~DeliverCommit(h)
  BY <1>5 DEF CallbackRow, CallbackStatus, DeliverLines, DeliverCount, VoidMoney, RaiseDifference,
              SettleRead, CorrectBalance, ReadAgain, Fulfil, CloseShort, Reprice, DeliverCommit, At
<1>6. ~Reads(h) => Staged(h, {"rest", "raised", "row", "answer", "updated", "complete", "partial",
                              "voided", "differs"} \union Settling)
  BY Stages DEF Staged
<1> QED BY <1>1, <1>2, <1>3, <1>4, <1>5, <1>6, Stages

LEMMA DifferenceCarries ==
  ASSUME TypeInv, MoneyInv, NEW h \in Handler, Does(h) \/ EditWrite(h),
         job'[h] # None, job'[h].stage = "differs"
  PROVE  IsCorrection(job[h].transfer)'
<1>1. RaiseDifference(h) /\ ~Idle(h)
  BY Stages DEF Staged, First, Settling
<1>2. PICK t : /\ Raise(DeltaKind(h), Attempt(h), DeltaAmount(h), t)
               /\ job' = [job EXCEPT ![h].stage = "differs", ![h].transfer = t]
  BY <1>1 DEF RaiseDifference
<1>3. job'[h].transfer = t
  BY <1>1, <1>2, DifferenceShape DEF TypeInv
<1>4. DeltaKind(h) \in Correction
  BY DEF DeltaKind, Correction
<1>5. t \in DOMAIN transfers' /\ transfers'[t].kind = DeltaKind(h)
  BY <1>2, RaiseShape DEF MoneyInv
<1> QED BY <1>3, <1>4, <1>5 DEF IsCorrection

LEMMA CallbackCarries ==
  ASSUME TypeInv, MoneyInv, NEW h \in Handler, Does(h) \/ EditWrite(h),
         job'[h] # None, job'[h].op = "callback"
  PROVE  job'[h].arg.transfer \in DOMAIN transfers'
<1>1. FinanceKept
  BY FinanceStep DEF MoneyInv
<1>2. CASE Reads(h)
  BY <1>1, <1>2, ReadsOnly, BeginsShape DEF Begins, TypeInv, FinanceKept
<1>3. CASE ~Reads(h)
  <2>1. ~Idle(h) /\ GoesOn(h)
    BY <1>3, Stages DEF Staged
  <2> QED BY <1>1, <2>1 DEF GoesOn, MoneyInv, PaidInv, FinanceKept
<1> QED BY <1>2, <1>3

LEMMA MoneyInvStep ==
  ASSUME TypeInv, MoneyInv, [Next]_vars
  PROVE  MoneyInv'
<1>1. CASE UNCHANGED vars
  BY <1>1 DEF vars, MoneyInv, FinanceInv, PaymentInv, RowsOK, IsCorrection, PaidInv, Idle
<1>2. ASSUME NEW t \in DOMAIN transfers, Book(t), UNCHANGED <<payments, job>>
      PROVE  MoneyInv'
  <2>1. FinanceInv' /\ FinanceKept
    BY <1>2, BookShape DEF MoneyInv
  <2>2. \A u : IsCorrection(u) => IsCorrection(u)'
    BY <2>1, CorrectionStays
  <2> QED BY <1>2, <2>1, <2>2 DEF MoneyInv, PaymentInv, RowsOK, PaidInv, Idle, FinanceKept
<1>3. ASSUME NEW h \in Handler, Does(h) \/ EditWrite(h)
      PROVE  MoneyInv'
  <2>1. FinanceInv' /\ FinanceKept /\ PaymentInv'
    BY <1>3, FinanceStep, PaymentStep DEF MoneyInv
  <2>2. \A u : IsCorrection(u) => IsCorrection(u)'
    BY <2>1, CorrectionStays
  <2>3. \A g \in Handler : g # h => job'[g] = job[g]
    BY <1>3, MovesAlone
  <2>4. ASSUME NEW g \in Handler, job'[g] # None
        PROVE  /\ job'[g].op = "approve" =>
                    job'[g].stage \in {"deposit", "rest", "raised"} /\ NoCorrection(job'[g].paid)
               /\ job'[g].op = "callback" => job'[g].arg.transfer \in DOMAIN transfers'
               /\ job'[g].stage = "differs" => IsCorrection(job[g].transfer)'
    <3>1. CASE g = h
      BY <1>3, <2>4, <3>1, ApprovalCarries, DifferenceCarries, CallbackCarries
    <3>2. CASE g # h
      BY <2>1, <2>2, <2>3, <2>4, <3>2 DEF MoneyInv, PaidInv, Idle, FinanceKept
    <3> QED BY <3>1, <3>2
  <2>5. PaidInv'
    BY <2>4 DEF PaidInv, Idle, NoCorrection, RowsOK
  <2> QED BY <2>1, <2>5 DEF MoneyInv
<1> QED BY <1>1, <1>2, <1>3, StepCases DEF Does

LEMMA MoneyStart ==
  ASSUME Init
  PROVE  MoneyInv
<1>1. IsSeq(<<>>)
  BY DEF IsSeq
<1> QED BY <1>1 DEF Init, MoneyInv, FinanceInv, PaymentInv, RowsOK, PaidInv, Idle

-----------------------------------------------------------------------------
(* What an order waits for.  Before it is sent, every transfer raised for  *)
(* this attempt is undecided (or voided with a deletion that was cut off): *)
(* a verdict reaches finance only after the order has moved on, or is      *)
(* about a correction, and an attempt's money is raised once.              *)
Fresh(t) == transfers[t].kind \notin Correction /\ transfers[t].attempt = order.attempt
Open(t) == transfers[t].status \in {"PENDING", "VOID"}
Unsent == {"DRAFT", "PENDING_APPROVAL"}

PastInv == \A t \in DOMAIN transfers : transfers[t].kind \notin Correction =>
  transfers[t].attempt \in Nat /\ transfers[t].attempt <= order.attempt
OpenInv == order.status \in Unsent => \A t \in DOMAIN transfers : Fresh(t) => Open(t)
AskInv == order.status = "PENDING_FINANCE_APPROVAL" =>
  \E t \in DOMAIN transfers : Fresh(t) /\ Open(t)
RaisedInv == \A h \in Handler :
  ~Idle(h) /\ job[h].op = "approve" /\ job[h].stage = "raised" =>
    \E t \in DOMAIN transfers : Fresh(t)
AnswerInv == \A h \in Handler :
  ~Idle(h) /\ job[h].op = "callback" /\ job[h].stage = "answer" =>
    \/ order.status \notin Unsent \union {"PENDING_FINANCE_APPROVAL"}
    \/ IsCorrection(job[h].arg.transfer)
WaitInv == Serial => PastInv /\ OpenInv /\ AskInv /\ RaisedInv /\ AnswerInv

AllInv == TypeInv /\ DutyInv /\ HeadInv /\ MoneyInv /\ WaitInv

(* An approval raises money of the attempt it read, which is the order's.  *)
LEMMA RaisesFresh ==
  ASSUME AllInv, Serial, NEW h \in Handler, RaiseDeposit(h) \/ RaiseRest(h)
  PROVE  \E kind \in Kind \ Correction : /\ Raised(kind, order.attempt) /\ FinanceKept
           /\ \E t \in DOMAIN transfers' :
                transfers'[t].kind = kind /\ transfers'[t].attempt = order.attempt
<1>1. PICK kind, amount, t : kind \in Kind \ Correction /\ Raise(kind, job[h].attempt, amount, t)
  <2>1. CASE RaiseDeposit(h)
    BY <2>1 DEF RaiseDeposit, Kind, Correction
  <2>2. CASE RaiseRest(h)
    BY <2>2, RaisedRest DEF Kind, Correction, AllInv, TypeInv
  <2> QED BY <2>1, <2>2
<1>2. job[h].attempt = order.attempt
  BY DEF RaiseDeposit, RaiseRest, At, AllInv, HeadInv, Deciding, First
<1> QED BY <1>1, <1>2, RaiseShape DEF AllInv, MoneyInv

(* Calls to finance keep the promise: what they raise is undecided, and a  *)
(* verdict that takes effect is about an order that has moved on.          *)
LEMMA CallsKeepOpen ==
  ASSUME AllInv, Serial, NEW h \in Handler, Calls(h)
  PROVE  order' = order /\ PastInv' /\ OpenInv' /\ AskInv'
<1>0. order' = order /\ PastInv /\ OpenInv /\ AskInv /\ FinanceInv
  BY DEF Calls, RaiseDeposit, RaiseRest, RaiseDifference, CorrectBalance, VoidMoney, CallbackAnswer,
         AllInv, WaitInv, MoneyInv
<1>a. order.attempt \in Nat
  BY DEF AllInv, TypeInv, OrderInv, OrderRow
<1>1. ASSUME NEW kind, Raised(kind, order.attempt) \/ (kind \in Correction /\ \E n : Raised(kind, n)),
             FinanceKept
      PROVE  PastInv' /\ OpenInv' /\ AskInv'
  <2>1. \A t \in DOMAIN transfers : t \in DOMAIN transfers' /\ transfers'[t] = transfers[t]
    BY <1>1 DEF Raised, FinanceKept
  <2>2. \A t \in DOMAIN transfers' : t \notin DOMAIN transfers =>
          /\ transfers'[t].status = "PENDING"
          /\ transfers'[t].kind \in Correction \/ transfers'[t].attempt = order.attempt
    BY <1>1 DEF Raised
  <2> QED BY <1>0, <1>a, <2>1, <2>2 DEF PastInv, OpenInv, AskInv, Fresh, Open
<1>2. CASE RaiseDeposit(h) \/ RaiseRest(h)
  BY <1>0, <1>1, <1>2, RaisesFresh
<1>3. CASE RaiseDifference(h)
  <2>1. DeltaKind(h) \in Correction
    BY DEF DeltaKind, Correction
  <2>2. PICK n, a, t : Raise(DeltaKind(h), n, a, t)
    BY <1>3 DEF RaiseDifference
  <2> DEFINE k == DeltaKind(h)
  <2>3. k \in Correction /\ Raised(k, n) /\ FinanceKept
    BY <1>0, <2>1, <2>2, RaiseShape
  <2> HIDE DEF k
  <2> QED BY <1>0, <1>1, <2>3
<1>4. ASSUME DOMAIN transfers' = DOMAIN transfers, FinanceKept,
             \A t \in DOMAIN transfers : Fresh(t) /\ Open(t) => transfers'[t].status \in {"PENDING", "VOID"}
      PROVE  PastInv' /\ OpenInv' /\ AskInv'
  BY <1>0, <1>4 DEF PastInv, OpenInv, AskInv, Fresh, Open, FinanceKept
<1>5. CASE CorrectBalance(h)
  BY <1>0, <1>4, <1>5, CorrectShape DEF CorrectBalance, Open
<1>6. CASE VoidMoney(h)
  BY <1>0, <1>4, <1>6, VoidShape DEF VoidMoney, Open, FinanceKept
<1>7. CASE CallbackAnswer(h)
  <2> DEFINE u == job[h].arg.transfer
  <2>1. /\ FinanceKept /\ DOMAIN transfers' = DOMAIN transfers
        /\ \A t \in DOMAIN transfers : t # u => transfers'[t] = transfers[t]
    BY <1>0, <1>7, DecideShape DEF CallbackAnswer
  <2>2. order.status \notin Unsent \union {"PENDING_FINANCE_APPROVAL"} \/ IsCorrection(u)
    BY <1>7 DEF CallbackAnswer, At, AllInv, WaitInv, AnswerInv
  <2>3. CASE IsCorrection(u)
    BY <1>0, <1>4, <2>1, <2>3 DEF IsCorrection, Fresh, Open
  <2>4. CASE order.status \notin Unsent \union {"PENDING_FINANCE_APPROVAL"}
    BY <1>0, <2>1, <2>4 DEF PastInv, OpenInv, AskInv, FinanceKept
  <2> QED BY <2>2, <2>3, <2>4
<1> QED BY <1>0, <1>2, <1>3, <1>5, <1>6, <1>7 DEF Calls

(* Sending the order records a status when its money has been raised; every *)
(* other write leaves both for somewhere that nothing is waited for.        *)
LEMMA WritesKeepOpen ==
  ASSUME AllInv, Serial, NEW h \in Handler, Writes(h), transfers' = transfers
  PROVE  PastInv' /\ OpenInv' /\ AskInv'
<1>0. /\ PastInv /\ OpenInv /\ AskInv /\ RaisedInv /\ order.attempt \in Nat
      /\ order \in OrderRow
  BY DEF AllInv, WaitInv, TypeInv, OrderInv, OrderRow
<1>1. ASSUME order'.attempt = order.attempt,
             order'.status \notin Unsent \union {"PENDING_FINANCE_APPROVAL"}
      PROVE  PastInv' /\ OpenInv' /\ AskInv'
  BY <1>0, <1>1 DEF PastInv, OpenInv, AskInv
<1>2. ASSUME NEW s \in Status, SetStatus(s)
      PROVE  order'.attempt = order.attempt /\ order'.status = s
  BY <1>2, StatusSet DEF AllInv, TypeInv
<1>3. ASSUME ~Idle(h), job[h].stage \in Deciding
      PROVE  order.status = job[h].status /\ FromOK(job[h].op, order.status)
  BY <1>3 DEF AllInv, HeadInv, TypeInv, JobInv, JobOK
<1> USE DEF Unsent
<1>4. CASE RecordRaised(h)
  <2>1. order.status = "PENDING_APPROVAL"
    BY <1>3, <1>4 DEF RecordRaised, At, Deciding, FromOK
  <2>2. \E t \in DOMAIN transfers : Fresh(t) /\ Open(t)
    BY <1>0, <1>4, <2>1 DEF RecordRaised, At, RaisedInv, OpenInv
  <2>3. order'.attempt = order.attempt /\ order'.status = "PENDING_FINANCE_APPROVAL"
    BY <1>2, <1>4 DEF RecordRaised, Status
  <2> QED BY <1>0, <2>2, <2>3 DEF PastInv, OpenInv, AskInv, Fresh, Open
<1>5. CASE CallbackStatus(h)
  <2>1. order.status = job[h].status
    BY <1>3, <1>5 DEF CallbackStatus, At, Deciding
  <2>2. order'.attempt = order.attempt /\ order'.status = Target(h)
    BY <1>2, <1>5, <2>1 DEF CallbackStatus, Target, Status
  <2> QED BY <1>1, <2>2 DEF Target
<1>6. CASE MoveOn(h)
  <2>1. PICK op \in {"finalize", "rejectApproval", "confirmOrdered"} :
          At(h, op, "checked") /\ SetStatus(Becomes(op))
    BY <1>6 DEF MoveOn
  <2>2. /\ op = "finalize" => order'.status = "PENDING_APPROVAL"
        /\ op = "rejectApproval" => order'.status = "DRAFT"
        /\ op = "confirmOrdered" => order'.status = "ORDERED"
        /\ order'.attempt = order.attempt
    BY <1>2, <2>1 DEF Becomes, Status
  <2>3. op \in {"finalize", "rejectApproval"} => order.status \in Unsent
    BY <1>3, <2>1 DEF At, Deciding, First, FromOK
  <2>4. CASE op = "confirmOrdered"
    BY <1>1, <2>2, <2>4
  <2>5. CASE op \in {"finalize", "rejectApproval"}
    BY <1>0, <2>2, <2>3, <2>5 DEF PastInv, OpenInv, AskInv, Fresh, Open
  <2> QED BY <2>4, <2>5
<1>7. CASE Resubmit(h)
  <2>1. order'.attempt = order.attempt + 1 /\ order'.status = "DRAFT"
    BY <1>0, <1>7 DEF Resubmit, OrderRow
  <2>2. \A t \in DOMAIN transfers : transfers[t].kind \notin Correction =>
          transfers[t].attempt \in Nat /\ transfers[t].attempt < order.attempt + 1
    BY <1>0 DEF PastInv
  <2> QED BY <1>0, <2>1, <2>2 DEF PastInv, OpenInv, AskInv, Fresh
<1>8. CASE CloseShort(h) \/ Cancel(h) \/ RemoveRow(h)
  BY <1>1, <1>2, <1>8 DEF CloseShort, Cancel, RemoveRow, Status
<1> QED BY <1>4, <1>5, <1>6, <1>7, <1>8 DEF Writes

(* The first row of a transfer is one of its rows.                         *)
LEMMA FirstRow ==
  ASSUME PaymentInv, NEW t, RowsOf(t) # {}
  PROVE  Min(RowsOf(t)) \in DOMAIN payments /\ payments[Min(RowsOf(t))].transfer = t
<1>1. Len(payments) \in Nat /\ RowsOf(t) \in SUBSET (1..Len(payments))
  BY SeqDomain DEF PaymentInv, RowsOK, RowsOf
<1>2. \E x \in RowsOf(t) : \A y \in RowsOf(t) : x <= y
  <2> DEFINE n == Len(payments)  S == RowsOf(t)
  <2>1. n \in Nat /\ S \in SUBSET (1..n) /\ S # {}
    BY <1>1
  <2> HIDE DEF n, S
  <2>2. \E x \in S : \A y \in S : x <= y
    BY <2>1, LeastOf
  <2> QED BY <2>2 DEF S
<1>3. Min(RowsOf(t)) \in RowsOf(t)
  BY <1>2 DEF Min
<1> QED BY <1>3 DEF RowsOf

(* What the one who works carries is as promised.                          *)
LEMMA RaisedKept ==
  ASSUME AllInv, Serial, NEW h \in Handler, Does(h) \/ EditWrite(h),
         job'[h] # None, job'[h].op = "approve", job'[h].stage = "raised"
  PROVE  \E t \in DOMAIN transfers' : Fresh(t)'
<1>1. RaiseDeposit(h) \/ RaiseRest(h)
  BY Stages DEF Staged, First, Settling, AllInv
<1>2. order' = order
  BY <1>1, CarriesOn DEF Carries, AllInv, TypeInv
<1> QED BY <1>1, <1>2, RaisesFresh DEF Fresh

LEMMA AnswerKept ==
  ASSUME AllInv, Serial, NEW h \in Handler, Does(h) \/ EditWrite(h),
         job'[h] # None, job'[h].stage = "answer"
  PROVE  \/ order'.status \notin Unsent \union {"PENDING_FINANCE_APPROVAL"}
         \/ IsCorrection(job[h].arg.transfer)'
<1>1. CallbackRow(h) \/ CallbackStatus(h)
  BY Stages DEF Staged, First, Settling, AllInv
<1>2. CASE CallbackStatus(h)
  <2>1. order.status = job[h].status
    BY <1>2 DEF CallbackStatus, At, Deciding, AllInv, HeadInv
  <2>2. order'.status = Target(h)
    BY <1>2, <2>1, StatusSet DEF CallbackStatus, Target, Status, AllInv, TypeInv
  <2> QED BY <2>2 DEF Target, Unsent
<1>3. CASE CallbackRow(h)
  <2> DEFINE u == job[h].arg.transfer  n == Min(RowsOf(u))
             s == IF payments[n].type \in Correction THEN "answer" ELSE "row"
  <2>1. GoesOn(h) /\ ~Idle(h) /\ UNCHANGED transfers
    BY <1>3, CarriesOn DEF Carries, AllInv, TypeInv, CallbackRow, At
  <2>2. RowsOf(u) # {} /\ Turn(h, s)
    <3>1. CASE RowsOf(u) = {}
      <4>1. Turn(h, "row")
        BY <1>3, <3>1 DEF CallbackRow
      <4>2. job'[h].stage = "row"
        BY <2>1, <4>1, Turns DEF AllInv, TypeInv
      <4> QED BY <4>2
    <3>2. CASE RowsOf(u) # {}
      BY <1>3, <3>2 DEF CallbackRow
    <3> QED BY <3>1, <3>2
  <2>3. payments[n].type \in Correction
    <3> HIDE DEF s
    <3>1. s = "answer"
      BY <2>1, <2>2, Turns DEF AllInv, TypeInv
    <3> QED BY <3>1 DEF s
  <2>4. IsCorrection(u)
    BY <2>2, <2>3, FirstRow DEF AllInv, MoneyInv, PaymentInv
  <2>5. job'[h].arg.transfer = u
    BY <2>1 DEF GoesOn
  <2> QED BY <2>1, <2>4, <2>5 DEF IsCorrection
<1> QED BY <1>1, <1>2, <1>3

(* Steps that leave finance, and the order's status and attempt, alone.    *)
LEMMA QuietKeepsOpen ==
  ASSUME PastInv, OpenInv, AskInv, transfers' = transfers,
         order'.status = order.status, order'.attempt = order.attempt
  PROVE  PastInv' /\ OpenInv' /\ AskInv'
  BY DEF PastInv, OpenInv, AskInv, Fresh, Open

LEMMA WaitStep ==
  ASSUME AllInv, Serial, NEW h \in Handler, Does(h) \/ EditWrite(h)
  PROVE  PastInv' /\ OpenInv' /\ AskInv'
<1>0. PastInv /\ OpenInv /\ AskInv
  BY DEF AllInv, WaitInv
<1>1. CASE Calls(h)
  BY <1>1, CallsKeepOpen
<1>2. CASE ~Calls(h)
  <2>1. transfers' = transfers
    BY <1>2, NoCall
  <2>2. CASE Writes(h)
    BY <2>1, <2>2, WritesKeepOpen
  <2>3. CASE DeliverCommit(h)
    <3>1. order'.status \in {"RECEIVED", "PARTIALLY_RECEIVED"} /\ order'.attempt = order.attempt
      BY <2>3, Commits DEF AllInv
    <3> QED BY <1>0, <2>1, <3>1 DEF PastInv, OpenInv, AskInv, Unsent
  <2>4. CASE ~Writes(h) /\ ~DeliverCommit(h)
    <3>1. order'.status = order.status /\ order'.attempt = order.attempt
      BY <2>4, ReadsOnly, CarriesOn, ClosesOff, Reprices, Edits
         DEF Does, AllInv, TypeInv, tables, DeliverLines, Abort
    <3> QED BY <1>0, <2>1, <3>1, QuietKeepsOpen
  <2> QED BY <2>2, <2>3, <2>4
<1> QED BY <1>1, <1>2

LEMMA AllStep ==
  ASSUME AllInv, [Next]_vars
  PROVE  AllInv'
<1>0. TypeInv' /\ DutyInv' /\ HeadInv' /\ MoneyInv'
  BY TypeStep, HeadStep, MoneyInvStep DEF AllInv
<1>1. CASE UNCHANGED vars
  <2>1. WaitInv'
    BY <1>1 DEF AllInv, WaitInv, vars, Serial, PastInv, OpenInv, AskInv, RaisedInv, AnswerInv,
                Fresh, Open, Idle, IsCorrection
  <2> QED BY <1>0, <2>1 DEF AllInv
<1>2. ASSUME duty' = duty, NEW t \in DOMAIN transfers, Book(t), UNCHANGED <<order, job>>
      PROVE  WaitInv'
  <2>1. /\ FinanceKept /\ DOMAIN transfers' = DOMAIN transfers
        /\ \A u \in DOMAIN transfers : transfers[u].status \in {"PENDING", "VOID"} =>
             transfers'[u].status = transfers[u].status
    BY <1>2, BookShape DEF AllInv, MoneyInv
  <2>2. Serial' = Serial
    BY <1>2 DEF Serial
  <2>3. Serial => PastInv' /\ OpenInv' /\ AskInv'
    BY <1>2, <2>1 DEF AllInv, WaitInv, PastInv, OpenInv, AskInv, Fresh, Open, FinanceKept
  <2>4. Serial => RaisedInv'
    BY <1>2, <2>1 DEF AllInv, WaitInv, RaisedInv, Fresh, Idle, FinanceKept
  <2>5. Serial => AnswerInv'
    BY <1>2, <2>1 DEF AllInv, WaitInv, AnswerInv, Idle, IsCorrection, FinanceKept
  <2> QED BY <2>2, <2>3, <2>4, <2>5 DEF WaitInv
<1>3. ASSUME duty' = duty, NEW h \in Handler, Does(h) \/ EditWrite(h)
      PROVE  WaitInv'
  <2>1. Serial' = Serial
    BY <1>3 DEF Serial
  <2>2. ASSUME Serial, NEW g \in Handler, job'[g] # None
        PROVE  g = h
    <3>1. JobMoves(h) /\ (g # h => job'[g] = job[g])
      BY <1>3, MovesAlone DEF AllInv
    <3> QED BY <2>2, <3>1, OthersIdle DEF Idle, AllInv
  <2>3. Serial => RaisedInv'
    BY <1>3, <2>2, RaisedKept DEF RaisedInv, Idle
  <2>4. Serial => AnswerInv'
    BY <1>3, <2>2, AnswerKept DEF AnswerInv, Idle
  <2> QED BY <1>3, <2>1, <2>3, <2>4, WaitStep DEF WaitInv
<1> QED BY <1>0, <1>1, <1>2, <1>3, StepCases DEF AllInv, Does

LEMMA AllStart ==
  ASSUME Init
  PROVE  AllInv
<1>1. TypeInv /\ MoneyInv
  BY TypeStart, MoneyStart
<1>2. transfers = <<>> /\ order.status = "DRAFT" /\ \A h \in Handler : Idle(h)
  BY DEF Init, Idle
<1> QED
  BY <1>1, <1>2 DEF AllInv, DutyInv, HeadInv, WaitInv, PastInv, OpenInv, AskInv, RaisedInv, AnswerInv

(* Where requests come one at a time, an order that waits for finance has  *)
(* a transfer that finance can still decide on, or one that a cancellation *)
(* cut off has voided: it does not wait for nothing.                       *)
THEOREM SomethingToWaitFor == Spec => []WaitingCanEnd
<1>1. Init => AllInv
  BY AllStart
<1>2. AllInv /\ [Next]_vars => AllInv'
  BY AllStep
<1>3. AllInv => WaitingCanEnd
  BY DEF AllInv, WaitInv, AskInv, Open, WaitingCanEnd, Range
<1> QED BY <1>1, <1>2, <1>3, PTL DEF Spec
=============================================================================
