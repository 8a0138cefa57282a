------------------------- MODULE ProcurementTables -------------------------
(***************************************************************************)
(* The tables behind one purchase order, what is summed up from them, and  *)
(* the shape of a request handler.                                         *)
(*                                                                         *)
(* A handler reads the order once, decides on what it read, and writes by  *)
(* the order's id with no condition on what the row holds by then; calls   *)
(* to finance come in between.  What it carries along is its `job'.  It    *)
(* may end after any of its steps: refused, out of time, or with an answer *)
(* from finance that never arrived.                                        *)
(*                                                                         *)
(* Money and quantities are whole numbers; the code sums floats and        *)
(* compares within a tolerance far below one unit.                         *)
(***************************************************************************)
EXTENDS FinanceTransfers, FiniteSetsExt

CONSTANTS
  Item,       \* what can be ordered; a line of quantity 0 stands for none
  Draft,      \* what an edit may make of the order: [lines, deposit]
  Instance,   \* what is bought and who is at work: [draft, duty]
  Price,      \* unit prices an invoice may state
  MaxAttempt, \* bound: submissions of the order to finance
  MaxEdition, \* bound: times its lines are written anew
  MaxPayment, \* bound: payment rows
  Handler,
  None

Status == {"DRAFT", "PENDING_APPROVAL", "PENDING_FINANCE_APPROVAL", "FINANCE_APPROVED",
           "FINANCE_REJECTED", "ORDERED", "PARTIALLY_RECEIVED", "RECEIVED",
           "CLOSED_SHORT", "CANCELLED", "deleted"}
Settled == {"RECEIVED", "CLOSED_SHORT"}

ASSUME DraftsGiven == \A d \in Draft \union {i.draft : i \in Instance} :
  d.deposit \in Nat /\ d.lines \in [Item -> [quantity : Nat, price : Nat]]
ASSUME BoundsAreNumbers ==
  MaxAttempt \in Nat /\ MaxEdition \in Nat /\ MaxPayment \in Nat /\ Price \subseteq Nat
ASSUME HandlersAreFinite == IsFiniteSet(Handler)

VARIABLES
  order,     \* ProcurementOrder with its lines; `edition' tells sets of lines apart
  payments,  \* ProcurementPayment, in order of creation
  stock,     \* what this order has put on the shelf, by item
  wanted,    \* the status of the requisition the order was raised for
  locks,     \* the lines each open delivery has updated
  job,       \* what each handler is doing and has read, or None
  duty       \* the operations each handler performs; never changes

tables == <<order, payments, stock, wanted, locks, transfers>>
vars == <<order, payments, stock, wanted, locks, transfers, job, duty>>

NewLines(lines) == [i \in Item |->
  [quantity |-> lines[i].quantity, price |-> lines[i].price, received |-> 0, invoiced |-> None]]

Init == \E instance \in Instance :
  /\ order = [status |-> "DRAFT", deposit |-> instance.draft.deposit, attempt |-> 1, edition |-> 1,
              lines |-> NewLines(instance.draft.lines)]
  /\ duty = instance.duty
  /\ payments = <<>> /\ transfers = <<>>
  /\ stock = [i \in Item |-> 0]
  /\ wanted = "APPROVED"
  /\ locks = [h \in Handler |-> {}]
  /\ job = [h \in Handler |-> None]

-----------------------------------------------------------------------------
(* What the service sums up.                                               *)
Cost(l) == IF l.invoiced # None THEN l.invoiced ELSE l.price
Total == MapThenSumSet(LAMBDA i : order.lines[i].quantity * order.lines[i].price, Item)
InvoicedValue == MapThenSumSet(LAMBDA i : order.lines[i].received * Cost(order.lines[i]), Item)
Remaining(i) == order.lines[i].quantity - order.lines[i].received
Payable == order.deposit <= Total

Live(p) == p.status # "REJECTED"
Correction == {"ADJUSTMENT", "REFUND"}

-----------------------------------------------------------------------------
(* The bookkeeping of a handler.                                           *)
Idle(h) == job[h] = None
At(h, op, stage) == ~Idle(h) /\ job[h].op = op /\ job[h].stage = stage

(* findOne: the order as it is now, and what of it is used later.          *)
Begun(h, op, stage, arg) ==
  job' = [job EXCEPT ![h] =
    [op |-> op, stage |-> stage, arg |-> arg, status |-> order.status,
     edition |-> order.edition, attempt |-> order.attempt, deposit |-> order.deposit,
     value |-> InvoicedValue, paid |-> <<>>, agreed |-> FALSE, transfer |-> 0]]
Turn(h, stage) == job' = [job EXCEPT ![h].stage = stage]
Finished(h) == job' = [job EXCEPT ![h] = None]

May(h, op) == Idle(h) /\ op \in duty[h] /\ order.status # "deleted"

(* Reading and validating before anything is written.                      *)
Check(h, op, arg, allowed) ==
  /\ May(h, op) /\ order.status \in allowed
  /\ Begun(h, op, "checked", arg)
  /\ UNCHANGED tables

(* update({ where: { id } }): fails only if the row is gone.               *)
SetStatus(status) ==
  /\ order.status # "deleted"
  /\ order' = [order EXCEPT !.status = status]

(* A line is updated by its id, and waits for a delivery that holds it.    *)
Writable(h, S, edition) ==
  /\ order.status # "deleted" /\ order.edition = edition
  /\ \A g \in Handler \ {h} : locks[g] \intersect S = {}

(* Refused, out of time, cut off: what was not committed is rolled back.   *)
Abort(h) ==
  /\ ~Idle(h) /\ Finished(h)
  /\ locks' = [locks EXCEPT ![h] = {}]
  /\ UNCHANGED <<order, payments, stock, wanted, transfers>>
=============================================================================
