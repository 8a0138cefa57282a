------------------------ MODULE PurchaseRequisitions ------------------------
(***************************************************************************)
(* PurchaseRequisitionsService: the requester files, the organization lets *)
(* through or turns down, procurement reviews, resolves and converts, a    *)
(* rejection at either stage waits for its confirmation.  Every call looks *)
(* at the row and then writes it by id, with no lock and no condition in   *)
(* between.                                                                *)
(*                                                                         *)
(* A handler has a list of calls to make ("todo"); "pre" is the row as its *)
(* current call has read it, and "undo" what its catch block would do.     *)
(* Comments, attachments, titles and the task a requisition is bound to    *)
(* are left out: nothing below reads them.                                 *)
(***************************************************************************)
EXTENDS Integers, FiniteSets, Sequences

CONSTANTS
  Handler,      \* requests that may be under way at once
  Requisition,  \* the rows, existing or not
  Line,         \* what may be asked for
  MaxEdition,   \* bound: how often the lines of a row are written, and once more
  MaxOrders,    \* bound: orders raised
  None

VARIABLES
  req,      \* the rows
  orders,   \* the orders raised from them
  passed,   \* history: the lines each had when its organization let it through
  job       \* what each handler is doing, None when idle

EDITABLE == {"DRAFT", "PENDING_APPROVAL"}
REVIEWABLE == {"SUBMITTED", "IN_REVIEW"}
CANCELLABLE == {"DRAFT", "PENDING_APPROVAL", "SUBMITTED", "IN_REVIEW"}
QUEUE_HIDDEN == {"DRAFT", "PENDING_APPROVAL"}

NoRow == [status |-> "none", lines |-> [l \in Line |-> 0], free |-> {}, back |-> None,
          stage |-> None, order |-> None, edition |-> 1]
LinesOf(row) == {l \in Line : row.lines[l] > 0}

(* findAll: what procurement is shown.                                     *)
ProcurementQueue == {q \in Requisition :
  /\ req[q].status \notin QUEUE_HIDDEN \union {"none"}
  /\ ~(req[q].status = "REJECTION_PENDING" /\ req[q].stage = "ORG")}

-----------------------------------------------------------------------------
(* Handlers.                                                               *)

Idle(h) == job[h] = None
Doing(h, do) == ~Idle(h) /\ job[h].todo # <<>> /\ Head(job[h].todo).do = do
Call(h) == Head(job[h].todo)
Do(do, on, arg) == [do |-> do, on |-> on, arg |-> arg]

Begin(h, op, todo, undo) ==
  /\ Idle(h)
  /\ job' = [job EXCEPT ![h] = [op |-> op, todo |-> todo, pre |-> None, undo |-> undo]]
Read(h, pre) == job' = [job EXCEPT ![h].pre = pre]
Done(h) == job' = [job EXCEPT ![h] = IF Len(@.todo) = 1 THEN None
                                     ELSE [@ EXCEPT !.todo = Tail(@), !.pre = None]]
Fail(h) == job' = [job EXCEPT ![h] = IF @.undo = <<>> THEN None
                                     ELSE [@ EXCEPT !.todo = job[h].undo, !.undo = <<>>, !.pre = None]]

(* The process dies, or the database goes away.                            *)
CutOff(h) == ~Idle(h) /\ job' = [job EXCEPT ![h] = None]

-----------------------------------------------------------------------------
(* What each call asks of the row it has read.                             *)

Guard == [
  submit |-> {"DRAFT"},                   update     |-> EDITABLE,
  cancel |-> CANCELLABLE,                 orgApprove |-> {"PENDING_APPROVAL"},
  orgReject |-> {"PENDING_APPROVAL"},     review     |-> {"SUBMITTED"},
  reject |-> REVIEWABLE,                  confirm    |-> {"REJECTION_PENDING"},
  decline |-> {"REJECTION_PENDING"},      resolve    |-> REVIEWABLE,
  convert |-> REVIEWABLE]

(* Faulty: the lines stay open after the organization's decision.          *)
PassesLate(do, row) ==
  \/ do = "update" /\ row.status = "SUBMITTED"
  \/ row.status \in Guard[do] /\ (do = "convert" => row.free = {})

Passes(do, row) ==
  /\ row.status \in Guard[do]
  /\ do = "convert" => row.free = {}

Look(h) ==
  /\ ~Idle(h) /\ job[h].todo # <<>> /\ job[h].pre = None /\ Call(h).do \in DOMAIN Guard
  /\ LET row == req[Call(h).on] IN IF Passes(Call(h).do, row) THEN Read(h, row) ELSE Fail(h)
  /\ UNCHANGED <<req, orders, passed>>

Looked(h, do) == Doing(h, do) /\ job[h].pre # None

(* By id: whatever the row has become.                                     *)
Set(h, row) ==
  LET q == Call(h).on IN
  IF req[q].status = "none" THEN Fail(h) /\ UNCHANGED req
  ELSE req' = [req EXCEPT ![q] = row] /\ Done(h)

Current(h) == req[Call(h).on]
Becomes(h, status) == Set(h, [Current(h) EXCEPT !.status = status])

Create(h) ==
  /\ Doing(h, "create") /\ Current(h).status = "none"
  /\ req' = [req EXCEPT ![Call(h).on] =
               [NoRow EXCEPT !.status = Call(h).arg.status, !.lines = Call(h).arg.lines,
                             !.free = Call(h).arg.free]]
  /\ Done(h) /\ UNCHANGED <<orders, passed>>

Moves(h, do, status) == Looked(h, do) /\ Becomes(h, status) /\ UNCHANGED <<orders, passed>>
Submit(h) == Moves(h, "submit", "PENDING_APPROVAL")
Cancel(h) == Moves(h, "cancel", "CANCELLED")
Review(h) == Moves(h, "review", "IN_REVIEW")
ConfirmRejection(h) == Moves(h, "confirm", "REJECTED")

(* update: the lines are deleted and written anew.                         *)
Update(h) ==
  /\ Looked(h, "update") /\ Current(h).edition < MaxEdition
  /\ Set(h, [Current(h) EXCEPT !.lines = Call(h).arg.lines, !.free = Call(h).arg.free,
                               !.edition = @ + 1])
  /\ UNCHANGED <<orders, passed>>

OrgApprove(h) ==
  /\ Looked(h, "orgApprove") /\ Becomes(h, "SUBMITTED")
  /\ passed' = [passed EXCEPT ![Call(h).on] = Current(h).lines]
  /\ UNCHANGED orders

(* Where it came from is remembered.                                       *)
PendingRejection(h, stage) ==
  /\ Set(h, [Current(h) EXCEPT !.status = "REJECTION_PENDING", !.back = job[h].pre.status, !.stage = stage])
  /\ UNCHANGED <<orders, passed>>
OrgReject(h) == Looked(h, "orgReject") /\ PendingRejection(h, "ORG")
Reject(h) == Looked(h, "reject") /\ PendingRejection(h, "PROCUREMENT")

(* Faulty: a declined rejection goes on to procurement, whoever asked.     *)
ReturnedForward(pre) == "SUBMITTED"

ReturnedTo(pre) ==
  IF pre.back # None THEN pre.back
  ELSE IF pre.stage = "PROCUREMENT" THEN "SUBMITTED" ELSE "PENDING_APPROVAL"

DeclineRejection(h) ==
  /\ Looked(h, "decline")
  /\ Set(h, [Current(h) EXCEPT !.status = ReturnedTo(job[h].pre), !.back = None, !.stage = None])
  /\ UNCHANGED <<orders, passed>>

(* resolveLine updates a line by its id: gone if the lines were rewritten. *)
ResolveLine(h) ==
  /\ Looked(h, "resolve")
  /\ IF Current(h).edition = job[h].pre.edition /\ Current(h).status # "none"
     THEN Set(h, [Current(h) EXCEPT !.free = @ \ {Call(h).arg}])
     ELSE Fail(h) /\ UNCHANGED req
  /\ UNCHANGED <<orders, passed>>

(* approve: a draft order from the lines as they were read.                *)
Convert(h) ==
  /\ Looked(h, "convert") /\ Current(h).status # "none" /\ Len(orders) < MaxOrders
  /\ orders' = Append(orders, [of |-> Call(h).on, lines |-> job[h].pre.lines, received |-> FALSE])
  /\ Set(h, [Current(h) EXCEPT !.status = "APPROVED", !.order = Len(orders) + 1])
  /\ UNCHANGED passed

-----------------------------------------------------------------------------
(* Procurement's side: the order is received (see Procurement), and then   *)
(* the requisitions it was raised for are marked.                          *)

Deliver(o) ==
  /\ ~orders[o].received
  /\ orders' = [orders EXCEPT ![o].received = TRUE]
  /\ UNCHANGED <<req, passed, job>>

MarkFulfilledForOrder(o) ==
  /\ orders[o].received
  /\ req' = [q \in Requisition |-> IF req[q].order = o /\ req[q].status = "APPROVED"
                                   THEN [req[q] EXCEPT !.status = "FULFILLED"] ELSE req[q]]
  /\ UNCHANGED <<orders, passed, job>>

RequisitionStep(h) ==
  \/ Look(h) \/ Create(h) \/ Update(h) \/ Submit(h) \/ Cancel(h) \/ OrgApprove(h) \/ OrgReject(h)
  \/ Review(h) \/ Reject(h) \/ ConfirmRejection(h) \/ DeclineRejection(h) \/ ResolveLine(h) \/ Convert(h)

OrderStep == \E o \in DOMAIN orders : Deliver(o) \/ MarkFulfilledForOrder(o)
=============================================================================
