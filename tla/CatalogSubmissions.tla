------------------------- MODULE CatalogSubmissions -------------------------
(***************************************************************************)
(* CatalogService on one submission: a checkout splits a cart into         *)
(* reservations and a purchase requisition, the requester edits, cancels   *)
(* and answers, the desk approves, issues, rejects, asks and reminds.      *)
(*                                                                         *)
(* A handler loads the submission once, decides from that what to do, and  *)
(* does it call by call: through the reservations' and the requisitions'   *)
(* services, which look again at their own row, or by a direct update,     *)
(* which does not.  Nothing spans two calls: a refusal, an error or a      *)
(* crash leaves what was done before it.  Loading is taken as one step.    *)
(* Stock lines are consumables (asset lines hand out units: see            *)
(* AssetRegister); permissions, notices and wording are left out.          *)
(***************************************************************************)
EXTENDS PurchaseRequisitions, FiniteSetsExt, SequencesExt

CONSTANTS
  Item,       \* catalog items, the reservation of each in this submission
  NewItem,    \* what the catalog does not have
  Own, Short, \* the submission's requisition, and one for its short lines
  MaxHour,    \* bound: the hours that pass
  Instance    \* the cases checked: what each handler may do, the largest quantity

ASSUME CatalogAssumption ==
  Line = Item \union {NewItem} /\ Requisition = {Own, Short} /\ MaxHour \in Nat

VARIABLES
  sub,    \* the submission
  res,    \* its reservations, by item
  shelf,  \* what the main shelf holds of each item
  mode,   \* each item's stocking mode
  clock,  \* hours
  sent,   \* history: reminders sent to the submitter
  duty,   \* what each handler does in this case
  most    \* bound: the largest quantity asked for in this case

tables == <<req, orders, passed, sub, res, shelf, clock, sent>>
vars == <<req, orders, passed, job, sub, res, shelf, mode, clock, sent, duty, most>>

Live == {"PENDING", "APPROVED", "PARTIALLY_ALLOCATED", "ALLOCATED"}
Issuable == Live \ {"ALLOCATED"}
Asked == [Line -> 0..most]
NoReservation == [status |-> "none", quantity |-> 0, out |-> 0]

Init ==
  /\ \E case \in Instance : duty = case.may /\ most = case.most
  /\ req = [q \in Requisition |-> NoRow] /\ orders = <<>> /\ passed = [q \in Requisition |-> None]
  /\ job = [h \in Handler |-> None]
  /\ sub = [made |-> "no", cancelled |-> FALSE, asked |-> FALSE, last |-> None, reminders |-> <<>>]
  /\ res = [i \in Item |-> NoReservation]
  /\ shelf \in [Item -> 0..most] /\ mode \in [Item -> {"STOCKED", "ON_REQUEST"}]
  /\ clock = 1 /\ sent = 0

May(h, op) == Idle(h) /\ op \in duty[h]
Starts(h, op, todo, undo) == Begin(h, op, todo, undo) /\ UNCHANGED <<mode, duty, most>>

-----------------------------------------------------------------------------
(* The rules a submission is read by (catalog.rules.ts): plain functions   *)
(* of the rows it is made of.  A line is a reservation (STOCK) or a line   *)
(* of a purchase requisition (PURCHASE, NEW).                              *)

(* Faulty: what is partly out counts as ready.                             *)
StockStageEarly(status, issued) ==
  IF status = "PARTIALLY_ALLOCATED" THEN "READY"
  ELSE IF status \in {"PENDING", "APPROVED"} THEN "PENDING"
  ELSE IF status = "ALLOCATED" THEN "READY" ELSE status

(* stageOf: what the row's status means for the submission.                *)
StockStage(status, issued) ==
  CASE status = "PENDING"             -> "PENDING"
    [] status = "APPROVED"            -> IF issued > 0 THEN "PROGRESS" ELSE "PENDING"
    [] status = "ALLOCATED"           -> "READY"
    [] status \in {"COMPLETED", "REJECTED", "CANCELLED"} -> status
    [] OTHER                          -> "PROGRESS"

PurchaseStage(status) ==
  CASE status \in {"DRAFT", "PENDING_APPROVAL"}           -> "PENDING"
    [] status \in {"SUBMITTED", "IN_REVIEW", "APPROVED"}  -> "PROGRESS"
    [] status = "FULFILLED"                               -> "COMPLETED"
    [] status \in {"REJECTION_PENDING", "REJECTED"}       -> "REJECTED"
    [] status = "CANCELLED"                               -> "CANCELLED"

Terminal == {"COMPLETED", "REJECTED", "CANCELLED"}

(* deriveStatus, of the set of its lines' stages.                          *)
DeriveStatus(stages, cancelled, infoOpen) ==
  CASE cancelled \/ stages \subseteq {"CANCELLED"} -> "CANCELLED"
    [] OTHER -> IF infoOpen THEN "NEEDS_INFO"
                ELSE IF "PENDING" \in stages THEN "SUBMITTED"
                ELSE IF stages = {"REJECTED"} THEN "REJECTED"
                ELSE IF stages = {"COMPLETED"} THEN "COMPLETED"
                ELSE IF stages \subseteq Terminal THEN "PARTIAL"
                ELSE IF stages \ Terminal = {"READY"} THEN "READY" ELSE "IN_PROGRESS"

(* stillEditable: the requester may edit or cancel while no line was       *)
(* acted on.                                                               *)
StillEditable(stages, cancelled) == ~cancelled /\ stages = {"PENDING"}

(* availabilityOf and splitCheckout: only what is stocked, and there now,  *)
(* is reserved; the rest is bought.                                        *)
AvailabilityOf(stocking, inStock) ==
  IF stocking = "ON_REQUEST" THEN "ON_REQUEST" ELSE IF inStock > 0 THEN "IN_STOCK" ELSE "OUT_OF_STOCK"
ToStock(asked, stocking, free) == {i \in asked : AvailabilityOf(stocking[i], free[i]) = "IN_STOCK"}

(* mayDecide, partitionByRights: who may decide which kind of line.        *)
MayDecide(kind, rights) == IF kind = "STOCK" THEN "stock" \in rights ELSE "purchase" \in rights

(* ownClaim: what a reservation itself holds of what is free.              *)
OwnClaim(status, quantity) == IF status \in {"PENDING", "APPROVED"} THEN quantity ELSE 0

-----------------------------------------------------------------------------
(* The submission as it is loaded.                                         *)

Reserved == {i \in Item : res[i].status # "none"}
Bought == IF req[Own].status = "none" THEN {} ELSE LinesOf(req[Own])
StageOf(i) == StockStage(res[i].status, res[i].out)
Stages == {StageOf(i) : i \in Reserved} \union {PurchaseStage(req[Own].status) : l \in Bought}
ShortStages == IF req[Short].status = "none" THEN {} ELSE {PurchaseStage(req[Short].status)}
Status == DeriveStatus(Stages \union ShortStages, sub.cancelled, sub.asked)

Open == sub.made = "yes"
OwnEditable == Open /\ StillEditable(Stages, sub.cancelled)

(* lightViews, filterViews: the list a submission is found in; a rejection *)
(* that waits to be confirmed may still be declined.                       *)
RejectionAwaits == \E q \in Requisition : req[q].status = "REJECTION_PENDING"
Listed == IF Status = "REJECTED" /\ RejectionAwaits THEN "SUBMITTED" ELSE Status

(* freeStock: the shelf less what is promised and not handed out.          *)
FreeStock(i) == shelf[i] - OwnClaim(res[i].status, res[i].quantity)

(* One call for each element of a set.                                     *)
Each(S, F(_)) == LET s == SetToSeq(S) IN [k \in DOMAIN s |-> F(s[k])]

-----------------------------------------------------------------------------
(* checkout: the submission, then its rows; the catch withdraws them.      *)

(* Faulty: the catch forgets the reservations.                             *)
UndoPurchase == <<Do("dropRequisition", Own, None), Do("dropSubmission", Own, None)>>

UndoCheckout == <<Do("dropReservations", Own, None)>> \o
  <<Do("dropRequisition", Own, None), Do("dropSubmission", Own, None)>>

Checkout(h) == May(h, "checkout") /\ sub.made = "no" /\ \E cart \in Asked :
  LET asked == {i \in Item : cart[i] > 0}
      free == [i \in Item |-> IF FreeStock(i) > 0 THEN FreeStock(i) ELSE 0]
      stock == ToStock(asked, mode, free)
      bought == [l \in Line |-> IF l \in stock THEN 0 ELSE cart[l]]
  IN
  /\ \E l \in Line : cart[l] > 0
  /\ sub' = [sub EXCEPT !.made = "yes"]
  /\ Starts(h, "checkout",
       (IF stock = {} THEN <<>>
        ELSE <<Do("createStock", Own, [i \in stock |-> cart[i]])>>) \o
       (IF \A l \in Line : bought[l] = 0 THEN <<>>
        ELSE <<Do("create", Own, [status |-> "PENDING_APPROVAL", lines |-> bought,
                                  free |-> {NewItem} \intersect {l \in Line : bought[l] > 0}])>>),
       UndoCheckout)
  /\ UNCHANGED <<req, orders, passed, res, shelf, clock, sent>>

(* createForCatalog: one transaction over the lines, each APPROVED when    *)
(* the shelf still covers it.                                              *)
CreateStock(h) ==
  /\ Doing(h, "createStock")
  /\ LET lines == Call(h).arg IN
     res' = [i \in Item |-> IF i \notin DOMAIN lines THEN res[i] ELSE
       [quantity |-> lines[i], out |-> 0,
        status |-> IF lines[i] <= shelf[i] THEN "APPROVED" ELSE "PENDING"]]
  /\ Done(h) /\ UNCHANGED <<req, orders, passed, sub, shelf, clock, sent>>

(* An item deleted meanwhile, an organization that cannot be told: either  *)
(* call of a checkout may be refused.                                      *)
CheckoutRefused(h) ==
  /\ Doing(h, "createStock") \/ Doing(h, "create")
  /\ job[h].op = "checkout" /\ Fail(h) /\ UNCHANGED tables

(* A delete that is refused in its turn is passed over, and its rows stay, *)
(* with or without the submission: here none is refused.                   *)
Withdraw(h) ==
  \/ /\ Doing(h, "dropReservations") /\ res' = [i \in Item |-> NoReservation]
     /\ UNCHANGED <<req, sub>> /\ Done(h)
  \/ /\ Doing(h, "dropRequisition") /\ req' = [req EXCEPT ![Own] = NoRow]
     /\ UNCHANGED <<res, sub>> /\ Done(h)
  \/ /\ Doing(h, "dropSubmission") /\ sub' = [sub EXCEPT !.made = "gone"]
     /\ UNCHANGED <<req, res>> /\ Done(h)

-----------------------------------------------------------------------------
(* The requester.                                                          *)

Edit(h) == May(h, "edit") /\ OwnEditable /\ \E edit \in Asked :
  LET changed == {l \in Line : edit[l] > 0 /\ edit[l] # IF l \in Reserved THEN res[l].quantity
                                                        ELSE req[Own].lines[l]}
      Change(l) == IF l \in Reserved THEN Do("setQuantity", l, edit[l])
                   ELSE Do("setLine", Own, [line |-> l, quantity |-> edit[l], edition |-> req[Own].edition])
  IN
  /\ changed # {} /\ changed \subseteq Reserved \union Bought
  /\ \A l \in Line \ changed : edit[l] = 0
  /\ Starts(h, "edit", Each(changed, Change), <<>>) /\ UNCHANGED tables

(* Faulty: the keeper's requisitions for short lines are forgotten.        *)
WithdrawnOwn == {Own}

(* cancel: every requisition linked to the submission.                     *)
Withdrawn == {Own, Short}

CancelSubmission(h) ==
  LET Release(i) == Do("cancelReservation", i, None)
      Recall(q) == Do("cancel", q, None)
  IN
  /\ May(h, "cancelSubmission") /\ OwnEditable
  /\ Starts(h, "cancelSubmission",
       Each({i \in Item : res[i].status \in Live}, Release) \o
       Each({q \in Withdrawn : req[q].status \in CANCELLABLE}, Recall) \o
       <<Do("closeSubmission", Own, None)>>, <<>>)
  /\ UNCHANGED tables

Reopen == IF req[Own].status = "DRAFT" THEN <<Do("setPending", Own, None)>> ELSE <<>>
CloseQuestion == IF sub.asked THEN <<Do("closeQuestion", Own, None)>> ELSE <<>>

Reply(h) ==
  /\ May(h, "reply") /\ Open /\ sub.asked
  /\ Starts(h, "reply", Reopen \o CloseQuestion, <<>>) /\ UNCHANGED tables

-----------------------------------------------------------------------------
(* The desk.  Rights are held for stock lines, for purchases, or both; the *)
(* lines of the other kind are left alone.                                 *)

AllRights == (SUBSET {"stock", "purchase"}) \ {{}}
Decidable == Open /\ ~sub.cancelled

(* reopenIfReturned, and the status the loaded row must then have; found   *)
(* out only after the stock lines were decided.                            *)
Purchases(decide) ==
  IF req[Own].status \in EDITABLE THEN Reopen \o decide ELSE <<Do("refuse", Own, None)>>

(* verdict: the quantity approved of each line asked about, 0 to turn it   *)
(* down; None for a line not asked about.                                  *)
Approve(h) == May(h, "approve") /\ Decidable /\ \E verdict \in [Line -> 0..most \union {None}], rights \in AllRights :
  LET asked == {l \in Reserved \union Bought : verdict[l] # None}
      stock == {i \in asked \intersect Reserved : MayDecide("STOCK", rights)}
      bought == {l \in asked \intersect Bought : MayDecide("PURCHASE", rights)}
      declined == {l \in bought : verdict[l] = 0}
      StockCalls(i) ==
        IF verdict[i] = 0 THEN <<Do("rejectReservation", i, None)>>
        ELSE (IF verdict[i] = res[i].quantity THEN <<>> ELSE <<Do("setQuantity", i, verdict[i])>>) \o
             <<Do("issue", i, None)>>
      Kept(l) == Do("setLine", Own, [line |-> l, quantity |-> verdict[l], edition |-> req[Own].edition])
      decide ==
        Each({l \in bought \ declined : verdict[l] # req[Own].lines[l]}, Kept) \o
        (IF Bought \subseteq declined THEN <<Do("orgReject", Own, None)>>
         ELSE (IF declined = {} THEN <<>> ELSE <<Do("dropLines", Own, declined)>>) \o
              <<Do("orgApprove", Own, None)>>)
  IN
  /\ {l \in Line : verdict[l] # None} = asked /\ stock \union bought # {}
  /\ \A i \in stock : res[i].status \in Issuable /\ verdict[i] <= res[i].quantity
  /\ Starts(h, "approve",
       FlattenSeq(Each(stock, StockCalls)) \o
       (IF bought = {} THEN <<>> ELSE Purchases(decide) \o CloseQuestion), <<>>)
  /\ UNCHANGED tables

IssueLine(h) == May(h, "issueLine") /\ Decidable /\ \E i \in Reserved, quantity \in 1..most :
  /\ res[i].status \in Issuable /\ quantity <= res[i].quantity - res[i].out
  /\ Starts(h, "issueLine", <<Do("issue", i, quantity)>>, <<>>) /\ UNCHANGED tables

RejectSubmission(h) == May(h, "rejectSubmission") /\ Decidable /\ \E rights \in AllRights :
  LET stock == {i \in Reserved : MayDecide("STOCK", rights)}
      bought == {l \in Bought : MayDecide("PURCHASE", rights)}
      TurnDown(i) == Do("rejectReservation", i, None)
  IN
  /\ stock \union bought # {}
  /\ Starts(h, "rejectSubmission",
       Each({i \in stock : res[i].status \in Live}, TurnDown) \o
       (IF bought = {} THEN <<>> ELSE Purchases(<<Do("orgReject", Own, None)>>)) \o CloseQuestion, <<>>)
  /\ job'[h].todo # <<>> /\ UNCHANGED tables

RequestInfo(h) == May(h, "requestInfo") /\ Decidable /\ ~sub.asked /\ \E rights \in AllRights :
  LET pending == {l \in Reserved : MayDecide("STOCK", rights) /\ StageOf(l) = "PENDING"} \union
                 {l \in Bought : MayDecide("PURCHASE", rights) /\ PurchaseStage(req[Own].status) = "PENDING"}
  IN
  /\ pending # {}
  /\ Starts(h, "requestInfo",
       (IF Bought # {} /\ MayDecide("PURCHASE", rights) /\ req[Own].status = "PENDING_APPROVAL"
        THEN <<Do("setDraft", Own, None)>> ELSE <<>>) \o <<Do("ask", Own, None)>>, <<>>)
  /\ UNCHANGED tables

(* remind builds the list of reminders from what it has loaded ...         *)
Remind(h) ==
  /\ May(h, "remind") /\ Decidable /\ sub.asked
  /\ Starts(h, "remind", <<Do("remind", Own, [now |-> clock, reminders |-> Append(sub.reminders, clock)])>>, <<>>)
  /\ UNCHANGED tables

-----------------------------------------------------------------------------
(* The calls on reservations (in detail in ConsumableIssue).               *)

Asks == [issue |-> Issuable, cancelReservation |-> Live, rejectReservation |-> Live]

LookStock(h) ==
  /\ ~Idle(h) /\ job[h].todo # <<>> /\ job[h].pre = None /\ Call(h).do \in DOMAIN Asks
  /\ LET row == res[Call(h).on]
         outstanding == row.quantity - row.out
         amount == IF Call(h).arg = None THEN outstanding ELSE Call(h).arg
     IN IF /\ row.status \in Asks[Call(h).do]
           /\ Call(h).do = "issue" => amount \in 1..outstanding /\ amount <= shelf[Call(h).on]
        THEN Read(h, [amount |-> amount, outstanding |-> outstanding]) ELSE Fail(h)
  /\ UNCHANGED tables

Row(h) == res[Call(h).on]
SetStock(h, row) ==
  IF Row(h).status = "none" THEN Fail(h) /\ UNCHANGED res
  ELSE res' = [res EXCEPT ![Call(h).on] = row] /\ Done(h)

(* approveConsumable measures shelf and request again, under their locks.  *)
Issue(h) ==
  LET i == Call(h).on  amount == job[h].pre.amount IN
  /\ Looked(h, "issue")
  /\ IF shelf[i] >= amount /\ Row(h).out + amount <= Row(h).quantity
     THEN /\ SetStock(h, [Row(h) EXCEPT !.out = @ + amount, !.status =
               IF amount < job[h].pre.outstanding THEN "PARTIALLY_ALLOCATED" ELSE "ALLOCATED"])
          /\ shelf' = [shelf EXCEPT ![i] = @ - amount]
     ELSE Fail(h) /\ UNCHANGED <<res, shelf>>
  /\ UNCHANGED <<req, orders, passed, sub, clock, sent>>

(* What is out is released, not returned.                                  *)
CloseReservation(h) == \E do \in {"cancelReservation", "rejectReservation"} :
  /\ Looked(h, do)
  /\ SetStock(h, [Row(h) EXCEPT !.out = 0, !.status =
       IF do = "cancelReservation" THEN "CANCELLED" ELSE "REJECTED"])
  /\ UNCHANGED <<req, orders, passed, sub, shelf, clock, sent>>

(* accept, of everything (in detail in ConsumableIssue).                   *)
Collect(i) ==
  /\ res[i].status = "ALLOCATED"
  /\ res' = [res EXCEPT ![i].status = "COMPLETED"]
  /\ UNCHANGED <<req, orders, passed, job, sub, shelf, clock, sent>>

(* Somebody else is given some of an item.                                 *)
TakenElsewhere(i) ==
  /\ \E h \in Handler : "issueLine" \in duty[h]
  /\ shelf[i] > 0 /\ shelf' = [shelf EXCEPT ![i] = @ - 1]
  /\ UNCHANGED <<req, orders, passed, job, sub, res, clock, sent>>

-----------------------------------------------------------------------------
(* The catalog's direct updates.                                           *)

SetQuantity(h) ==
  /\ Doing(h, "setQuantity") /\ SetStock(h, [Row(h) EXCEPT !.quantity = Call(h).arg])
  /\ UNCHANGED <<req, orders, passed, sub, shelf, clock, sent>>

(* A requisition's line, by the id it was loaded with.                     *)
SetLine(h) ==
  LET line == Call(h).arg IN
  /\ Doing(h, "setLine")
  /\ IF Current(h).status # "none" /\ Current(h).edition = line.edition
     THEN Set(h, [Current(h) EXCEPT !.lines[line.line] = line.quantity])
     ELSE Fail(h) /\ UNCHANGED req
  /\ UNCHANGED <<orders, passed, sub, res, shelf, clock, sent>>

DropLines(h) ==
  /\ Doing(h, "dropLines")
  /\ Set(h, [Current(h) EXCEPT !.lines = [l \in Line |-> IF l \in Call(h).arg THEN 0 ELSE @[l]],
                               !.free = @ \ Call(h).arg])
  /\ UNCHANGED <<orders, passed, sub, res, shelf, clock, sent>>

SendRound(h) == \E do \in {"setPending", "setDraft"} :
  /\ Doing(h, do) /\ Becomes(h, IF do = "setPending" THEN "PENDING_APPROVAL" ELSE "DRAFT")
  /\ UNCHANGED <<orders, passed, sub, res, shelf, clock, sent>>

Question(h) == \E do \in {"ask", "closeQuestion", "closeSubmission"} :
  /\ Doing(h, do)
  /\ IF Open THEN /\ sub' = [sub EXCEPT !.asked = do = "ask", !.cancelled = @ \/ do = "closeSubmission"]
                  /\ Done(h)
     ELSE Fail(h) /\ UNCHANGED sub
  /\ UNCHANGED <<req, orders, passed, res, shelf, clock, sent>>

Refused(h) == Doing(h, "refuse") /\ Fail(h) /\ UNCHANGED tables

(* Faulty: the hour is checked when the submission is loaded.              *)
ClaimsAny(now) == Open /\ sub.asked /\ ~sub.cancelled

(* ... and one conditional update claims the hour.                         *)
Claims(now) == Open /\ sub.asked /\ ~sub.cancelled /\ (sub.last # None => sub.last <= now - 1)

ClaimReminder(h) ==
  LET r == Call(h).arg IN
  /\ Doing(h, "remind")
  /\ IF Claims(r.now) THEN /\ sub' = [sub EXCEPT !.last = r.now, !.reminders = r.reminders]
                           /\ sent' = sent + 1
     ELSE UNCHANGED <<sub, sent>>
  /\ Done(h) /\ UNCHANGED <<req, orders, passed, res, shelf, clock>>

(* Between loading and claiming no hour passes.                            *)
Tick ==
  /\ clock < MaxHour /\ \A h \in Handler : ~Doing(h, "remind")
  /\ \E h \in Handler : "remind" \in duty[h]
  /\ clock' = clock + 1 /\ UNCHANGED <<req, orders, passed, job, sub, res, shelf, sent>>

-----------------------------------------------------------------------------
(* The requisitions' own routes, and the keeper's requisition for a short  *)
(* line, which is the submission's too (submissionOfLines).                *)

Route(h) == \E do \in DOMAIN Guard \ {"update", "resolve"}, q \in Requisition :
  /\ May(h, do) /\ req[q].status # "none"
  /\ Starts(h, do, <<Do(do, q, None)>>, <<>>) /\ UNCHANGED tables
RouteLines(h) == \E q \in Requisition, l \in Line, n \in 1..most :
  /\ req[q].status # "none"
  /\ \/ May(h, "update") /\ Starts(h, "update", <<Do("update", q, [lines |-> [k \in Line |-> IF k = l THEN n ELSE 0],
                                              free |-> {NewItem} \intersect {l}])>>, <<>>)
     \/ May(h, "resolve") /\ n = 1 /\ l \in req[q].free /\ Starts(h, "resolve", <<Do("resolve", q, l)>>, <<>>)
  /\ UNCHANGED tables

RaiseShort(h) == May(h, "raiseShort") /\ \E i \in Reserved, status \in EDITABLE :
  /\ req[Short].status = "none"
  /\ Starts(h, "raiseShort", <<Do("create", Short,
       [status |-> status, lines |-> [l \in Line |-> IF l = i THEN 1 ELSE 0], free |-> {}])>>, <<>>)
  /\ UNCHANGED tables

-----------------------------------------------------------------------------
CatalogStep(h) ==
  \/ Checkout(h) \/ Edit(h) \/ CancelSubmission(h) \/ Reply(h) \/ Approve(h) \/ IssueLine(h)
  \/ RejectSubmission(h) \/ RequestInfo(h) \/ Remind(h) \/ Route(h) \/ RouteLines(h) \/ RaiseShort(h)
  \/ /\ \/ CreateStock(h) \/ CheckoutRefused(h) \/ LookStock(h) \/ Issue(h) \/ CloseReservation(h)
        \/ SetQuantity(h) \/ SetLine(h) \/ DropLines(h) \/ SendRound(h) \/ Question(h) \/ Refused(h)
        \/ ClaimReminder(h)
        \/ Withdraw(h) /\ UNCHANGED <<orders, passed, shelf, clock, sent>>
        \/ RequisitionStep(h) /\ UNCHANGED <<sub, res, shelf, clock, sent>>
        \/ CutOff(h) /\ UNCHANGED tables
     /\ UNCHANGED <<mode, duty, most>>

Next ==
  \/ \E h \in Handler : CatalogStep(h)
  \/ /\ \/ OrderStep /\ UNCHANGED <<sub, res, shelf, clock, sent>>
        \/ \E i \in Item : Collect(i) \/ TakenElsewhere(i)
        \/ Tick
     /\ UNCHANGED <<mode, duty, most>>

Spec == Init /\ [][Next]_vars

-----------------------------------------------------------------------------
(* One request at a time.                                                  *)
Serial == Cardinality({h \in Handler : duty[h] # {}}) = 1

(* findAll: procurement is shown "everything the organization has let      *)
(* through", whatever decisions, returns and declined rejections race each *)
(* other: what it finds open, or ordered, was let through once.            *)
NothingPassesUnapproved ==
  /\ \A q \in ProcurementQueue : req[q].status \notin {"CANCELLED", "REJECTED"} => passed[q] # None
  /\ \A o \in DOMAIN orders : passed[orders[o].of] # None

(* EDITABLE: "once approved, what procurement receives is what was         *)
(* approved": with one request at a time, cut off anywhere, an order       *)
(* carries the lines its organization let through.                         *)
OrderedAsApproved ==
  Serial => \A o \in DOMAIN orders : orders[o].lines = passed[orders[o].of]

(* cancel: when a submission becomes cancelled, no reservation of it is    *)
(* live and no requisition linked to it can still be withdrawn.            *)
CancelledHoldsNothing ==
  [][Serial /\ ~sub.cancelled /\ sub'.cancelled =>
       /\ \A i \in Item : res'[i].status \notin Live
       /\ \A q \in Requisition : req'[q].status \notin CANCELLABLE]_vars

(* checkout: "Nothing half-made stays": when the catch of a failed         *)
(* checkout has run, and none of its deletes was refused, no row of it is  *)
(* left, whoever found it meanwhile.                                       *)
FailedCheckoutLeavesNothing ==
  sub.made = "gone" => (\A i \in Item : res[i].status = "none") /\ req[Own].status = "none"

(* deriveStatus: a submission that reads as ready, or as completed, has    *)
(* every unit of its live lines out of the shelf and everything bought for *)
(* it received.                                                            *)
ReadyMeansThere ==
  Serial /\ Open /\ Status \in {"READY", "COMPLETED"} =>
    /\ \A i \in Item : res[i].status \in Live \union {"COMPLETED"} => res[i].out = res[i].quantity
    /\ \A q \in Requisition : req[q].status \notin {"none", "CANCELLED", "REJECTED", "REJECTION_PENDING"} =>
         req[q].status = "FULFILLED" /\ orders[req[q].order].received

(* filterViews: "a rejection still awaiting confirmation is not final":    *)
(* what is listed as rejected stays so, unless more is asked for.          *)
RejectedIsFinal ==
  [][Serial /\ Open /\ Listed = "REJECTED" /\ (req[Short].status = "none" => req'[Short].status = "none")
       => Listed' = "REJECTED"]_vars

(* A request that has ended, withdrawn or turned down, stays ended.        *)
EndsAreFinal == CancelledHoldsNothing /\ RejectedIsFinal

(* remind: "two presses at once send one notice" and "each reminder is     *)
(* kept for the history": every reminder sent is in the list, no two       *)
(* within the hour.                                                        *)
RemindersKept ==
  /\ Len(sub.reminders) = sent
  /\ \A k \in 1..Len(sub.reminders) - 1 : sub.reminders[k + 1] >= sub.reminders[k] + 1

=============================================================================
