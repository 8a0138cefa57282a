--------------------------- MODULE StockRequests ---------------------------
(***************************************************************************)
(* StockRequestsService: a project warehouse asks main for goods; main     *)
(* approves, which carries out a transfer and then marks the request, or   *)
(* rejects; the requester may edit or withdraw a request that is pending.  *)
(* Composed with StockTransfers, whose transaction an approval calls.      *)
(***************************************************************************)
EXTENDS StockTransfers

CONSTANT Request  \* the requests that may be filed

VARIABLE asked    \* StockRequest: the row of each request, or None

vars == <<stock, moved, home, holder, docs, job, asked>>

NewRequest(sub, lines) == [sub |-> sub, lines |-> lines, status |-> "PENDING", sent |-> 0]

Pending(r) == asked[r] # None /\ asked[r].status = "PENDING"

Init == StoresInit /\ job = [h \in Handler |-> None] /\ asked = [r \in Request |-> None]

-----------------------------------------------------------------------------
(* create: filed by an active warehouse.                                   *)
File(h, r, sub, lines) ==
  /\ job[h] = None
  /\ asked[r] = None /\ sub \in Active
  /\ asked' = [asked EXCEPT ![r] = NewRequest(sub, lines)]
  /\ UNCHANGED <<stores, job>>

(* update: the status is looked at, looked at again in the transaction,    *)
(* and the lines are replaced without a condition on it.                   *)
EditRead(h, r, lines) ==
  /\ job[h] = None /\ "edit" \in Ops
  /\ Pending(r)
  /\ job' = [job EXCEPT ![h] = [stage |-> "editing", req |-> r, lines |-> lines]]
  /\ UNCHANGED <<stores, asked>>

EditRecheck(h) ==
  /\ Doing(h, "editing")
  /\ Pending(job[h].req)
  /\ job' = [job EXCEPT ![h].stage = "rechecked"]
  /\ UNCHANGED <<stores, asked>>

EditWrite(h) ==
  /\ Doing(h, "rechecked")
  /\ asked' = [asked EXCEPT ![job[h].req].lines = job[h].lines]
  /\ Finished(h)
  /\ UNCHANGED stores

(* approve: the request as it was read is sent; then it is marked, if it   *)
(* is still pending.                                                       *)
ApproveRead(h, r) ==
  /\ job[h] = None /\ "approve" \in Ops
  /\ Pending(r) /\ asked[r].sub \in Active
  /\ Ordered(h, r, Main, asked[r].sub, asked[r].lines)
  /\ UNCHANGED <<stores, asked>>

(* Faulty: the newest document is taken for the one made here.             *)
MarkNewest(h) ==
  /\ Doing(h, "sent") /\ Pending(job[h].req)
  /\ asked' = [asked EXCEPT ![job[h].req].status = "APPROVED", ![job[h].req].sent = Len(docs)]
  /\ Finished(h)
  /\ UNCHANGED stores

ApproveMark(h) ==
  /\ Doing(h, "sent")
  /\ LET r == job[h].req
     IN  asked' = IF Pending(r)
                    THEN [asked EXCEPT ![r].status = "APPROVED", ![r].sent = job[h].sent]
                    ELSE asked
  /\ Finished(h)
  /\ UNCHANGED stores

(* reject and cancel: one guarded update.                                  *)
Decide(h, r, status) ==
  /\ job[h] = None /\ "decide" \in Ops
  /\ Pending(r)
  /\ asked' = [asked EXCEPT ![r].status = status]
  /\ UNCHANGED <<stores, job>>

(* Refused or failed: before a commit the transaction rolls back.  After   *)
(* the transfer committed only a crash ends the handler early.             *)
Abandon(h) ==
  /\ job[h] # None
  /\ job[h].stage = "sent" => "crash" \in Ops
  /\ Finished(h)
  /\ UNCHANGED <<stores, asked>>

RequestStep(h) ==
  \/ \E r \in Request, lines \in Lines :
       EditRead(h, r, lines) \/ \E sub \in Sub : File(h, r, sub, lines)
  \/ \E r \in Request :
       ApproveRead(h, r) \/ \E status \in {"REJECTED", "CANCELLED"} : Decide(h, r, status)
  \/ EditRecheck(h) \/ EditWrite(h) \/ ApproveMark(h) \/ Abandon(h)

Next == \E h \in Handler : RequestStep(h) \/ (StoresStep(h) /\ UNCHANGED asked)

Spec == Init /\ [][Next]_vars

-----------------------------------------------------------------------------
Doc == [req : Request \union {None}, from : Place, to : Place, lines : [Item -> Nat]]
RequestRow == [sub : Sub, lines : [Item -> Nat],
               status : {"PENDING", "APPROVED", "REJECTED", "CANCELLED"}, sent : Nat]
ASSUME NoneIsNoRow == None \notin RequestRow
TransferJob == [stage : {"ordered", "picked", "sent"}, req : Request \union {None}, from : Place,
                to : Place, lines : [Item -> Nat], units : SUBSET Asset, sent : Nat]
AllocateJob == [stage : {"allocating"}, asset : Asset, place : Place]
EditJob == [stage : {"editing", "rechecked"}, req : Request, lines : [Item -> Nat]]

(* Types of the tables and of what each handler carries.                   *)
TypeOK ==
  /\ stock \in [Place -> [Consumable -> Int]]
  /\ moved \in [Place -> [Item -> Int]]
  /\ home \in [Asset -> Place]
  /\ holder \in [Asset -> Place \union {None}]
  /\ docs \in Seq(Doc)
  /\ asked \in [Request -> RequestRow \union {None}]
  /\ job \in [Handler -> TransferJob \union AllocateJob \union EditJob \union {None}]

(* "source pool down, destination up": no warehouse is overdrawn however   *)
(* many transfers compete for its goods.                                   *)
NeverOverdrawn == \A p \in Place, i \in Consumable : stock[p][i] >= 0

(* "paired movements": at every place the movements explain what is there, *)
(* of consumables and of assets.                                           *)
OpeningOf(p, i) ==
  IF i # AssetItem THEN OpeningStock[p][i] ELSE IF p = Main THEN Cardinality(Asset) ELSE 0
Count(p, i) ==
  IF i # AssetItem THEN stock[p][i] ELSE Cardinality({a \in Asset : home[a] = p})
LedgerExplainsStock ==
  \A p \in Place, i \in Item : Count(p, i) = OpeningOf(p, i) + moved[p][i]

(* Transfers move goods and neither make nor lose any.                     *)
NothingLost ==
  \A i \in Consumable :
    SumFunction([p \in Place |-> stock[p][i]]) = SumFunction([p \in Place |-> OpeningStock[p][i]])

(* However transfers, approvals and edits overlap, and whoever is cut off, *)
(* the stores and their ledger agree, and hold what there was.             *)
StoresAddUp == TypeOK /\ NeverOverdrawn /\ LedgerExplainsStock /\ NothingLost

(* "transferId: the transfer executed on approval": an approved request    *)
(* names a document made for it, from main to its own warehouse, and no    *)
(* two requests name one document.                                         *)
ApprovedNamesItsTransfer ==
  \A r \in Request : asked[r] # None /\ asked[r].status = "APPROVED" =>
    /\ asked[r].sent \in DOMAIN docs
    /\ docs[asked[r].sent].req = r
    /\ docs[asked[r].sent].from = Main /\ docs[asked[r].sent].to = asked[r].sub

=============================================================================
