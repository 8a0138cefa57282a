------------------------ MODULE ConsumableLifecycle ------------------------
(***************************************************************************)
(* A consumable reservation from request to return: issuing (by            *)
(* ReservationsService) and returning (by ResourceReturnsService and       *)
(* AllocationsService) share the reservation, its allocations and the      *)
(* shelf.  Which operations run and how many at a time is chosen by Ops    *)
(* and Handler; a request may fail between any two of its steps.           *)
(***************************************************************************)
EXTENDS ConsumableIssue, ConsumableReturns

Next == \E h \in Handler : IssueStep(h) \/ ReturnStep(h) \/ Abort(h)

Spec == Init /\ [][Next]_vars

-----------------------------------------------------------------------------
(* Types.  A shelf is a whole number of either sign here: that it is never *)
(* negative is ShelfNeverNegative.                                         *)
ResRow == [status : Status, quantity : Int, accepted : Int]
AllocRow == [of : Reservation \union {None}, qty : Nat,
             state : {"unused", "live", "released"}]
ReturnRow == [of : Reservation \union {None}, qty : Nat,
              status : {"unused", "PENDING", "RECEIVED", "CANCELLED"}]
Job == [op : Ops, stage : {"checked", "open"}, r : Reservation,
        id : AllocId \union ReturnId \union {None}, q : Nat, n : Int,
        pre : ResRow, rows : [AllocId -> Nat]]

TypeOK ==
  /\ shelf \in [Pool -> Int] /\ moved \in [Pool -> Int]
  /\ res \in [Reservation -> ResRow]
  /\ alloc \in [AllocId -> AllocRow]
  /\ ret \in [ReturnId -> ReturnRow]
  /\ locks \in [Handler -> SUBSET (Pool \union Reservation)]
  /\ job \in [Handler -> Job \union {None}]

(* Every unit on a shelf is explained by the movements written for it,     *)
(* whatever runs against whatever: no handler moves one without the other. *)
LedgerExplainsShelf == \A p \in Pool : shelf[p] = Opening[p] + moved[p]

(* approveConsumable: "Two callers issuing the last of something both      *)
(* passed the check above; exactly one of them changes a row here".        *)
ShelfNeverNegative == \A p \in Pool : shelf[p] >= 0

(* Both: a shelf is what its movements say, and no less than nothing.      *)
ShelvesAddUp == LedgerExplainsShelf /\ ShelfNeverNegative

(* The books on goods: on the shelf, or out.                               *)
Booked(p) == shelf[p] + MapThenSumSet(Out, {r \in Reservation : PoolOf[r] = p})

(* What a commit takes out of the books on purpose: damaged goods, and     *)
(* whatever is out when a reservation is called off or turned down.        *)
WrittenOff(j) == CASE j.op = "scrap" -> j.q
                   [] j.op \in DOMAIN Closing -> Newer(j.rows, 0)
                   [] OTHER -> 0

(* It acts on allocation rows that are no longer as it read them, or, by   *)
(* id, on one that was given back before.  (Approving and receiving lock   *)
(* what they read.)                                                        *)
OutOfDate(j) ==
  CASE j.op \in {"reclaim", "scrap"} \union DOMAIN Closing -> j.rows # ReadRows(j.r)
    [] j.op = "handBack" -> ~(j.id \in LiveRows(j.r) /\ alloc[j.id].qty = j.q + j.n)
    [] j.op \in {"release", "remove"} -> ~(j.id \in LiveRows(j.r) /\ alloc[j.id].qty = j.q)
    [] OTHER -> FALSE

Commits(h) == job[h] # None /\ job'[h] = None

(* approve, receive, reclaim, release, remove and hand-back together: of   *)
(* any number of requests at once no goods are lost and none invented but  *)
(* what is written off on purpose, as long as none that takes no lock      *)
(* acts on rows that changed since it read them (there the code does       *)
(* invent stock, and crediting a row twice by its id does: see the README).*)
StockIsKept ==
  [][\A p \in Pool :
       \/ Booked(p)' = Booked(p)
       \/ \E h \in Handler :
            /\ Commits(h) /\ PoolOf[job[h].r] = p
            /\ OutOfDate(job[h]) \/ Booked(p)' = Booked(p) - WrittenOff(job[h])]_vars

(* approveConsumable: "two partial approvals racing could together hand    *)
(* out more than was asked for".                                           *)
NeverOverIssued == \A r \in Reservation : Issued(r) <= res[r].quantity

(* resource-returns create: "two people handing back the same six": what   *)
(* is filed to come back is really out.                                    *)
ReturnsAreBacked == \A r \in Reservation : Awaiting(r) <= Out(r)

(* accept: "accepted <= issued": nobody has confirmed holding goods that   *)
(* are not out to them.                                                    *)
AcceptedWithinIssued == \A r \in Reservation : res[r].accepted <= Out(r)

(* Both: nobody claims to hold, or to hand back, what is not out to them.  *)
ClaimsAreOut == ReturnsAreBacked /\ AcceptedWithinIssued

(* A reservation called off or turned down holds no goods.                 *)
ClosedHoldsNothing ==
  \A r \in Reservation : res[r].status \in {"CANCELLED", "REJECTED"} => Out(r) = 0

(* And its status says how much was: ALLOCATED, that everything asked for  *)
(* was handed out, whatever the approval that wrote it had measured.       *)
IssuedAsStated ==
  /\ NeverOverIssued
  /\ \A r \in Reservation : res[r].status = "ALLOCATED" => OutstandingToIssue(r) = 0

(* COMPLETED and REJECTED are terminal.                                    *)
TerminalStays ==
  [][\A r \in Reservation :
       res[r].status \in {"COMPLETED", "REJECTED"} => res'[r].status = res[r].status]_vars

(* quantitiesOf: issued is "everything that has ever left the shelf        *)
(* against this request", so a return does not lower it.                   *)
IssuedNeverFalls == [][\A r \in Reservation : Issued(r)' >= Issued(r)]_vars
=============================================================================
