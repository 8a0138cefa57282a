--------------------------- MODULE AssetRegister ----------------------------
(***************************************************************************)
(* The units of one item: held by people and objects, booked for tasks and *)
(* objects, sent to maintenance that finance pays for.                     *)
(***************************************************************************)
EXTENDS AssetCustody, AssetAllocation, MaintenanceMoney

Next == \E h \in Handler : CustodyStep(h) \/ AllocationStep(h) \/ MoneyStep(h) \/ Abort(h)

Spec == Init /\ [][Next]_vars

-----------------------------------------------------------------------------
(* What a case may keep apart: in the code nothing keeps two requests from *)
(* meeting between a check and the write it is for (see the README).       *)

MoneyOps == {"draft", "editWork", "finalize", "complete", "removeWork", "callback", "book"}
BookingOps == {"allocate", "reallocate", "saveTask"}

(* One handler at most does anything but look after a job's money, issues  *)
(* on requests, or books units and moves what they are booked for.         *)
OneActs == \A case \in Instance : \A g, h \in Handler :
  case.may[g] \subseteq MoneyOps \/ case.may[h] \subseteq MoneyOps \/ g = h

OneIssues == \A case \in Instance : \A g, h \in Handler :
  "issue" \in case.may[g] /\ "issue" \in case.may[h] => g = h

OneBooks == \A case \in Instance : \A g, h \in Handler :
  case.may[g] \intersect BookingOps # {} /\ case.may[h] \intersect BookingOps # {} => g = h

-----------------------------------------------------------------------------
(* Of the units, one request at a time (two at once: see the README).      *)

(* assets.service: "custody is the only writer of the responsibleUserId    *)
(* mirror": a unit has one holder, through hand-overs, bookings that move  *)
(* it to an object and returns that send it back, and the mirror names     *)
(* that holder exactly when it is a person.                                *)
OneHolderNamed ==
  \A u \in Unit :
    /\ Cardinality(OpenRows(u)) <= 1
    /\ {asset[u].holder} \ {None} = {custody[c].holder : c \in OpenRows(u)} \intersect Person

(* release: "The responsible person cannot walk away while the asset is    *)
(* out on a task"; handOverToObjectInTx: "a unit allocated to a reserva-   *)
(* tion that carries an object goes to the OBJECT".  As long as a unit's   *)
(* latest booking lives, somebody answers for the unit: a person for a     *)
(* task's, for an object's the object or whom it lent the unit to.         *)
LastTakerHolds ==
  \A i \in Live :
    LET u == alloc[i].unit
        r == alloc[i].row
    IN  (\A j \in DOMAIN alloc \ {i} : alloc[j].unit = u => j < i /\ alloc[j].row # r) =>
          \E c \in OpenRows(u) : IF row[r].object = None THEN custody[c].holder \in Person
                                                         ELSE custody[c].origin = row[r].object

(* Both: of every unit it is known who answers for it.                     *)
HoldersAnswer == OneHolderNamed /\ LastTakerHolds

(* allocate and reallocate: a booking with an end is never laid over one   *)
(* that was there before it, however units were swapped and tasks moved in *)
(* between.  (One without an end is; and saving a task lays what is booked *)
(* for it over other bookings, as it asks about the item and not about the *)
(* unit: pairs of which one was moved since are excepted.  See the README.) *)
MovedSince(i, n) == row[alloc[i].row].moved >= n
BookedApart ==
  \A i, j \in Live : i < j /\ alloc[i].unit = alloc[j].unit =>
    LET a == row[alloc[i].row]
        b == row[alloc[j].row]
    IN  b.until = Never \/ b.until < a.from \/ a.until < b.from \/ MovedSince(i, j) \/ MovedSince(j, j)

(* issue: no more units out on a request than it asked for, although they  *)
(* are handed over one transaction at a time, a unit may be refused or     *)
(* the request cut off between two, and units come back in any order.      *)
IssuedWithinRequest == \A q \in Request : Cardinality(Issued(q)) <= request[q].quantity

-----------------------------------------------------------------------------
(* Of the money, with finance at work while the job is sent, edited,       *)
(* finished or removed.                                                    *)

(* finalize: "the retry [...] lands on the deposit that already exists":   *)
(* the transfers a sent job names are what was agreed, whatever earlier    *)
(* tries left behind under other amounts or another split.                 *)
NamedMoneyAddsUp ==
  Kept /\ work.status # "DRAFT" =>
    MapThenSumSet(LAMBDA t : transfers[t].amount, {work.full, work.prepaid} \ {0}) = work.amount

(* financeCallback: finance never lets one part of a job's money through   *)
(* and refuses another, nor takes a verdict on a job that was not sent.    *)
VerdictsAgree ==
  \A s, t \in DOMAIN transfers :
    ~(transfers[s].status = "REJECTED" /\ transfers[t].status \in {"APPROVED", "BOOKED"})

(* The money of a job is what was agreed, and is decided one way.          *)
MoneyOfAJob == NamedMoneyAddsUp /\ VerdictsAgree
=============================================================================
