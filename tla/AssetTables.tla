---------------------------- MODULE AssetTables -----------------------------
(***************************************************************************)
(* The tables behind the units (assets) of one item: who holds them        *)
(* (AssetCustody), what they are booked for (ReservationAllocation), the   *)
(* requests for them, and the one maintenance job with its money.          *)
(*                                                                         *)
(* A handler reads and checks outside a transaction, then writes in one;   *)
(* other handlers run between the two.  Nothing here takes a row lock but  *)
(* a return's receipt, and no two handlers of a case meet there.  What a   *)
(* handler carries from one step to the next is its `job'.                 *)
(***************************************************************************)
EXTENDS FinanceTransfers, FiniteSetsExt

CONSTANTS
  Unit, Person, Object,
  Row,         \* reservations of the item
  Request,     \* asset requests
  Edit,        \* what a task may be saved with: a window and a number
  Handler,
  MaxCustody,  \* bound: custody rows
  MaxAlloc,    \* bound: allocation rows
  Never,       \* the end of what has no end
  Instance,    \* the cases checked
  None

ASSUME AssetAssumption ==
  /\ MaxCustody \in Nat /\ MaxAlloc \in Nat /\ Person \intersect Object = {}
  /\ Never \in Int /\ None \notin Person \union Object \union Request \union Row

VARIABLES
  asset,    \* Asset, by unit: status and the mirror responsibleUserId
  custody,  \* AssetCustody, by id
  row,      \* ResourceReservation: for whom, window, quantity, status;
            \* `moved' is how many bookings there were when its window was
            \* last moved (a history)
  alloc,    \* ReservationAllocation, by id
  back,     \* ResourceReturn: units filed to come back, by reservation
  request,  \* AssetRequest
  work,     \* MaintenanceRecord
  job,      \* what each handler is doing and has read, or None
  duty      \* what each handler does in this case

register == <<asset, custody, row, alloc, back, request>>
money == <<work, transfers>>
vars == <<asset, custody, row, alloc, back, request, work, transfers, job, duty>>

AssetStatus == {"AVAILABLE", "MAINTENANCE", "DAMAGED", "RETIRED"}
INACTIVE_STATUSES == {"CANCELLED", "COMPLETED", "REJECTED"}
ALLOCATABLE_STATUSES == {"PENDING", "APPROVED", "PARTIALLY_ALLOCATED"}
RowStatus == ALLOCATABLE_STATUSES \union INACTIVE_STATUSES \union {"ALLOCATED"}
Reservation == [object : Object \union {None}, from : Int, until : Int, quantity : Int,
                status : RowStatus, accepted : Int, moved : Nat]
ASSUME EditsGiven == Edit \subseteq [from : Int, until : Int, quantity : Int]
ASSUME CasesGiven == \A case \in Instance : case.rows \in [Row -> Reservation]
NoRequest == [status |-> "none", for |-> None, quantity |-> 0]
NoWork == [status |-> "none", unit |-> None, from |-> 0, to |-> Never, amount |-> 0,
           deposit |-> 0, full |-> 0, prepaid |-> 0]

Init ==
  /\ asset = [u \in Unit |-> [status |-> "AVAILABLE", holder |-> None]]
  /\ custody = <<>> /\ alloc = <<>> /\ back = [r \in Row |-> 0]
  /\ \E case \in Instance : duty = case.may /\ row = case.rows
  /\ request = [q \in Request |-> NoRequest]
  /\ work = NoWork /\ transfers = <<>>
  /\ job = [h \in Handler |-> None]

Idle(h) == job[h] = None
May(h, op) == Idle(h) /\ op \in duty[h]
Doing(h, op) == job[h] # None /\ job[h].op = op
Begin(h, read) == job' = [job EXCEPT ![h] = read] /\ UNCHANGED duty
Finished(h) == job' = [job EXCEPT ![h] = None] /\ UNCHANGED duty

(* Refused, failed or cut off: what was committed before it stays.         *)
Abort(h) == ~Idle(h) /\ Finished(h) /\ UNCHANGED <<register, money>>

-----------------------------------------------------------------------------
(* Who holds a unit.                                                       *)

OpenRows(u) == {c \in DOMAIN custody : custody[c].open /\ custody[c].unit = u}
Issued(q) == {c \in DOMAIN custody : custody[c].open /\ custody[c].request = q}

Held(u, who, origin) == [unit |-> u, holder |-> who, origin |-> origin, request |-> None,
                         row |-> None, accepted |-> FALSE, open |-> TRUE]

(* releasedAt of some rows, and a new one.                                 *)
Closed(S) == [c \in DOMAIN custody |-> IF c \in S THEN [custody[c] EXCEPT !.open = FALSE]
                                                  ELSE custody[c]]
PassOn(S, next) == Len(custody) < MaxCustody /\ custody' = Append(Closed(S), next)

-----------------------------------------------------------------------------
(* What a unit is booked for.                                              *)

Live == {i \in DOMAIN alloc : alloc[i].live}
Out(r) == {i \in Live : alloc[i].row = r}
OutOf(u) == {i \in Live : alloc[i].unit = u}
=============================================================================
