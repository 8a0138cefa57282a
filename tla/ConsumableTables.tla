-------------------------- MODULE ConsumableTables --------------------------
(***************************************************************************)
(* The tables behind consumable reservations of one item, what is measured *)
(* on them, and the shape of a request handler.                            *)
(*                                                                         *)
(* A handler (one HTTP request) reads and validates outside a transaction, *)
(* then opens one at READ COMMITTED: it reads again, possibly under row    *)
(* locks, writes, and commits.  Each of these is a step here, and other    *)
(* handlers run between them.  What a handler carries from one step to the *)
(* next is its `job'.  Writes of a transaction become visible together, at *)
(* its commit.  A row another transaction holds makes a writer wait, and   *)
(* so does inserting a row that refers to it: every change of allocations  *)
(* writes its history, which refers to the reservation.                    *)
(*                                                                         *)
(* Quantities are whole numbers: the code keeps three decimals and rounds  *)
(* after every operation, so they stand for thousandths.                   *)
(***************************************************************************)
EXTENDS Integers, FiniteSets, FiniteSetsExt

CONSTANTS
  Reservation, \* consumable reservations, all of the same item
  Pool,        \* shelves that hold the item: Item.quantity, WarehouseStock rows
  MainPool,    \* the main shelf, which is the Item row itself
  PoolOf,      \* the shelf each reservation draws from (its warehouseId)
  Opening,     \* what is on each shelf at the start
  MaxQty,      \* bound: the largest quantity asked for
  MaxAlloc,    \* bound: allocation rows
  MaxReturn,   \* bound: return rows
  MaxShelf,    \* bound: what a shelf may be credited up to
  Handler,     \* requests served at the same time
  Ops,         \* the operations they perform
  None

AllocId  == 1..MaxAlloc
ReturnId == 1..MaxReturn
Qty      == 1..MaxQty

ASSUME PoolsExist ==
  MainPool \in Pool /\ PoolOf \in [Reservation -> Pool] /\ Opening \in [Pool -> Nat]
ASSUME BoundsAreNumbers ==
  MaxQty \in Nat /\ MaxAlloc \in Nat /\ MaxReturn \in Nat /\ MaxShelf \in Nat
ASSUME RowsAreApart == Reservation \intersect Pool = {}

VARIABLES
  shelf,  \* Item.quantity and WarehouseStock.quantity
  moved,  \* InventoryMovement: the sum of the movements of each shelf
  res,    \* ResourceReservation: status, quantity, acceptedQuantity
  alloc,  \* ReservationAllocation: whose, how much, and releasedAt
  ret,    \* ResourceReturn: whose, how much, status
  locks,  \* the rows each open transaction holds (SELECT ... FOR UPDATE)
  job     \* what each handler is doing and has read, or None

vars == <<shelf, moved, res, alloc, ret, locks, job>>

Status == {"PENDING", "APPROVED", "PARTIALLY_ALLOCATED", "ALLOCATED",
           "COMPLETED", "CANCELLED", "REJECTED"}
INACTIVE_STATUSES == {"CANCELLED", "COMPLETED", "REJECTED"}

NoAlloc  == [of |-> None, qty |-> 0, state |-> "unused"]
NoReturn == [of |-> None, qty |-> 0, status |-> "unused"]
NoRows   == [i \in AllocId |-> 0]

Init ==
  /\ shelf = Opening
  /\ moved = [p \in Pool |-> 0]
  /\ res \in [Reservation -> [status : {"PENDING", "APPROVED"}, quantity : Qty, accepted : {0}]]
  /\ alloc = [i \in AllocId |-> NoAlloc]
  /\ ret = [i \in ReturnId |-> NoReturn]
  /\ locks = [h \in Handler |-> {}]
  /\ job = [h \in Handler |-> None]

-----------------------------------------------------------------------------
(* Measuring a reservation: quantitiesOf.                                  *)

LiveRows(r) == {i \in AllocId : alloc[i].of = r /\ alloc[i].state = "live"}
Returns(r, status) == {i \in ReturnId : ret[i].of = r /\ ret[i].status = status}

Out(r)      == MapThenSumSet(LAMBDA i : alloc[i].qty, LiveRows(r))
Returned(r) == MapThenSumSet(LAMBDA i : ret[i].qty, Returns(r, "RECEIVED"))
Awaiting(r) == MapThenSumSet(LAMBDA i : ret[i].qty, Returns(r, "PENDING"))
Issued(r)   == Out(r) + Returned(r)

AtLeastZero(n) == IF n > 0 THEN n ELSE 0
Smaller(m, n)  == IF m < n THEN m ELSE n

OutstandingToIssue(r) == AtLeastZero(res[r].quantity - Issued(r))
Returnable(r)         == AtLeastZero(Out(r) - Awaiting(r))

-----------------------------------------------------------------------------
(* Row locks, and the bookkeeping of a handler.                            *)

(* Nobody else's open transaction holds any of the rows.                   *)
Free(h, rows) == \A g \in Handler \ {h} : locks[g] \intersect rows = {}

Idle(h) == job[h] = None

Doing(h, op, stage) == job[h] # None /\ job[h].op = op /\ job[h].stage = stage

(* A request validated against the reservation it read: `pre' is that      *)
(* read, `n' a number measured with it, `id' the row the request names.    *)
Accepted(h, op, r, id, q, n) ==
  job' = [job EXCEPT ![h] =
    [op |-> op, stage |-> "checked", r |-> r, id |-> id, q |-> q, n |-> n,
     pre |-> res[r], rows |-> NoRows]]

(* Its transaction has read what it will act on: live rows and locks.      *)
Opened(h, rows, held) ==
  /\ job' = [job EXCEPT ![h].stage = "open", ![h].rows = rows]
  /\ locks' = [locks EXCEPT ![h] = held]

Finished(h) ==
  /\ job' = [job EXCEPT ![h] = None]
  /\ locks' = [locks EXCEPT ![h] = {}]

(* findMany of the live allocations: their quantities as of now.           *)
ReadRows(r) == [i \in AllocId |-> IF i \in LiveRows(r) THEN alloc[i].qty ELSE 0]

(* Refused or failed after the checks: the transaction rolls back.         *)
Abort(h) ==
  /\ job[h] # None
  /\ Finished(h)
  /\ UNCHANGED <<shelf, moved, res, alloc, ret>>

-----------------------------------------------------------------------------
(* Writing: a shelf and its movement together, and allocation rows.        *)

Move(p, q) ==
  /\ shelf' = [shelf EXCEPT ![p] = @ + q]
  /\ moved' = [moved EXCEPT ![p] = @ + q]

(* The movement refers to the item, so its insert waits for an item lock.  *)
Credit(h, p, q) == Free(h, {p, MainPool}) /\ shelf[p] + q <= MaxShelf /\ Move(p, q)

KeepStock == UNCHANGED <<shelf, moved>>

Unused == {i \in AllocId : alloc[i].state = "unused"}
NextRow == Min(Unused)

Release(rows) == [i \in AllocId |->
  IF rows[i] > 0 THEN [alloc[i] EXCEPT !.state = "released"] ELSE alloc[i]]

(* Taking q back newest first, from the rows as they were READ: a row goes *)
(* whole, or is cut to what was read less what is taken, with the part     *)
(* taken as a released row of its own.                                     *)
Newer(rows, i) == MapThenSumSet(LAMBDA j : rows[j], {j \in AllocId : j > i})
Taken(rows, q, i) == AtLeastZero(Smaller(rows[i], q - Newer(rows, i)))
Cut(rows, q) == {i \in AllocId : Taken(rows, q, i) \in 1..(rows[i] - 1)}
CutRow(rows, q) == CHOOSE i \in Cut(rows, q) : TRUE  \* there is one at most

(* Faulty: a row only partly taken back is left as it is.                  *)
ReleaseWholeOnly(r, rows, q) ==
  alloc' = [i \in AllocId |->
    IF rows[i] > 0 /\ Taken(rows, q, i) = rows[i]
      THEN [alloc[i] EXCEPT !.state = "released"] ELSE alloc[i]]

ReleaseNewest(r, rows, q) ==
  /\ Cut(rows, q) # {} => Unused # {}
  /\ alloc' = [i \in AllocId |->
       CASE rows[i] > 0 /\ Taken(rows, q, i) = rows[i] ->
              [alloc[i] EXCEPT !.state = "released"]
         [] i \in Cut(rows, q) ->
              [alloc[i] EXCEPT !.qty = rows[i] - Taken(rows, q, i)]
         [] Cut(rows, q) # {} /\ i = NextRow ->
              [of |-> r, qty |-> Taken(rows, q, CutRow(rows, q)), state |-> "released"]
         [] OTHER -> alloc[i]]
=============================================================================
