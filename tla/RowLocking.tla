----------------------------- MODULE RowLocking -----------------------------
(***************************************************************************)
(* Who waits for whom: the rows each operation of the warehouse locks, in  *)
(* the order its statements run, under PostgreSQL's row locks.  A          *)
(* transaction keeps what it locked to its end; one that would wait in a   *)
(* circle is picked by the database's deadlock detector and rolled back.   *)
(***************************************************************************)
EXTENDS Integers, Sequences, SequencesExt, FiniteSets

CONSTANTS
  Item,        \* items, numbered by their ids
  Reservation, \* consumable reservations
  ItemOf,      \* the item of each
  FromProject, \* those that draw from a project's shelf, not from main
  RowsOf,      \* the live allocation rows of each, oldest first
  Ops,         \* the operations that run
  MaxLines,    \* bound: items one document names
  Handler,
  Detector,    \* whether the deadlock detector runs
  None

Operation == {"approve", "file", "accept", "receive", "reclaim", "close", "release", "handBack",
              "toSub", "toMain", "create", "copy"}

ASSUME ReservationsGiven ==
  /\ ItemOf \in [Reservation -> Item] /\ FromProject \subseteq Reservation
  /\ \A r \in Reservation : RowsOf[r] \in Seq(ToSet(RowsOf[r])) /\ IsInjective(RowsOf[r])
ASSUME RowsApart ==
  \A q, r \in Reservation : q # r => ToSet(RowsOf[q]) \intersect ToSet(RowsOf[r]) = {}
ASSUME ItemsNumbered == MaxLines \in Nat /\ Item \subseteq Nat /\ IsFiniteSet(Item)
ASSUME OpsNamed == Ops \subseteq Operation /\ None \notin Operation /\ Detector \in BOOLEAN

-----------------------------------------------------------------------------
(* SELECT ... FOR UPDATE, an UPDATE, and the check of a foreign key (key   *)
(* share), which an UPDATE that leaves the key alone does not disturb.     *)
Conflicts(m, n) == {m, n} # {"key share"} /\ {m, n} # {"key share", "update"}

Lock(table, id, mode) == [row |-> <<table, id>>, mode |-> mode]

OnItem(r, mode) == Lock("Item", ItemOf[r], mode)
OnSelf(r, mode) == Lock("ResourceReservation", r, mode)
Shelf(r) == IF r \in FromProject THEN Lock("WarehouseStock", ItemOf[r], "update") ELSE OnItem(r, "update")

(* The movement's foreign key to the item, and the histories' to the       *)
(* reservation, are checked by a shared lock on the row they name.         *)
Credit(r) == <<Shelf(r), OnItem(r, "key share")>>
Update(rows) == [n \in DOMAIN rows |-> Lock("ReservationAllocation", rows[n], "update")]

-----------------------------------------------------------------------------
(* The scripts: what each operation locks, in order.                       *)

(* approveConsumable: lockItem, lockReservation, then the shelf.           *)
Approve(r) == <<OnItem(r, "for update"), OnSelf(r, "for update"), Shelf(r)>>

(* Faulty: a return is filed with the item locked after the reservation.   *)
FileLockingItem(r) == <<OnSelf(r, "for update"), OnItem(r, "for update")>>

(* resource-returns create.                                                *)
FileReturn(r) == <<OnSelf(r, "for update")>>

(* accept, a guarded update.                                               *)
Accept(r) == <<OnSelf(r, "update")>>

(* resource-returns receive: the reservation first, then the rows, newest  *)
(* first, and the shelf.                                                   *)
Receive(r) == <<OnSelf(r, "for update")>> \o Update(Reverse(RowsOf[r])) \o Credit(r)

(* reclaim: the rows, their history, the shelf, the status.                *)
Reclaim(r) ==
  Update(Reverse(RowsOf[r])) \o <<OnSelf(r, "key share")>> \o Credit(r) \o <<OnSelf(r, "update")>>

(* cancel and reject: the rows in the order they happen to be found.       *)
Close(r, found) == Update(found) \o <<OnSelf(r, "key share"), OnSelf(r, "update")>>

(* releaseAllocation and remove: one row, its history, the shelf, the      *)
(* status.                                                                 *)
Release(r, i) ==
  <<Lock("ReservationAllocation", i, "update"), OnSelf(r, "key share")>> \o Credit(r) \o
  <<OnSelf(r, "update")>>

(* returnAllocations: one row, the shelf, then the history and the request.*)
HandBack(r, i) ==
  <<Lock("ReservationAllocation", i, "update")>> \o Credit(r) \o
  <<OnSelf(r, "key share"), OnSelf(r, "update")>>

(* Documents over several items, in the order the client lists them.       *)
Documents == {s \in SeqOf(Item, MaxLines) : s # <<>> /\ IsInjective(s)}

EachItem(items, mode) == [n \in DOMAIN items |-> Lock("Item", items[n], mode)]
InTurn(items, first, second) ==
  [n \in 1..2 * Len(items) |-> Lock(IF n % 2 = 1 THEN first ELSE second, items[(n + 1) \div 2], "update")]

(* A transfer's own lines refer to their items and are inserted first.     *)
Lines(items) == EachItem(items, "key share")
ToSub(items) == Lines(items) \o InTurn(items, "Item", "WarehouseStock")
ToMain(items) == Lines(items) \o InTurn(items, "WarehouseStock", "Item")
Create(items) == EachItem(items, "for update")

(* A copy of a project: its estimate lines refer to their items in the     *)
(* order of the lines; then, in the order of the items' ids, each item of  *)
(* a reservation that is made anew is locked, and that of one that is kept *)
(* as it was is only referred to; then the lines of requisitions and the   *)
(* asset requests refer to theirs.  (What it has is not asked for again.)  *)
ItemLocks == [row : {<<"Item", i>> : i \in Item}, mode : {"key share", "for update"}]
Referring(locks) == \A n \in DOMAIN locks : locks[n].mode = "key share"
InIdOrder(locks) == \A m, n \in DOMAIN locks : m < n => locks[m].row[2] <= locks[n].row[2]
Copies == {s \in SeqOf(ItemLocks, 2 * MaxLines) :
  /\ s # <<>> /\ IsInjective(s)
  /\ \E m, n \in 0..Len(s) : /\ Referring(SubSeq(s, 1, m)) /\ Referring(SubSeq(s, n + 1, Len(s)))
                             /\ InIdOrder(SubSeq(s, m + 1, n))}

ScriptsOf(op) ==
  CASE op = "approve"  -> {Approve(r) : r \in Reservation}
    [] op = "file"     -> {FileReturn(r) : r \in Reservation}
    [] op = "accept"   -> {Accept(r) : r \in Reservation}
    [] op = "receive"  -> {Receive(r) : r \in Reservation}
    [] op = "reclaim"  -> {Reclaim(r) : r \in Reservation}
    [] op = "close"    -> UNION {{Close(r, s) : s \in SetToSeqs(ToSet(RowsOf[r]))} : r \in Reservation}
    [] op = "release"  -> UNION {{Release(r, i) : i \in ToSet(RowsOf[r])} : r \in Reservation}
    [] op = "handBack" -> UNION {{HandBack(r, i) : i \in ToSet(RowsOf[r])} : r \in Reservation}
    [] op = "toSub"    -> {ToSub(s) : s \in Documents}
    [] op = "toMain"   -> {ToMain(s) : s \in Documents}
    [] op = "create"   -> {Create(s) : s \in Documents}
    [] op = "copy"     -> Copies

VARIABLES
  doing, \* the operation each transaction carries out, or None
  todo,  \* the locks it still has to take
  held   \* the locks it has

vars == <<doing, todo, held>>

Init ==
  /\ doing = [h \in Handler |-> None]
  /\ todo = [h \in Handler |-> <<>>]
  /\ held = [h \in Handler |-> {}]

Begin(h) ==
  /\ doing[h] = None
  /\ \E op \in Ops : \E s \in ScriptsOf(op) :
       /\ doing' = [doing EXCEPT ![h] = op]
       /\ todo' = [todo EXCEPT ![h] = s]
  /\ UNCHANGED held

Wants(h) == todo[h] # <<>>

Blocks(g, h) ==
  g # h /\ \E l \in held[g] : l.row = Head(todo[h]).row /\ Conflicts(l.mode, Head(todo[h]).mode)

Acquire(h) ==
  /\ Wants(h) /\ \A g \in Handler : ~Blocks(g, h)
  /\ held' = [held EXCEPT ![h] = @ \union {Head(todo[h])}]
  /\ todo' = [todo EXCEPT ![h] = Tail(@)]
  /\ UNCHANGED doing

End(h) ==
  /\ doing' = [doing EXCEPT ![h] = None]
  /\ todo' = [todo EXCEPT ![h] = <<>>]
  /\ held' = [held EXCEPT ![h] = {}]

(* Faulty: a transaction whose work is done is left open.                  *)
LeftOpen(h) == doing[h] # None /\ todo[h] = <<>> /\ UNCHANGED vars

Commit(h) == doing[h] # None /\ todo[h] = <<>> /\ End(h)

(* Refused, or out of time: a transaction may roll back at any point.      *)
RollBack(h) == doing[h] # None /\ End(h)

(* A circle: a set of transactions each waiting for one of the set.        *)
Waiting(h, S) == Wants(h) /\ \E g \in S : Blocks(g, h)
Circle(S) == S # {} /\ \A h \in S : Waiting(h, S)

Kill(h) ==
  /\ Detector /\ \E S \in SUBSET Handler : h \in S /\ Circle(S)
  /\ End(h)

Next == \E h \in Handler : Begin(h) \/ Acquire(h) \/ Commit(h) \/ RollBack(h) \/ Kill(h)

Spec == Init /\ [][Next]_vars

(* A transaction that can go on does; lock requests queue, so one that     *)
(* waits is not overtaken for ever; the detector looks once a second.      *)
FairSpec ==
  Spec /\ \A h \in Handler : SF_vars(Acquire(h)) /\ WF_vars(Commit(h)) /\ SF_vars(Kill(h))

-----------------------------------------------------------------------------
(* A transaction has taken the first part of a script of its operation,    *)
(* and no more; it still wants just the rest.                              *)
HasTaken(h, s, n) == todo[h] = SubSeq(s, n + 1, Len(s)) /\ held[h] = {s[k] : k \in 1..n}

TypeOK ==
  \A h \in Handler :
    IF doing[h] = None THEN todo[h] = <<>> /\ held[h] = {}
    ELSE \E s \in ScriptsOf(doing[h]) : \E n \in 0..Len(s) : HasTaken(h, s, n)

(* row-lock.ts: "always in the same order across the codebase (item, then  *)
(* reservation)".  Where the code keeps to an order nobody waits in a      *)
(* circle: in every circle somebody locks many rows of one table in an     *)
(* order of the moment, or two lock the same tables in opposite orders, or *)
(* two are copies, whose foreign keys share items before and after the     *)
(* ones they lock in order.                                                *)
InAnyOrder == {"close", "toSub", "toMain", "create"}
Opposed(x, y) ==
  \/ x = "approve" /\ y \in {"receive", "reclaim", "release", "handBack"}
  \/ x = "receive" /\ y \in {"reclaim", "release", "handBack"}
CirclesHaveACause ==
  \A S \in SUBSET Handler : Circle(S) =>
    \/ \E h \in S : doing[h] \in InAnyOrder
    \/ \E g, h \in S : Opposed(doing[g], doing[h])
    \/ \E g, h \in S : g # h /\ doing[g] = "copy" /\ doing[h] = "copy"

(* The locks are of the scripts, and circles of the causes named.          *)
LocksAreSound == TypeOK /\ CirclesHaveACause

(* Every transaction ends.                                                 *)
EveryoneEnds == \A h \in Handler : doing[h] # None ~> doing[h] = None
=============================================================================
