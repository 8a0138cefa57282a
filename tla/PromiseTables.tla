--------------------------- MODULE PromiseTables ---------------------------
(***************************************************************************)
(* ResourceReservation as far as promises go, and how the services measure *)
(* what is left to promise: AvailabilityService before a transaction,      *)
(* stillReservable inside it.                                              *)
(*                                                                         *)
(* A request is one transaction over its lines; what it writes is visible  *)
(* to others at the commit.  `locks' are items under FOR UPDATE.           *)
(***************************************************************************)
EXTENDS Integers, Sequences, SequencesExt, FiniteSets

CONSTANTS
  Item,       \* items, numbered by their ids
  AssetItem,  \* those of assets; the others are consumables
  HourlyItem, \* those measured in hours, reserved per working day
  Pool,       \* the main warehouse and the projects'
  MaxDay,     \* bound: days 1..MaxDay
  Open,       \* the end of an open-ended reservation
  Instance,   \* the cases: what is on hand, what is asked, what is done with it
  MaxAsks,    \* bound: requests sent
  Handler,
  None

Day == 1..MaxDay

ASSUME ItemsNumbered == Item \subseteq Nat /\ AssetItem \subseteq Item /\ HourlyItem \subseteq Item
ASSUME PromiseBounds == MaxDay \in Nat /\ MaxAsks \in Nat /\ Open \notin Day

VARIABLES
  rows,   \* ResourceReservation, as committed; `live' is what is out on it
  shelf,  \* what each pool holds of each item (units, for an asset)
  over,   \* what keepers gave to rows nothing was promised to
  job,    \* the request each handler serves, and how far it got
  locks,  \* the items each handler's transaction has locked
  asked,  \* requests sent so far
  duty    \* the case

vars == <<rows, shelf, over, job, locks, asked, duty>>

Init ==
  /\ duty \in Instance /\ shelf = duty.onHand
  /\ over = [i \in Item |-> [p \in Pool |-> 0]]
  /\ rows = <<>>
  /\ job = [h \in Handler |-> None]
  /\ locks = [h \in Handler |-> {}]
  /\ asked = 0

INACTIVE_STATUSES == {"CANCELLED", "COMPLETED", "REJECTED"}
Active(x) == x.status \notin INACTIVE_STATUSES

-----------------------------------------------------------------------------
(* Measuring what is claimed.                                              *)

(* An open-ended request competes with every claim there is.               *)
Overlaps(x, from, to) ==
  \/ to = Open
  \/ x.from <= to /\ (x.to = Open \/ x.to >= from)

(* The check made before the transaction: for an open-ended request only   *)
(* claims that have started by then count.                                 *)
OverlapsWindow(x, from, to) ==
  IF to = Open THEN x.from <= from ELSE Overlaps(x, from, to)

SumOf(xs, Amount(_)) == FoldSeq(LAMBDA x, n : Amount(x) + n, 0, xs)
AtLeastZero(n) == IF n > 0 THEN n ELSE 0

(* checkWindow: in the request's own pool, the edited task's rows aside;   *)
(* what is out of a consumable has left the shelf already.                 *)
Available(i, pool, from, to, task) ==
  LET others == SelectSeq(rows, LAMBDA x : /\ x.item = i /\ x.pool = pool /\ Active(x)
                                           /\ OverlapsWindow(x, from, to)
                                           /\ task = None \/ x.task # task)
      claimed == SumOf(others, LAMBDA x : x.qty - IF i \in AssetItem THEN 0 ELSE x.live)
  IN  AtLeastZero(shelf[i][pool] - AtLeastZero(claimed))

Units(i) == FoldFunction(+, 0, shelf[i])

(* stillReservable: a consumable in its own pool, by what is promised and  *)
(* not handed out; an asset in all pools.                                  *)
StillFree(xs, i, pool, from, to, qty) ==
  LET Claims(statuses, here) == SumOf(
        SelectSeq(xs, LAMBDA x : /\ x.item = i /\ x.status \in statuses
                                 /\ here => x.pool = pool
                                 /\ Overlaps(x, from, to)),
        LAMBDA x : x.qty)
      promised == {"PENDING", "APPROVED"}
  IN  IF i \in AssetItem
        THEN qty <= Units(i) - Claims(promised \union {"PARTIALLY_ALLOCATED", "ALLOCATED"}, FALSE)
        ELSE qty <= shelf[i][pool] - Claims(promised, TRUE)

OpenEnded(xs, i) == \E n \in DOMAIN xs : xs[n].item = i /\ xs[n].to = Open /\ Active(xs[n])

(* A row per working day for an item in hours; day 0 stands for the whole  *)
(* window.                                                                 *)
Slots(a, i) == i \in HourlyItem /\ a.to # Open /\ a.by \in {"create", "edit"}
Windows(a, i) == IF Slots(a, i) THEN a.from..a.to ELSE {0}

(* checkAvailability.                                                      *)
Lacking(a, task) ==
  {w \in Item \X (0..MaxDay) : \E l \in ToSet(a.lines) :
     /\ w[1] = l.item /\ w[2] \in Windows(a, l.item)
     /\ l.qty > IF w[2] = 0 THEN Available(l.item, a.pool, a.from, a.to, task)
                            ELSE Available(l.item, a.pool, w[2], w[2], task)}

(* resolveTaskWarehouse: a task stays with the pool of its rows.           *)
OfTask(task) == {n \in DOMAIN rows : task # None /\ rows[n].task = task}
PoolOf(a) ==
  LET bound == {n \in OfTask(a.task) : Active(rows[n])}
  IN  IF bound = {} THEN a.pool ELSE rows[CHOOSE n \in bound : \A m \in bound : m <= n].pool

-----------------------------------------------------------------------------
Idle(h) == job[h] = None
Alone == \A h \in Handler : Idle(h)
NoEdit == \A h \in Handler : ~Idle(h) => job[h].ask.by # "edit"
May(h, op) == Idle(h) /\ op \in duty.ops

Asking(h, a) == [ask |-> a, at |-> 1, counted |-> FALSE, made |-> <<>>, edited |-> <<>>,
                 short |-> {}, shown |-> <<>>]
Working(h) == ~Idle(h) /\ job[h].at <= Len(job[h].ask.lines)
NextLine(h) == job[h].ask.lines[job[h].at]
Visible(h) == rows \o job[h].made

NewRow(a, l, from, to, status) ==
  [item |-> l.item, pool |-> a.pool, task |-> a.task, qty |-> l.qty, from |-> from, to |-> to,
   status |-> status, live |-> 0, accepted |-> 0]

PendingIf(short) == IF short THEN "PENDING" ELSE "APPROVED"

End(h) ==
  /\ job' = [job EXCEPT ![h] = None]
  /\ locks' = [locks EXCEPT ![h] = {}]
  /\ UNCHANGED <<asked, duty>>

Commit(h) ==
  /\ ~Idle(h) /\ ~Working(h)
  /\ rows' = (job[h].edited @@ rows) \o job[h].made
  /\ End(h)
  /\ UNCHANGED <<shelf, over>>

(* Refused or failed: nothing of it was ever there.                        *)
Refuse(h) == ~Idle(h) /\ End(h) /\ UNCHANGED <<rows, shelf, over>>
=============================================================================
