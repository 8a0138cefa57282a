------------------------ MODULE ReservationPromises ------------------------
(***************************************************************************)
(* How much of what is on hand may be promised (APPROVED) for which days,  *)
(* by requests that run at the same time: ReservationsService.create, the  *)
(* requests of objects and of the catalog (createForObject,                *)
(* createForCatalog and its task branch), and the project copy's rule for  *)
(* the rows it makes; and, one at a time, the editing of a task's rows.    *)
(*                                                                         *)
(* Here locks only say who has to wait before it measures: those taken for *)
(* a measurement.  A copy also refers to items by foreign keys (the lines  *)
(* of its estimate, of its requisitions and its requests for assets),      *)
(* which lock them in shared mode; this can make others wait longer, and   *)
(* two copies wait for each other until the database refuses one           *)
(* (RowLocking has those locks, and Refuse may end any request here).      *)
(***************************************************************************)
EXTENDS TaskEditing

InOrder(a) ==
  IF a.by = "copy" THEN SortSeq(a.lines, LAMBDA k, l : k.item < l.item) ELSE a.lines

Begin(h, a, short) ==
  /\ Idle(h) /\ NoEdit /\ asked < MaxAsks
  /\ job' = [job EXCEPT ![h] = [Asking(h, a) EXCEPT !.short = short]]
  /\ asked' = asked + 1
  /\ UNCHANGED <<rows, shelf, over, locks, duty>>

(* create measures every line before its transaction; the others do not.   *)
Create(h, a) ==
  /\ a.by = "create"
  /\ LET b == [a EXCEPT !.pool = PoolOf(a)] IN Begin(h, b, Lacking(b, None))

(* A copy orders its lines by item.                                        *)
Copy(h, a) == a.by = "copy" /\ Begin(h, [a EXCEPT !.lines = InOrder(a)], {})

(* createForObject: goods only, bounded.                                   *)
CreateForObject(h, a) ==
  /\ a.by = "object" /\ \A l \in ToSet(a.lines) : l.item \notin AssetItem
  /\ Begin(h, a, {})

CreateForCatalog(h, a) == a.by = "catalog" /\ a.task = None /\ Begin(h, a, {})

(* The task branch: the pool of the task's rows.                           *)
CreateForCatalogTask(h, a) ==
  /\ a.by = "catalog" /\ a.task # None
  /\ Begin(h, [a EXCEPT !.pool = PoolOf(a)], {})

Receive(h, a) ==
  \/ Create(h, a) \/ Copy(h, a)
  \/ CreateForObject(h, a) \/ CreateForCatalog(h, a) \/ CreateForCatalogTask(h, a)

-----------------------------------------------------------------------------
Made(h, more) ==
  job' = [job EXCEPT ![h].made = @ \o more, ![h].at = @ + 1, ![h].counted = FALSE]

(* A line in hours: a row per day, as the check before the transaction     *)
(* said.  It is not measured again.                                        *)
AddSlots(h) ==
  /\ Working(h) /\ job[h].ask.by = "create" /\ Slots(job[h].ask, NextLine(h).item)
  /\ LET a == job[h].ask
         l == NextLine(h)
     IN  Made(h, [n \in 1..(a.to - a.from + 1) |->
           LET d == a.from + n - 1
           IN  NewRow(a, l, d, d, PendingIf(<<l.item, d>> \in job[h].short))])
  /\ UNCHANGED <<rows, shelf, over, locks, asked, duty>>

(* An open-ended line: refused if the item has such a reservation already. *)
CountOpenEnded(h) ==
  /\ Working(h) /\ job[h].ask.by = "create"
  /\ job[h].ask.to = Open /\ ~job[h].counted
  /\ ~OpenEnded(Visible(h), NextLine(h).item)
  /\ job' = [job EXCEPT ![h].counted = TRUE]
  /\ UNCHANGED <<rows, shelf, over, locks, asked, duty>>

(* Lock the item, then measure.  An asset that is short refuses any        *)
(* request but a copy; anything else that is short is made PENDING.        *)
NeedsLock(h) ==
  /\ Working(h) /\ job[h].ask.by # "edit" /\ ~Slots(job[h].ask, NextLine(h).item)
  /\ job[h].ask.by = "create" /\ job[h].ask.to = Open => job[h].counted

Held(h, i) == \E g \in Handler \ {h} : i \in locks[g]

(* Faulty: the item is not locked before it is measured.                   *)
MeasureUnlocked(h) ==
  /\ NeedsLock(h)
  /\ LET a == job[h].ask
         l == NextLine(h)
         free == StillFree(Visible(h), l.item, a.pool, a.from, a.to, l.qty)
     IN  /\ a.by # "copy" /\ l.item \in AssetItem => free
         /\ Made(h, <<NewRow(a, l, a.from, a.to, PendingIf(~free))>>)
  /\ UNCHANGED <<rows, shelf, over, locks, asked, duty>>

Measure(h) ==
  /\ NeedsLock(h) /\ ~Held(h, NextLine(h).item)
  /\ LET a == job[h].ask
         l == NextLine(h)
         free == StillFree(Visible(h), l.item, a.pool, a.from, a.to, l.qty)
         taken == IF a.by = "copy" THEN a.to = Open /\ OpenEnded(Visible(h), l.item)
                                   ELSE <<l.item, 0>> \in job[h].short
     IN  /\ a.by # "copy" /\ l.item \in AssetItem => free
         /\ Made(h, <<NewRow(a, l, a.from, a.to, PendingIf(~free \/ taken))>>)
         /\ locks' = [locks EXCEPT ![h] = @ \union {l.item}]
  /\ UNCHANGED <<rows, shelf, over, asked, duty>>

Advance(h) == AddSlots(h) \/ CountOpenEnded(h) \/ Measure(h) \/ EditLine(h) \/ Commit(h)

Next ==
  \E h \in duty.hands :
    \/ \E a \in duty.asks : Receive(h, a)
    \/ TaskStep(h) \/ Advance(h) \/ Refuse(h)

Spec == Init /\ [][Next]_vars

-----------------------------------------------------------------------------
(* stillReservable: "a reservation is a claim on stock, not just a note":  *)
(* for no day is more of a consumable promised or handed out than its pool *)
(* held, nor more units of an asset than there are, but for what keepers   *)
(* gave of their own accord.                                               *)
Covers(x, d) == x.from <= d /\ (x.to = Open \/ x.to >= d)
Promise(x) ==
  IF x.item \in AssetItem
    THEN IF x.status \in {"APPROVED", "PARTIALLY_ALLOCATED", "ALLOCATED"} THEN x.qty ELSE 0
    ELSE IF x.status = "APPROVED" THEN x.qty ELSE x.live
Promised(d, Test(_)) == SumOf(SelectSeq(rows, LAMBDA x : Covers(x, d) /\ Test(x)), Promise)
PromisesCovered ==
  \A d \in Day, i \in Item :
    IF i \in AssetItem
      THEN Promised(d, LAMBDA x : x.item = i) <= Units(i) + FoldFunction(+, 0, over[i])
      ELSE \A p \in Pool :
             Promised(d, LAMBDA x : x.item = i /\ x.pool = p) <= duty.onHand[i][p] + over[i][p]

(* updateTaskReservations: "re-sending that row means 'keep what I have'   *)
(* [...] so delivered items don't flip back to PENDING on every save", nor *)
(* is anything that was delivered lost from a row that stays, whatever     *)
(* others claim of the item by then.  (An item in hours: see the README.)  *)
DeliveredIsKept ==
  [][\A n \in DOMAIN rows :
       LET x == rows[n]
           y == rows'[n]
       IN  x.item \notin AssetItem \union HourlyItem =>
             /\ y.live >= x.live \/ y.status \in {"CANCELLED", "REJECTED"}
             /\ x.status = "ALLOCATED" /\ y.status \in {"PENDING", "APPROVED"} => y.qty > x.live]_vars

(* previewUpdate shows "what changing a task's resources would do, before  *)
(* it does it": the edit leaves each item at the quantity that was shown,  *)
(* when the task had no more than one row of it.                           *)
EditsAsShown ==
  [][\A h \in Handler :
       ~Idle(h) /\ job[h].ask.by = "edit" /\ Commit(h) =>
         LET a == job[h].ask IN
         \A i \in DOMAIN job[h].shown :
           ~Slots(a, i) /\ Cardinality(ExistingOf(a.task, i)) <= 1 =>
             \A n \in DOMAIN rows' :
               /\ rows'[n].task = a.task /\ rows'[n].item = i
               /\ n \in Existing(a.task) \/ n > Len(rows)
               => rows'[n].qty = job[h].shown[i]]_vars
=============================================================================
