---------------------------- MODULE TaskEditing -----------------------------
(***************************************************************************)
(* ReservationsService.updateTaskReservations: a task's rows are brought   *)
(* to a list of resources, rows the warehouse has already served included. *)
(* It locks nothing and measures before its transaction, so edits are      *)
(* taken one at a time (two at once: see the README).  What else becomes   *)
(* of a row is here as far as an edit can tell: issuing, accepting,        *)
(* cancelling and rejecting.                                               *)
(***************************************************************************)
EXTENDS PromiseTables

(* What the edit regards as the task's rows: a rejected one is among them. *)
Existing(task) == {n \in OfTask(task) : rows[n].status \notin {"CANCELLED", "COMPLETED"}}
ExistingOf(task, i) == {n \in Existing(task) : rows[n].item = i}

SumLive(S) == FoldSet(LAMBDA n, t : rows[n].live + t, 0, S)

(* Faulty: what the task already has is not counted in its favour.         *)
CreditNone(task, i) == 0

(* What the task already has of a consumable.                              *)
Credit(task, i) == SumLive({n \in OfTask(task) : rows[n].item = i /\ Active(rows[n])})

StillShort(a) ==
  {w \in Lacking(a, a.task) :
     w[2] # 0 \/ w[1] \in AssetItem \/
     \E l \in ToSet(a.lines) :
        l.item = w[1] /\ Available(w[1], a.pool, a.from, a.to, a.task) + Credit(a.task, w[1]) < l.qty}

(* previewUpdate: what the person is shown before he confirms.             *)
Shown(a) ==
  [i \in {l.item : l \in ToSet(a.lines)} |->
     LET l == CHOOSE x \in ToSet(a.lines) : x.item = i
         out == SumLive(ExistingOf(a.task, i))
     IN  IF i \notin AssetItem /\ l.qty < out THEN out ELSE l.qty]

CloseRow(x, status) == [x EXCEPT !.status = status, !.live = 0]

(* The measurement, then the transaction's first writes: items that are no *)
(* longer asked for.                                                       *)
ReceiveEdit(h, a) ==
  /\ Alone /\ asked < MaxAsks
  /\ a \in duty.asks /\ a.by = "edit"
  /\ LET b == [a EXCEPT !.pool = PoolOf(a)]
         dropped == {n \in Existing(a.task) : rows[n].item \notin {l.item : l \in ToSet(a.lines)}}
     IN  job' = [job EXCEPT ![h] = [Asking(h, b) EXCEPT
           !.short = StillShort(b), !.shown = Shown(b),
           !.edited = [n \in dropped |-> CloseRow(rows[n], "CANCELLED")]]]
  /\ asked' = asked + 1
  /\ UNCHANGED <<rows, shelf, over, locks, duty>>

(* Faulty: a request may be cut below what was delivered.                  *)
TargetAsked(x, qty) == qty

(* "A consumable cannot be reduced below what was handed out".             *)
Target(x, qty) == IF x.item \in AssetItem \/ qty > x.live THEN qty ELSE x.live

(* Units beyond the target are released.  Only a row that is not one of    *)
(* several days' is closed once everything is accepted.                    *)
Edited(x, qty, from, to, short, slot) ==
  LET target == Target(x, qty)
      out == IF x.live > target THEN target ELSE x.live
  IN  [x EXCEPT !.qty = target, !.from = from, !.to = to, !.live = out,
         !.status = IF short THEN "PENDING"
                    ELSE IF out = 0 THEN "APPROVED"
                    ELSE IF out < target THEN "PARTIALLY_ALLOCATED"
                    ELSE IF ~slot /\ x.accepted >= target THEN "COMPLETED"
                    ELSE "ALLOCATED"]

Short(h, i, day) == <<i, day>> \in job[h].short
Editing(h) == Working(h) /\ job[h].ask.by = "edit"
OnDay(task, i, d) ==
  {n \in ExistingOf(task, i) : /\ rows[n].from = d
                              /\ \A m \in ExistingOf(task, i) : rows[m].from = d => m <= n}

(* An item in hours, day by day: those outside the range are cancelled,    *)
(* those within are edited, those without a row get one.                   *)
EditDays(h) ==
  /\ Editing(h) /\ Slots(job[h].ask, NextLine(h).item)
  /\ LET a == job[h].ask
         l == NextLine(h)
         now == job[h].edited @@ rows
         Late(d) == Short(h, l.item, d)
         fresh == SetToSortSeq({d \in a.from..a.to : OnDay(a.task, l.item, d) = {}}, <)
     IN  job' = [job EXCEPT ![h].at = @ + 1,
           ![h].edited = [n \in UNION {OnDay(a.task, l.item, d) : d \in Day} |->
             LET d == rows[n].from
             IN  IF d \in a.from..a.to THEN Edited(now[n], l.qty, d, d, Late(d), TRUE)
                 ELSE CloseRow(rows[n], "CANCELLED")] @@ @,
           ![h].made = @ \o [k \in DOMAIN fresh |->
             NewRow(a, l, fresh[k], fresh[k], PendingIf(Late(fresh[k])))]]
  /\ UNCHANGED <<rows, shelf, over, locks, asked, duty>>

(* Any other item: the first row found, or a new one.                      *)
EditRow(h) ==
  /\ Editing(h) /\ ~Slots(job[h].ask, NextLine(h).item)
  /\ LET a == job[h].ask
         l == NextLine(h)
         now == job[h].edited @@ rows
     IN  \E n \in ExistingOf(a.task, l.item) :
           job' = [job EXCEPT ![h].at = @ + 1,
             ![h].edited = (n :> Edited(now[n], l.qty, a.from, a.to, Short(h, l.item, 0), FALSE)) @@ @]
  /\ UNCHANGED <<rows, shelf, over, locks, asked, duty>>

AddRow(h) ==
  /\ Editing(h) /\ ~Slots(job[h].ask, NextLine(h).item)
  /\ LET a == job[h].ask
         l == NextLine(h)
     IN  /\ ExistingOf(a.task, l.item) = {}
         /\ job' = [job EXCEPT ![h].at = @ + 1,
              ![h].made = Append(@, NewRow(a, l, a.from, a.to, PendingIf(Short(h, l.item, 0))))]
  /\ UNCHANGED <<rows, shelf, over, locks, asked, duty>>

EditLine(h) == EditDays(h) \/ EditRow(h) \/ AddRow(h)

-----------------------------------------------------------------------------
(* approveConsumable and allocate: from the shelf, or a unit that is free. *)
Issue(h, n) == \E m \in 1..rows[n].qty :
  LET x == rows[n]
      promised == x.status = "APPROVED" \/ (x.item \in AssetItem /\ x.status # "PENDING")
      out == SumLive({k \in DOMAIN rows : /\ rows[k].item = x.item /\ rows[k].pool = x.pool
                                          /\ Overlaps(rows[k], x.from, x.to)})
  IN  /\ May(h, "issue") /\ Alone
      /\ x.status \in {"PENDING", "APPROVED", "PARTIALLY_ALLOCATED"}
      /\ m <= x.qty - x.live
      /\ m <= shelf[x.item][x.pool] - IF x.item \in AssetItem THEN out ELSE 0
      /\ rows' = [rows EXCEPT ![n].live = @ + m,
                    ![n].status = IF x.live + m >= x.qty THEN "ALLOCATED" ELSE "PARTIALLY_ALLOCATED"]
      /\ shelf' = IF x.item \in AssetItem THEN shelf
                  ELSE [shelf EXCEPT ![x.item][x.pool] = @ - m]
      /\ over' = IF promised THEN over
                 ELSE [over EXCEPT ![x.item][x.pool] = @ + IF x.item \in AssetItem THEN x.qty ELSE m]
      /\ UNCHANGED <<job, locks, asked, duty>>

Accept(h, n) == \E m \in 1..rows[n].qty :
  /\ May(h, "accept") /\ Alone
  /\ Active(rows[n]) /\ rows[n].accepted + m <= rows[n].live
  /\ rows' = [rows EXCEPT ![n].accepted = @ + m,
                ![n].status = IF rows[n].accepted + m >= rows[n].qty THEN "COMPLETED" ELSE @]
  /\ UNCHANGED <<shelf, over, job, locks, asked, duty>>

(* cancel and reject, as far as promises are concerned.                    *)
Withdraw(h, n) == \E status \in {"CANCELLED", "REJECTED"} :
  /\ May(h, status) /\ NoEdit /\ Active(rows[n])
  /\ rows' = [rows EXCEPT ![n] = CloseRow(@, status)]
  /\ UNCHANGED <<shelf, over, job, locks, asked, duty>>

TaskStep(h) ==
  \/ \E a \in duty.asks : ReceiveEdit(h, a)
  \/ \E n \in DOMAIN rows : Issue(h, n) \/ Accept(h, n) \/ Withdraw(h, n)
=============================================================================
