-------------------------- MODULE AssetAllocation ---------------------------
(***************************************************************************)
(* Units booked for reservations: ReservationsService (allocate, reallo-   *)
(* cate, releaseAllocation, cancel, reject, accept), and the ways back of  *)
(* ResourceReturnsService and AllocationsService.  A task's row takes a    *)
(* unit on the name of whoever holds it; an object's own row has it        *)
(* handed to the object.                                                   *)
(***************************************************************************)
EXTENDS AssetTables

-----------------------------------------------------------------------------
(* Windows.  A window without an end meets, as the filters have it, only   *)
(* another without one; a job without one stands in nobody's way.          *)

(* Faulty: a booking that begins on the other's last day is let through.   *)
MeetsLoosely(was, w) ==
  IF w.until # Never
    THEN \/ was.until = Never /\ was.from < w.until
         \/ was.until # Never /\ was.from < w.until /\ was.until > w.from
    ELSE was.until = Never

Meets(was, w) ==
  IF w.until # Never
    THEN \/ was.until = Never /\ was.from <= w.until
         \/ was.until # Never /\ was.from <= w.until /\ was.until >= w.from
    ELSE was.until = Never

InMaintenance(u, w) ==
  /\ work.unit = u
  /\ IF w.until # Never
       THEN work.from <= w.until /\ work.to # Never /\ work.to >= w.from
       ELSE work.from >= w.from

HasResponsiblePerson(u) ==
  \E c \in OpenRows(u) : custody[c].holder \in Person

(* What allocate and reallocate ask of a unit.                             *)
Bookable(u, r) ==
  /\ asset[u].status = "AVAILABLE"
  /\ row[r].object = None => HasResponsiblePerson(u)
  /\ \A i \in OutOf(u) : ~Meets(row[alloc[i].row], row[r])
  /\ ~InMaintenance(u, row[r])

-----------------------------------------------------------------------------
(* handOverToObjectInTx and closeObjectCustody.                            *)

ObjectRowsOf(i) == {c \in OpenRows(alloc[i].unit) :
  custody[c].row = alloc[i].row /\ custody[c].holder \in Object}
Freed(S) == UNION {ObjectRowsOf(i) : i \in S}

Booking(u, r) == [row |-> r, unit |-> u, live |-> TRUE]
Released(S) == [i \in DOMAIN alloc |-> IF i \in S THEN [alloc[i] EXCEPT !.live = FALSE]
                                                  ELSE alloc[i]]

ObjectTakes(u, r, closed) ==
  IF row[r].object = None THEN custody' = Closed(closed) /\ UNCHANGED asset
  ELSE /\ PassOn(closed \union OpenRows(u),
                 [Held(u, row[r].object, row[r].object) EXCEPT !.row = r])
       /\ asset' = [asset EXCEPT ![u].holder = None]

-----------------------------------------------------------------------------
(* allocate: one transaction, in which everything is read first.           *)

AllocateCheck(h, r, u) ==
  /\ May(h, "allocate") /\ row[r].status \in ALLOCATABLE_STATUSES
  /\ Bookable(u, r)
  /\ Cardinality(Out(r)) < row[r].quantity
  /\ Begin(h, [op |-> "allocate", row |-> r, unit |-> u])
  /\ UNCHANGED <<register, money>>

Allocate(h) ==
  /\ Doing(h, "allocate") /\ Len(alloc) < MaxAlloc
  /\ LET r == job[h].row IN
       /\ alloc' = Append(alloc, Booking(job[h].unit, r))
       /\ ObjectTakes(job[h].unit, r, {})
       /\ row' = [row EXCEPT ![r].status =
                    IF Cardinality(Out(r)) + 1 >= row[r].quantity THEN "ALLOCATED"
                                                                  ELSE "PARTIALLY_ALLOCATED"]
  /\ Finished(h)
  /\ UNCHANGED <<back, request, money>>

(* reallocate asks the same of the new unit, outside the transaction, and  *)
(* nothing of the row or of the allocation it replaces.                    *)
ReallocateCheck(h, i, u) ==
  /\ May(h, "reallocate") /\ Bookable(u, alloc[i].row)
  /\ Begin(h, [op |-> "reallocate", id |-> i, unit |-> u])
  /\ UNCHANGED <<register, money>>

Reallocate(h) ==
  /\ Doing(h, "reallocate") /\ Len(alloc) < MaxAlloc
  /\ LET i == job[h].id IN
       /\ alloc' = Append(Released({i}), Booking(job[h].unit, alloc[i].row))
       /\ ObjectTakes(job[h].unit, alloc[i].row, Freed({i}))
  /\ Finished(h)
  /\ UNCHANGED <<row, back, request, money>>

-----------------------------------------------------------------------------
(* cancel and reject release whatever the row has by then; releaseAllo-    *)
(* cation and AllocationsService.remove one allocation, whatever became    *)
(* of it.  Only the service of reservations knows of the object's custody. *)

CloseRowRead(h, r) == \E status \in {"CANCELLED", "REJECTED"} :
  /\ May(h, "closeRow") /\ row[r].status \notin INACTIVE_STATUSES
  /\ Begin(h, [op |-> "closeRow", row |-> r, status |-> status])
  /\ UNCHANGED <<register, money>>

CloseRow(h) ==
  /\ Doing(h, "closeRow")
  /\ LET out == Out(job[h].row) IN
       /\ alloc' = Released(out)
       /\ custody' = Closed(Freed(out))
       /\ row' = [row EXCEPT ![job[h].row].status = job[h].status]
  /\ Finished(h)
  /\ UNCHANGED <<asset, back, request, money>>

ReleaseAllocRead(h, i) == \E op \in {"releaseAllocation", "remove"} :
  /\ May(h, op)
  /\ Begin(h, [op |-> op, id |-> i])
  /\ UNCHANGED <<register, money>>

ReleaseAlloc(h) == \E op \in {"releaseAllocation", "remove"} :
  /\ Doing(h, op)
  /\ LET i == job[h].id
         r == alloc[i].row
     IN  /\ alloc' = Released({i})
         /\ custody' = IF op = "remove" THEN custody ELSE Closed(Freed({i}))
         /\ row' = [row EXCEPT ![r].status =
                      IF Out(r) \ {i} = {} THEN "APPROVED" ELSE "PARTIALLY_ALLOCATED"]
  /\ Finished(h)
  /\ UNCHANGED <<asset, back, request, money>>

(* AllocationsService.returnAllocations: a live allocation, the request      *)
(* shrinks by it.                                                          *)
HandBack(h, i) ==
  /\ May(h, "handBack") /\ i \in Live
  /\ alloc' = Released({i})
  /\ row' = [row EXCEPT ![alloc[i].row].quantity = @ - 1]
  /\ UNCHANGED <<asset, custody, back, request, money, job, duty>>

-----------------------------------------------------------------------------
(* accept counts units; once all are accepted the row is COMPLETED, the    *)
(* units still out.                                                        *)
AcceptUnits(h, r) == \E n \in 1..row[r].quantity :
  /\ May(h, "acceptUnits") /\ row[r].status \notin INACTIVE_STATUSES
  /\ row[r].accepted + n <= Cardinality(Out(r))
  /\ row' = [row EXCEPT ![r].accepted = @ + n,
                        ![r].status = IF row[r].accepted + n >= row[r].quantity
                                        THEN "COMPLETED" ELSE @]
  /\ UNCHANGED <<asset, custody, alloc, back, request, money, job, duty>>

(* A return names a number; which units came back nobody says.             *)
FileReturn(h, r) == \E n \in 1..2 :
  /\ May(h, "return") /\ back[r] = 0
  /\ n <= Cardinality(Out(r))
  /\ back' = [back EXCEPT ![r] = n]
  /\ UNCHANGED <<asset, custody, row, alloc, request, money, job, duty>>

Newest(S, n) == {i \in S : Cardinality({k \in S : k >= i}) <= n}

(* receive, under the reservation's lock: the newest allocations go.       *)
ReceiveReturn(h, r) ==
  /\ May(h, "return") /\ back[r] # 0 /\ back[r] <= Cardinality(Out(r))
  /\ alloc' = Released(Newest(Out(r), back[r]))
  /\ row' = [row EXCEPT ![r].status = IF Cardinality(Out(r)) = back[r]
                                        THEN "COMPLETED" ELSE "PARTIALLY_ALLOCATED"]
  /\ back' = [back EXCEPT ![r] = 0]
  /\ UNCHANGED <<asset, custody, request, money, job, duty>>

CancelReturn(h, r) ==
  /\ May(h, "return") /\ back[r] # 0
  /\ back' = [back EXCEPT ![r] = 0]
  /\ UNCHANGED <<asset, custody, row, alloc, request, money, job, duty>>

-----------------------------------------------------------------------------
(* updateTaskReservations: a row of a task is given another window and     *)
(* number; the units it has stay booked for it, but for the newest beyond  *)
(* the number.  Whether that much is to be had is asked of the item before *)
(* the transaction, other tasks' and objects' rows counted: not of the     *)
(* units.  (A row whose item is dropped is closed as by cancel; for an     *)
(* item in hours, whose rows are days, "from" and "until" are hours, and   *)
(* a row is not closed by the save.)                                       *)
Usable == {u \in Unit : asset[u].status \notin {"DAMAGED", "RETIRED"}}
Claimed(r, w) ==
  MapThenSumSet(LAMBDA q : row[q].quantity,
                {q \in Row \ {r} : row[q].status \notin INACTIVE_STATUSES /\ Meets(row[q], w)})
Lacks(r, w) == w.quantity > Cardinality({u \in Usable : ~InMaintenance(u, w)}) - Claimed(r, w)

SaveTaskRead(h, r) == \E w \in Edit :
  /\ May(h, "saveTask") /\ row[r].object = None /\ w.until # Never /\ w.quantity >= 1
  /\ Begin(h, [op |-> "saveTask", row |-> r, to |-> w, short |-> Lacks(r, w)])
  /\ UNCHANGED <<register, money>>

Saved(r, w, kept, short, slot) ==
  [row[r] EXCEPT
    !.from = w.from, !.until = w.until, !.quantity = w.quantity,
    !.moved = IF w.from = row[r].from /\ w.until = row[r].until THEN @ ELSE Len(alloc),
    !.status = IF short THEN "PENDING"
               ELSE IF kept = 0 THEN "APPROVED"
               ELSE IF kept < w.quantity THEN "PARTIALLY_ALLOCATED"
               ELSE IF ~slot /\ row[r].accepted >= w.quantity THEN "COMPLETED"
               ELSE "ALLOCATED"]

SaveTask(h) == \E slot \in BOOLEAN :
  /\ Doing(h, "saveTask") /\ row[job[h].row].status \notin {"CANCELLED", "COMPLETED"}
  /\ LET r == job[h].row
         w == job[h].to
         excess == Newest(Out(r), Cardinality(Out(r)) - w.quantity)
     IN  /\ alloc' = Released(excess)
         /\ row' = [row EXCEPT ![r] = Saved(r, w, Cardinality(Out(r) \ excess), job[h].short, slot)]
  /\ Finished(h)
  /\ UNCHANGED <<asset, custody, back, request, money>>

AllocationStep(h) ==
  \/ \E r \in Row : \/ \E u \in Unit : AllocateCheck(h, r, u)
                    \/ CloseRowRead(h, r) \/ AcceptUnits(h, r) \/ SaveTaskRead(h, r)
                    \/ FileReturn(h, r) \/ ReceiveReturn(h, r) \/ CancelReturn(h, r)
  \/ \E i \in DOMAIN alloc : \/ \E u \in Unit : ReallocateCheck(h, i, u)
                             \/ ReleaseAllocRead(h, i) \/ HandBack(h, i)
  \/ Allocate(h) \/ Reallocate(h) \/ CloseRow(h) \/ ReleaseAlloc(h) \/ SaveTask(h)
=============================================================================
