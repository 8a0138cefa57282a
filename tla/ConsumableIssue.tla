-------------------------- MODULE ConsumableIssue --------------------------
(***************************************************************************)
(* ReservationsService on consumables: handing stock out, the requester's  *)
(* acceptance, and the ways goods or the whole request are taken back.     *)
(* Only approval takes row locks; the others read and write unlocked.      *)
(***************************************************************************)
EXTENDS ConsumableTables

Approvable == {"PENDING", "APPROVED", "PARTIALLY_ALLOCATED"}

-----------------------------------------------------------------------------
(* approveConsumable: q is the quantity named, or everything outstanding.  *)
ApproveCheck(h, r, q) ==
  /\ Idle(h) /\ "approve" \in Ops
  /\ res[r].status \in Approvable
  /\ OutstandingToIssue(r) \in q..res[r].quantity
  /\ q <= shelf[PoolOf[r]]
  /\ Accepted(h, "approve", r, None, q, OutstandingToIssue(r))
  /\ UNCHANGED <<shelf, moved, res, alloc, ret, locks>>

(* lockItem, lockReservation, the guarded decrement of the reservation's   *)
(* own shelf (which also locks that row), and the measure taken again.     *)
ApproveLocks(r) == {MainPool, r, PoolOf[r]}

(* Faulty: the decrement is not guarded by what is on the shelf now.       *)
ApproveUnguarded(h) ==
  /\ Doing(h, "approve", "checked")
  /\ LET r == job[h].r
     IN  /\ Free(h, ApproveLocks(r))
         /\ Issued(r) + job[h].q <= res[r].quantity
         /\ Opened(h, NoRows, ApproveLocks(r))
  /\ UNCHANGED <<shelf, moved, res, alloc, ret>>

(* Faulty: the need measured before the locks is trusted.                  *)
ApproveUnmeasured(h) ==
  /\ Doing(h, "approve", "checked")
  /\ LET r == job[h].r
     IN  /\ Free(h, ApproveLocks(r))
         /\ job[h].q <= shelf[PoolOf[r]]
         /\ Opened(h, NoRows, ApproveLocks(r))
  /\ UNCHANGED <<shelf, moved, res, alloc, ret>>

ApproveMeasure(h) ==
  /\ Doing(h, "approve", "checked")
  /\ LET r == job[h].r
         q == job[h].q
     IN  /\ Free(h, ApproveLocks(r))
         /\ q <= shelf[PoolOf[r]]
         /\ Issued(r) + q <= res[r].quantity
         /\ Opened(h, NoRows, ApproveLocks(r))
  /\ UNCHANGED <<shelf, moved, res, alloc, ret>>

ApproveCommit(h) ==
  /\ Doing(h, "approve", "open") /\ Unused # {}
  /\ LET r == job[h].r
         q == job[h].q
     IN  /\ Move(PoolOf[r], -q)
         /\ alloc' = [alloc EXCEPT ![NextRow] = [of |-> r, qty |-> q, state |-> "live"]]
         /\ res' = [res EXCEPT ![r].status =
                      IF q < job[h].n THEN "PARTIALLY_ALLOCATED" ELSE "ALLOCATED"]
  /\ Finished(h)
  /\ UNCHANGED ret

-----------------------------------------------------------------------------
(* accept: the status is looked at once.  Then, without a lock, three      *)
(* attempts at most (job.n counts them) to read, validate and write, the   *)
(* write landing only if acceptedQuantity is still what was read.          *)
MaxAttempts == 3

AcceptCheck(h, r, q) ==
  /\ Idle(h) /\ "accept" \in Ops
  /\ res[r].status \notin INACTIVE_STATUSES
  /\ Accepted(h, "accept", r, None, q, 0)
  /\ UNCHANGED <<shelf, moved, res, alloc, ret, locks>>

Stale(h) == res[job[h].r].accepted # job[h].pre.accepted

AcceptMeasure(h) ==
  /\ Doing(h, "accept", "checked")
  /\ job[h].n = 0 \/ (job[h].n < MaxAttempts /\ Stale(h))
  /\ job[h].q <= Out(job[h].r) - res[job[h].r].accepted
  /\ job' = [job EXCEPT ![h].n = @ + 1, ![h].pre = res[job[h].r]]
  /\ UNCHANGED <<shelf, moved, res, alloc, ret, locks>>

AcceptLand(h) ==
  /\ Doing(h, "accept", "checked") /\ job[h].n > 0
  /\ ~Stale(h)
  /\ LET r == job[h].r
         total == job[h].pre.accepted + job[h].q
     IN  /\ Free(h, {r})
         /\ res' = [res EXCEPT ![r].accepted = total,
                      ![r].status = IF total >= job[h].pre.quantity THEN "COMPLETED" ELSE @]
  /\ Finished(h)
  /\ UNCHANGED <<shelf, moved, alloc, ret>>

-----------------------------------------------------------------------------
(* reclaim: what was issued and not accepted comes back, onto the shelf    *)
(* ("reclaim") or, damaged, nowhere ("scrap").                             *)
ReclaimCheck(h, r, q, op) ==
  /\ Idle(h) /\ op \in {"reclaim", "scrap"} \intersect Ops
  /\ res[r].status \notin INACTIVE_STATUSES
  /\ Accepted(h, op, r, None, q, 0)
  /\ UNCHANGED <<shelf, moved, res, alloc, ret, locks>>

ReclaimRead(h, op) ==
  /\ Doing(h, op, "checked") /\ op \in {"reclaim", "scrap"}
  /\ job[h].q <= Out(job[h].r) - job[h].pre.accepted
  /\ Opened(h, ReadRows(job[h].r), {})
  /\ UNCHANGED <<shelf, moved, res, alloc, ret>>

ReclaimCommit(h, op) ==
  /\ Doing(h, op, "open") /\ op \in {"reclaim", "scrap"}
  /\ LET j == job[h]
         left == Newer(j.rows, 0) - j.q
         status == IF left = 0 /\ j.pre.accepted = 0 THEN "APPROVED" ELSE "PARTIALLY_ALLOCATED"
     IN  /\ Free(h, {j.r})
         /\ ReleaseNewest(j.r, j.rows, j.q)
         /\ IF op = "reclaim" THEN Credit(h, PoolOf[j.r], j.q) ELSE KeepStock
         /\ res' = [res EXCEPT ![j.r].status = IF status = j.pre.status THEN @ ELSE status]
  /\ Finished(h)
  /\ UNCHANGED ret

-----------------------------------------------------------------------------
(* cancel and reject: the live rows that were read are released, nothing   *)
(* goes back on the shelf.                                                 *)
Closing == [cancel |-> "CANCELLED", reject |-> "REJECTED"]

CloseCheck(h, r, op) ==
  /\ Idle(h) /\ op \in DOMAIN Closing \intersect Ops
  /\ res[r].status \notin INACTIVE_STATUSES
  /\ Accepted(h, op, r, None, 0, 0)
  /\ UNCHANGED <<shelf, moved, res, alloc, ret, locks>>

CloseRead(h, op) ==
  /\ Doing(h, op, "checked") /\ op \in DOMAIN Closing
  /\ Opened(h, ReadRows(job[h].r), {})
  /\ UNCHANGED <<shelf, moved, res, alloc, ret>>

(* Faulty: the request is closed and its goods stay out.                   *)
CloseKeepingRows(h, op) ==
  /\ Doing(h, op, "open") /\ op \in DOMAIN Closing
  /\ Free(h, {job[h].r})
  /\ res' = [res EXCEPT ![job[h].r].status = Closing[op]]
  /\ Finished(h)
  /\ UNCHANGED <<shelf, moved, alloc, ret>>

CloseCommit(h, op) ==
  /\ Doing(h, op, "open") /\ op \in DOMAIN Closing
  /\ Free(h, {job[h].r})
  /\ alloc' = Release(job[h].rows)
  /\ res' = [res EXCEPT ![job[h].r].status = Closing[op]]
  /\ Finished(h)
  /\ UNCHANGED <<shelf, moved, ret>>

(* uncancel: back to waiting; what was accepted is left as it was.         *)
UncancelCheck(h, r) ==
  /\ Idle(h) /\ "uncancel" \in Ops
  /\ res[r].status = "CANCELLED"
  /\ Accepted(h, "uncancel", r, None, 0, 0)
  /\ UNCHANGED <<shelf, moved, res, alloc, ret, locks>>

UncancelCommit(h) ==
  /\ Doing(h, "uncancel", "checked")
  /\ Free(h, {job[h].r})
  /\ res' = [res EXCEPT ![job[h].r].status = "PENDING"]
  /\ Finished(h)
  /\ UNCHANGED <<shelf, moved, alloc, ret>>

-----------------------------------------------------------------------------
(* releaseAllocation: one row by id, whatever its releasedAt says, unless  *)
(* acceptance has begun.  job.n is the shelf as read before: the main      *)
(* pool's new quantity is computed from it, a project's is read back.      *)
ReleaseCheck(h, r, i) ==
  /\ Idle(h) /\ "release" \in Ops
  /\ alloc[i].of = r
  /\ res[r].accepted = 0
  /\ Accepted(h, "release", r, i, alloc[i].qty, shelf[PoolOf[r]])
  /\ UNCHANGED <<shelf, moved, res, alloc, ret, locks>>

ReleaseCommit(h) ==
  /\ Doing(h, "release", "checked")
  /\ LET j == job[h]
         p == PoolOf[j.r]
         onShelf == (IF p = MainPool THEN j.n ELSE shelf[p]) + j.q
     IN  /\ Free(h, {j.r})
         /\ Credit(h, p, j.q)
         /\ alloc' = [alloc EXCEPT ![j.id].state = "released"]
         /\ res' = [res EXCEPT ![j.r].status =
                      IF onShelf >= j.pre.quantity THEN "APPROVED" ELSE "PENDING"]
  /\ Finished(h)
  /\ UNCHANGED ret

-----------------------------------------------------------------------------
IssueStep(h) ==
  \/ \E r \in Reservation :
       \/ \E q \in Qty : ApproveCheck(h, r, q) \/ AcceptCheck(h, r, q)
       \/ \E q \in Qty, op \in Ops : ReclaimCheck(h, r, q, op)
       \/ \E op \in Ops : CloseCheck(h, r, op)
       \/ \E i \in AllocId : ReleaseCheck(h, r, i)
       \/ UncancelCheck(h, r)
  \/ ApproveMeasure(h) \/ ApproveCommit(h)
  \/ AcceptMeasure(h) \/ AcceptLand(h)
  \/ \E op \in Ops : ReclaimRead(h, op) \/ ReclaimCommit(h, op) \/ CloseRead(h, op) \/ CloseCommit(h, op)
  \/ UncancelCommit(h) \/ ReleaseCommit(h)
=============================================================================
