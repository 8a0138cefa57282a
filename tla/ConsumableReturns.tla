------------------------- MODULE ConsumableReturns -------------------------
(***************************************************************************)
(* Goods coming back: ResourceReturnsService (filing, receiving and        *)
(* calling off a return) and AllocationsService (handing an allocation     *)
(* back directly, and removing one).                                       *)
(***************************************************************************)
EXTENDS ConsumableTables

UnusedReturns == {i \in ReturnId : ret[i].status = "unused"}
NextReturn == Min(UnusedReturns)

-----------------------------------------------------------------------------
(* create: measured before, and again under the reservation's row lock.    *)
FileCheck(h, r, q) ==
  /\ Idle(h) /\ "file" \in Ops
  /\ q <= Out(r) - Awaiting(r)
  /\ Accepted(h, "file", r, None, q, 0)
  /\ UNCHANGED <<shelf, moved, res, alloc, ret, locks>>

(* Faulty: what was measured before the lock is trusted.                   *)
FileUnmeasured(h) ==
  /\ Doing(h, "file", "checked")
  /\ Free(h, {job[h].r})
  /\ Opened(h, NoRows, {job[h].r})
  /\ UNCHANGED <<shelf, moved, res, alloc, ret>>

FileMeasure(h) ==
  /\ Doing(h, "file", "checked")
  /\ Free(h, {job[h].r})
  /\ job[h].q <= Returnable(job[h].r)
  /\ Opened(h, NoRows, {job[h].r})
  /\ UNCHANGED <<shelf, moved, res, alloc, ret>>

FileCommit(h) ==
  /\ Doing(h, "file", "open") /\ UnusedReturns # {}
  /\ ret' = [ret EXCEPT ![NextReturn] = [of |-> job[h].r, qty |-> job[h].q, status |-> "PENDING"]]
  /\ Finished(h)
  /\ UNCHANGED <<shelf, moved, res, alloc>>

-----------------------------------------------------------------------------
(* receive: the return's status is looked at before the transaction, the   *)
(* reservation is locked in it, and the request shrinks by what came back  *)
(* (from the quantity and acceptance read before; job.n is what is left    *)
(* out, measured under the lock).                                          *)
Left(h) == Out(job[h].r) - job[h].q

ReceiveCheck(h, r, i) ==
  /\ Idle(h) /\ "receive" \in Ops
  /\ i \in Returns(r, "PENDING")
  /\ Accepted(h, "receive", r, i, ret[i].qty, 0)
  /\ UNCHANGED <<shelf, moved, res, alloc, ret, locks>>

(* Faulty: what is out is measured and read without the lock.              *)
ReceiveUnlocked(h) ==
  /\ Doing(h, "receive", "checked")
  /\ Left(h) \in Nat
  /\ job' = [job EXCEPT ![h].stage = "open", ![h].rows = ReadRows(job[h].r), ![h].n = Left(h)]
  /\ UNCHANGED <<shelf, moved, res, alloc, ret, locks>>

ReceiveMeasure(h) ==
  /\ Doing(h, "receive", "checked")
  /\ Free(h, {job[h].r})
  /\ Left(h) \in Nat
  /\ job' = [job EXCEPT ![h].stage = "open", ![h].rows = ReadRows(job[h].r), ![h].n = Left(h)]
  /\ locks' = [locks EXCEPT ![h] = {job[h].r}]
  /\ UNCHANGED <<shelf, moved, res, alloc, ret>>

(* The reservation as a receipt leaves it: `left' is still out.            *)
Shrunk(pre, q, left) ==
  LET quantity == AtLeastZero(pre.quantity - q)
      accepted == Smaller(Smaller(pre.accepted, quantity), left)
  IN  [quantity |-> quantity, accepted |-> accepted,
       status |-> CASE quantity = 0 \/ accepted >= quantity -> "COMPLETED"
                    [] left >= quantity /\ accepted < quantity -> "ALLOCATED"
                    [] left < quantity /\ (left > 0 \/ accepted > 0) -> "PARTIALLY_ALLOCATED"
                    [] OTHER -> "APPROVED"]

ReceiveCommit(h) ==
  /\ Doing(h, "receive", "open")
  /\ LET j == job[h]
     IN  /\ ReleaseNewest(j.r, j.rows, j.q)
         /\ Credit(h, PoolOf[j.r], j.q)
         /\ res' = [res EXCEPT ![j.r] = Shrunk(j.pre, j.q, j.n)]
         /\ ret' = [ret EXCEPT ![j.id].status = "RECEIVED"]
  /\ Finished(h)

(* cancel: looked at once, then written without condition.                 *)
CallOffCheck(h, r, i) ==
  /\ Idle(h) /\ "callOff" \in Ops
  /\ i \in Returns(r, "PENDING")
  /\ Accepted(h, "callOff", r, i, ret[i].qty, 0)
  /\ UNCHANGED <<shelf, moved, res, alloc, ret, locks>>

CallOffCommit(h) ==
  /\ Doing(h, "callOff", "checked")
  /\ ret' = [ret EXCEPT ![job[h].id].status = "CANCELLED"]
  /\ Finished(h)
  /\ UNCHANGED <<shelf, moved, res, alloc>>

-----------------------------------------------------------------------------

(* returnAllocations, for one entry: the row is read in the transaction,   *)
(* unlocked; job.n is what remains of it.                                  *)
HandBackRead(h, r, i, q) ==
  /\ Idle(h) /\ "handBack" \in Ops
  /\ i \in LiveRows(r) /\ q <= alloc[i].qty
  /\ Accepted(h, "handBack", r, i, q, alloc[i].qty - q)
  /\ UNCHANGED <<shelf, moved, res, alloc, ret, locks>>

HandBackCommit(h) ==
  /\ Doing(h, "handBack", "checked")
  /\ LET j == job[h]
     IN  /\ alloc' = IF j.n = 0 THEN [alloc EXCEPT ![j.id].state = "released"]
                                ELSE [alloc EXCEPT ![j.id].qty = j.n]
         /\ Credit(h, PoolOf[j.r], j.q)
         /\ Free(h, {j.r})
         /\ res' = [res EXCEPT ![j.r].quantity = @ - j.q]
  /\ Finished(h)
  /\ UNCHANGED ret

(* remove: like releaseAllocation, without its question about acceptance.  *)
RemoveCheck(h, r, i) ==
  /\ Idle(h) /\ "remove" \in Ops
  /\ alloc[i].of = r
  /\ Accepted(h, "remove", r, i, alloc[i].qty, 0)
  /\ UNCHANGED <<shelf, moved, res, alloc, ret, locks>>

RemoveCommit(h) ==
  /\ Doing(h, "remove", "checked")
  /\ LET j == job[h]
     IN  /\ Free(h, {j.r})
         /\ Credit(h, PoolOf[j.r], j.q)
         /\ alloc' = [alloc EXCEPT ![j.id].state = "released"]
         /\ res' = [res EXCEPT ![j.r].status = "PENDING"]
  /\ Finished(h)
  /\ UNCHANGED ret

-----------------------------------------------------------------------------
ReturnStep(h) ==
  \/ \E r \in Reservation :
       \/ \E q \in Qty : FileCheck(h, r, q)
       \/ \E i \in ReturnId : ReceiveCheck(h, r, i) \/ CallOffCheck(h, r, i)
       \/ \E i \in AllocId, q \in Qty : HandBackRead(h, r, i, q)
       \/ \E i \in AllocId : RemoveCheck(h, r, i)
  \/ FileMeasure(h) \/ FileCommit(h)
  \/ ReceiveMeasure(h) \/ ReceiveCommit(h) \/ CallOffCommit(h)
  \/ HandBackCommit(h) \/ RemoveCommit(h)
=============================================================================
