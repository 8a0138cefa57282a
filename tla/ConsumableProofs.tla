-------------------------- MODULE ConsumableProofs --------------------------
(***************************************************************************)
(* Proofs about ConsumableLifecycle, for any number of requests served at  *)
(* once and any set of operations: types, and what a shelf may hold.       *)
(***************************************************************************)
EXTENDS ConsumableLifecycle, Totals

(* No two open transactions hold one row.                                  *)
LocksApart == \A g, h \in Handler : g # h => locks[g] \intersect locks[h] = {}

(* An approval that took its locks still finds on the shelf what it takes. *)
ApprovalHolds ==
  \A h \in Handler : Doing(h, "approve", "open") =>
    /\ locks[h] = ApproveLocks(job[h].r)
    /\ job[h].q <= shelf[PoolOf[job[h].r]]

(* What a hand-back leaves of its row is a quantity.                       *)
RemainderInv ==
  \A h \in Handler : job[h] # None /\ job[h].op = "handBack" => job[h].n \in Nat

StockInv == LedgerExplainsShelf /\ ShelfNeverNegative
IInv == TypeOK /\ StockInv /\ LocksApart /\ ApprovalHolds /\ RemainderInv

-----------------------------------------------------------------------------
(* What the steps of a handler do to its job.                              *)
LEMMA AcceptedTyped ==
  ASSUME TypeOK, NEW h \in Handler, NEW op \in Ops, NEW r \in Reservation,
         NEW id \in AllocId \union ReturnId \union {None}, NEW q \in Nat, NEW n \in Int,
         Accepted(h, op, r, id, q, n)
  PROVE  job' \in [Handler -> Job \union {None}]
<1>1. NoRows \in [AllocId -> Nat]
  BY DEF NoRows
<1>2. res[r] \in ResRow
  BY DEF TypeOK
<1> QED BY <1>1, <1>2 DEF TypeOK, Accepted, Job

LEMMA ReadRowsTyped ==
  ASSUME TypeOK, NEW r
  PROVE  ReadRows(r) \in [AllocId -> Nat]
  BY DEF TypeOK, ReadRows, AllocRow

LEMMA OpenedTyped ==
  ASSUME TypeOK, NEW h \in Handler, job[h] # None,
         NEW rows \in [AllocId -> Nat], NEW held \in SUBSET (Pool \union Reservation),
         Opened(h, rows, held)
  PROVE  /\ job' \in [Handler -> Job \union {None}]
         /\ locks' \in [Handler -> SUBSET (Pool \union Reservation)]
  BY DEF TypeOK, Opened, Job

LEMMA FinishedTyped ==
  ASSUME TypeOK, NEW h \in Handler, Finished(h)
  PROVE  /\ job' \in [Handler -> Job \union {None}]
         /\ locks' \in [Handler -> SUBSET (Pool \union Reservation)]
  BY DEF TypeOK, Finished

LEMMA MoveTyped ==
  ASSUME TypeOK, NEW p \in Pool, NEW q \in Int, Move(p, q)
  PROVE  shelf' \in [Pool -> Int] /\ moved' \in [Pool -> Int]
  BY DEF TypeOK, Move

(* Rows taken back newest first stay rows.                                 *)
LEMMA ReleaseNewestTyped ==
  ASSUME TypeOK, NEW r \in Reservation, NEW rows \in [AllocId -> Nat], NEW q \in Nat,
         ReleaseNewest(r, rows, q)
  PROVE  alloc' \in [AllocId -> AllocRow]
<1> DEFINE taken(i) == Taken(rows, q, i)
           cut == Cut(rows, q)
           c == CutRow(rows, q)
<1>1. \A i \in cut : taken(i) \in Nat /\ rows[i] - taken(i) \in Nat
  BY DEF Cut
<1>2. cut # {} => c \in cut
  BY DEF CutRow
<1>3. cut # {} => taken(c) \in Nat
  BY <1>1, <1>2
<1>4. SUFFICES ASSUME NEW i \in AllocId
               PROVE  alloc'[i] \in AllocRow
  BY DEF ReleaseNewest
<1>5. alloc[i] \in AllocRow
  BY DEF TypeOK
<1>6. [alloc[i] EXCEPT !.state = "released"] \in AllocRow
  BY <1>5 DEF AllocRow
<1>7. i \in cut => [alloc[i] EXCEPT !.qty = rows[i] - taken(i)] \in AllocRow
  BY <1>5, <1>1 DEF AllocRow
<1>8. cut # {} => [of |-> r, qty |-> taken(c), state |-> "released"] \in AllocRow
  BY <1>3 DEF AllocRow
<1> HIDE DEF taken, cut, c
<1>9. alloc'[i] = CASE rows[i] > 0 /\ taken(i) = rows[i] -> [alloc[i] EXCEPT !.state = "released"]
                    [] i \in cut -> [alloc[i] EXCEPT !.qty = rows[i] - taken(i)]
                    [] cut # {} /\ i = NextRow -> [of |-> r, qty |-> taken(c), state |-> "released"]
                    [] OTHER -> alloc[i]
  BY DEF ReleaseNewest, taken, cut, c
<1> QED BY <1>5, <1>6, <1>7, <1>8, <1>9

LEMMA ReleaseTyped ==
  ASSUME TypeOK, NEW rows, alloc' = Release(rows)
  PROVE  alloc' \in [AllocId -> AllocRow]
<1>1. \A i \in AllocId : [alloc[i] EXCEPT !.state = "released"] \in AllocRow
  BY DEF TypeOK, AllocRow
<1> QED BY <1>1 DEF TypeOK, Release

(* A receipt leaves a well-formed reservation.                             *)
LEMMA ShrunkTyped ==
  ASSUME NEW pre \in ResRow, NEW q \in Nat, NEW left \in Int
  PROVE  Shrunk(pre, q, left) \in ResRow
  BY DEF Shrunk, ResRow, Status, AtLeastZero, Smaller

-----------------------------------------------------------------------------
(* Types are kept by every step of a handler.                              *)
LEMMA QtyTyped == \A q \in Qty : q \in Nat
  BY BoundsAreNumbers DEF Qty

LEMMA CheckTypes ==
  ASSUME TypeOK, NEW h \in Handler, NEW op \in Ops, NEW r \in Reservation,
         NEW id \in AllocId \union ReturnId \union {None}, NEW q \in Nat, NEW n \in Int,
         Accepted(h, op, r, id, q, n),
         UNCHANGED <<shelf, moved, res, alloc, ret, locks>>
  PROVE  TypeOK'
<1>1. job' \in [Handler -> Job \union {None}]
  BY AcceptedTyped
<1> QED BY <1>1 DEF TypeOK

LEMMA IssueTypes ==
  ASSUME TypeOK, NEW h \in Handler, IssueStep(h)
  PROVE  TypeOK'
<1>1. ASSUME NEW r \in Reservation, NEW q \in Qty, ApproveCheck(h, r, q)
      PROVE  TypeOK'
  <2>1. OutstandingToIssue(r) \in Int
    BY <1>1, QtyTyped DEF ApproveCheck, TypeOK, ResRow
  <2>2. /\ Accepted(h, "approve", r, None, q, OutstandingToIssue(r))
        /\ UNCHANGED <<shelf, moved, res, alloc, ret, locks>>
        /\ "approve" \in Ops
    BY <1>1 DEF ApproveCheck
  <2> QED BY <2>1, <2>2, QtyTyped, CheckTypes
<1>2. ASSUME NEW r \in Reservation, NEW q \in Qty, AcceptCheck(h, r, q)
      PROVE  TypeOK'
  <2>1. /\ Accepted(h, "accept", r, None, q, 0)
        /\ UNCHANGED <<shelf, moved, res, alloc, ret, locks>>
        /\ "accept" \in Ops
    BY <1>2 DEF AcceptCheck
  <2> QED BY <2>1, QtyTyped, CheckTypes
<1>3. ASSUME NEW r \in Reservation, NEW q \in Qty, NEW op \in Ops, ReclaimCheck(h, r, q, op)
      PROVE  TypeOK'
  <2>1. /\ Accepted(h, op, r, None, q, 0)
        /\ UNCHANGED <<shelf, moved, res, alloc, ret, locks>>
        /\ op \in Ops
    BY <1>3 DEF ReclaimCheck
  <2> QED BY <2>1, QtyTyped, CheckTypes
<1>4. ASSUME NEW r \in Reservation, NEW op \in Ops, CloseCheck(h, r, op)
      PROVE  TypeOK'
  <2>1. /\ Accepted(h, op, r, None, 0, 0)
        /\ UNCHANGED <<shelf, moved, res, alloc, ret, locks>>
        /\ op \in Ops
    BY <1>4 DEF CloseCheck
  <2> QED BY <2>1, QtyTyped, CheckTypes
<1>5. ASSUME NEW r \in Reservation, NEW i \in AllocId, ReleaseCheck(h, r, i)
      PROVE  TypeOK'
  <2>1. alloc[i].qty \in Nat /\ shelf[PoolOf[r]] \in Int
    BY PoolsExist DEF TypeOK, AllocRow
  <2>2. /\ Accepted(h, "release", r, i, alloc[i].qty, shelf[PoolOf[r]])
        /\ UNCHANGED <<shelf, moved, res, alloc, ret, locks>>
        /\ "release" \in Ops
    BY <1>5 DEF ReleaseCheck
  <2> QED BY <2>1, <2>2, QtyTyped, CheckTypes
<1>6. ASSUME NEW r \in Reservation, UncancelCheck(h, r)
      PROVE  TypeOK'
  <2>1. /\ Accepted(h, "uncancel", r, None, 0, 0)
        /\ UNCHANGED <<shelf, moved, res, alloc, ret, locks>>
        /\ "uncancel" \in Ops
    BY <1>6 DEF UncancelCheck
  <2> QED BY <2>1, QtyTyped, CheckTypes
<1>7. CASE ApproveMeasure(h)
  <2>1. job[h] \in Job /\ job[h] # None
    BY <1>7 DEF ApproveMeasure, Doing, TypeOK
  <2>2. ApproveLocks(job[h].r) \in SUBSET (Pool \union Reservation)
    BY <2>1, PoolsExist DEF ApproveLocks, Job
  <2>3. NoRows \in [AllocId -> Nat]
    BY DEF NoRows
  <2> QED BY <1>7, <2>1, <2>2, <2>3, OpenedTyped DEF ApproveMeasure, TypeOK
<1>8. CASE ApproveCommit(h)
  <2>1. job[h] \in Job
    BY <1>8 DEF ApproveCommit, Doing, TypeOK
  <2>2. shelf' \in [Pool -> Int] /\ moved' \in [Pool -> Int]
    BY <1>8, <2>1, PoolsExist, MoveTyped DEF ApproveCommit, Job
  <2>3. alloc' \in [AllocId -> AllocRow]
    BY <1>8, <2>1 DEF ApproveCommit, Job, TypeOK, AllocRow
  <2>4. res' \in [Reservation -> ResRow]
    BY <1>8, <2>1 DEF ApproveCommit, Job, TypeOK, ResRow, Status
  <2> QED BY <1>8, <2>2, <2>3, <2>4, FinishedTyped DEF ApproveCommit, TypeOK
<1>9. CASE AcceptMeasure(h)
  <2>1. job[h] \in Job
    BY <1>9 DEF AcceptMeasure, Doing, TypeOK
  <2>2. res[job[h].r] \in ResRow
    BY <2>1 DEF TypeOK, Job
  <2>3. job[h].n + 1 \in Int
    BY <2>1 DEF Job
  <2>4. job' \in [Handler -> Job \union {None}]
    <3>1. job' = [job EXCEPT ![h].n = job[h].n + 1, ![h].pre = res[job[h].r]]
      BY <1>9 DEF AcceptMeasure
    <3> QED BY <2>1, <2>2, <2>3, <3>1 DEF TypeOK, Job
  <2> QED BY <1>9, <2>4 DEF AcceptMeasure, TypeOK
<1>10. CASE AcceptLand(h)
  <2>1. job[h] \in Job
    BY <1>10 DEF AcceptLand, Doing, TypeOK
  <2>2. res' \in [Reservation -> ResRow]
    BY <1>10, <2>1 DEF AcceptLand, Job, TypeOK, ResRow, Status
  <2> QED BY <1>10, <2>2, FinishedTyped DEF AcceptLand, TypeOK
<1>11. ASSUME NEW op \in Ops, ReclaimRead(h, op)
       PROVE  TypeOK'
  BY <1>11, ReadRowsTyped, OpenedTyped DEF ReclaimRead, Doing, TypeOK
<1>12. ASSUME NEW op \in Ops, ReclaimCommit(h, op)
       PROVE  TypeOK'
  <2>1. job[h] \in Job
    BY <1>12 DEF ReclaimCommit, Doing, TypeOK
  <2>2. alloc' \in [AllocId -> AllocRow]
    BY <1>12, <2>1, ReleaseNewestTyped DEF ReclaimCommit, Job
  <2>3. shelf' \in [Pool -> Int] /\ moved' \in [Pool -> Int]
    <3>1. PoolOf[job[h].r] \in Pool /\ job[h].q \in Int
      BY <2>1, PoolsExist DEF Job
    <3>2. Move(PoolOf[job[h].r], job[h].q) \/ UNCHANGED <<shelf, moved>>
      BY <1>12 DEF ReclaimCommit, Credit, KeepStock
    <3> QED BY <3>1, <3>2, MoveTyped DEF TypeOK
  <2>4. res' \in [Reservation -> ResRow]
    BY <1>12, <2>1 DEF ReclaimCommit, Job, TypeOK, ResRow, Status
  <2> QED BY <1>12, <2>2, <2>3, <2>4, FinishedTyped DEF ReclaimCommit, TypeOK
<1>13. ASSUME NEW op \in Ops, CloseRead(h, op)
       PROVE  TypeOK'
  BY <1>13, ReadRowsTyped, OpenedTyped DEF CloseRead, Doing, TypeOK
<1>14. ASSUME NEW op \in Ops, CloseCommit(h, op)
       PROVE  TypeOK'
  <2>1. alloc' \in [AllocId -> AllocRow]
    BY <1>14, ReleaseTyped DEF CloseCommit
  <2>2. res' \in [Reservation -> ResRow]
    <3>1. Closing[op] \in Status
      BY <1>14 DEF CloseCommit, Closing, Status
    <3> QED BY <1>14, <3>1 DEF CloseCommit, TypeOK, ResRow
  <2> QED BY <1>14, <2>1, <2>2, FinishedTyped DEF CloseCommit, TypeOK
<1>15. CASE UncancelCommit(h)
  <2>1. res' \in [Reservation -> ResRow]
    BY <1>15 DEF UncancelCommit, TypeOK, ResRow, Status
  <2> QED BY <1>15, <2>1, FinishedTyped DEF UncancelCommit, TypeOK
<1>16. CASE ReleaseCommit(h)
  <2>1. job[h] \in Job
    BY <1>16 DEF ReleaseCommit, Doing, TypeOK
  <2>2. alloc' \in [AllocId -> AllocRow]
    BY <1>16 DEF ReleaseCommit, TypeOK, AllocRow
  <2>3. shelf' \in [Pool -> Int] /\ moved' \in [Pool -> Int]
    BY <1>16, <2>1, PoolsExist, MoveTyped DEF ReleaseCommit, Job, Credit
  <2>4. res' \in [Reservation -> ResRow]
    BY <1>16 DEF ReleaseCommit, TypeOK, ResRow, Status
  <2> QED BY <1>16, <2>2, <2>3, <2>4, FinishedTyped DEF ReleaseCommit, TypeOK
<1> QED BY <1>1, <1>2, <1>3, <1>4, <1>5, <1>6, <1>7, <1>8, <1>9, <1>10, <1>11, <1>12,
          <1>13, <1>14, <1>15, <1>16 DEF IssueStep

LEMMA ReturnTypes ==
  ASSUME TypeOK, RemainderInv, NEW h \in Handler, ReturnStep(h)
  PROVE  TypeOK'
<1>1. ASSUME NEW r \in Reservation, NEW q \in Qty, FileCheck(h, r, q)
      PROVE  TypeOK'
  <2>1. /\ Accepted(h, "file", r, None, q, 0)
        /\ UNCHANGED <<shelf, moved, res, alloc, ret, locks>>
        /\ "file" \in Ops
    BY <1>1 DEF FileCheck
  <2> QED BY <2>1, QtyTyped, CheckTypes
<1>2. ASSUME NEW r \in Reservation, NEW i \in ReturnId, ReceiveCheck(h, r, i)
      PROVE  TypeOK'
  <2>1. ret[i].qty \in Nat
    BY DEF TypeOK, ReturnRow
  <2>2. /\ Accepted(h, "receive", r, i, ret[i].qty, 0)
        /\ UNCHANGED <<shelf, moved, res, alloc, ret, locks>>
        /\ "receive" \in Ops
    BY <1>2 DEF ReceiveCheck
  <2> QED BY <2>1, <2>2, QtyTyped, CheckTypes
<1>3. ASSUME NEW r \in Reservation, NEW i \in ReturnId, CallOffCheck(h, r, i)
      PROVE  TypeOK'
  <2>1. ret[i].qty \in Nat
    BY DEF TypeOK, ReturnRow
  <2>2. /\ Accepted(h, "callOff", r, i, ret[i].qty, 0)
        /\ UNCHANGED <<shelf, moved, res, alloc, ret, locks>>
        /\ "callOff" \in Ops
    BY <1>3 DEF CallOffCheck
  <2> QED BY <2>1, <2>2, QtyTyped, CheckTypes
<1>4. ASSUME NEW r \in Reservation, NEW i \in AllocId, NEW q \in Qty, HandBackRead(h, r, i, q)
      PROVE  TypeOK'
  <2>1. alloc[i].qty - q \in Int
    BY QtyTyped DEF TypeOK, AllocRow
  <2>2. /\ Accepted(h, "handBack", r, i, q, alloc[i].qty - q)
        /\ UNCHANGED <<shelf, moved, res, alloc, ret, locks>>
        /\ "handBack" \in Ops
    BY <1>4 DEF HandBackRead
  <2> QED BY <2>1, <2>2, QtyTyped, CheckTypes
<1>5. ASSUME NEW r \in Reservation, NEW i \in AllocId, RemoveCheck(h, r, i)
      PROVE  TypeOK'
  <2>1. alloc[i].qty \in Nat
    BY DEF TypeOK, AllocRow
  <2>2. /\ Accepted(h, "remove", r, i, alloc[i].qty, 0)
        /\ UNCHANGED <<shelf, moved, res, alloc, ret, locks>>
        /\ "remove" \in Ops
    BY <1>5 DEF RemoveCheck
  <2> QED BY <2>1, <2>2, QtyTyped, CheckTypes
<1>6. CASE FileMeasure(h)
  <2>1. job[h] \in Job /\ job[h] # None
    BY <1>6 DEF FileMeasure, Doing, TypeOK
  <2>2. {job[h].r} \in SUBSET (Pool \union Reservation)
    BY <2>1 DEF Job
  <2>3. NoRows \in [AllocId -> Nat]
    BY DEF NoRows
  <2> QED BY <1>6, <2>1, <2>2, <2>3, OpenedTyped DEF FileMeasure, TypeOK
<1>7. CASE FileCommit(h)
  <2>1. job[h] \in Job
    BY <1>7 DEF FileCommit, Doing, TypeOK
  <2>2. ret' \in [ReturnId -> ReturnRow]
    BY <1>7, <2>1 DEF FileCommit, Job, TypeOK, ReturnRow
  <2> QED BY <1>7, <2>2, FinishedTyped DEF FileCommit, TypeOK
<1>8. CASE ReceiveMeasure(h)
  <2>1. job[h] \in Job /\ Left(h) \in Int /\ ReadRows(job[h].r) \in [AllocId -> Nat]
    BY <1>8, ReadRowsTyped DEF ReceiveMeasure, Doing, TypeOK
  <2>2. job' = [job EXCEPT ![h].stage = "open", ![h].rows = ReadRows(job[h].r), ![h].n = Left(h)]
    BY <1>8 DEF ReceiveMeasure
  <2>3. job' \in [Handler -> Job \union {None}]
    BY <2>1, <2>2 DEF TypeOK, Job
  <2>4. locks' \in [Handler -> SUBSET (Pool \union Reservation)]
    BY <1>8, <2>1 DEF ReceiveMeasure, Job, TypeOK
  <2> QED BY <1>8, <2>3, <2>4 DEF ReceiveMeasure, TypeOK
<1>9. CASE ReceiveCommit(h)
  <2>1. job[h] \in Job
    BY <1>9 DEF ReceiveCommit, Doing, TypeOK
  <2>2. alloc' \in [AllocId -> AllocRow]
    BY <1>9, <2>1, ReleaseNewestTyped DEF ReceiveCommit, Job
  <2>3. shelf' \in [Pool -> Int] /\ moved' \in [Pool -> Int]
    BY <1>9, <2>1, PoolsExist, MoveTyped DEF ReceiveCommit, Job, Credit
  <2>4. Shrunk(job[h].pre, job[h].q, job[h].n) \in ResRow
    BY <2>1, ShrunkTyped DEF Job
  <2>5. res' \in [Reservation -> ResRow] /\ ret' \in [ReturnId -> ReturnRow]
    BY <1>9, <2>4 DEF ReceiveCommit, TypeOK, ReturnRow
  <2> QED BY <1>9, <2>2, <2>3, <2>5, FinishedTyped DEF ReceiveCommit, TypeOK
<1>10. CASE CallOffCommit(h)
  <2>1. ret' \in [ReturnId -> ReturnRow]
    BY <1>10 DEF CallOffCommit, TypeOK, ReturnRow
  <2> QED BY <1>10, <2>1, FinishedTyped DEF CallOffCommit, TypeOK
<1>11. CASE HandBackCommit(h)
  <2>1. job[h] \in Job /\ job[h].n \in Nat
    BY <1>11 DEF HandBackCommit, Doing, TypeOK, RemainderInv
  <2>2. alloc' \in [AllocId -> AllocRow]
    BY <1>11, <2>1 DEF HandBackCommit, TypeOK, AllocRow
  <2>3. shelf' \in [Pool -> Int] /\ moved' \in [Pool -> Int]
    BY <1>11, <2>1, PoolsExist, MoveTyped DEF HandBackCommit, Job, Credit
  <2>4. res' \in [Reservation -> ResRow]
    BY <1>11, <2>1 DEF HandBackCommit, Job, TypeOK, ResRow
  <2> QED BY <1>11, <2>2, <2>3, <2>4, FinishedTyped DEF HandBackCommit, TypeOK
<1>12. CASE RemoveCommit(h)
  <2>1. job[h] \in Job
    BY <1>12 DEF RemoveCommit, Doing, TypeOK
  <2>2. alloc' \in [AllocId -> AllocRow]
    BY <1>12 DEF RemoveCommit, TypeOK, AllocRow
  <2>3. shelf' \in [Pool -> Int] /\ moved' \in [Pool -> Int]
    BY <1>12, <2>1, PoolsExist, MoveTyped DEF RemoveCommit, Job, Credit
  <2>4. res' \in [Reservation -> ResRow]
    BY <1>12 DEF RemoveCommit, TypeOK, ResRow, Status
  <2> QED BY <1>12, <2>2, <2>3, <2>4, FinishedTyped DEF RemoveCommit, TypeOK
<1> QED BY <1>1, <1>2, <1>3, <1>4, <1>5, <1>6, <1>7, <1>8, <1>9, <1>10, <1>11, <1>12 DEF ReturnStep

-----------------------------------------------------------------------------
(* What a step of h may do outside its own job: move stock onto a shelf    *)
(* with its movement, or be the commit of an approval; hold rows only if   *)
(* nobody else does; and leave everybody else's job and rows alone.        *)
Shape(h) ==
  /\ \A g \in Handler \ {h} : job'[g] = job[g] /\ locks'[g] = locks[g]
  /\ \/ UNCHANGED <<shelf, moved>>
     \/ \E p \in Pool, q \in Nat : Move(p, q)
     \/ ApproveCommit(h)
  /\ locks'[h] = {} \/ locks'[h] = locks[h] \/ Free(h, locks'[h])
  /\ Doing(h, "approve", "open")' => ApproveMeasure(h)
  /\ job'[h] # None /\ job'[h].op = "handBack" => job'[h].n \in Nat

LEMMA CheckShape ==
  ASSUME TypeOK, NEW h \in Handler, NEW op, NEW r, NEW id, NEW q, NEW n,
         Accepted(h, op, r, id, q, n), op = "handBack" => n \in Nat,
         UNCHANGED <<shelf, moved, res, alloc, ret, locks>>
  PROVE  Shape(h)
<1>1. /\ job'[h].stage = "checked" /\ job'[h].op = op /\ job'[h].n = n
      /\ \A g \in Handler \ {h} : job'[g] = job[g]
  BY DEF Accepted, TypeOK
<1>2. ~Doing(h, "approve", "open")'
  BY <1>1 DEF Doing
<1> QED BY <1>1, <1>2 DEF Shape

LEMMA FinishedShape ==
  ASSUME TypeOK, NEW h \in Handler, Finished(h),
         \/ UNCHANGED <<shelf, moved>>
         \/ \E p \in Pool, q \in Nat : Move(p, q)
         \/ ApproveCommit(h)
  PROVE  Shape(h)
<1>1. /\ job'[h] = None /\ locks'[h] = {}
      /\ \A g \in Handler \ {h} : job'[g] = job[g] /\ locks'[g] = locks[g]
  BY DEF Finished, TypeOK
<1>2. ~Doing(h, "approve", "open")'
  BY <1>1 DEF Doing
<1> QED BY <1>1, <1>2 DEF Shape

LEMMA OpenedShape ==
  ASSUME TypeOK, NEW h \in Handler, NEW rows, NEW held, Opened(h, rows, held), Free(h, held),
         job[h] # None, job[h].op # "handBack", job[h].op = "approve" => ApproveMeasure(h),
         UNCHANGED <<shelf, moved>>
  PROVE  Shape(h)
<1>1. job[h] \in Job
  BY DEF TypeOK
<1>2. /\ job'[h].op = job[h].op /\ locks'[h] = held
      /\ \A g \in Handler \ {h} : job'[g] = job[g] /\ locks'[g] = locks[g]
  BY <1>1 DEF Opened, TypeOK, Job
<1> QED BY <1>2 DEF Shape, Doing

LEMMA IssueShape ==
  ASSUME TypeOK, NEW h \in Handler, IssueStep(h)
  PROVE  Shape(h)
<1>1. ASSUME NEW r \in Reservation, NEW q \in Qty,
             ApproveCheck(h, r, q) \/ AcceptCheck(h, r, q)
      PROVE  Shape(h)
  BY <1>1, CheckShape DEF ApproveCheck, AcceptCheck
<1>2. ASSUME NEW r \in Reservation, NEW q \in Qty, NEW op \in Ops, ReclaimCheck(h, r, q, op)
      PROVE  Shape(h)
  BY <1>2, CheckShape DEF ReclaimCheck
<1>3. ASSUME NEW r \in Reservation, NEW op \in Ops, CloseCheck(h, r, op)
      PROVE  Shape(h)
  BY <1>3, CheckShape DEF CloseCheck
<1>4. ASSUME NEW r \in Reservation, NEW i \in AllocId, ReleaseCheck(h, r, i)
      PROVE  Shape(h)
  BY <1>4, CheckShape DEF ReleaseCheck
<1>5. ASSUME NEW r \in Reservation, UncancelCheck(h, r)
      PROVE  Shape(h)
  BY <1>5, CheckShape DEF UncancelCheck
<1>6. CASE ApproveMeasure(h)
  BY <1>6, OpenedShape DEF ApproveMeasure, Doing
<1>7. CASE ApproveCommit(h)
  BY <1>7, FinishedShape DEF ApproveCommit
<1>8. CASE AcceptMeasure(h)
  <2>1. job[h] \in Job /\ job[h].op = "accept"
    BY <1>8 DEF AcceptMeasure, Doing, TypeOK
  <2>2. job'[h].op = "accept" /\ \A g \in Handler \ {h} : job'[g] = job[g]
    <3>1. job' = [job EXCEPT ![h].n = job[h].n + 1, ![h].pre = res[job[h].r]]
      BY <1>8 DEF AcceptMeasure
    <3> QED BY <2>1, <3>1 DEF TypeOK, Job
  <2> QED BY <1>8, <2>2 DEF AcceptMeasure, Shape, Doing
<1>9. CASE AcceptLand(h)
  BY <1>9, FinishedShape DEF AcceptLand
<1>10. ASSUME NEW op \in Ops, ReclaimRead(h, op)
       PROVE  Shape(h)
  <2>1. Free(h, {})
    BY DEF Free
  <2> QED BY <1>10, <2>1, OpenedShape DEF ReclaimRead, Doing
<1>11. ASSUME NEW op \in Ops, ReclaimCommit(h, op)
       PROVE  Shape(h)
  <2>1. PoolOf[job[h].r] \in Pool /\ job[h].q \in Nat
    BY <1>11, PoolsExist DEF ReclaimCommit, Doing, TypeOK, Job
  <2>2. Move(PoolOf[job[h].r], job[h].q) \/ UNCHANGED <<shelf, moved>>
    BY <1>11 DEF ReclaimCommit, Credit, KeepStock
  <2>3. Finished(h)
    BY <1>11 DEF ReclaimCommit
  <2> QED BY <2>1, <2>2, <2>3, FinishedShape
<1>12. ASSUME NEW op \in Ops, CloseRead(h, op)
       PROVE  Shape(h)
  <2>1. Free(h, {}) /\ op # "approve" /\ op # "handBack"
    BY <1>12 DEF Free, CloseRead, Closing
  <2> QED BY <1>12, <2>1, OpenedShape DEF CloseRead, Doing
<1>13. ASSUME NEW op \in Ops, CloseCommit(h, op)
       PROVE  Shape(h)
  BY <1>13, FinishedShape DEF CloseCommit
<1>14. CASE UncancelCommit(h)
  BY <1>14, FinishedShape DEF UncancelCommit
<1>15. CASE ReleaseCommit(h)
  <2>1. PoolOf[job[h].r] \in Pool /\ job[h].q \in Nat
    BY <1>15, PoolsExist DEF ReleaseCommit, Doing, TypeOK, Job
  <2>2. Move(PoolOf[job[h].r], job[h].q) /\ Finished(h)
    BY <1>15 DEF ReleaseCommit, Credit
  <2> QED BY <2>1, <2>2, FinishedShape
<1> QED BY <1>1, <1>2, <1>3, <1>4, <1>5, <1>6, <1>7, <1>8, <1>9, <1>10, <1>11, <1>12, <1>13,
          <1>14, <1>15 DEF IssueStep

LEMMA ReturnShape ==
  ASSUME TypeOK, NEW h \in Handler, ReturnStep(h)
  PROVE  Shape(h)
<1>1. ASSUME NEW r \in Reservation, NEW q \in Qty, FileCheck(h, r, q)
      PROVE  Shape(h)
  BY <1>1, CheckShape DEF FileCheck
<1>2. ASSUME NEW r \in Reservation, NEW i \in ReturnId,
             ReceiveCheck(h, r, i) \/ CallOffCheck(h, r, i)
      PROVE  Shape(h)
  BY <1>2, CheckShape DEF ReceiveCheck, CallOffCheck
<1>3. ASSUME NEW r \in Reservation, NEW i \in AllocId, NEW q \in Qty, HandBackRead(h, r, i, q)
      PROVE  Shape(h)
  <2>1. alloc[i].qty - q \in Nat
    BY <1>3, QtyTyped DEF HandBackRead, TypeOK, AllocRow
  <2> QED BY <1>3, <2>1, CheckShape DEF HandBackRead
<1>4. ASSUME NEW r \in Reservation, NEW i \in AllocId, RemoveCheck(h, r, i)
      PROVE  Shape(h)
  BY <1>4, CheckShape DEF RemoveCheck
<1>5. CASE FileMeasure(h)
  BY <1>5, OpenedShape DEF FileMeasure, Doing
<1>6. CASE FileCommit(h)
  BY <1>6, FinishedShape DEF FileCommit
<1>7. CASE ReceiveMeasure(h)
  <2>1. job[h] \in Job /\ job[h].op = "receive"
    BY <1>7 DEF ReceiveMeasure, Doing, TypeOK
  <2>2. job'[h].op = "receive" /\ \A g \in Handler \ {h} : job'[g] = job[g]
    <3>1. job' = [job EXCEPT ![h].stage = "open", ![h].rows = ReadRows(job[h].r), ![h].n = Left(h)]
      BY <1>7 DEF ReceiveMeasure
    <3> QED BY <2>1, <3>1 DEF TypeOK, Job
  <2>3. /\ locks'[h] = {job[h].r} /\ Free(h, {job[h].r})
        /\ \A g \in Handler \ {h} : locks'[g] = locks[g]
    BY <1>7 DEF ReceiveMeasure, TypeOK
  <2> QED BY <1>7, <2>2, <2>3 DEF ReceiveMeasure, Shape, Doing
<1>8. ASSUME ReceiveCommit(h) \/ HandBackCommit(h) \/ RemoveCommit(h)
      PROVE  Shape(h)
  <2>1. PoolOf[job[h].r] \in Pool /\ job[h].q \in Nat
    BY <1>8, PoolsExist DEF ReceiveCommit, HandBackCommit, RemoveCommit, Doing, TypeOK, Job
  <2>2. Move(PoolOf[job[h].r], job[h].q) /\ Finished(h)
    BY <1>8 DEF ReceiveCommit, HandBackCommit, RemoveCommit, Credit
  <2> QED BY <2>1, <2>2, FinishedShape
<1>9. CASE CallOffCommit(h)
  BY <1>9, FinishedShape DEF CallOffCommit
<1> QED BY <1>1, <1>2, <1>3, <1>4, <1>5, <1>6, <1>7, <1>8, <1>9 DEF ReturnStep

LEMMA StepShape ==
  ASSUME TypeOK, NEW h \in Handler, IssueStep(h) \/ ReturnStep(h) \/ Abort(h)
  PROVE  Shape(h)
<1>1. CASE IssueStep(h)
  BY <1>1, IssueShape
<1>2. CASE ReturnStep(h)
  BY <1>2, ReturnShape
<1>3. CASE Abort(h)
  BY <1>3, FinishedShape DEF Abort
<1> QED BY <1>1, <1>2, <1>3

-----------------------------------------------------------------------------
(* The invariant is kept by every step.                                    *)
LEMMA InitInv == Init => IInv
<1> SUFFICES ASSUME Init PROVE IInv
  OBVIOUS
<1>1. TypeOK
  <2>1. NoAlloc \in AllocRow /\ NoReturn \in ReturnRow
    BY DEF NoAlloc, AllocRow, NoReturn, ReturnRow
  <2>2. res \in [Reservation -> ResRow]
    <3>1. [status : {"PENDING", "APPROVED"}, quantity : Qty, accepted : {0}] \subseteq ResRow
      BY QtyTyped DEF ResRow, Status
    <3> QED BY <3>1 DEF Init
  <2> QED BY <2>1, <2>2, PoolsExist DEF Init, TypeOK
<1>2. StockInv
  BY PoolsExist DEF Init, StockInv, LedgerExplainsShelf, ShelfNeverNegative
<1>3. LocksApart /\ ApprovalHolds /\ RemainderInv
  BY DEF Init, LocksApart, ApprovalHolds, RemainderInv, Doing
<1> QED BY <1>1, <1>2, <1>3 DEF IInv

LEMMA TypeKept ==
  ASSUME TypeOK, RemainderInv, NEW h \in Handler, IssueStep(h) \/ ReturnStep(h) \/ Abort(h)
  PROVE  TypeOK'
<1>1. CASE Abort(h)
  BY <1>1, FinishedTyped DEF Abort, TypeOK
<1> QED BY <1>1, IssueTypes, ReturnTypes

LEMMA LocksKept ==
  ASSUME TypeOK, LocksApart, NEW h \in Handler, Shape(h)
  PROVE  LocksApart'
<1> SUFFICES ASSUME NEW g \in Handler, NEW f \in Handler, g # f
             PROVE  locks'[g] \intersect locks'[f] = {}
  BY DEF LocksApart
<1>1. \A e \in Handler \ {h} : locks[e] \intersect locks'[h] = {}
  BY DEF Shape, Free, LocksApart
<1>2. \A e \in Handler \ {h} : locks'[e] = locks[e]
  BY DEF Shape
<1> QED BY <1>1, <1>2 DEF LocksApart

LEMMA MoveKeeps ==
  ASSUME TypeOK, StockInv, NEW p \in Pool, NEW q \in Int, Move(p, q), shelf[p] + q >= 0
  PROVE  StockInv'
<1>1. \A x \in Pool : /\ shelf'[x] = IF x = p THEN shelf[x] + q ELSE shelf[x]
                      /\ moved'[x] = IF x = p THEN moved[x] + q ELSE moved[x]
  BY DEF Move, TypeOK
<1>2. \A x \in Pool : shelf[x] \in Int /\ moved[x] \in Int /\ Opening[x] \in Int
  BY PoolsExist DEF TypeOK
<1>3. LedgerExplainsShelf'
  BY <1>1, <1>2 DEF StockInv, LedgerExplainsShelf
<1>4. ShelfNeverNegative'
  BY <1>1, <1>2 DEF StockInv, ShelfNeverNegative
<1> QED BY <1>3, <1>4 DEF StockInv

(* The commit of an approval takes what its locks kept for it; nothing     *)
(* else lowers a shelf.                                                    *)
LEMMA StockKept ==
  ASSUME IInv, NEW h \in Handler, Shape(h)
  PROVE  StockInv'
<1> USE DEF IInv
<1>1. CASE UNCHANGED <<shelf, moved>>
  BY <1>1 DEF StockInv, LedgerExplainsShelf, ShelfNeverNegative
<1>2. ASSUME NEW p \in Pool, NEW q \in Nat, Move(p, q)
      PROVE  StockInv'
  <2>1. shelf[p] + q >= 0
    BY DEF TypeOK, StockInv, ShelfNeverNegative
  <2> QED BY <1>2, <2>1, MoveKeeps
<1>3. CASE ApproveCommit(h)
  <2>1. job[h] \in Job /\ PoolOf[job[h].r] \in Pool
    BY <1>3, PoolsExist DEF ApproveCommit, Doing, TypeOK, Job
  <2>2. job[h].q \in Nat /\ job[h].q <= shelf[PoolOf[job[h].r]]
    BY <1>3, <2>1 DEF ApproveCommit, ApprovalHolds, Job
  <2>3. Move(PoolOf[job[h].r], -job[h].q)
    BY <1>3 DEF ApproveCommit
  <2>4. -job[h].q \in Int /\ shelf[PoolOf[job[h].r]] + (-job[h].q) >= 0
    BY <2>1, <2>2 DEF TypeOK
  <2> QED BY <2>1, <2>3, <2>4, MoveKeeps
<1> QED BY <1>1, <1>2, <1>3 DEF Shape

(* Two approvals both lock the item, so no other step takes from the shelf *)
(* while one is under way.                                                 *)
LEMMA ApprovalsKept ==
  ASSUME IInv, NEW h \in Handler, Shape(h), TypeOK'
  PROVE  ApprovalHolds'
<1> SUFFICES ASSUME NEW g \in Handler, Doing(g, "approve", "open")'
             PROVE  /\ locks'[g] = ApproveLocks(job'[g].r)
                    /\ job'[g].q <= shelf'[PoolOf[job'[g].r]]
  BY DEF ApprovalHolds, ApproveLocks
<1> USE DEF IInv
<1>1. CASE g = h
  <2>1. ApproveMeasure(h)
    BY <1>1 DEF Shape
  <2>2. job[h] \in Job
    BY <2>1 DEF ApproveMeasure, Doing, TypeOK
  <2>3. /\ job'[h].r = job[h].r /\ job'[h].q = job[h].q
        /\ locks'[h] = ApproveLocks(job[h].r)
    BY <2>1, <2>2 DEF ApproveMeasure, Opened, TypeOK, Job
  <2> QED BY <1>1, <2>1, <2>3 DEF ApproveMeasure
<1>2. CASE g # h
  <2>1. job'[g] = job[g] /\ locks'[g] = locks[g]
    BY <1>2 DEF Shape
  <2>2. Doing(g, "approve", "open")
    BY <2>1 DEF Doing
  <2>3. job[g] \in Job /\ PoolOf[job[g].r] \in Pool /\ job[g].q \in Nat
    BY <2>2, PoolsExist DEF Doing, TypeOK, Job
  <2>4. /\ locks[g] = ApproveLocks(job[g].r)
        /\ job[g].q <= shelf[PoolOf[job[g].r]]
    BY <2>2 DEF ApprovalHolds
  <2>5. ~ApproveCommit(h)
    <3>1. SUFFICES ASSUME ApproveCommit(h) PROVE FALSE
      OBVIOUS
    <3>2. locks[h] = ApproveLocks(job[h].r)
      BY <3>1 DEF ApproveCommit, ApprovalHolds
    <3> QED BY <1>2, <2>4, <3>2 DEF LocksApart, ApproveLocks
  <2>6. shelf[PoolOf[job[g].r]] <= shelf'[PoolOf[job[g].r]]
    <3>1. CASE UNCHANGED <<shelf, moved>>
      BY <2>3, <3>1 DEF TypeOK
    <3>2. ASSUME NEW p \in Pool, NEW q \in Nat, Move(p, q)
          PROVE  shelf[PoolOf[job[g].r]] <= shelf'[PoolOf[job[g].r]]
      BY <2>3, <3>2 DEF Move, TypeOK
    <3> QED BY <2>5, <3>1, <3>2 DEF Shape
  <2> QED BY <2>1, <2>3, <2>4, <2>6 DEF TypeOK
<1> QED BY <1>1, <1>2

LEMMA InvKept ==
  ASSUME IInv, [Next]_vars
  PROVE  IInv'
<1>1. CASE UNCHANGED vars
  <2>1. TypeOK'
    BY <1>1 DEF vars, IInv, TypeOK
  <2>2. StockInv'
    BY <1>1 DEF vars, IInv, StockInv, LedgerExplainsShelf, ShelfNeverNegative
  <2>3. LocksApart' /\ RemainderInv'
    BY <1>1 DEF vars, IInv, LocksApart, RemainderInv
  <2>4. ApprovalHolds'
    BY <1>1 DEF vars, IInv, ApprovalHolds, Doing, ApproveLocks
  <2> QED BY <2>1, <2>2, <2>3, <2>4 DEF IInv
<1>2. ASSUME NEW h \in Handler, IssueStep(h) \/ ReturnStep(h) \/ Abort(h)
      PROVE  IInv'
  <2>1. Shape(h)
    BY <1>2, StepShape DEF IInv
  <2>2. TypeOK'
    BY <1>2, TypeKept DEF IInv
  <2>3. RemainderInv'
    <3>1. \A g \in Handler \ {h} : job'[g] = job[g]
      BY <2>1 DEF Shape
    <3>2. job'[h] # None /\ job'[h].op = "handBack" => job'[h].n \in Nat
      BY <2>1 DEF Shape
    <3> QED BY <3>1, <3>2 DEF IInv, RemainderInv
  <2> QED BY <2>1, <2>2, <2>3, LocksKept, StockKept, ApprovalsKept DEF IInv
<1> QED BY <1>1, <1>2 DEF Next

(* The types, the locks held, what open approvals have measured and the    *)
(* books of every shelf, through any interleaving of the operations.       *)
THEOREM InvAlways == Spec => []IInv
  BY InitInv, InvKept, PTL DEF Spec

(* The rows and the jobs keep their types under any operations.            *)
THEOREM TypeCorrect == Spec => []TypeOK
  BY InvAlways, PTL DEF IInv

(* The movements always add up to what is on a shelf, which never goes     *)
(* below zero, however many approvals race for it and whatever returns,    *)
(* reclaims and releases run between their steps.                          *)
THEOREM ShelvesAlwaysAddUp == Spec => []ShelvesAddUp
  BY InvAlways, PTL DEF IInv, StockInv, ShelvesAddUp

-----------------------------------------------------------------------------
(* What is measured of a reservation, as sums over its rows.               *)
Held == [i \in AllocId |-> alloc[i].qty]
Filed == [i \in ReturnId |-> ret[i].qty]

LEMMA RowsAreFinite == IsFiniteSet(AllocId) /\ IsFiniteSet(ReturnId)
  BY BoundsAreNumbers, FS_Interval DEF AllocId, ReturnId

LEMMA OutIs == \A r : Out(r) = SumFunctionOnSet(Held, LiveRows(r))
<1> TAKE r
<1> DEFINE S == LiveRows(r)
           P(g) == g = [s \in SUBSET S |-> IF s = {} THEN 0 ELSE alloc[Some(s)].qty + g[s \ {Some(s)}]]
           it == CHOOSE g : P(g)
<1>1. S \subseteq AllocId /\ IsFiniteSet(S)
  BY RowsAreFinite, FS_Subset DEF LiveRows
<1>2. Out(r) = it[S]
  BY DEF Out, MapThenSumSet, MapThenFoldSet, Some
<1>3. \A g : [s \in SUBSET S |-> IF s = {} THEN 0 ELSE alloc[Some(s)].qty + g[s \ {Some(s)}]]
             = [s \in SUBSET S |-> Body(Held, g, s)]
  <2> TAKE g
  <2>1. \A s \in SUBSET S : (IF s = {} THEN 0 ELSE alloc[Some(s)].qty + g[s \ {Some(s)}]) = Body(Held, g, s)
    <3> TAKE s \in SUBSET S
    <3>1. s # {} => Some(s) \in AllocId
      BY <1>1, SomeIn
    <3>2. s # {} => Held[Some(s)] = alloc[Some(s)].qty
      BY <3>1 DEF Held
    <3> QED BY <3>2 DEF Body
  <2> QED BY <2>1
<1>4. \A g : P(g) <=> Solves(Held, S, g)
  BY <1>3 DEF Solves
<1>5. Solves(Held, S, Iter(Held, S))
  BY <1>1, Solvable
<1>6. Solves(Held, S, it)
  BY <1>4, <1>5
<1> HIDE DEF S, P, it
<1>7. it[S] = Iter(Held, S)[S]
  <2>1. S \in SUBSET (S \cap S)
    OBVIOUS
  <2>2. ASSUME NEW g, NEW h, Solves(Held, S, g), Solves(Held, S, h)
        PROVE  g[S] = h[S]
    BY <1>1, <2>1, <2>2, SolutionsAgree
  <2> QED BY <1>5, <1>6, <2>2
<1> QED BY <1>2, <1>7, SumIs DEF S

LEMMA AwaitingIs == \A r : Awaiting(r) = SumFunctionOnSet(Filed, Returns(r, "PENDING"))
<1> TAKE r
<1> DEFINE S == Returns(r, "PENDING")
           P(g) == g = [s \in SUBSET S |-> IF s = {} THEN 0 ELSE ret[Some(s)].qty + g[s \ {Some(s)}]]
           it == CHOOSE g : P(g)
<1>1. S \subseteq ReturnId /\ IsFiniteSet(S)
  BY RowsAreFinite, FS_Subset DEF Returns
<1>2. Awaiting(r) = it[S]
  BY DEF Awaiting, MapThenSumSet, MapThenFoldSet, Some
<1>3. \A g : [s \in SUBSET S |-> IF s = {} THEN 0 ELSE ret[Some(s)].qty + g[s \ {Some(s)}]]
             = [s \in SUBSET S |-> Body(Filed, g, s)]
  <2> TAKE g
  <2>1. \A s \in SUBSET S : (IF s = {} THEN 0 ELSE ret[Some(s)].qty + g[s \ {Some(s)}]) = Body(Filed, g, s)
    <3> TAKE s \in SUBSET S
    <3>1. s # {} => Some(s) \in ReturnId
      BY <1>1, SomeIn
    <3>2. s # {} => Filed[Some(s)] = ret[Some(s)].qty
      BY <3>1 DEF Filed
    <3> QED BY <3>2 DEF Body
  <2> QED BY <2>1
<1>4. \A g : P(g) <=> Solves(Filed, S, g)
  BY <1>3 DEF Solves
<1>5. Solves(Filed, S, Iter(Filed, S))
  BY <1>1, Solvable
<1>6. Solves(Filed, S, it)
  BY <1>4, <1>5
<1> HIDE DEF S, P, it
<1>7. it[S] = Iter(Filed, S)[S]
  <2>1. S \in SUBSET (S \cap S)
    OBVIOUS
  <2>2. ASSUME NEW g, NEW h, Solves(Filed, S, g), Solves(Filed, S, h)
        PROVE  g[S] = h[S]
    BY <1>1, <2>1, <2>2, SolutionsAgree
  <2> QED BY <1>5, <1>6, <2>2
<1> QED BY <1>2, <1>7, SumIs DEF S

LEMMA OutIsNext == \A r : Out(r)' = SumFunctionOnSet(Held', LiveRows(r)')
<1>1. (\A r : Out(r) = SumFunctionOnSet(Held, LiveRows(r)))'
  BY OutIs, PTL
<1> QED BY <1>1

LEMMA AwaitingIsNext == \A r : Awaiting(r)' = SumFunctionOnSet(Filed', Returns(r, "PENDING")')
<1>1. (\A r : Awaiting(r) = SumFunctionOnSet(Filed, Returns(r, "PENDING")))'
  BY AwaitingIs, PTL
<1> QED BY <1>1

LEMMA ReturnedIs == \A r : Returns(r, "RECEIVED") = {} => Returned(r) = 0
  BY DEF Returned, MapThenSumSet, MapThenFoldSet

LEMMA MeasuresTyped ==
  TypeOK => \A r \in Reservation :
    /\ LiveRows(r) \subseteq AllocId /\ IsFiniteSet(LiveRows(r))
    /\ Returns(r, "PENDING") \subseteq ReturnId /\ IsFiniteSet(Returns(r, "PENDING"))
    /\ \A i \in AllocId : Held[i] \in Nat
    /\ \A i \in ReturnId : Filed[i] \in Nat
    /\ Out(r) \in Nat /\ Awaiting(r) \in Nat
<1> SUFFICES ASSUME TypeOK, NEW r \in Reservation
             PROVE  /\ LiveRows(r) \subseteq AllocId /\ IsFiniteSet(LiveRows(r))
                    /\ Returns(r, "PENDING") \subseteq ReturnId /\ IsFiniteSet(Returns(r, "PENDING"))
                    /\ \A i \in AllocId : Held[i] \in Nat
                    /\ \A i \in ReturnId : Filed[i] \in Nat
                    /\ Out(r) \in Nat /\ Awaiting(r) \in Nat
  OBVIOUS
<1>1. LiveRows(r) \subseteq AllocId /\ IsFiniteSet(LiveRows(r))
  BY RowsAreFinite, FS_Subset DEF LiveRows
<1>2. Returns(r, "PENDING") \subseteq ReturnId /\ IsFiniteSet(Returns(r, "PENDING"))
  BY RowsAreFinite, FS_Subset DEF Returns
<1>3. (\A i \in AllocId : Held[i] \in Nat) /\ (\A i \in ReturnId : Filed[i] \in Nat)
  BY DEF Held, Filed, TypeOK, AllocRow, ReturnRow
<1>4. SumFunctionOnSet(Held, LiveRows(r)) \in Nat /\ SumFunctionOnSet(Filed, Returns(r, "PENDING")) \in Nat
  BY <1>1, <1>2, <1>3, SumNat
<1> QED BY <1>1, <1>2, <1>3, <1>4, OutIs, AwaitingIs

LEMMA MeasuresTypedNext ==
  TypeOK' => \A r \in Reservation : Out(r)' \in Nat /\ Awaiting(r)' \in Nat
<1>1. (TypeOK => \A r \in Reservation : Out(r) \in Nat /\ Awaiting(r) \in Nat)'
  <2>1. TypeOK => \A r \in Reservation : Out(r) \in Nat /\ Awaiting(r) \in Nat
    BY MeasuresTyped
  <2> QED BY <2>1, PTL
<1> QED BY <1>1

LEMMA OutSame ==
  ASSUME UNCHANGED alloc
  PROVE  \A r : Out(r)' = Out(r)
<1>1. Held' = Held /\ \A r : LiveRows(r)' = LiveRows(r)
  BY DEF Held, LiveRows
<1> QED BY <1>1, OutIs, OutIsNext

LEMMA AwaitingSame ==
  ASSUME UNCHANGED ret
  PROVE  \A r : Awaiting(r)' = Awaiting(r)
<1>1. Filed' = Filed /\ \A r : Returns(r, "PENDING")' = Returns(r, "PENDING")
  BY DEF Filed, Returns
<1> QED BY <1>1, AwaitingIs, AwaitingIsNext

(* A row written for r adds its quantity to what is out to r.              *)
LEMMA OutGrows ==
  ASSUME TypeOK, NEW r \in Reservation, NEW q \in Nat, NEW i \in AllocId, alloc[i].state = "unused",
         alloc' = [alloc EXCEPT ![i] = [of |-> r, qty |-> q, state |-> "live"]]
  PROVE  \A o \in Reservation : Out(o)' = IF o = r THEN Out(o) + q ELSE Out(o)
<1> TAKE o \in Reservation
<1> DEFINE f == Held
           g == Held'
           S == LiveRows(o)
           new == IF o = r THEN S \union {i} ELSE S
<1>1. /\ i \notin S /\ S \subseteq AllocId /\ IsFiniteSet(S)
      /\ \A j \in AllocId : f[j] \in Nat
  BY MeasuresTyped DEF LiveRows
<1>2. alloc'[i] = [of |-> r, qty |-> q, state |-> "live"] /\ \A j \in AllocId \ {i} : alloc'[j] = alloc[j]
  BY DEF TypeOK
<1>3. g[i] = q /\ \A j \in AllocId \ {i} : g[j] = f[j]
  BY <1>2 DEF Held
<1>4. LiveRows(o)' = new
  BY <1>2 DEF LiveRows
<1>5. Out(o) = SumFunctionOnSet(f, S) /\ Out(o)' = SumFunctionOnSet(g, new)
  BY <1>4, OutIs, OutIsNext
<1> HIDE DEF f, g, S
<1>6. SumFunctionOnSet(g, S) = SumFunctionOnSet(f, S)
  BY <1>1, <1>3, SumSame
<1>7. CASE o = r
  <2>1. /\ IsFiniteSet(new) /\ i \in new /\ new \ {i} = S
        /\ \A j \in new : g[j] \in Int
    BY <1>1, <1>3, <1>7, FS_AddElement
  <2>2. SumFunctionOnSet(g, new) = g[i] + SumFunctionOnSet(g, S)
    <3>1. SumFunctionOnSet(g, new) = g[i] + SumFunctionOnSet(g, new \ {i})
      BY <2>1, SumWithout
    <3> QED BY <2>1, <3>1
  <2>3. SumFunctionOnSet(f, S) \in Int
    BY <1>1, SumInt
  <2> QED BY <1>3, <1>5, <1>6, <1>7, <2>2, <2>3
<1>8. CASE o # r
  BY <1>5, <1>6, <1>8
<1> QED BY <1>7, <1>8

(* A return filed for r adds its quantity to what is to come back of r.    *)
LEMMA AwaitingGrows ==
  ASSUME TypeOK, NEW r \in Reservation, NEW q \in Nat, NEW i \in ReturnId, ret[i].status = "unused",
         ret' = [ret EXCEPT ![i] = [of |-> r, qty |-> q, status |-> "PENDING"]]
  PROVE  \A o \in Reservation : Awaiting(o)' = IF o = r THEN Awaiting(o) + q ELSE Awaiting(o)
<1> TAKE o \in Reservation
<1> DEFINE f == Filed
           g == Filed'
           S == Returns(o, "PENDING")
           new == IF o = r THEN S \union {i} ELSE S
<1>1. /\ i \notin S /\ S \subseteq ReturnId /\ IsFiniteSet(S)
      /\ \A j \in ReturnId : f[j] \in Nat
  BY MeasuresTyped DEF Returns
<1>2. ret'[i] = [of |-> r, qty |-> q, status |-> "PENDING"] /\ \A j \in ReturnId \ {i} : ret'[j] = ret[j]
  BY DEF TypeOK
<1>3. g[i] = q /\ \A j \in ReturnId \ {i} : g[j] = f[j]
  BY <1>2 DEF Filed
<1>4. Returns(o, "PENDING")' = new
  BY <1>2 DEF Returns
<1>5. Awaiting(o) = SumFunctionOnSet(f, S) /\ Awaiting(o)' = SumFunctionOnSet(g, new)
  BY <1>4, AwaitingIs, AwaitingIsNext
<1> HIDE DEF f, g, S
<1>6. SumFunctionOnSet(g, S) = SumFunctionOnSet(f, S)
  BY <1>1, <1>3, SumSame
<1>7. CASE o = r
  <2>1. /\ IsFiniteSet(new) /\ i \in new /\ new \ {i} = S
        /\ \A j \in new : g[j] \in Int
    BY <1>1, <1>3, <1>7, FS_AddElement
  <2>2. SumFunctionOnSet(g, new) = g[i] + SumFunctionOnSet(g, S)
    <3>1. SumFunctionOnSet(g, new) = g[i] + SumFunctionOnSet(g, new \ {i})
      BY <2>1, SumWithout
    <3> QED BY <2>1, <3>1
  <2>3. SumFunctionOnSet(f, S) \in Int
    BY <1>1, SumInt
  <2> QED BY <1>3, <1>5, <1>6, <1>7, <2>2, <2>3
<1>8. CASE o # r
  BY <1>5, <1>6, <1>8
<1> QED BY <1>7, <1>8

(* A return called off takes what it was filed for off it again.           *)
LEMMA AwaitingShrinks ==
  ASSUME TypeOK, NEW i \in ReturnId, ret' = [ret EXCEPT ![i].status = "CANCELLED"]
  PROVE  \A o \in Reservation : Awaiting(o)' <= Awaiting(o)
<1> TAKE o \in Reservation
<1> DEFINE f == Filed
           S == Returns(o, "PENDING")
<1>1. /\ S \subseteq ReturnId /\ IsFiniteSet(S) /\ IsFiniteSet(S \ {i})
      /\ \A j \in ReturnId : f[j] \in Nat
  BY MeasuresTyped, FS_Subset
<1>2. /\ ret'[i].status = "CANCELLED"
      /\ \A j \in ReturnId : ret'[j].of = ret[j].of /\ ret'[j].qty = ret[j].qty
      /\ \A j \in ReturnId \ {i} : ret'[j] = ret[j]
  BY DEF TypeOK, ReturnRow
<1>3. Filed' = f /\ Returns(o, "PENDING")' = S \ {i}
  BY <1>2 DEF Filed, Returns
<1>4. Awaiting(o) = SumFunctionOnSet(f, S) /\ Awaiting(o)' = SumFunctionOnSet(f, S \ {i})
  BY <1>3, AwaitingIs, AwaitingIsNext
<1> HIDE DEF f, S
<1>5. SumFunctionOnSet(f, S \ {i}) \in Nat
  BY <1>1, SumNat
<1>6. CASE i \in S
  <2>1. SumFunctionOnSet(f, S) = f[i] + SumFunctionOnSet(f, S \ {i})
    BY <1>1, <1>6, SumWithout
  <2>2. f[i] \in Nat
    BY <1>1, <1>6
  <2> QED BY <1>4, <1>5, <2>1, <2>2
<1>7. CASE i \notin S
  <2>1. S \ {i} = S
    BY <1>7
  <2> QED BY <1>4, <1>5, <2>1
<1> QED BY <1>6, <1>7

-----------------------------------------------------------------------------
(* Handing out, accepting and filing: while nothing is received, taken     *)
(* back or closed, a reservation's measures only meet.                     *)
Forward == Ops \subseteq {"approve", "accept", "file", "callOff"}

(* "ALLOCATED" and "COMPLETED" say that everything asked for is out.       *)
ClaimInv == \A r \in Reservation :
  /\ res[r].status \in Status \ {"CANCELLED", "REJECTED"}
  /\ Awaiting(r) <= Out(r) /\ res[r].accepted <= Out(r) /\ Out(r) <= res[r].quantity
  /\ res[r].status \in {"ALLOCATED", "COMPLETED"} => Out(r) >= res[r].quantity

(* What a handler has measured still holds: an acceptance of goods that    *)
(* are out, since they stay out; what was outstanding, for it only falls;  *)
(* and, under the reservation's lock, room for an issue or a return.       *)
Measured(g) ==
  job[g] # None =>
    /\ job[g].op # "callOff" => job[g].q >= 1
    /\ job[g].op = "approve" => job[g].n >= res[job[g].r].quantity - Out(job[g].r)
    /\ job[g].op = "approve" /\ job[g].stage = "open" => Out(job[g].r) + job[g].q <= res[job[g].r].quantity
    /\ job[g].op = "accept" /\ job[g].n > 0 =>
         job[g].pre.accepted + job[g].q <= Out(job[g].r) /\ job[g].pre.quantity = res[job[g].r].quantity
    /\ job[g].op = "file" /\ job[g].stage = "open" =>
         locks[g] = {job[g].r} /\ Awaiting(job[g].r) + job[g].q <= Out(job[g].r)

NothingBack == \A i \in ReturnId : ret[i].status # "RECEIVED"

ForwardInv == IInv /\ NothingBack /\ ClaimInv /\ \A g \in Handler : Measured(g)

(* The other handlers' measures: what is out only grows, and whoever holds *)
(* a reservation's lock sees nobody else write what they measured.         *)
LEMMA OthersMeasured ==
  ASSUME TypeOK, TypeOK', NEW g \in Handler, Measured(g),
         job'[g] = job[g], locks'[g] = locks[g],
         \A r \in Reservation : Out(r) <= Out(r)' /\ res'[r].quantity = res[r].quantity,
         \A r \in Reservation : Doing(g, "approve", "open") /\ r = job[g].r => Out(r)' = Out(r),
         \A r \in Reservation : Doing(g, "file", "open") /\ r = job[g].r => Awaiting(r)' <= Awaiting(r)
  PROVE  Measured(g)'
<1> SUFFICES ASSUME job[g] # None PROVE Measured(g)'
  BY DEF Measured
<1>1. PICK j : j = job[g]
  OBVIOUS
<1>2. j \in Job /\ job'[g] = j
  BY <1>1 DEF TypeOK
<1>3. PICK r \in Reservation : r = j.r
  BY <1>2 DEF Job
<1>4. /\ Out(r) \in Nat /\ Awaiting(r) \in Nat /\ Out(r)' \in Nat /\ Awaiting(r)' \in Nat
      /\ j.q \in Nat /\ j.n \in Int /\ j.pre.accepted \in Int
      /\ res[r].quantity \in Int /\ res'[r].quantity = res[r].quantity /\ Out(r) <= Out(r)'
  BY <1>2, MeasuresTyped, MeasuresTypedNext DEF Job, TypeOK, ResRow
<1>5. /\ j.op = "approve" /\ j.stage = "open" => Out(r)' = Out(r)
      /\ j.op = "file" /\ j.stage = "open" => Awaiting(r)' <= Awaiting(r)
  BY <1>1, <1>3 DEF Doing
<1>6. /\ j.op # "callOff" => j.q >= 1
      /\ j.op = "approve" => j.n >= res[r].quantity - Out(r)
      /\ j.op = "approve" /\ j.stage = "open" => Out(r) + j.q <= res[r].quantity
      /\ j.op = "accept" /\ j.n > 0 => j.pre.accepted + j.q <= Out(r) /\ j.pre.quantity = res[r].quantity
      /\ j.op = "file" /\ j.stage = "open" => locks[g] = {r} /\ Awaiting(r) + j.q <= Out(r)
  BY <1>1, <1>3 DEF Measured
<1>7. j.op = "approve" => j.n >= res'[r].quantity - Out(r)'
  BY <1>4, <1>6
<1>8. j.op = "approve" /\ j.stage = "open" => Out(r)' + j.q <= res'[r].quantity
  BY <1>4, <1>5, <1>6
<1>9. j.op = "accept" /\ j.n > 0 => j.pre.accepted + j.q <= Out(r)' /\ j.pre.quantity = res'[r].quantity
  BY <1>4, <1>6
<1>10. j.op = "file" /\ j.stage = "open" => locks'[g] = {r} /\ Awaiting(r)' + j.q <= Out(r)'
  BY <1>4, <1>5, <1>6
<1>11. r = job'[g].r
  BY <1>2, <1>3
<1> QED BY <1>2, <1>6, <1>7, <1>8, <1>9, <1>10, <1>11 DEF Measured

(* A step that writes neither rows nor a reservation.                      *)
LEMMA ReadingKeeps ==
  ASSUME ForwardInv, IInv', NEW h \in Handler, Shape(h), UNCHANGED <<res, alloc, ret>>, Measured(h)'
  PROVE  ForwardInv'
<1>1. \A r \in Reservation : /\ Out(r)' = Out(r) /\ Awaiting(r)' = Awaiting(r)
                             /\ Out(r) \in Nat /\ Awaiting(r) \in Nat
  BY OutSame, AwaitingSame, MeasuresTyped DEF ForwardInv, IInv
<1>2. ClaimInv' /\ NothingBack'
  BY <1>1 DEF ForwardInv, ClaimInv, NothingBack
<1>3. \A g \in Handler \ {h} : job'[g] = job[g] /\ locks'[g] = locks[g]
  BY DEF Shape
<1>4. ASSUME NEW g \in Handler \ {h} PROVE Measured(g)'
  BY <1>1, <1>3, OthersMeasured DEF ForwardInv, IInv
<1> QED BY <1>2, <1>4 DEF ForwardInv

(* What a request finds when it is looked at first.                        *)
LEMMA AcceptedMeasured ==
  ASSUME TypeOK, NEW h \in Handler, NEW op \in {"approve", "accept", "file", "callOff"}, NEW r \in Reservation,
         NEW id, NEW q \in Nat, NEW n \in Int, Accepted(h, op, r, id, q, n), UNCHANGED <<res, alloc, ret>>,
         op # "callOff" => q >= 1,
         op = "approve" => n >= res[r].quantity - Out(r),
         op = "accept" => n = 0
  PROVE  Measured(h)'
<1>1. PICK j : j = [op |-> op, stage |-> "checked", r |-> r, id |-> id, q |-> q, n |-> n,
                    pre |-> res[r], rows |-> NoRows]
  OBVIOUS
<1>2. job'[h] = j
  BY <1>1 DEF Accepted, TypeOK
<1>3. j.op = op /\ j.stage = "checked" /\ j.r = r /\ j.q = q /\ j.n = n
  BY <1>1
<1>4. Out(r)' = Out(r)
  BY OutSame
<1>5. /\ job'[h].op = op /\ job'[h].stage = "checked" /\ job'[h].r = r /\ job'[h].q = q /\ job'[h].n = n
  BY <1>2, <1>3
<1>6. op = "approve" => n >= res'[r].quantity - Out(r)'
  BY <1>4
<1>7. op = "accept" => ~(n > 0)
  OBVIOUS
<1> QED BY <1>5, <1>6, <1>7 DEF Measured

LEMMA FinishedMeasured ==
  ASSUME TypeOK, NEW h \in Handler, Finished(h)
  PROVE  Measured(h)' /\ \A g \in Handler \ {h} : job'[g] = job[g] /\ locks'[g] = locks[g]
<1>1. job'[h] = None /\ \A g \in Handler \ {h} : job'[g] = job[g] /\ locks'[g] = locks[g]
  BY DEF Finished, TypeOK
<1> QED BY <1>1 DEF Measured

(* Under the reservation's lock the need is measured anew.                 *)
LEMMA OpenedMeasured ==
  ASSUME ForwardInv, IInv', NEW h \in Handler, ApproveMeasure(h) \/ FileMeasure(h)
  PROVE  Measured(h)'
<1>1. PICK j : j = job[h]
  OBVIOUS
<1>2. j \in Job /\ j # None /\ j.stage = "checked" /\ j.op \in {"approve", "file"}
      /\ (j.op = "approve" => ApproveMeasure(h)) /\ (j.op = "file" => FileMeasure(h))
  BY <1>1 DEF ApproveMeasure, FileMeasure, Doing, ForwardInv, IInv, TypeOK
<1>3. PICK r \in Reservation : r = j.r
  BY <1>2 DEF Job
<1>4. /\ UNCHANGED <<res, alloc, ret>>
      /\ job'[h] = [j EXCEPT !.stage = "open", !.rows = NoRows]
      /\ j.op = "file" => locks'[h] = {r}
  BY <1>1, <1>2, <1>3 DEF ApproveMeasure, FileMeasure, Opened, ForwardInv, IInv, TypeOK
<1>5. /\ job'[h].op = j.op /\ job'[h].stage = "open" /\ job'[h].r = r /\ job'[h].q = j.q /\ job'[h].n = j.n
  BY <1>2, <1>3, <1>4 DEF Job
<1>6. /\ Out(r)' = Out(r) /\ Awaiting(r)' = Awaiting(r) /\ Out(r) \in Nat /\ Awaiting(r) \in Nat
      /\ Returned(r) = 0 /\ res[r].quantity \in Int /\ j.q \in Nat
  <2>1. TypeOK /\ Returns(r, "RECEIVED") = {}
    BY DEF ForwardInv, IInv, NothingBack, Returns
  <2>2. res[r].quantity \in Int /\ j.q \in Nat
    BY <1>2, <2>1 DEF TypeOK, ResRow, Job
  <2> QED BY <1>4, <2>1, <2>2, OutSame, AwaitingSame, MeasuresTyped, ReturnedIs
<1>7. j.q >= 1 /\ (j.op = "approve" => j.n >= res[r].quantity - Out(r))
  BY <1>1, <1>2, <1>3 DEF ForwardInv, Measured
<1>8. j.op = "approve" => Out(r)' + j.q <= res'[r].quantity
  <2>1. j.op = "approve" => Out(r) + Returned(r) + j.q <= res[r].quantity
    BY <1>1, <1>2, <1>3 DEF ApproveMeasure, Issued
  <2> QED BY <1>4, <1>6, <2>1
<1>9. j.op = "file" => Awaiting(r)' + j.q <= Out(r)'
  <2>1. j.op = "file" => j.q <= AtLeastZero(Out(r) - Awaiting(r))
    BY <1>1, <1>2, <1>3 DEF FileMeasure, Returnable
  <2> QED BY <1>6, <1>7, <2>1 DEF AtLeastZero
<1>10. j.op = "approve" => j.n >= res'[r].quantity - Out(r)'
  BY <1>4, <1>6, <1>7
<1> QED BY <1>2, <1>4, <1>5, <1>7, <1>8, <1>9, <1>10 DEF Measured

(* The row that is written next is an unused one.                          *)
LEMMA NextIsUnused ==
  /\ Unused # {} => NextRow \in Unused
  /\ UnusedReturns # {} => NextReturn \in UnusedReturns
<1>1. ASSUME NEW n \in Nat, NEW S \in SUBSET (1..n), S # {} PROVE Min(S) \in S
  BY <1>1, LeastOf DEF Min
<1>2. Unused \in SUBSET (1..MaxAlloc) /\ UnusedReturns \in SUBSET (1..MaxReturn)
  BY DEF Unused, UnusedReturns, AllocId, ReturnId
<1> QED BY <1>1, <1>2, BoundsAreNumbers DEF NextRow, NextReturn

(* An approval hands out no more than was wanting, and says ALLOCATED only *)
(* if that was everything.                                                 *)
LEMMA ApproveKeeps ==
  ASSUME ForwardInv, IInv', NEW h \in Handler, ApproveCommit(h)
  PROVE  ForwardInv'
<1>1. PICK j : j = job[h]
  OBVIOUS
<1>2. /\ j \in Job /\ j # None /\ j.stage = "open" /\ j.op = "approve" /\ Doing(h, "approve", "open")
      /\ TypeOK /\ TypeOK' /\ UNCHANGED ret /\ Finished(h)
      /\ locks[h] = ApproveLocks(j.r)
  BY <1>1 DEF ApproveCommit, Doing, ForwardInv, IInv, TypeOK, ApprovalHolds
<1>3. PICK r \in Reservation, q \in Nat : r = j.r /\ q = j.q
  BY <1>2 DEF Job
<1>4. PICK i \in AllocId : i = NextRow /\ alloc[i].state = "unused"
  BY <1>1, NextIsUnused DEF ApproveCommit, Unused
<1>5. alloc' = [alloc EXCEPT ![i] = [of |-> r, qty |-> q, state |-> "live"]]
  BY <1>1, <1>3, <1>4 DEF ApproveCommit
<1>6. \A o \in Reservation : /\ Out(o)' = IF o = r THEN Out(o) + q ELSE Out(o)
                             /\ Awaiting(o)' = Awaiting(o)
                             /\ Out(o) \in Nat /\ Awaiting(o) \in Nat /\ Out(o)' \in Nat
                             /\ res[o].quantity \in Int /\ res[o].accepted \in Int
  BY <1>2, <1>4, <1>5, OutGrows, AwaitingSame, MeasuresTyped, MeasuresTypedNext DEF TypeOK, ResRow
<1>7. q >= 1 /\ j.n \in Int /\ j.n >= res[r].quantity - Out(r) /\ Out(r) + q <= res[r].quantity
  BY <1>1, <1>2, <1>3 DEF ForwardInv, Measured, Job
<1>8. \A o \in Reservation : /\ res'[o].quantity = res[o].quantity /\ res'[o].accepted = res[o].accepted
                             /\ o # r => res'[o] = res[o]
                             /\ o = r => res'[o].status = IF q < j.n THEN "PARTIALLY_ALLOCATED" ELSE "ALLOCATED"
  BY <1>1, <1>2, <1>3 DEF ApproveCommit, TypeOK, ResRow
<1>9. ClaimInv'
  <2> SUFFICES ASSUME NEW o \in Reservation
               PROVE  /\ res'[o].status \in Status \ {"CANCELLED", "REJECTED"}
                      /\ Awaiting(o)' <= Out(o)' /\ res'[o].accepted <= Out(o)' /\ Out(o)' <= res'[o].quantity
                      /\ res'[o].status \in {"ALLOCATED", "COMPLETED"} => Out(o)' >= res'[o].quantity
    BY DEF ClaimInv
  <2>1. /\ Awaiting(o) <= Out(o) /\ res[o].accepted <= Out(o) /\ Out(o) <= res[o].quantity
        /\ res[o].status \in Status \ {"CANCELLED", "REJECTED"}
        /\ res[o].status \in {"ALLOCATED", "COMPLETED"} => Out(o) >= res[o].quantity
    BY DEF ForwardInv, ClaimInv
  <2>2. CASE o = r
    <3>1. Out(r)' = Out(r) + q
      BY <1>6
    <3>2. res'[r].status \in {"PARTIALLY_ALLOCATED", "ALLOCATED"}
      BY <1>8
    <3>3. res'[r].status = "ALLOCATED" => q >= j.n
      BY <1>3, <1>7, <1>8
    <3> QED BY <1>6, <1>7, <1>8, <2>1, <2>2, <3>1, <3>2, <3>3 DEF Status
  <2>3. CASE o # r
    BY <1>6, <1>8, <2>1, <2>3
  <2> QED BY <2>2, <2>3
<1>10. ASSUME NEW g \in Handler \ {h} PROVE Measured(g)'
  <2>1. \A o \in Reservation : Out(o) <= Out(o)' /\ res'[o].quantity = res[o].quantity
    BY <1>6, <1>8
  <2>2. \A o \in Reservation : Doing(g, "approve", "open") /\ o = job[g].r => Out(o)' = Out(o)
    <3> SUFFICES ASSUME NEW o \in Reservation, Doing(g, "approve", "open"), o = job[g].r
                 PROVE  o # r
      BY <1>6
    <3>1. locks[g] = ApproveLocks(o)
      BY DEF ForwardInv, IInv, ApprovalHolds
    <3>2. locks[g] \intersect locks[h] = {}
      BY DEF ForwardInv, IInv, LocksApart
    <3> QED BY <1>2, <3>1, <3>2 DEF ApproveLocks
  <2>3. \A o \in Reservation : Awaiting(o)' <= Awaiting(o)
    BY <1>6
  <2>4. Measured(g) /\ job'[g] = job[g] /\ locks'[g] = locks[g]
    BY <1>2, FinishedMeasured DEF ForwardInv
  <2> QED BY <1>2, <2>1, <2>2, <2>3, <2>4, OthersMeasured
<1>11. Measured(h)' /\ NothingBack'
  BY <1>2, FinishedMeasured DEF ForwardInv, NothingBack
<1> QED BY <1>9, <1>10, <1>11 DEF ForwardInv

(* A return is filed under the lock it was measured under.                 *)
LEMMA FileKeeps ==
  ASSUME ForwardInv, IInv', NEW h \in Handler, FileCommit(h)
  PROVE  ForwardInv'
<1>1. PICK j : j = job[h]
  OBVIOUS
<1>2. /\ j \in Job /\ j # None /\ j.stage = "open" /\ j.op = "file"
      /\ TypeOK /\ TypeOK' /\ UNCHANGED <<res, alloc>> /\ Finished(h)
  BY <1>1 DEF FileCommit, Doing, ForwardInv, IInv, TypeOK
<1>3. PICK r \in Reservation, q \in Nat : r = j.r /\ q = j.q
  BY <1>2 DEF Job
<1>4. PICK i \in ReturnId : i = NextReturn /\ ret[i].status = "unused"
  BY <1>1, NextIsUnused DEF FileCommit, UnusedReturns
<1>5. ret' = [ret EXCEPT ![i] = [of |-> r, qty |-> q, status |-> "PENDING"]]
  BY <1>1, <1>3, <1>4 DEF FileCommit
<1>6. \A o \in Reservation : /\ Awaiting(o)' = IF o = r THEN Awaiting(o) + q ELSE Awaiting(o)
                             /\ Out(o)' = Out(o)
                             /\ Out(o) \in Nat /\ Awaiting(o) \in Nat /\ Awaiting(o)' \in Nat
  BY <1>2, <1>4, <1>5, AwaitingGrows, OutSame, MeasuresTyped, MeasuresTypedNext
<1>7. locks[h] = {r} /\ Awaiting(r) + q <= Out(r)
  BY <1>1, <1>2, <1>3 DEF ForwardInv, Measured
<1>8. ClaimInv'
  <2> SUFFICES ASSUME NEW o \in Reservation PROVE Awaiting(o)' <= Out(o)'
    BY <1>2, <1>6 DEF ForwardInv, ClaimInv
  <2>1. Awaiting(o) <= Out(o)
    BY DEF ForwardInv, ClaimInv
  <2> QED BY <1>6, <1>7, <2>1
<1>9. ASSUME NEW g \in Handler \ {h} PROVE Measured(g)'
  <2>1. \A o \in Reservation : Out(o) <= Out(o)' /\ Out(o)' = Out(o) /\ res'[o].quantity = res[o].quantity
    BY <1>2, <1>6
  <2>2. \A o \in Reservation : Doing(g, "file", "open") /\ o = job[g].r => Awaiting(o)' <= Awaiting(o)
    <3> SUFFICES ASSUME NEW o \in Reservation, Doing(g, "file", "open"), o = job[g].r
                 PROVE  Awaiting(o)' <= Awaiting(o)
      OBVIOUS
    <3>1. locks[g] = {o}
      BY DEF ForwardInv, Measured, Doing
    <3>2. locks[g] \intersect locks[h] = {}
      BY DEF ForwardInv, IInv, LocksApart
    <3>3. o # r
      BY <1>7, <3>1, <3>2
    <3> QED BY <1>6, <3>3
  <2>3. Measured(g) /\ job'[g] = job[g] /\ locks'[g] = locks[g]
    BY <1>2, FinishedMeasured DEF ForwardInv
  <2> QED BY <1>2, <2>1, <2>2, <2>3, OthersMeasured
<1>10. NothingBack'
  <2>1. ret'[i].status = "PENDING" /\ \A k \in ReturnId \ {i} : ret'[k] = ret[k]
    BY <1>2, <1>5 DEF TypeOK
  <2> QED BY <2>1 DEF ForwardInv, NothingBack
<1> QED BY <1>2, <1>8, <1>9, <1>10, FinishedMeasured DEF ForwardInv

LEMMA CallOffKeeps ==
  ASSUME ForwardInv, IInv', NEW h \in Handler, CallOffCommit(h)
  PROVE  ForwardInv'
<1>1. PICK i : i = job[h].id
  OBVIOUS
<1>2. /\ TypeOK /\ TypeOK' /\ UNCHANGED <<res, alloc>> /\ Finished(h)
      /\ ret' = [ret EXCEPT ![i].status = "CANCELLED"]
  BY <1>1 DEF CallOffCommit, ForwardInv, IInv
<1>3. \A o \in Reservation : Awaiting(o)' <= Awaiting(o)
  <2>1. CASE i \in ReturnId
    BY <1>2, <2>1, AwaitingShrinks
  <2>2. CASE i \notin ReturnId
    <3>1. ret' = ret
      BY <1>2, <2>2 DEF TypeOK
    <3> QED BY <1>2, <3>1, AwaitingSame, MeasuresTyped
  <2> QED BY <2>1, <2>2
<1>4. \A o \in Reservation : /\ Out(o)' = Out(o) /\ Out(o) \in Nat /\ Awaiting(o) \in Nat /\ Awaiting(o)' \in Nat
  BY <1>2, OutSame, MeasuresTyped, MeasuresTypedNext
<1>5. ClaimInv'
  <2> SUFFICES ASSUME NEW o \in Reservation PROVE Awaiting(o)' <= Out(o)'
    BY <1>2, <1>4 DEF ForwardInv, ClaimInv
  <2>1. Awaiting(o) <= Out(o)
    BY DEF ForwardInv, ClaimInv
  <2> QED BY <1>3, <1>4, <2>1
<1>6. ASSUME NEW g \in Handler \ {h} PROVE Measured(g)'
  <2>1. \A o \in Reservation : Out(o) <= Out(o)' /\ Out(o)' = Out(o) /\ res'[o].quantity = res[o].quantity
    BY <1>2, <1>4
  <2>2. Measured(g) /\ job'[g] = job[g] /\ locks'[g] = locks[g]
    BY <1>2, FinishedMeasured DEF ForwardInv
  <2> QED BY <1>2, <1>3, <2>1, <2>2, OthersMeasured
<1>7. NothingBack'
  BY <1>2 DEF TypeOK, ReturnRow, ForwardInv, NothingBack
<1> QED BY <1>2, <1>5, <1>6, <1>7, FinishedMeasured DEF ForwardInv

(* An acceptance lands only on the acceptedQuantity it was measured with,  *)
(* and what was out then is still out.                                     *)
LEMMA AcceptKeeps ==
  ASSUME ForwardInv, IInv', NEW h \in Handler, AcceptLand(h)
  PROVE  ForwardInv'
<1>1. PICK j : j = job[h]
  OBVIOUS
<1>2. /\ j \in Job /\ j # None /\ j.op = "accept" /\ j.n > 0
      /\ TypeOK /\ TypeOK' /\ UNCHANGED <<alloc, ret>> /\ Finished(h)
  BY <1>1 DEF AcceptLand, Doing, ForwardInv, IInv, TypeOK
<1>3. PICK r \in Reservation : r = j.r
  BY <1>2 DEF Job
<1>4. PICK total \in Int : total = j.pre.accepted + j.q
  BY <1>2 DEF Job, ResRow
<1>5. \A o \in Reservation : /\ res'[o].quantity = res[o].quantity
                             /\ o # r => res'[o] = res[o]
                             /\ o = r => /\ res'[o].accepted = total
                                         /\ res'[o].status = IF total >= j.pre.quantity THEN "COMPLETED" ELSE res[o].status
  BY <1>1, <1>2, <1>3, <1>4 DEF AcceptLand, TypeOK, ResRow
<1>6. total <= Out(r) /\ j.pre.quantity = res[r].quantity
  BY <1>1, <1>2, <1>3, <1>4 DEF ForwardInv, Measured
<1>7. \A o \in Reservation : /\ Out(o)' = Out(o) /\ Awaiting(o)' = Awaiting(o) /\ Out(o) \in Nat /\ Awaiting(o) \in Nat
                             /\ res[o].quantity \in Int
  BY <1>2, OutSame, AwaitingSame, MeasuresTyped DEF TypeOK, ResRow
<1>8. ClaimInv'
  <2> SUFFICES ASSUME NEW o \in Reservation
               PROVE  /\ res'[o].status \in Status \ {"CANCELLED", "REJECTED"}
                      /\ Awaiting(o)' <= Out(o)' /\ res'[o].accepted <= Out(o)' /\ Out(o)' <= res'[o].quantity
                      /\ res'[o].status \in {"ALLOCATED", "COMPLETED"} => Out(o)' >= res'[o].quantity
    BY DEF ClaimInv
  <2>1. /\ Awaiting(o) <= Out(o) /\ res[o].accepted <= Out(o) /\ Out(o) <= res[o].quantity
        /\ res[o].status \in Status \ {"CANCELLED", "REJECTED"}
        /\ res[o].status \in {"ALLOCATED", "COMPLETED"} => Out(o) >= res[o].quantity
    BY DEF ForwardInv, ClaimInv
  <2>2. CASE o = r
    <3>1. total >= res[r].quantity => Out(r) >= res[r].quantity
      BY <1>6, <1>7
    <3>2. res'[r].accepted = total /\ res'[r].status = IF total >= res[r].quantity THEN "COMPLETED" ELSE res[r].status
      BY <1>5, <1>6
    <3> QED BY <1>5, <1>6, <1>7, <2>1, <2>2, <3>1, <3>2 DEF Status
  <2>3. CASE o # r
    BY <1>5, <1>7, <2>1, <2>3
  <2> QED BY <2>2, <2>3
<1>9. ASSUME NEW g \in Handler \ {h} PROVE Measured(g)'
  <2>1. \A o \in Reservation : /\ Out(o) <= Out(o)' /\ Out(o)' = Out(o) /\ Awaiting(o)' <= Awaiting(o)
                               /\ res'[o].quantity = res[o].quantity
    BY <1>5, <1>7
  <2>2. Measured(g) /\ job'[g] = job[g] /\ locks'[g] = locks[g]
    BY <1>2, FinishedMeasured DEF ForwardInv
  <2> QED BY <1>2, <2>1, <2>2, OthersMeasured
<1> QED BY <1>2, <1>8, <1>9, FinishedMeasured DEF ForwardInv, NothingBack

LEMMA ReadsKeep ==
  ASSUME ForwardInv, IInv', NEW h \in Handler, Shape(h),
         \/ \E r \in Reservation, q \in Qty : ApproveCheck(h, r, q) \/ AcceptCheck(h, r, q) \/ FileCheck(h, r, q)
         \/ \E r \in Reservation, i \in ReturnId : CallOffCheck(h, r, i)
         \/ ApproveMeasure(h) \/ FileMeasure(h) \/ AcceptMeasure(h)
  PROVE  ForwardInv'
<1>1. ASSUME NEW r \in Reservation, NEW q \in Qty, ApproveCheck(h, r, q)
      PROVE  ForwardInv'
  <2>1. /\ Accepted(h, "approve", r, None, q, OutstandingToIssue(r)) /\ UNCHANGED <<res, alloc, ret>>
        /\ q \in Nat /\ q >= 1 /\ TypeOK
    BY <1>1, BoundsAreNumbers DEF ApproveCheck, Qty, ForwardInv, IInv
  <2>2. OutstandingToIssue(r) \in Int /\ OutstandingToIssue(r) >= res[r].quantity - Out(r)
    <3>1. Returned(r) = 0 /\ Out(r) \in Nat /\ res[r].quantity \in Int
      <4>1. Returns(r, "RECEIVED") = {}
        BY DEF ForwardInv, NothingBack, Returns
      <4> QED BY <2>1, <4>1, ReturnedIs, MeasuresTyped DEF TypeOK, ResRow
    <3> QED BY <3>1 DEF OutstandingToIssue, Issued, AtLeastZero
  <2>3. PICK n \in Int : n = OutstandingToIssue(r)
    BY <2>2
  <2>4. Measured(h)'
    BY <2>1, <2>2, <2>3, AcceptedMeasured
  <2> QED BY <2>1, <2>4, ReadingKeeps
<1>2. ASSUME NEW r \in Reservation, NEW q \in Qty, NEW op \in {"accept", "file"},
             Accepted(h, op, r, None, q, 0), UNCHANGED <<res, alloc, ret>>
      PROVE  ForwardInv'
  <2>1. q \in Nat /\ q >= 1 /\ TypeOK
    BY BoundsAreNumbers DEF Qty, ForwardInv, IInv
  <2>2. Measured(h)'
    BY <1>2, <2>1, AcceptedMeasured
  <2> QED BY <1>2, <2>2, ReadingKeeps
<1>3. ASSUME NEW r \in Reservation, NEW i \in ReturnId, CallOffCheck(h, r, i)
      PROVE  ForwardInv'
  <2>1. TypeOK /\ ret[i].qty \in Nat
    BY DEF ForwardInv, IInv, TypeOK, ReturnRow
  <2>2. Accepted(h, "callOff", r, i, ret[i].qty, 0) /\ UNCHANGED <<res, alloc, ret>>
    BY <1>3 DEF CallOffCheck
  <2>3. PICK q \in Nat : q = ret[i].qty
    BY <2>1
  <2>4. Measured(h)'
    BY <2>1, <2>2, <2>3, AcceptedMeasured
  <2> QED BY <2>2, <2>4, ReadingKeeps
<1>4. CASE ApproveMeasure(h) \/ FileMeasure(h)
  <2>1. UNCHANGED <<res, alloc, ret>>
    BY <1>4 DEF ApproveMeasure, FileMeasure
  <2> QED BY <1>4, <2>1, OpenedMeasured, ReadingKeeps
<1>5. CASE AcceptMeasure(h)
  <2>1. PICK j : j = job[h]
    OBVIOUS
  <2>2. /\ j \in Job /\ j # None /\ j.op = "accept" /\ j.stage = "checked" /\ TypeOK
        /\ UNCHANGED <<res, alloc, ret>>
    BY <1>5, <2>1 DEF AcceptMeasure, Doing, ForwardInv, IInv, TypeOK
  <2>3. PICK r \in Reservation : r = j.r
    BY <2>2 DEF Job
  <2>4. PICK b : b = [j EXCEPT !.n = j.n + 1, !.pre = res[r]]
    OBVIOUS
  <2>5. job'[h] = b
    BY <1>5, <2>1, <2>2, <2>3, <2>4 DEF AcceptMeasure, TypeOK
  <2>6. b.op = "accept" /\ b.stage = "checked" /\ b.r = r /\ b.q = j.q /\ b.pre = res[r]
    BY <2>2, <2>3, <2>4 DEF Job
  <2>7. /\ j.q <= Out(r) - res[r].accepted /\ Out(r)' = Out(r)
        /\ j.q \in Nat /\ res[r].accepted \in Int /\ Out(r) \in Nat
    BY <1>5, <2>1, <2>2, <2>3, OutSame, MeasuresTyped DEF AcceptMeasure, TypeOK, ResRow, Job
  <2>8. j.q >= 1
    BY <2>1, <2>2 DEF ForwardInv, Measured
  <2>9. b.pre.accepted + b.q <= Out(r)' /\ b.pre.quantity = res'[r].quantity /\ b.q >= 1
    BY <2>2, <2>6, <2>7, <2>8
  <2>10. Measured(h)'
    BY <2>5, <2>6, <2>9 DEF Measured
  <2> QED BY <2>2, <2>10, ReadingKeeps
<1>6. ASSUME NEW r \in Reservation, NEW q \in Qty, AcceptCheck(h, r, q) \/ FileCheck(h, r, q)
      PROVE  ForwardInv'
  BY <1>2, <1>6 DEF AcceptCheck, FileCheck
<1> QED BY <1>1, <1>3, <1>4, <1>5, <1>6

(* With these operations only, these are the steps.                        *)
LEMMA ForwardSteps ==
  ASSUME Forward, TypeOK, NEW h \in Handler, IssueStep(h) \/ ReturnStep(h) \/ Abort(h)
  PROVE  \/ \E r \in Reservation, q \in Qty : ApproveCheck(h, r, q) \/ AcceptCheck(h, r, q) \/ FileCheck(h, r, q)
         \/ \E r \in Reservation, i \in ReturnId : CallOffCheck(h, r, i)
         \/ ApproveMeasure(h) \/ FileMeasure(h) \/ AcceptMeasure(h)
         \/ ApproveCommit(h) \/ FileCommit(h) \/ CallOffCommit(h) \/ AcceptLand(h) \/ Abort(h)
<1>1. job[h] # None => job[h].op \in {"approve", "accept", "file", "callOff"}
  BY DEF Forward, TypeOK, Job
<1>2. ASSUME NEW op \in Ops
      PROVE  ~ReclaimRead(h, op) /\ ~ReclaimCommit(h, op) /\ ~CloseRead(h, op) /\ ~CloseCommit(h, op)
  BY <1>2 DEF Forward, ReclaimRead, ReclaimCommit, CloseRead, CloseCommit, Closing
<1>3. ~UncancelCommit(h) /\ ~ReleaseCommit(h) /\ ~ReceiveMeasure(h) /\ ~ReceiveCommit(h)
      /\ ~HandBackCommit(h) /\ ~RemoveCommit(h)
  BY <1>1 DEF UncancelCommit, ReleaseCommit, ReceiveMeasure, ReceiveCommit, HandBackCommit, RemoveCommit, Doing
<1>4. ASSUME NEW r \in Reservation
      PROVE  /\ ~UncancelCheck(h, r)
             /\ \A q \in Qty, op \in Ops : ~ReclaimCheck(h, r, q, op)
             /\ \A op \in Ops : ~CloseCheck(h, r, op)
             /\ \A i \in AllocId : ~ReleaseCheck(h, r, i) /\ ~RemoveCheck(h, r, i)
             /\ \A i \in AllocId, q \in Qty : ~HandBackRead(h, r, i, q)
             /\ \A i \in ReturnId : ~ReceiveCheck(h, r, i)
  BY DEF Forward, UncancelCheck, ReclaimCheck, CloseCheck, Closing, ReleaseCheck, RemoveCheck, HandBackRead, ReceiveCheck
<1>5. CASE IssueStep(h)
  BY <1>2, <1>3, <1>4, <1>5 DEF IssueStep
<1>6. CASE ReturnStep(h)
  BY <1>3, <1>4, <1>6 DEF ReturnStep
<1> QED BY <1>5, <1>6

LEMMA ForwardStart == Init => ForwardInv
<1> SUFFICES ASSUME Init PROVE ForwardInv
  OBVIOUS
<1>1. IInv
  BY InitInv
<1>2. NothingBack /\ \A g \in Handler : Measured(g)
  BY DEF Init, NothingBack, NoReturn, Measured
<1>3. ASSUME NEW r \in Reservation PROVE Out(r) = 0 /\ Awaiting(r) = 0
  <2>1. LiveRows(r) = {} /\ Returns(r, "PENDING") = {}
    BY DEF Init, LiveRows, Returns, NoAlloc, NoReturn
  <2> QED BY <2>1, OutIs, AwaitingIs, SumOfNone
<1>4. \A r \in Reservation : /\ res[r].status \in {"PENDING", "APPROVED"} /\ res[r].accepted = 0
                             /\ res[r].quantity \in Nat
  BY BoundsAreNumbers DEF Init, Qty
<1>5. ClaimInv
  BY <1>3, <1>4 DEF ClaimInv, Status
<1> QED BY <1>1, <1>2, <1>5 DEF ForwardInv

LEMMA ForwardKept ==
  ASSUME Forward, ForwardInv, [Next]_vars
  PROVE  ForwardInv'
<1>1. IInv'
  BY InvKept DEF ForwardInv
<1>2. CASE UNCHANGED vars
  <2>1. \A r \in Reservation : Out(r)' = Out(r) /\ Awaiting(r)' = Awaiting(r)
    BY <1>2, OutSame, AwaitingSame DEF vars
  <2>2. ClaimInv' /\ NothingBack'
    BY <1>2, <2>1 DEF vars, ForwardInv, ClaimInv, NothingBack
  <2>3. ASSUME NEW g \in Handler PROVE Measured(g)'
    <3>1. \A r \in Reservation : Out(r) \in Nat /\ Awaiting(r) \in Nat
      BY MeasuresTyped DEF ForwardInv, IInv
    <3>2. TypeOK /\ TypeOK' /\ Measured(g) /\ UNCHANGED <<res, job, locks>>
      BY <1>1, <1>2 DEF ForwardInv, IInv, vars
    <3> QED BY <2>1, <3>1, <3>2, OthersMeasured
  <2> QED BY <1>1, <2>2, <2>3 DEF ForwardInv
<1>3. ASSUME NEW h \in Handler, IssueStep(h) \/ ReturnStep(h) \/ Abort(h)
      PROVE  ForwardInv'
  <2>1. TypeOK /\ Shape(h)
    BY <1>3, StepShape DEF ForwardInv, IInv
  <2>2. CASE Abort(h)
    BY <1>1, <2>1, <2>2, FinishedMeasured, ReadingKeeps DEF Abort
  <2>3. CASE ApproveCommit(h) \/ FileCommit(h) \/ CallOffCommit(h) \/ AcceptLand(h)
    BY <1>1, <2>3, ApproveKeeps, FileKeeps, CallOffKeeps, AcceptKeeps
  <2>4. CASE \/ \E r \in Reservation, q \in Qty : ApproveCheck(h, r, q) \/ AcceptCheck(h, r, q) \/ FileCheck(h, r, q)
             \/ \E r \in Reservation, i \in ReturnId : CallOffCheck(h, r, i)
             \/ ApproveMeasure(h) \/ FileMeasure(h) \/ AcceptMeasure(h)
    BY <1>1, <2>1, <2>4, ReadsKeep
  <2> QED BY <1>3, <2>1, <2>2, <2>3, <2>4, ForwardSteps
<1> QED BY <1>2, <1>3 DEF Next

(* However many requests hand out, accept, file and call off at once:      *)
(* nobody has confirmed holding, or filed to hand back, goods that are not *)
(* out to them.                                                            *)
THEOREM ClaimsAlwaysOut ==
  ASSUME Forward
  PROVE  Spec => []ClaimsAreOut
<1>1. ForwardInv => ClaimsAreOut
  BY DEF ForwardInv, ClaimInv, ClaimsAreOut, ReturnsAreBacked, AcceptedWithinIssued
<1> QED BY <1>1, ForwardStart, ForwardKept, PTL DEF Spec

(* And no two approvals together hand out more than was asked for, or call *)
(* a request ALLOCATED while something is outstanding.                     *)
THEOREM IssuedAlwaysAsStated ==
  ASSUME Forward
  PROVE  Spec => []IssuedAsStated
<1>1. ForwardInv => IssuedAsStated
  <2> SUFFICES ASSUME ForwardInv, NEW r \in Reservation
               PROVE  /\ Issued(r) <= res[r].quantity
                      /\ res[r].status = "ALLOCATED" => OutstandingToIssue(r) = 0
    BY DEF IssuedAsStated, NeverOverIssued
  <2>1. Returned(r) = 0
    <3>1. Returns(r, "RECEIVED") = {}
      BY DEF ForwardInv, NothingBack, Returns
    <3> QED BY <3>1, ReturnedIs
  <2>2. Out(r) \in Nat /\ res[r].quantity \in Int
    BY MeasuresTyped DEF ForwardInv, IInv, TypeOK, ResRow
  <2>3. Out(r) <= res[r].quantity /\ (res[r].status = "ALLOCATED" => Out(r) >= res[r].quantity)
    BY DEF ForwardInv, ClaimInv
  <2> QED BY <2>1, <2>2, <2>3 DEF Issued, OutstandingToIssue, AtLeastZero
<1> QED BY <1>1, ForwardStart, ForwardKept, PTL DEF Spec

(* And an approval under way does not reopen a request that is complete.   *)
THEOREM CompletedForGood ==
  ASSUME Forward
  PROVE  Spec => TerminalStays
<1> DEFINE Stay == \A r \in Reservation : res[r].status \in {"COMPLETED", "REJECTED"} => res'[r].status = res[r].status
<1>1. ASSUME ForwardInv, [Next]_vars PROVE Stay
  <2> SUFFICES ASSUME NEW o \in Reservation, res[o].status = "COMPLETED", res'[o].status # "COMPLETED"
               PROVE  FALSE
    BY <1>1 DEF ForwardInv, ClaimInv
  <2>1. TypeOK /\ res' # res
    BY <1>1 DEF ForwardInv, IInv
  <2>2. PICK h \in Handler : IssueStep(h) \/ ReturnStep(h) \/ Abort(h)
    BY <1>1, <2>1 DEF Next, vars
  <2>3. ApproveCommit(h) \/ AcceptLand(h)
    BY <2>1, <2>2, ForwardSteps DEF ApproveCheck, AcceptCheck, FileCheck, CallOffCheck, ApproveMeasure, FileMeasure,
       AcceptMeasure, FileCommit, CallOffCommit, Abort
  <2>4. PICK j : j = job[h]
    OBVIOUS
  <2>5. j \in Job /\ j # None
    BY <2>1, <2>3, <2>4 DEF ApproveCommit, AcceptLand, Doing, TypeOK
  <2>6. CASE ApproveCommit(h)
    <3>1. j.op = "approve" /\ j.stage = "open" /\ j.r = o
      BY <2>1, <2>4, <2>5, <2>6 DEF ApproveCommit, Doing, TypeOK, ResRow
    <3>2. j.q >= 1 /\ Out(o) + j.q <= res[o].quantity /\ j.q \in Nat
      BY <1>1, <2>4, <2>5, <3>1 DEF ForwardInv, Measured, Job
    <3>3. Out(o) >= res[o].quantity
      BY <1>1 DEF ForwardInv, ClaimInv
    <3>4. Out(o) \in Nat /\ res[o].quantity \in Int
      BY <2>1, MeasuresTyped DEF TypeOK, ResRow
    <3> QED BY <3>2, <3>3, <3>4
  <2>7. CASE AcceptLand(h)
    <3>1. res'[o].status \in {"COMPLETED", res[o].status}
      BY <2>1, <2>4, <2>5, <2>7 DEF AcceptLand, TypeOK, ResRow
    <3> QED BY <3>1
  <2> QED BY <2>3, <2>6, <2>7
<1>2. ForwardInv /\ [Next]_vars => [Stay]_vars
  BY <1>1
<1> QED BY <1>2, ForwardStart, ForwardKept, PTL DEF Spec, TerminalStays
=============================================================================
