---------------------------- MODULE AssetProofs ----------------------------
(***************************************************************************)
(* Proofs about AssetRegister, for any number of units, people, objects,   *)
(* reservations, requests and handlers: no request is overrun, bookings of *)
(* a unit do not overlap, and of every unit it is known who answers for    *)
(* it.  First, what the tables hold in every reachable state.              *)
(***************************************************************************)
EXTENDS AssetRegister, FiniteSetTheorems, TLAPS

(* The columns of the tables, and what each handler may carry.             *)
Custody == [unit : Unit, holder : Person \union Object, origin : Object \union {None},
            request : Request \union {None}, row : Row \union {None}, accepted : BOOLEAN, open : BOOLEAN]
Allocation == [row : Row, unit : Unit, live : BOOLEAN]
Hand == [op : {"hand"}, who : Person \union Object, request : Request \union {None},
         units : Seq(Unit), free : BOOLEAN, last : BOOLEAN]

RequestOK(q) ==
  /\ q = [status |-> q.status, for |-> q.for, quantity |-> q.quantity]
  /\ IF q.status = "none" THEN q.quantity = 0 ELSE q.quantity \in Nat /\ q.for \in Person \union Object

Filed(q) == q \in Request /\ request[q].status # "none"

JobOK(m) ==
  /\ m.op = "settle" => Filed(m.request) /\ m.status \in {"APPROVED", "REJECTED", "CANCELLED"}
  /\ m.op = "hand" => m \in Hand /\ (m.request # None => Filed(m.request)) /\ (m.last => m.request # None)
                               /\ (m.free => m.units # <<>>)
  /\ m.op \in {"accept", "reassign", "release"} => m.id \in DOMAIN custody
  /\ m.op = "reassign" => m.who \in Person /\ custody[m.id].holder \in Object
  /\ m.op = "release" => m.condition \in DOMAIN StatusAfter
  /\ m.op \in {"allocate", "closeRow", "saveTask"} => m.row \in Row
  /\ m.op = "saveTask" => m.to \in Edit
  /\ m.op \in {"allocate", "reallocate"} => m.unit \in Unit
  /\ m.op \in {"reallocate", "releaseAllocation", "remove"} => m.id \in DOMAIN alloc
  /\ m.op = "closeRow" => m.status \in RowStatus
  /\ m.op = "finalize" => m = [op |-> "finalize", amount |-> m.amount, deposit |-> m.deposit,
                               todo |-> m.todo, full |-> m.full, prepaid |-> m.prepaid]

JobsOK ==
  /\ job \in [Handler -> {job[h] : h \in Handler}]
  /\ \A h \in Handler : job[h] # None => JobOK(job[h])

AssetTypes ==
  /\ asset \in [Unit -> [status : AssetStatus, holder : Person \union {None}]]
  /\ custody \in Seq(Custody) /\ alloc \in Seq(Allocation)
  /\ row \in [Row -> Reservation]
  /\ \A q \in Request : RequestOK(request[q])
  /\ request \in [Request -> {request[q] : q \in Request}]
  /\ JobsOK

(* Rows of custody closed, and one opened.                                 *)
LEMMA RowsClosed ==
  ASSUME AssetTypes, NEW S, NEW next, next = Closed(S)
  PROVE  /\ next \in Seq(Custody) /\ Len(next) = Len(custody) /\ DOMAIN next = DOMAIN custody
         /\ \A c \in DOMAIN custody :
              /\ next[c].open <=> custody[c].open /\ c \notin S
              /\ next[c].unit = custody[c].unit /\ next[c].holder = custody[c].holder
              /\ next[c].origin = custody[c].origin /\ next[c].request = custody[c].request
              /\ next[c].row = custody[c].row
<1>1. custody \in Seq(Custody) /\ Len(custody) \in Nat /\ DOMAIN custody = 1..Len(custody)
  BY DEF AssetTypes
<1>2. ASSUME NEW c \in 1..Len(custody)
      PROVE  /\ next[c] \in Custody
             /\ next[c].open <=> custody[c].open /\ c \notin S
             /\ next[c].unit = custody[c].unit /\ next[c].holder = custody[c].holder
             /\ next[c].origin = custody[c].origin /\ next[c].request = custody[c].request
             /\ next[c].row = custody[c].row
  <2>1. custody[c] \in Custody /\ next[c] = IF c \in S THEN [custody[c] EXCEPT !.open = FALSE] ELSE custody[c]
    BY <1>1 DEF Closed
  <2> QED BY <2>1 DEF Custody
<1>3. next \in [1..Len(custody) -> Custody]
  BY <1>1, <1>2 DEF Closed
<1>4. next \in Seq(Custody) /\ Len(next) = Len(custody)
  BY <1>1, <1>3
<1> QED BY <1>1, <1>2, <1>4

LEMMA RowPassed ==
  ASSUME AssetTypes, NEW S, NEW n \in Custody, PassOn(S, n)
  PROVE  /\ custody' \in Seq(Custody) /\ Len(custody') = Len(custody) + 1
         /\ DOMAIN custody' = DOMAIN custody \union {Len(custody) + 1} /\ Len(custody) + 1 \notin DOMAIN custody
         /\ custody'[Len(custody) + 1] = n
         /\ \A c \in DOMAIN custody :
              /\ custody'[c].open <=> custody[c].open /\ c \notin S
              /\ custody'[c].unit = custody[c].unit /\ custody'[c].holder = custody[c].holder
              /\ custody'[c].origin = custody[c].origin /\ custody'[c].request = custody[c].request
              /\ custody'[c].row = custody[c].row
<1>1. PICK next : next = Closed(S)
  OBVIOUS
<1>2. custody' = Append(next, n)
  BY <1>1 DEF PassOn
<1>3. /\ next \in Seq(Custody) /\ Len(next) = Len(custody) /\ DOMAIN next = DOMAIN custody
      /\ \A c \in DOMAIN custody :
              /\ next[c].open <=> custody[c].open /\ c \notin S
              /\ next[c].unit = custody[c].unit /\ next[c].holder = custody[c].holder
              /\ next[c].origin = custody[c].origin /\ next[c].request = custody[c].request
              /\ next[c].row = custody[c].row
  BY <1>1, RowsClosed
<1>4. Len(custody) \in Nat /\ DOMAIN custody = 1..Len(custody)
  BY DEF AssetTypes
<1>5. custody' \in Seq(Custody) /\ Len(custody') = Len(custody) + 1 /\ custody'[Len(custody) + 1] = n
      /\ \A c \in 1..Len(custody) : custody'[c] = next[c]
  BY <1>2, <1>3, <1>4
<1> QED BY <1>3, <1>4, <1>5

(* Bookings released, and one made.                                        *)
LEMMA BookingsReleased ==
  ASSUME AssetTypes, NEW S, NEW next, next = Released(S)
  PROVE  /\ next \in Seq(Allocation) /\ Len(next) = Len(alloc) /\ DOMAIN next = DOMAIN alloc
         /\ \A i \in DOMAIN alloc :
              /\ next[i].live <=> alloc[i].live /\ i \notin S
              /\ next[i].unit = alloc[i].unit /\ next[i].row = alloc[i].row
<1>1. alloc \in Seq(Allocation) /\ Len(alloc) \in Nat /\ DOMAIN alloc = 1..Len(alloc)
  BY DEF AssetTypes
<1>2. ASSUME NEW i \in 1..Len(alloc)
      PROVE  /\ next[i] \in Allocation
             /\ next[i].live <=> alloc[i].live /\ i \notin S
             /\ next[i].unit = alloc[i].unit /\ next[i].row = alloc[i].row
  <2>1. alloc[i] \in Allocation /\ next[i] = IF i \in S THEN [alloc[i] EXCEPT !.live = FALSE] ELSE alloc[i]
    BY <1>1 DEF Released
  <2> QED BY <2>1 DEF Allocation
<1>3. next \in [1..Len(alloc) -> Allocation]
  BY <1>1, <1>2 DEF Released
<1>4. next \in Seq(Allocation) /\ Len(next) = Len(alloc)
  BY <1>1, <1>3
<1> QED BY <1>1, <1>2, <1>4

LEMMA BookingMade ==
  ASSUME AssetTypes, NEW S, NEW u \in Unit, NEW r \in Row, alloc' = Append(Released(S), Booking(u, r))
  PROVE  /\ alloc' \in Seq(Allocation) /\ Len(alloc') = Len(alloc) + 1
         /\ DOMAIN alloc' = DOMAIN alloc \union {Len(alloc) + 1} /\ Len(alloc) + 1 \notin DOMAIN alloc
         /\ \A i \in DOMAIN alloc : i < Len(alloc) + 1
         /\ alloc'[Len(alloc) + 1] = Booking(u, r)
         /\ \A i \in DOMAIN alloc :
              /\ alloc'[i].live <=> alloc[i].live /\ i \notin S
              /\ alloc'[i].unit = alloc[i].unit /\ alloc'[i].row = alloc[i].row
<1>1. PICK next : next = Released(S)
  OBVIOUS
<1>2. /\ next \in Seq(Allocation) /\ Len(next) = Len(alloc) /\ DOMAIN next = DOMAIN alloc
      /\ \A i \in DOMAIN alloc :
              /\ next[i].live <=> alloc[i].live /\ i \notin S
              /\ next[i].unit = alloc[i].unit /\ next[i].row = alloc[i].row
  BY <1>1, BookingsReleased
<1>3. PICK b \in Allocation : b = Booking(u, r)
  BY DEF Booking, Allocation
<1>4. Len(alloc) \in Nat /\ DOMAIN alloc = 1..Len(alloc)
  BY DEF AssetTypes
<1>5. alloc' \in Seq(Allocation) /\ Len(alloc') = Len(alloc) + 1 /\ alloc'[Len(alloc) + 1] = b
      /\ \A i \in 1..Len(alloc) : alloc'[i] = next[i]
  BY <1>1, <1>2, <1>3, <1>4
<1> QED BY <1>2, <1>3, <1>4, <1>5

-----------------------------------------------------------------------------
(* The types.                                                              *)
LEMMA AssetTypesStart == Init => AssetTypes
<1> SUFFICES ASSUME Init PROVE AssetTypes
  OBVIOUS
<1>1. row \in [Row -> Reservation]
  BY CasesGiven DEF Init
<1>2. asset \in [Unit -> [status : AssetStatus, holder : Person \union {None}]]
  BY DEF Init, AssetStatus
<1> QED BY <1>1, <1>2 DEF Init, AssetTypes, JobsOK, RequestOK, NoRequest

(* Rows are never taken out, and of whom they are is never rewritten.      *)
IdsKept ==
  /\ DOMAIN custody \subseteq DOMAIN custody' /\ DOMAIN alloc \subseteq DOMAIN alloc'
  /\ \A c \in DOMAIN custody : custody'[c].holder = custody[c].holder
  /\ \A q \in Request : Filed(q) => Filed(q)'

LEMMA JobsSame ==
  ASSUME AssetTypes, job' = job, IdsKept
  PROVE  JobsOK'
<1> SUFFICES ASSUME NEW g \in Handler, job[g] # None PROVE JobOK(job[g])'
  BY DEF AssetTypes, JobsOK
<1> QED BY DEF AssetTypes, JobsOK, JobOK, IdsKept, Filed

LEMMA JobsTyped ==
  ASSUME AssetTypes, NEW h \in Handler, NEW m, job' = [job EXCEPT ![h] = m],
         m # None => JobOK(m)', IdsKept
  PROVE  JobsOK'
<1>1. \A g \in Handler : job'[g] = IF g = h THEN m ELSE job[g]
  BY DEF AssetTypes, JobsOK
<1>2. job' \in [Handler -> {job'[g] : g \in Handler}]
  BY DEF AssetTypes, JobsOK
<1>3. ASSUME NEW g \in Handler, job'[g] # None PROVE JobOK(job[g])'
  <2>1. CASE g = h
    BY <1>1, <1>3, <2>1 DEF JobOK
  <2>2. CASE g # h
    <3>1. JobOK(job[g]) /\ job'[g] = job[g]
      BY <1>1, <1>3, <2>2 DEF AssetTypes, JobsOK
    <3> QED BY <3>1 DEF JobOK, IdsKept, Filed
  <2> QED BY <2>1, <2>2
<1> QED BY <1>2, <1>3 DEF JobsOK

LEMMA Rests ==
  ASSUME AssetTypes, NEW h \in Handler, Finished(h), IdsKept
  PROVE  JobsOK'
BY JobsTyped DEF Finished

LEMMA ClosingKeepsIds ==
  ASSUME AssetTypes, NEW S, custody' = Closed(S), DOMAIN alloc \subseteq DOMAIN alloc', request' = request
  PROVE  custody' \in Seq(Custody) /\ IdsKept
BY RowsClosed DEF IdsKept, Filed

LEMMA PassingKeepsIds ==
  ASSUME AssetTypes, NEW S, NEW n \in Custody, PassOn(S, n), DOMAIN alloc \subseteq DOMAIN alloc', request' = request
  PROVE  custody' \in Seq(Custody) /\ IdsKept
BY RowPassed DEF IdsKept, Filed

LEMMA HeldIsCustody ==
  ASSUME NEW u \in Unit, NEW who \in Person \union Object, NEW origin \in Object \union {None}
  PROVE  /\ Held(u, who, origin) \in Custody
         /\ \A q \in Request \union {None} : [Held(u, who, origin) EXCEPT !.request = q] \in Custody
         /\ \A r \in Row : [Held(u, who, origin) EXCEPT !.row = r] \in Custody
         /\ [Held(u, who, origin) EXCEPT !.accepted = TRUE] \in Custody
BY DEF Held, Custody

(* A handler that has only read.                                           *)
LEMMA Reads ==
  ASSUME AssetTypes, NEW h \in Handler, NEW m, Begin(h, m), UNCHANGED register, JobOK(m)
  PROVE  AssetTypes'
<1>1. IdsKept
  BY DEF IdsKept, register, Filed
<1>2. JobOK(m)'
  BY DEF JobOK, register, Filed
<1>3. JobsOK'
  BY <1>1, <1>2, JobsTyped DEF Begin
<1> QED BY <1>3 DEF AssetTypes, register, RequestOK

LEMMA CustodyTypes ==
  ASSUME AssetTypes, NEW h \in Handler, CustodyStep(h)
  PROVE  AssetTypes'
<1> USE DEF register, money
<1>1. ASSUME NEW q \in Request, FileRequest(h, q) PROVE AssetTypes'
  <2>1. PICK who \in Person \union Object, n \in 1..2 :
          request' = [request EXCEPT ![q] = [status |-> "PENDING", for |-> who, quantity |-> n]]
    BY <1>1 DEF FileRequest
  <2>2. RequestOK([status |-> "PENDING", for |-> who, quantity |-> n])
    BY DEF RequestOK
  <2>3. \A k \in Request : RequestOK(request[k])' /\ request' \in [Request -> {request'[j] : j \in Request}]
    BY <2>1, <2>2 DEF AssetTypes, RequestOK
  <2>4. JobsOK'
    BY <1>1, <2>1, <2>2, JobsSame DEF FileRequest, IdsKept, Filed, AssetTypes
  <2> QED BY <1>1, <2>3, <2>4 DEF AssetTypes, FileRequest
<1>2. ASSUME NEW q \in Request, DecideRead(h, q) \/ CancelRead(h, q) PROVE AssetTypes'
  <2>1. PICK status \in {"APPROVED", "REJECTED", "CANCELLED"} :
          Begin(h, [op |-> "settle", request |-> q, status |-> status])
    BY <1>2 DEF DecideRead, CancelRead
  <2>2. JobOK([op |-> "settle", request |-> q, status |-> status])
    BY <1>2 DEF JobOK, Filed, DecideRead, CancelRead
  <2> QED BY <1>2, <2>1, <2>2, Reads DEF DecideRead, CancelRead
<1>3. ASSUME NEW m \in Hand, Begin(h, m), UNCHANGED register, ~m.free,
             m.request # None => Filed(m.request), m.last => m.request # None
      PROVE  AssetTypes'
  <2>1. m.op = "hand"
    BY DEF Hand
  <2>2. JobOK(m)
    BY <1>3, <2>1 DEF JobOK
  <2> QED BY <1>3, <2>2, Reads
<1>4. ASSUME NEW q \in Request, Issue(h, q) PROVE AssetTypes'
  <2>1. PICK units \in {<<u>> : u \in Unit} \union {<<u, v>> : u \in Unit, v \in Unit} :
          Begin(h, Handing(request[q].for, q, units, AlreadyOf(q) + Len(units) >= request[q].quantity))
    BY <1>4 DEF Issue
  <2>2. units \in Seq(Unit)
    <3>1. CASE \E u \in Unit : units = <<u>>
      BY <3>1
    <3>2. CASE \E u, v \in Unit : units = <<u, v>>
      BY <3>2
    <3> QED BY <3>1, <3>2, <2>1
  <2>3. request[q].for \in Person \union Object
    BY <1>4 DEF Issue, AssetTypes, RequestOK
  <2>4. (AlreadyOf(q) + Len(units) >= request[q].quantity) \in BOOLEAN
    OBVIOUS
  <2>5. UNCHANGED register /\ Filed(q) /\ q # None
    BY <1>4, AssetAssumption DEF Issue, Filed
  <2>6. PICK m : m = Handing(request[q].for, q, units, AlreadyOf(q) + Len(units) >= request[q].quantity)
    OBVIOUS
  <2>7. m \in Hand /\ ~m.free /\ m.request = q
    BY <2>2, <2>3, <2>4, <2>6 DEF Hand, Handing
  <2>8. Begin(h, m)
    BY <2>1, <2>6
  <2> HIDE DEF register
  <2> QED BY <1>3, <2>5, <2>7, <2>8
<1>5. ASSUME NEW u \in Unit, DirectIssue(h, u) PROVE AssetTypes'
  <2>1. PICK who \in Person \union Object : Begin(h, Handing(who, None, <<u>>, FALSE))
    BY <1>5 DEF DirectIssue
  <2>2. UNCHANGED register
    BY <1>5 DEF DirectIssue
  <2>3. PICK m : m = Handing(who, None, <<u>>, FALSE)
    OBVIOUS
  <2>4. m \in Hand /\ ~m.free /\ m.request = None /\ ~m.last
    BY <2>3 DEF Hand, Handing
  <2>5. Begin(h, m)
    BY <2>1, <2>3
  <2> HIDE DEF register
  <2> QED BY <1>3, <2>2, <2>4, <2>5
<1>6. ASSUME AssertFree(h) PROVE AssetTypes'
  <2>1. PICK j \in Hand : j = job[h] /\ JobOK(j)
    BY <1>6 DEF AssertFree, Doing, AssetTypes, JobsOK, JobOK
  <2>2. PICK m : m = [j EXCEPT !.free = TRUE]
    OBVIOUS
  <2>7. m \in Hand /\ m.request = j.request /\ m.last = j.last /\ m.units = j.units /\ m.op = "hand"
    BY <2>1, <2>2 DEF Hand
  <2>4. j.units # <<>> /\ j.op = "hand"
    BY <1>6, <2>1 DEF Hand, AssertFree
  <2>5. (j.request # None => Filed(j.request)) /\ (j.last => j.request # None)
    BY <2>1, <2>4 DEF JobOK
  <2>3. JobOK(m)
    BY <2>4, <2>5, <2>7 DEF JobOK
  <2> QED BY <1>6, <2>1, <2>2, <2>3, Reads DEF AssertFree
<1>7. ASSUME NEW u \in Unit, UpdateAsset(h, u) PROVE AssetTypes'
  <2>1. PICK status \in AssetStatus : asset' = [asset EXCEPT ![u].status = status]
    BY <1>7 DEF UpdateAsset
  <2>2. asset' \in [Unit -> [status : AssetStatus, holder : Person \union {None}]]
    BY <2>1 DEF AssetTypes
  <2>3. JobsOK'
    BY <1>7, JobsSame DEF UpdateAsset, IdsKept, Filed
  <2> QED BY <1>7, <2>2, <2>3 DEF AssetTypes, UpdateAsset, RequestOK
<1>8. ASSUME NEW c \in DOMAIN custody, AcceptRead(h, c) PROVE AssetTypes'
  <2>1. JobOK([op |-> "accept", id |-> c])
    BY DEF JobOK
  <2> QED BY <1>8, <2>1, Reads DEF AcceptRead
<1>9. ASSUME NEW c \in DOMAIN custody, ReassignRead(h, c) PROVE AssetTypes'
  <2>1. PICK p \in Person : Begin(h, [op |-> "reassign", id |-> c, who |-> p]) /\ custody[c].holder \in Object
    BY <1>9 DEF ReassignRead
  <2>2. JobOK([op |-> "reassign", id |-> c, who |-> p])
    BY <2>1 DEF JobOK
  <2> QED BY <1>9, <2>1, <2>2, Reads DEF ReassignRead
<1>10. ASSUME NEW c \in DOMAIN custody, ReleaseRead(h, c) PROVE AssetTypes'
  <2>1. PICK condition \in DOMAIN StatusAfter : Begin(h, [op |-> "release", id |-> c, condition |-> condition])
    BY <1>10 DEF ReleaseRead
  <2>2. JobOK([op |-> "release", id |-> c, condition |-> condition])
    BY DEF JobOK
  <2> QED BY <1>10, <2>1, <2>2, Reads DEF ReleaseRead
<1>11. ASSUME NEW q \in Request, Filed(q), NEW status \in {"APPROVED", "REJECTED", "CANCELLED", "ISSUED"},
              request' = [request EXCEPT ![q].status = status], UNCHANGED <<custody, alloc>>
       PROVE  /\ \A k \in Request : RequestOK(request[k])' /\ (Filed(k) => Filed(k)')
              /\ request' \in [Request -> {request'[j] : j \in Request}]
  <2>1. PICK r : r = [request[q] EXCEPT !.status = status]
    OBVIOUS
  <2>2. RequestOK(r) /\ r.status # "none"
    BY <1>11, <2>1 DEF AssetTypes, RequestOK, Filed
  <2>3. \A k \in Request : request'[k] = IF k = q THEN r ELSE request[k]
    BY <1>11, <2>1 DEF AssetTypes
  <2> QED BY <1>11, <2>2, <2>3 DEF AssetTypes, RequestOK, Filed
<1>12. ASSUME SettleRequest(h) PROVE AssetTypes'
  <2>1. PICK q \in Request, status \in {"APPROVED", "REJECTED", "CANCELLED"} :
          status = job[h].status /\ q = job[h].request /\ Filed(q)
    BY <1>12 DEF SettleRequest, Doing, AssetTypes, JobsOK, JobOK, Filed
  <2>2. request' = [request EXCEPT ![q].status = status] /\ UNCHANGED <<asset, custody, row, alloc>> /\ Finished(h)
    BY <1>12, <2>1 DEF SettleRequest
  <2>3. /\ \A k \in Request : RequestOK(request[k])' /\ (Filed(k) => Filed(k)')
        /\ request' \in [Request -> {request'[j] : j \in Request}]
    BY <1>11, <2>1, <2>2
  <2>4. JobsOK'
    BY <2>2, <2>3, Rests DEF IdsKept
  <2> QED BY <2>2, <2>3, <2>4 DEF AssetTypes
<1>13. ASSUME MarkIssued(h) PROVE AssetTypes'
  <2>1. PICK j \in Hand : j = job[h] /\ JobOK(j)
    BY <1>13 DEF MarkIssued, Doing, AssetTypes, JobsOK, JobOK
  <2>2. UNCHANGED <<asset, custody, row, alloc>> /\ Finished(h)
    BY <1>13 DEF MarkIssued
  <2>3. /\ \A k \in Request : RequestOK(request[k])' /\ (Filed(k) => Filed(k)')
        /\ request' \in [Request -> {request'[l] : l \in Request}]
    <3>1. CASE j.last
      <4>1. request' = [request EXCEPT ![j.request].status = "ISSUED"] /\ Filed(j.request) /\ j.request \in Request
        BY <1>13, <2>1, <3>1 DEF MarkIssued, JobOK, Hand, Filed
      <4> QED BY <1>11, <2>2, <4>1
    <3>2. CASE ~j.last
      BY <1>13, <2>1, <3>2 DEF MarkIssued, AssetTypes, RequestOK, Filed
    <3> QED BY <3>1, <3>2
  <2>4. JobsOK'
    BY <2>2, <2>3, Rests DEF IdsKept
  <2> QED BY <2>2, <2>3, <2>4 DEF AssetTypes
<1>14. ASSUME HandOver(h) PROVE AssetTypes'
  <2>1. PICK j \in Hand : j = job[h] /\ JobOK(j)
    BY <1>14 DEF HandOver, Doing, AssetTypes, JobsOK, JobOK
  <2>2. PICK u \in Unit : u = Head(j.units)
    BY <1>14, <2>1 DEF HandOver, Hand, JobOK
  <2>3. PICK n \in Custody : n = [Held(u, j.who, IF j.who \in Person THEN None ELSE j.who) EXCEPT !.request = j.request]
    BY HeldIsCustody DEF Hand
  <2>4. PassOn({}, n) /\ asset' = [asset EXCEPT ![u].holder = IF j.who \in Person THEN j.who ELSE None]
    BY <1>14, <2>1, <2>2, <2>3 DEF HandOver
  <2>5. UNCHANGED <<row, alloc, back, request>> /\ Begin(h, [j EXCEPT !.units = Tail(@), !.free = FALSE])
    BY <1>14, <2>1 DEF HandOver
  <2>6. custody' \in Seq(Custody) /\ IdsKept
    BY <2>4, <2>5, PassingKeepsIds
  <2>10. PICK rest \in Seq(Unit) : rest = Tail(j.units)
    <3>1. j.units # <<>> /\ j.units \in Seq(Unit)
      BY <1>14, <2>1 DEF HandOver, Hand, JobOK
    <3>2. Tail(j.units) \in Seq(Unit)
      BY <3>1
    <3> QED BY <3>2
  <2>11. PICK m : m = [j EXCEPT !.units = rest, !.free = FALSE]
    OBVIOUS
  <2>7. m \in Hand /\ m.request = j.request /\ m.last = j.last /\ ~m.free /\ m.op = "hand"
    BY <2>11, <2>1 DEF Hand
  <2>8. JobsOK'
    <3>1. JobOK(m)'
      <4>1. (j.request # None => Filed(j.request)) /\ (j.last => j.request # None)
        BY <2>1 DEF JobOK, Hand
      <4>2. (m.request # None => Filed(m.request)') /\ (m.last => m.request # None)
        BY <4>1, <2>5, <2>7 DEF Filed
      <4> QED BY <2>7, <4>2 DEF JobOK
    <3>2. job' = [job EXCEPT ![h] = m]
      BY <2>5, <2>10, <2>11 DEF Begin
    <3> QED BY <2>6, <3>1, <3>2, JobsTyped
  <2>9. asset' \in [Unit -> [status : AssetStatus, holder : Person \union {None}]]
    BY <2>4 DEF AssetTypes
  <2> QED BY <2>5, <2>6, <2>8, <2>9 DEF AssetTypes, RequestOK
<1>15. ASSUME AcceptWrite(h) PROVE AssetTypes'
  <2>1. PICK c \in DOMAIN custody : c = job[h].id
    BY <1>15 DEF AcceptWrite, Doing, AssetTypes, JobsOK, JobOK
  <2>2. custody' = [custody EXCEPT ![c] = [custody[c] EXCEPT !.accepted = TRUE]]
    BY <1>15, <2>1 DEF AcceptWrite
  <2>3. custody[c] \in Custody
    BY DEF AssetTypes
  <2>7. PICK n : n = [custody[c] EXCEPT !.accepted = TRUE]
    OBVIOUS
  <2>4. n \in Custody /\ n.holder = custody[c].holder
    BY <2>3, <2>7 DEF Custody
  <2>8. custody' = [custody EXCEPT ![c] = n]
    BY <2>2, <2>7
  <2>9. custody' \in Seq(Custody) /\ DOMAIN custody' = DOMAIN custody
        /\ \A k \in DOMAIN custody : custody'[k] = IF k = c THEN n ELSE custody[k]
    BY <2>4, <2>8 DEF AssetTypes
  <2>5. custody' \in Seq(Custody) /\ IdsKept
    BY <1>15, <2>4, <2>9 DEF IdsKept, Filed, AcceptWrite
  <2>6. JobsOK'
    BY <1>15, <2>5, Rests DEF AcceptWrite
  <2> QED BY <1>15, <2>5, <2>6 DEF AssetTypes, AcceptWrite, RequestOK
<1>16. ASSUME ReassignWrite(h) PROVE AssetTypes'
  <2>1. PICK c \in DOMAIN custody, p \in Person : c = job[h].id /\ p = job[h].who /\ custody[c].holder \in Object
    BY <1>16 DEF ReassignWrite, Doing, AssetTypes, JobsOK, JobOK
  <2>8. custody[c] \in Custody
    BY DEF AssetTypes
  <2>2. custody[c].unit \in Unit
    BY <2>8 DEF Custody
  <2>3. PICK n \in Custody : n = Held(custody[c].unit, p, custody[c].holder)
    BY <2>1, <2>2, HeldIsCustody
  <2>4. PassOn({c}, n) /\ asset' = [asset EXCEPT ![custody[c].unit].holder = p]
    BY <1>16, <2>1, <2>3 DEF ReassignWrite
  <2>5. custody' \in Seq(Custody) /\ IdsKept
    BY <1>16, <2>4, PassingKeepsIds DEF ReassignWrite
  <2>6. JobsOK'
    BY <1>16, <2>5, Rests DEF ReassignWrite
  <2>7. asset' \in [Unit -> [status : AssetStatus, holder : Person \union {None}]]
    BY <2>2, <2>4 DEF AssetTypes
  <2> QED BY <1>16, <2>5, <2>6, <2>7 DEF AssetTypes, ReassignWrite, RequestOK
<1>17. ASSUME ReleaseWrite(h) PROVE AssetTypes'
  <2>1. PICK c \in DOMAIN custody : c = job[h].id /\ job[h].condition \in DOMAIN StatusAfter
    BY <1>17 DEF ReleaseWrite, Doing, AssetTypes, JobsOK, JobOK
  <2>8. custody[c] \in Custody
    BY DEF AssetTypes
  <2>2. custody[c].unit \in Unit /\ custody[c].origin \in Object \union {None}
    BY <2>8 DEF Custody
  <2>3. custody' \in Seq(Custody) /\ IdsKept
    <3>1. CASE custody[c].origin # None /\ job[h].condition # "LOST"
      <4>1. PICK n \in Custody : n = [Held(custody[c].unit, custody[c].origin, custody[c].origin) EXCEPT !.accepted = TRUE]
        BY <2>2, <3>1, HeldIsCustody
      <4>2. PassOn({c}, n)
        BY <1>17, <2>1, <3>1, <4>1 DEF ReleaseWrite
      <4> QED BY <1>17, <4>2, PassingKeepsIds DEF ReleaseWrite
    <3>2. CASE ~(custody[c].origin # None /\ job[h].condition # "LOST")
      BY <1>17, <2>1, <3>2, ClosingKeepsIds DEF ReleaseWrite
    <3> QED BY <3>1, <3>2
  <2>4. JobsOK'
    BY <1>17, <2>3, Rests DEF ReleaseWrite
  <2>5. StatusAfter[job[h].condition] \in AssetStatus
    BY <2>1 DEF StatusAfter, AssetStatus
  <2>6. asset' \in [Unit -> [status : AssetStatus, holder : Person \union {None}]]
    BY <1>17, <2>1, <2>2, <2>5 DEF AssetTypes, ReleaseWrite
  <2> QED BY <1>17, <2>3, <2>4, <2>6 DEF AssetTypes, ReleaseWrite, RequestOK
<1> QED
  BY <1>1, <1>2, <1>4, <1>5, <1>6, <1>7, <1>8, <1>9, <1>10, <1>12, <1>13, <1>14, <1>15, <1>16, <1>17
     DEF CustodyStep

LEMMA ObjectTakesTyped ==
  ASSUME AssetTypes, NEW u \in Unit, NEW r \in Row, NEW S, ObjectTakes(u, r, S),
         DOMAIN alloc \subseteq DOMAIN alloc', request' = request
  PROVE  /\ custody' \in Seq(Custody) /\ IdsKept
         /\ asset' \in [Unit -> [status : AssetStatus, holder : Person \union {None}]]
<1>1. CASE row[r].object = None
  BY <1>1, ClosingKeepsIds DEF ObjectTakes, AssetTypes
<1>2. CASE row[r].object # None
  <2>1. row[r].object \in Object
    BY <1>2 DEF AssetTypes, Reservation
  <2>2. PICK n \in Custody : n = [Held(u, row[r].object, row[r].object) EXCEPT !.row = r]
    BY <2>1, HeldIsCustody
  <2>3. PassOn(S \union OpenRows(u), n)
    BY <1>2, <2>2 DEF ObjectTakes
  <2>4. asset' \in [Unit -> [status : AssetStatus, holder : Person \union {None}]]
    BY <1>2 DEF ObjectTakes, AssetTypes
  <2> QED BY <2>3, <2>4, PassingKeepsIds
<1> QED BY <1>1, <1>2

LEMMA RowWritten ==
  ASSUME AssetTypes, NEW r \in Row, NEW q \in Int, NEW a \in Int, NEW status \in RowStatus,
         NEW next, next = [row EXCEPT ![r] = [row[r] EXCEPT !.status = status, !.quantity = q, !.accepted = a]]
  PROVE  next \in [Row -> Reservation]
<1>1. row[r] \in Reservation
  BY DEF AssetTypes
<1>2. PICK t : t = [row[r] EXCEPT !.status = status, !.quantity = q, !.accepted = a]
  OBVIOUS
<1>3. t \in Reservation
  BY <1>1, <1>2 DEF Reservation
<1> QED BY <1>2, <1>3 DEF AssetTypes

LEMMA StatusWritten ==
  ASSUME AssetTypes, NEW r \in Row, NEW status \in RowStatus, NEW next, next = [row EXCEPT ![r].status = status]
  PROVE  next \in [Row -> Reservation]
<1>1. row[r] \in Reservation
  BY DEF AssetTypes
<1>2. PICK t : t = [row[r] EXCEPT !.status = status]
  OBVIOUS
<1>3. t \in Reservation
  BY <1>1, <1>2 DEF Reservation
<1> QED BY <1>2, <1>3 DEF AssetTypes

(* A save gives the row of a task its window and number; the window of a   *)
(* row whose `moved' stays does not change.                                *)
LEMMA TaskSaved ==
  ASSUME AssetTypes, NEW h \in Handler, SaveTask(h)
  PROVE  \E r \in Row :
           /\ row' \in [Row -> Reservation] /\ \A q \in Row \ {r} : row'[q] = row[q]
           /\ row'[r].object = row[r].object
           /\ \/ row'[r].moved = Len(alloc)
              \/ row'[r].moved = row[r].moved /\ row'[r].from = row[r].from /\ row'[r].until = row[r].until
           /\ \E S : alloc' = Released(S)
           /\ Finished(h) /\ UNCHANGED <<asset, custody, back, request, money>>
<1>1. PICK r \in Row : r = job[h].row
  BY DEF SaveTask, Doing, AssetTypes, JobsOK, JobOK
<1>2. PICK w \in Edit : w = job[h].to
  BY DEF SaveTask, Doing, AssetTypes, JobsOK, JobOK
<1>3. w \in [from : Int, until : Int, quantity : Int]
  BY EditsGiven
<1>4. row[r] \in Reservation
  BY DEF AssetTypes
<1>5. PICK slot \in BOOLEAN :
        LET excess == Newest(Out(r), Cardinality(Out(r)) - w.quantity)
        IN  /\ alloc' = Released(excess)
            /\ row' = [row EXCEPT ![r] = Saved(r, w, Cardinality(Out(r) \ excess), job[h].short, slot)]
  BY <1>1, <1>2 DEF SaveTask
<1>6. PICK kept : row' = [row EXCEPT ![r] = Saved(r, w, kept, job[h].short, slot)]
  BY <1>5
<1>7. PICK status \in RowStatus : status =
        IF job[h].short THEN "PENDING"
        ELSE IF kept = 0 THEN "APPROVED"
        ELSE IF kept < w.quantity THEN "PARTIALLY_ALLOCATED"
        ELSE IF ~slot /\ row[r].accepted >= w.quantity THEN "COMPLETED" ELSE "ALLOCATED"
  BY DEF RowStatus, ALLOCATABLE_STATUSES, INACTIVE_STATUSES
<1>8. PICK moved \in Nat : moved =
        IF w.from = row[r].from /\ w.until = row[r].until THEN row[r].moved ELSE Len(alloc)
  <2>1. row[r].moved \in Nat
    BY <1>4 DEF Reservation
  <2>2. Len(alloc) \in Nat
    BY DEF AssetTypes
  <2> QED BY <2>1, <2>2
<1>9. PICK t : t = [row[r] EXCEPT !.from = w.from, !.until = w.until, !.quantity = w.quantity,
                                  !.moved = moved, !.status = status]
  OBVIOUS
<1>10. t \in Reservation /\ t.object = row[r].object /\ t.moved = moved /\ t.from = w.from /\ t.until = w.until
  BY <1>3, <1>4, <1>9 DEF Reservation
<1>11. Saved(r, w, kept, job[h].short, slot) = t
  BY <1>7, <1>8, <1>9 DEF Saved
<1>12. row' = [row EXCEPT ![r] = t]
  BY <1>6, <1>11
<1>13. row' \in [Row -> Reservation] /\ row'[r] = t /\ \A q \in Row \ {r} : row'[q] = row[q]
  BY <1>10, <1>12 DEF AssetTypes
<1>14. /\ row'[r].object = row[r].object
       /\ \/ row'[r].moved = Len(alloc)
          \/ row'[r].moved = row[r].moved /\ row'[r].from = row[r].from /\ row'[r].until = row[r].until
  BY <1>8, <1>10, <1>13
<1>15. (\E S : alloc' = Released(S)) /\ Finished(h) /\ UNCHANGED <<asset, custody, back, request, money>>
  BY <1>5 DEF SaveTask
<1> QED BY <1>13, <1>14, <1>15

LEMMA AllocationTypes ==
  ASSUME AssetTypes, NEW h \in Handler, AllocationStep(h)
  PROVE  AssetTypes'
<1> USE DEF register, money
<1>0. {"ALLOCATED", "PARTIALLY_ALLOCATED", "APPROVED", "COMPLETED", "CANCELLED", "REJECTED"} \subseteq RowStatus
  BY DEF RowStatus, ALLOCATABLE_STATUSES, INACTIVE_STATUSES
<1>1. ASSUME NEW r \in Row, NEW u \in Unit, AllocateCheck(h, r, u) PROVE AssetTypes'
  <2>1. JobOK([op |-> "allocate", row |-> r, unit |-> u])
    BY DEF JobOK
  <2> QED BY <1>1, <2>1, Reads DEF AllocateCheck
<1>2. ASSUME NEW i \in DOMAIN alloc, NEW u \in Unit, ReallocateCheck(h, i, u) PROVE AssetTypes'
  <2>1. JobOK([op |-> "reallocate", id |-> i, unit |-> u])
    BY DEF JobOK
  <2> QED BY <1>2, <2>1, Reads DEF ReallocateCheck
<1>3. ASSUME NEW r \in Row, CloseRowRead(h, r) PROVE AssetTypes'
  <2>1. PICK status \in {"CANCELLED", "REJECTED"} : Begin(h, [op |-> "closeRow", row |-> r, status |-> status])
    BY <1>3 DEF CloseRowRead
  <2>2. JobOK([op |-> "closeRow", row |-> r, status |-> status])
    BY <1>0 DEF JobOK
  <2> QED BY <1>3, <2>1, <2>2, Reads DEF CloseRowRead
<1>4. ASSUME NEW i \in DOMAIN alloc, ReleaseAllocRead(h, i) PROVE AssetTypes'
  <2>1. PICK op \in {"releaseAllocation", "remove"} : Begin(h, [op |-> op, id |-> i])
    BY <1>4 DEF ReleaseAllocRead
  <2>2. JobOK([op |-> op, id |-> i])
    BY DEF JobOK
  <2> QED BY <1>4, <2>1, <2>2, Reads DEF ReleaseAllocRead
<1>5. ASSUME Allocate(h) PROVE AssetTypes'
  <2>1. PICK r \in Row, u \in Unit : r = job[h].row /\ u = job[h].unit
    BY <1>5 DEF Allocate, Doing, AssetTypes, JobsOK, JobOK
  <2>2. alloc' = Append(Released({}), Booking(u, r))
    <3>1. Released({}) = alloc
      BY DEF Released, AssetTypes
    <3> QED BY <1>5, <2>1, <3>1 DEF Allocate
  <2>3. alloc' \in Seq(Allocation) /\ DOMAIN alloc \subseteq DOMAIN alloc'
    BY <2>2, BookingMade
  <2>4. ObjectTakes(u, r, {}) /\ UNCHANGED <<back, request, money>> /\ Finished(h)
    BY <1>5, <2>1 DEF Allocate
  <2>5. /\ custody' \in Seq(Custody) /\ IdsKept
        /\ asset' \in [Unit -> [status : AssetStatus, holder : Person \union {None}]]
    BY <2>3, <2>4, ObjectTakesTyped
  <2>6. row' \in [Row -> Reservation]
    <3>1. PICK status \in {"ALLOCATED", "PARTIALLY_ALLOCATED"} : row' = [row EXCEPT ![r].status = status]
      BY <1>5, <2>1 DEF Allocate
    <3> QED BY <1>0, <3>1, StatusWritten
  <2>7. JobsOK'
    BY <2>4, <2>5, Rests
  <2> QED BY <2>3, <2>4, <2>5, <2>6, <2>7 DEF AssetTypes, RequestOK
<1>6. ASSUME Reallocate(h) PROVE AssetTypes'
  <2>1. PICK i \in DOMAIN alloc, u \in Unit : i = job[h].id /\ u = job[h].unit
    BY <1>6 DEF Reallocate, Doing, AssetTypes, JobsOK, JobOK
  <2>2. PICK r \in Row : r = alloc[i].row
    <3>1. alloc[i] \in Allocation
      BY DEF AssetTypes
    <3> QED BY <3>1 DEF Allocation
  <2>3. alloc' = Append(Released({i}), Booking(u, r)) /\ ObjectTakes(u, r, Freed({i}))
        /\ UNCHANGED <<row, back, request, money>> /\ Finished(h)
    BY <1>6, <2>1, <2>2 DEF Reallocate
  <2>4. alloc' \in Seq(Allocation) /\ DOMAIN alloc \subseteq DOMAIN alloc'
    BY <2>3, BookingMade
  <2>5. /\ custody' \in Seq(Custody) /\ IdsKept
        /\ asset' \in [Unit -> [status : AssetStatus, holder : Person \union {None}]]
    BY <2>3, <2>4, ObjectTakesTyped
  <2>7. JobsOK'
    BY <2>3, <2>5, Rests
  <2> QED BY <2>3, <2>4, <2>5, <2>7 DEF AssetTypes, RequestOK
<1>7. ASSUME CloseRow(h) PROVE AssetTypes'
  <2>1. PICK r \in Row, status \in RowStatus : r = job[h].row /\ status = job[h].status
    BY <1>7 DEF CloseRow, Doing, AssetTypes, JobsOK, JobOK
  <2>2. PICK S : alloc' = Released(S) /\ custody' = Closed(Freed(S)) /\ row' = [row EXCEPT ![r].status = status]
    BY <1>7, <2>1 DEF CloseRow
  <2>3. UNCHANGED <<asset, back, request, money>> /\ Finished(h)
    BY <1>7 DEF CloseRow
  <2>4. alloc' \in Seq(Allocation) /\ DOMAIN alloc \subseteq DOMAIN alloc'
    BY <2>2, BookingsReleased
  <2>5. custody' \in Seq(Custody) /\ IdsKept
    BY <2>2, <2>3, <2>4, ClosingKeepsIds
  <2>6. row' \in [Row -> Reservation]
    BY <2>2, StatusWritten
  <2>7. JobsOK'
    BY <2>3, <2>5, Rests
  <2> QED BY <2>3, <2>4, <2>5, <2>6, <2>7 DEF AssetTypes, RequestOK
<1>8. ASSUME ReleaseAlloc(h) PROVE AssetTypes'
  <2>1. PICK i \in DOMAIN alloc : i = job[h].id
    BY <1>8 DEF ReleaseAlloc, Doing, AssetTypes, JobsOK, JobOK
  <2>2. PICK r \in Row : r = alloc[i].row
    <3>1. alloc[i] \in Allocation
      BY DEF AssetTypes
    <3> QED BY <3>1 DEF Allocation
  <2>3. /\ alloc' = Released({i}) /\ custody' \in {custody, Closed(Freed({i}))}
        /\ UNCHANGED <<asset, back, request, money>> /\ Finished(h)
    BY <1>8, <2>1 DEF ReleaseAlloc
  <2>4. alloc' \in Seq(Allocation) /\ DOMAIN alloc \subseteq DOMAIN alloc'
    BY <2>3, BookingsReleased
  <2>5. custody' \in Seq(Custody) /\ IdsKept
    <3>1. CASE custody' = custody
      BY <2>3, <2>4, <3>1 DEF AssetTypes, IdsKept, Filed
    <3>2. CASE custody' = Closed(Freed({i}))
      BY <2>3, <2>4, <3>2, ClosingKeepsIds
    <3> QED BY <2>3, <3>1, <3>2
  <2>6. row' \in [Row -> Reservation]
    <3>1. PICK status \in {"APPROVED", "PARTIALLY_ALLOCATED"} : row' = [row EXCEPT ![r].status = status]
      BY <1>8, <2>1, <2>2 DEF ReleaseAlloc
    <3> QED BY <1>0, <3>1, StatusWritten
  <2>7. JobsOK'
    BY <2>3, <2>5, Rests
  <2> QED BY <2>3, <2>4, <2>5, <2>6, <2>7 DEF AssetTypes, RequestOK
<1>9. ASSUME UNCHANGED <<asset, custody, request, job>>, alloc' \in Seq(Allocation), DOMAIN alloc \subseteq DOMAIN alloc',
             row' \in [Row -> Reservation]
      PROVE  AssetTypes'
  <2>1. JobsOK'
    BY <1>9, JobsSame DEF IdsKept, Filed
  <2> QED BY <1>9, <2>1 DEF AssetTypes, RequestOK
<1>10. ASSUME NEW i \in DOMAIN alloc, HandBack(h, i) PROVE AssetTypes'
  <2>1. PICK r \in Row : r = alloc[i].row
    <3>1. alloc[i] \in Allocation
      BY DEF AssetTypes
    <3> QED BY <3>1 DEF Allocation
  <2>2. row' = [row EXCEPT ![r].quantity = row[r].quantity - 1] /\ row[r] \in Reservation
    BY <1>10, <2>1 DEF HandBack, AssetTypes
  <2>3. PICK t : t = [row[r] EXCEPT !.quantity = row[r].quantity - 1]
    OBVIOUS
  <2>4. t \in Reservation
    BY <2>2, <2>3 DEF Reservation
  <2>5. row' \in [Row -> Reservation]
    BY <2>2, <2>3, <2>4 DEF AssetTypes
  <2>6. alloc' \in Seq(Allocation) /\ DOMAIN alloc \subseteq DOMAIN alloc'
    BY <1>10, BookingsReleased DEF HandBack
  <2> QED BY <1>9, <1>10, <2>5, <2>6 DEF HandBack
<1>11. ASSUME NEW r \in Row, AcceptUnits(h, r) PROVE AssetTypes'
  <2>1. row[r] \in Reservation
    BY DEF AssetTypes
  <2>2. PICK n \in 1..row[r].quantity : row' = [row EXCEPT ![r].accepted = @ + n,
                        ![r].status = IF row[r].accepted + n >= row[r].quantity THEN "COMPLETED" ELSE @]
    BY <1>11 DEF AcceptUnits
  <2>6. PICK status \in RowStatus : status = IF row[r].accepted + n >= row[r].quantity THEN "COMPLETED" ELSE row[r].status
    BY <1>0, <2>1 DEF Reservation
  <2>7. PICK k \in Int : k = row[r].accepted + n
    BY <2>1 DEF Reservation
  <2>3. PICK t : t = [row[r] EXCEPT !.accepted = k, !.status = status]
    OBVIOUS
  <2>4. t \in Reservation
    BY <2>1, <2>3 DEF Reservation
  <2>8. row' = [row EXCEPT ![r] = t]
    BY <2>2, <2>3, <2>6, <2>7 DEF AssetTypes
  <2>5. row' \in [Row -> Reservation]
    BY <2>4, <2>8 DEF AssetTypes
  <2> QED BY <1>9, <1>11, <2>5 DEF AcceptUnits, AssetTypes
<1>12. ASSUME NEW r \in Row, FileReturn(h, r) \/ CancelReturn(h, r) PROVE AssetTypes'
  BY <1>9, <1>12 DEF FileReturn, CancelReturn, AssetTypes
<1>13. ASSUME NEW r \in Row, ReceiveReturn(h, r) PROVE AssetTypes'
  <2>1. alloc' \in Seq(Allocation) /\ DOMAIN alloc \subseteq DOMAIN alloc'
    BY <1>13, BookingsReleased DEF ReceiveReturn
  <2>2. row' \in [Row -> Reservation]
    <3>1. PICK status \in {"COMPLETED", "PARTIALLY_ALLOCATED"} : row' = [row EXCEPT ![r].status = status]
      BY <1>13 DEF ReceiveReturn
    <3> QED BY <1>0, <3>1, StatusWritten
  <2> QED BY <1>9, <1>13, <2>1, <2>2 DEF ReceiveReturn
<1>14. ASSUME NEW r \in Row, SaveTaskRead(h, r) PROVE AssetTypes'
  <2>1. PICK w \in Edit : Begin(h, [op |-> "saveTask", row |-> r, to |-> w, short |-> Lacks(r, w)])
    BY <1>14 DEF SaveTaskRead
  <2>2. JobOK([op |-> "saveTask", row |-> r, to |-> w, short |-> Lacks(r, w)])
    BY DEF JobOK
  <2> QED BY <1>14, <2>1, <2>2, Reads DEF SaveTaskRead
<1>15. ASSUME SaveTask(h) PROVE AssetTypes'
  <2>1. PICK S : alloc' = Released(S)
    BY <1>15, TaskSaved
  <2>2. row' \in [Row -> Reservation] /\ Finished(h) /\ UNCHANGED <<asset, custody, back, request, money>>
    BY <1>15, TaskSaved
  <2>3. alloc' \in Seq(Allocation) /\ DOMAIN alloc \subseteq DOMAIN alloc'
    BY <2>1, BookingsReleased
  <2>4. IdsKept
    BY <2>2, <2>3 DEF IdsKept, Filed
  <2>5. JobsOK'
    BY <2>2, <2>4, Rests
  <2> QED BY <2>2, <2>3, <2>5 DEF AssetTypes, RequestOK
<1> QED
  BY <1>1, <1>2, <1>3, <1>4, <1>5, <1>6, <1>7, <1>8, <1>10, <1>11, <1>12, <1>13, <1>14, <1>15 DEF AllocationStep

LEMMA MoneyTypes ==
  ASSUME AssetTypes, NEW h \in Handler, MoneyStep(h)
  PROVE  AssetTypes' /\ UNCHANGED register
<1> USE DEF register, money
<1>1. UNCHANGED register
  BY DEF MoneyStep, CreateRecord, UpdateRecord, Complete, RemoveRecord, FinalizeRead, RaiseNext, RecordSent,
         CallbackRead, CallbackWrite, BookTransfer
<1>2. IdsKept
  BY <1>1 DEF IdsKept, Filed
<1>3. CASE job' = job \/ Finished(h)
  BY <1>1, <1>2, <1>3, JobsSame, Rests DEF AssetTypes, RequestOK
<1>4. CASE FinalizeRead(h)
  <2>1. PICK amount, deposit : Begin(h, Split([op |-> "finalize", amount |-> amount, deposit |-> deposit,
                     todo |-> <<>>, full |-> 0, prepaid |-> 0]))
    BY <1>4 DEF FinalizeRead
  <2>2. JobOK(Split([op |-> "finalize", amount |-> amount, deposit |-> deposit, todo |-> <<>>, full |-> 0, prepaid |-> 0]))
    BY DEF Split, JobOK
  <2> QED BY <1>1, <2>1, <2>2, Reads
<1>5. CASE RaiseNext(h)
  <2>1. PICK m : Begin(h, m) /\ \E t \in 1..MaxTransfers : \/ m = [job[h] EXCEPT !.todo = Tail(@), !.prepaid = t]
                                                           \/ m = [job[h] EXCEPT !.todo = Tail(@), !.full = t]
    BY <1>5 DEF RaiseNext
  <2>2. JobOK(job[h]) /\ job[h].op = "finalize"
    BY <1>5 DEF RaiseNext, Doing, AssetTypes, JobsOK
  <2>3. JobOK(m)
    BY <2>1, <2>2 DEF JobOK
  <2> QED BY <1>1, <2>1, <2>3, Reads
<1>6. CASE CallbackRead(h)
  <2>1. PICK t, verdict, again : Begin(h, [op |-> "callback", transfer |-> t, verdict |-> verdict, again |-> again])
    BY <1>6 DEF CallbackRead
  <2>2. JobOK([op |-> "callback", transfer |-> t, verdict |-> verdict, again |-> again])
    BY DEF JobOK
  <2> QED BY <1>1, <2>1, <2>2, Reads
<1> QED
  BY <1>1, <1>3, <1>4, <1>5, <1>6
     DEF MoneyStep, CreateRecord, UpdateRecord, Complete, RemoveRecord, RecordSent, CallbackWrite, BookTransfer

LEMMA AssetTypesKept == AssetTypes /\ [Next]_vars => AssetTypes'
<1> SUFFICES ASSUME AssetTypes, [Next]_vars PROVE AssetTypes'
  OBVIOUS
<1>1. CASE UNCHANGED vars
  BY <1>1, JobsSame DEF vars, AssetTypes, RequestOK, IdsKept, Filed
<1>2. ASSUME NEW h \in Handler, Abort(h) PROVE AssetTypes'
  BY <1>2, Rests DEF Abort, register, AssetTypes, RequestOK, IdsKept, Filed
<1> QED BY <1>1, <1>2, CustodyTypes, AllocationTypes, MoneyTypes DEF Next

-----------------------------------------------------------------------------
(* Which rows are open after a step.                                       *)
LEMMA OpenAfterClosing ==
  ASSUME AssetTypes, NEW S, custody' = Closed(S)
  PROVE  /\ \A u : OpenRows(u)' = OpenRows(u) \ S
         /\ \A q : Issued(q)' = Issued(q) \ S
BY RowsClosed DEF OpenRows, Issued

LEMMA OpenAfterPassing ==
  ASSUME AssetTypes, NEW S, NEW n \in Custody, PassOn(S, n), n.open
  PROVE  /\ \A u : OpenRows(u)' = (OpenRows(u) \ S) \union (IF n.unit = u THEN {Len(custody) + 1} ELSE {})
         /\ \A q : Issued(q)' = (Issued(q) \ S) \union (IF n.request = q THEN {Len(custody) + 1} ELSE {})
         /\ \A u : Len(custody) + 1 \notin OpenRows(u)
BY RowPassed DEF OpenRows, Issued

LEMMA OpenAfterTaking ==
  ASSUME AssetTypes, NEW u \in Unit, NEW r \in Row, NEW S, ObjectTakes(u, r, S)
  PROVE  \A q \in Request : Issued(q)' \subseteq Issued(q)
<1>1. CASE row[r].object = None
  BY <1>1, OpenAfterClosing DEF ObjectTakes
<1>2. CASE row[r].object # None
  <2>1. row[r].object \in Object
    BY <1>2 DEF AssetTypes, Reservation
  <2>2. PICK n \in Custody : n = [Held(u, row[r].object, row[r].object) EXCEPT !.row = r]
    BY <2>1, HeldIsCustody
  <2>3. n.open /\ n.request = None
    BY <2>2 DEF Held
  <2>4. PassOn(S \union OpenRows(u), n)
    BY <1>2, <2>2 DEF ObjectTakes
  <2> QED BY <2>3, <2>4, OpenAfterPassing, AssetAssumption
<1> QED BY <1>1, <1>2

LEMMA DutyKept == [Next]_vars => duty' = duty
<1> USE DEF Begin, Finished, register, money
<1>1. ASSUME NEW h \in Handler, CustodyStep(h) PROVE duty' = duty
  <2>1. ASSUME NEW q \in Request, FileRequest(h, q) \/ DecideRead(h, q) \/ CancelRead(h, q) \/ Issue(h, q)
        PROVE  duty' = duty
    BY <2>1 DEF FileRequest, DecideRead, CancelRead, Issue
  <2>2. ASSUME NEW u \in Unit, DirectIssue(h, u) \/ UpdateAsset(h, u) PROVE duty' = duty
    BY <2>2 DEF DirectIssue, UpdateAsset
  <2>3. ASSUME NEW c \in DOMAIN custody, AcceptRead(h, c) \/ ReassignRead(h, c) \/ ReleaseRead(h, c) PROVE duty' = duty
    BY <2>3 DEF AcceptRead, ReassignRead, ReleaseRead
  <2>4. CASE SettleRequest(h) \/ AssertFree(h) \/ HandOver(h) \/ MarkIssued(h)
    BY <2>4 DEF SettleRequest, AssertFree, HandOver, MarkIssued
  <2>5. CASE AcceptWrite(h) \/ ReassignWrite(h) \/ ReleaseWrite(h)
    BY <2>5 DEF AcceptWrite, ReassignWrite, ReleaseWrite
  <2> QED BY <1>1, <2>1, <2>2, <2>3, <2>4, <2>5 DEF CustodyStep
<1>2. ASSUME NEW h \in Handler, AllocationStep(h) PROVE duty' = duty
  BY <1>2 DEF AllocationStep, AllocateCheck, CloseRowRead, AcceptUnits, FileReturn, ReceiveReturn, CancelReturn,
        ReallocateCheck, ReleaseAllocRead, HandBack, Allocate, Reallocate, CloseRow, ReleaseAlloc, SaveTaskRead, SaveTask
<1>3. ASSUME NEW h \in Handler, MoneyStep(h) PROVE duty' = duty
  BY <1>3 DEF MoneyStep, CreateRecord, UpdateRecord, Complete, RemoveRecord, FinalizeRead, RaiseNext, RecordSent,
         CallbackRead, CallbackWrite, BookTransfer
<1> QED BY <1>1, <1>2, <1>3 DEF Next, Abort, vars

(* What a handler takes up or lays down in a step, others keeping theirs.  *)
Turns(h, ops) ==
  job' = job \/ \E m : job' = [job EXCEPT ![h] = m] /\ (m # None => m.op \in ops)

CustodyOps == {"settle", "hand", "accept", "reassign", "release"}
AllocationOps == {"allocate", "reallocate", "closeRow", "releaseAllocation", "remove", "saveTask"}

LEMMA TurnOf ==
  ASSUME AssetTypes, NEW h \in Handler, NEW ops, Turns(h, ops), NEW g \in Handler, job'[g] # None
  PROVE  \/ job[g] = job'[g] /\ job[g] # None
         \/ g = h /\ job'[g].op \in ops
BY DEF Turns, AssetTypes, JobsOK

LEMMA TurnTaken ==
  ASSUME NEW h \in Handler, NEW ops, NEW m, Begin(h, m), m.op \in ops
  PROVE  Turns(h, ops)
BY DEF Begin, Turns

LEMMA CustodyTurns == ASSUME AssetTypes, NEW h \in Handler, CustodyStep(h) PROVE Turns(h, CustodyOps)
<1> USE DEF CustodyOps
<1>0. CASE job' = job
  BY <1>0 DEF Turns
<1>1. ASSUME NEW q \in Request, DecideRead(h, q) \/ CancelRead(h, q) PROVE Turns(h, CustodyOps)
  <2>1. PICK m : Begin(h, m) /\ m.op = "settle"
    BY <1>1 DEF DecideRead, CancelRead
  <2> QED BY <2>1, TurnTaken
<1>2. ASSUME NEW q \in Request, Issue(h, q) PROVE Turns(h, CustodyOps)
  <2>1. PICK m : Begin(h, m) /\ m.op = "hand"
    BY <1>2 DEF Issue, Handing
  <2> QED BY <2>1, TurnTaken
<1>3. ASSUME NEW u \in Unit, DirectIssue(h, u) PROVE Turns(h, CustodyOps)
  <2>1. PICK m : Begin(h, m) /\ m.op = "hand"
    BY <1>3 DEF DirectIssue, Handing
  <2> QED BY <2>1, TurnTaken
<1>4. ASSUME NEW c \in DOMAIN custody, AcceptRead(h, c) PROVE Turns(h, CustodyOps)
  <2>1. PICK m : Begin(h, m) /\ m.op = "accept"
    BY <1>4 DEF AcceptRead
  <2> QED BY <2>1, TurnTaken
<1>7. ASSUME NEW c \in DOMAIN custody, ReassignRead(h, c) PROVE Turns(h, CustodyOps)
  <2>1. PICK m : Begin(h, m) /\ m.op = "reassign"
    BY <1>7 DEF ReassignRead
  <2> QED BY <2>1, TurnTaken
<1>8. ASSUME NEW c \in DOMAIN custody, ReleaseRead(h, c) PROVE Turns(h, CustodyOps)
  <2>1. PICK m : Begin(h, m) /\ m.op = "release"
    BY <1>8 DEF ReleaseRead
  <2> QED BY <2>1, TurnTaken
<1>5. CASE Finished(h)
  BY <1>5 DEF Finished, Turns
<1>6. CASE AssertFree(h) \/ HandOver(h)
  <2>1. PICK j \in Hand : j = job[h]
    BY <1>6 DEF AssertFree, HandOver, Doing, AssetTypes, JobsOK, JobOK
  <2>3. PICK m1 : m1 = [j EXCEPT !.free = TRUE]
    OBVIOUS
  <2>4. PICK m2 : m2 = [j EXCEPT !.units = Tail(@), !.free = FALSE]
    OBVIOUS
  <2>5. m1.op = "hand" /\ m2.op = "hand"
    BY <2>1, <2>3, <2>4 DEF Hand
  <2>6. Begin(h, m1) \/ Begin(h, m2)
    BY <1>6, <2>1, <2>3, <2>4 DEF AssertFree, HandOver
  <2> QED BY <2>5, <2>6, TurnTaken
<1> QED
  BY <1>0, <1>1, <1>2, <1>3, <1>4, <1>5, <1>6, <1>7, <1>8
     DEF CustodyStep, FileRequest, UpdateAsset, SettleRequest, MarkIssued, AcceptWrite, ReassignWrite, ReleaseWrite

LEMMA AllocationTurns == ASSUME AssetTypes, NEW h \in Handler, AllocationStep(h) PROVE Turns(h, AllocationOps)
<1> USE DEF AllocationOps
<1>1. ASSUME NEW r \in Row, AcceptUnits(h, r) \/ FileReturn(h, r) \/ ReceiveReturn(h, r) \/ CancelReturn(h, r)
      PROVE  Turns(h, AllocationOps)
  <2>1. job' = job
    BY <1>1 DEF AcceptUnits, FileReturn, ReceiveReturn, CancelReturn
  <2> QED BY <2>1 DEF Turns
<1>6. ASSUME NEW r \in Row, CloseRowRead(h, r) PROVE Turns(h, AllocationOps)
  <2>1. PICK m : Begin(h, m) /\ m.op = "closeRow"
    BY <1>6 DEF CloseRowRead
  <2> QED BY <2>1, TurnTaken
<1>2. ASSUME NEW r \in Row, NEW u \in Unit, AllocateCheck(h, r, u) PROVE Turns(h, AllocationOps)
  <2>1. PICK m : Begin(h, m) /\ m.op = "allocate"
    BY <1>2 DEF AllocateCheck
  <2> QED BY <2>1, TurnTaken
<1>3. ASSUME NEW i \in DOMAIN alloc, NEW u \in Unit, ReallocateCheck(h, i, u) PROVE Turns(h, AllocationOps)
  <2>1. PICK m : Begin(h, m) /\ m.op = "reallocate"
    BY <1>3 DEF ReallocateCheck
  <2> QED BY <2>1, TurnTaken
<1>4. ASSUME NEW i \in DOMAIN alloc, ReleaseAllocRead(h, i) PROVE Turns(h, AllocationOps)
  <2>1. PICK m : Begin(h, m) /\ m.op \in {"releaseAllocation", "remove"}
    BY <1>4 DEF ReleaseAllocRead
  <2> QED BY <2>1, TurnTaken
<1>7. ASSUME NEW i \in DOMAIN alloc, HandBack(h, i) PROVE Turns(h, AllocationOps)
  BY <1>7 DEF HandBack, Turns
<1>8. ASSUME NEW r \in Row, SaveTaskRead(h, r) PROVE Turns(h, AllocationOps)
  <2>1. PICK m : Begin(h, m) /\ m.op = "saveTask"
    BY <1>8 DEF SaveTaskRead
  <2> QED BY <2>1, TurnTaken
<1>5. CASE Finished(h)
  BY <1>5 DEF Finished, Turns
<1> QED
  BY <1>1, <1>2, <1>3, <1>4, <1>5, <1>6, <1>7, <1>8
     DEF AllocationStep, Allocate, Reallocate, CloseRow, ReleaseAlloc, SaveTask

LEMMA MoneyTurns == ASSUME AssetTypes, NEW h \in Handler, MoneyStep(h) PROVE Turns(h, {"finalize", "callback"})
<1>1. CASE job' = job \/ Finished(h)
  BY <1>1 DEF Finished, Turns
<1>2. CASE FinalizeRead(h)
  <2>1. PICK m : Begin(h, m) /\ m.op = "finalize"
    BY <1>2 DEF FinalizeRead, Split
  <2> QED BY <2>1, TurnTaken
<1>3. CASE RaiseNext(h)
  <2>1. PICK m : Begin(h, m) /\ \E t \in 1..MaxTransfers : \/ m = [job[h] EXCEPT !.todo = Tail(@), !.prepaid = t]
                                                           \/ m = [job[h] EXCEPT !.todo = Tail(@), !.full = t]
    BY <1>3 DEF RaiseNext
  <2>2. JobOK(job[h]) /\ job[h].op = "finalize"
    BY <1>3 DEF RaiseNext, Doing, AssetTypes, JobsOK
  <2>3. m.op = "finalize"
    BY <2>1, <2>2 DEF JobOK
  <2> QED BY <2>1, <2>3, TurnTaken
<1>4. CASE CallbackRead(h)
  <2>1. PICK m : Begin(h, m) /\ m.op = "callback"
    BY <1>4 DEF CallbackRead
  <2> QED BY <2>1, TurnTaken
<1> QED
  BY <1>1, <1>2, <1>3, <1>4
     DEF MoneyStep, CreateRecord, UpdateRecord, Complete, RemoveRecord, RecordSent, CallbackWrite, BookTransfer

(* Bookings and their ways back put nothing on a request.                  *)
LEMMA AllocationIssuesNothing ==
  ASSUME AssetTypes, NEW h \in Handler, AllocationStep(h)
  PROVE  request' = request /\ \A q \in Request : Issued(q)' \subseteq Issued(q)
<1> USE DEF register, money
<1>1. CASE UNCHANGED <<custody, request>>
  BY <1>1 DEF Issued
<1>2. ASSUME UNCHANGED request, NEW S, custody' = Closed(S)
      PROVE request' = request /\ \A q \in Request : Issued(q)' \subseteq Issued(q)
  BY <1>2, OpenAfterClosing
<1>3. ASSUME NEW r \in Row, NEW u \in Unit, NEW S, UNCHANGED request, ObjectTakes(u, r, S)
      PROVE request' = request /\ \A q \in Request : Issued(q)' \subseteq Issued(q)
  BY <1>3, OpenAfterTaking
<1>4. CASE Allocate(h)
  <2>1. job[h].row \in Row /\ job[h].unit \in Unit
    BY <1>4 DEF Allocate, Doing, AssetTypes, JobsOK, JobOK
  <2> QED BY <1>3, <1>4, <2>1 DEF Allocate
<1>5. CASE Reallocate(h)
  <2>1. job[h].id \in DOMAIN alloc /\ job[h].unit \in Unit
    BY <1>5 DEF Reallocate, Doing, AssetTypes, JobsOK, JobOK
  <2>2. alloc[job[h].id] \in Allocation
    BY <2>1 DEF AssetTypes
  <2>3. alloc[job[h].id].row \in Row
    BY <2>2 DEF Allocation
  <2> QED BY <1>3, <1>5, <2>1, <2>3 DEF Reallocate
<1>6. CASE CloseRow(h)
  BY <1>2, <1>6 DEF CloseRow
<1>7. CASE ReleaseAlloc(h)
  BY <1>1, <1>2, <1>7 DEF ReleaseAlloc
<1> QED
  BY <1>1, <1>4, <1>5, <1>6, <1>7 DEF AllocationStep, AllocateCheck, CloseRowRead, AcceptUnits, FileReturn,
     ReceiveReturn, CancelReturn, ReallocateCheck, ReleaseAllocRead, HandBack, SaveTaskRead, SaveTask

-----------------------------------------------------------------------------
(* No more units on a request than it asked for.                           *)

Serving(h, q) == job[h] # None /\ job[h].op = "hand" /\ job[h].request = q

IssueInv ==
  /\ \A g, h \in Handler : "issue" \in duty[g] /\ "issue" \in duty[h] => g = h
  /\ \A h \in Handler, q \in Request : Serving(h, q) =>
       /\ "issue" \in duty[h]
       /\ Cardinality(Issued(q)) + Len(job[h].units) <= request[q].quantity
  /\ IssuedWithinRequest

LEMMA IssuedCounts ==
  ASSUME AssetTypes, NEW q, NEW S, S \subseteq Issued(q)
  PROVE  IsFiniteSet(Issued(q)) /\ Cardinality(Issued(q)) \in Nat
         /\ Cardinality(S) \in Nat /\ Cardinality(S) <= Cardinality(Issued(q))
<1>0. Len(custody) \in Nat /\ DOMAIN custody = 1..Len(custody)
  BY DEF AssetTypes
<1>1. IsFiniteSet(1..Len(custody))
  BY <1>0, FS_Interval
<1>2. Issued(q) \subseteq 1..Len(custody)
  BY <1>0 DEF Issued
<1>3. IsFiniteSet(Issued(q))
  BY <1>1, <1>2, FS_Subset
<1> QED BY <1>3, FS_Subset, FS_CardinalityType

Numbers ==
  /\ \A q \in Request : request[q].quantity \in Nat
  /\ \A h \in Handler, q \in Request : Serving(h, q) => Len(job[h].units) \in Nat

LEMMA NumbersHold == AssetTypes => Numbers
<1> SUFFICES ASSUME AssetTypes PROVE Numbers
  OBVIOUS
<1>1. \A q \in Request : request[q].quantity \in Nat
  BY DEF AssetTypes, RequestOK
<1>2. ASSUME NEW h \in Handler, NEW q \in Request, Serving(h, q) PROVE Len(job[h].units) \in Nat
  <2>1. job[h] \in Hand
    BY <1>2 DEF Serving, AssetTypes, JobsOK, JobOK
  <2>2. job[h].units \in Seq(Unit)
    BY <2>1 DEF Hand
  <2> QED BY <2>2
<1> QED BY <1>1, <1>2 DEF Numbers

(* A step that hands nothing over on a request.                            *)
LEMMA NothingIssued ==
  ASSUME AssetTypes, AssetTypes', IssueInv, duty' = duty,
         \A q \in Request : Issued(q)' \subseteq Issued(q),
         \A q \in Request : request[q].quantity <= request'[q].quantity,
         \A h \in Handler, q \in Request : Serving(h, q)' => Serving(h, q) /\ Len(job'[h].units) <= Len(job[h].units)
  PROVE  IssueInv'
<1>1. Numbers /\ Numbers'
  BY NumbersHold, PTL
<1>2. \A q \in Request : Cardinality(Issued(q)') \in Nat /\ Cardinality(Issued(q)) \in Nat
                         /\ Cardinality(Issued(q)') <= Cardinality(Issued(q))
  BY IssuedCounts
<1>5. IssuedWithinRequest'
  BY <1>1, <1>2 DEF IssueInv, IssuedWithinRequest, Numbers
<1>6. ASSUME NEW h \in Handler, NEW q \in Request, Serving(h, q)'
      PROVE  "issue" \in duty'[h] /\ Cardinality(Issued(q)') + Len(job'[h].units) <= request'[q].quantity
    <2>1. Serving(h, q) /\ "issue" \in duty[h] /\ Cardinality(Issued(q)) + Len(job[h].units) <= request[q].quantity
    BY <1>6 DEF IssueInv
  <2>2. Len(job'[h].units) \in Nat /\ Len(job[h].units) \in Nat /\ request[q].quantity \in Nat /\ request'[q].quantity \in Nat
    BY <1>1, <1>6, <2>1 DEF Numbers
  <2> QED BY <1>2, <1>6, <2>1, <2>2
<1> QED BY <1>5, <1>6 DEF IssueInv

LEMMA IssueInvStart == OneIssues /\ Init => IssueInv
<1> SUFFICES ASSUME OneIssues, Init PROVE IssueInv
  OBVIOUS
<1>1. \A q \in Request : Issued(q) = {} /\ request[q].quantity = 0
  BY DEF Init, Issued, NoRequest
<1>2. Cardinality({}) = 0
  BY FS_EmptySet
<1>3. IssuedWithinRequest
  BY <1>1, <1>2 DEF IssuedWithinRequest
<1>4. \A h \in Handler, q \in Request : ~Serving(h, q)
  BY DEF Init, Serving
<1>5. \A g, h \in Handler : "issue" \in duty[g] /\ "issue" \in duty[h] => g = h
  BY DEF Init, OneIssues
<1> QED BY <1>3, <1>4, <1>5 DEF IssueInv

LEMMA IssueInvKept == AssetTypes /\ AssetTypes' /\ IssueInv /\ [Next]_vars => IssueInv'
<1> SUFFICES ASSUME AssetTypes, AssetTypes', IssueInv, [Next]_vars PROVE IssueInv'
  OBVIOUS
<1> USE DEF register, money
<1>1. duty' = duty
  BY DutyKept
<1>2. \A q \in Request : request[q].quantity \in Nat
  BY NumbersHold DEF Numbers
<1>3. ASSUME \A q \in Request : Issued(q)' \subseteq Issued(q),
             \A q \in Request : request[q].quantity <= request'[q].quantity,
             NEW h \in Handler, NEW ops, "hand" \notin ops, Turns(h, ops)
      PROVE  IssueInv'
  <2>1. ASSUME NEW g \in Handler, NEW q \in Request, Serving(g, q)'
        PROVE  Serving(g, q) /\ Len(job'[g].units) <= Len(job[g].units)
    <3>1. job'[g] = job[g] /\ Serving(g, q)
      BY <1>3, <2>1, TurnOf DEF Serving
    <3> QED BY <3>1, NumbersHold DEF Numbers
  <2> QED BY <1>1, <1>3, <2>1, NothingIssued
<1>4. ASSUME UNCHANGED <<custody, request>>
      PROVE  /\ \A q \in Request : Issued(q)' \subseteq Issued(q)
             /\ \A q \in Request : request[q].quantity <= request'[q].quantity
  BY <1>2, <1>4 DEF Issued
<1>5. ASSUME NEW h \in Handler, NEW m, Begin(h, m), UNCHANGED <<custody, request>>,
             m.op = "hand" /\ m.request # None => Serving(h, m.request) /\ Len(m.units) <= Len(job[h].units)
      PROVE  IssueInv'
  <2>1. \A g \in Handler : job'[g] = IF g = h THEN m ELSE job[g]
    BY <1>5 DEF Begin, AssetTypes, JobsOK
  <2>2. ASSUME NEW g \in Handler, NEW q \in Request, Serving(g, q)'
        PROVE  Serving(g, q) /\ Len(job'[g].units) <= Len(job[g].units)
    <3>1. CASE g = h
      BY <1>5, <2>1, <2>2, <3>1, AssetAssumption DEF Serving
    <3>2. CASE g # h
      <4>1. job'[g] = job[g] /\ Serving(g, q)
        BY <2>1, <2>2, <3>2 DEF Serving
      <4> QED BY <4>1, NumbersHold DEF Numbers
    <3> QED BY <3>1, <3>2
  <2> QED BY <1>1, <1>4, <1>5, <2>2, NothingIssued
<1>10. ASSUME NEW h \in Handler, NEW q \in Request, FileRequest(h, q) PROVE IssueInv'
  <2>1. PICK who \in Person \union Object, n \in 1..2 : request' = [request EXCEPT ![q] = [status |-> "PENDING", for |-> who, quantity |-> n]]
    BY <1>10 DEF FileRequest
  <2>2. request[q].quantity = 0
    BY <1>10 DEF FileRequest, AssetTypes, RequestOK
  <2>3. \A k \in Request : request[k].quantity <= request'[k].quantity
    BY <1>2, <2>1, <2>2 DEF AssetTypes
  <2>4. Turns(h, {}) /\ \A k \in Request : Issued(k)' \subseteq Issued(k)
    BY <1>10 DEF FileRequest, Turns, Issued
  <2> QED BY <1>3, <2>3, <2>4
<1>11. ASSUME NEW h \in Handler, NEW q \in Request, DecideRead(h, q) \/ CancelRead(h, q) PROVE IssueInv'
  <2>1. PICK m : Begin(h, m) /\ m.op = "settle"
    BY <1>11 DEF DecideRead, CancelRead
  <2> QED BY <1>5, <1>11, <2>1 DEF DecideRead, CancelRead
<1>12. ASSUME NEW h \in Handler, NEW q \in Request, Issue(h, q) PROVE IssueInv'
  <2>1. PICK units \in {<<u>> : u \in Unit} \union {<<u, v>> : u \in Unit, v \in Unit} :
          /\ AlreadyOf(q) + Len(units) <= request[q].quantity
          /\ Begin(h, Handing(request[q].for, q, units, AlreadyOf(q) + Len(units) >= request[q].quantity))
    BY <1>12 DEF Issue
  <2>2. PICK m : m = Handing(request[q].for, q, units, AlreadyOf(q) + Len(units) >= request[q].quantity)
    OBVIOUS
  <2>3. m.op = "hand" /\ m.request = q /\ m.units = units /\ Begin(h, m)
    BY <2>1, <2>2 DEF Handing
  <2>4. \A g \in Handler : job'[g] = IF g = h THEN m ELSE job[g]
    BY <2>3 DEF Begin, AssetTypes, JobsOK
  <2>5. UNCHANGED <<custody, request>> /\ "issue" \in duty[h] /\ \A k : Issued(k)' = Issued(k)
    BY <1>12 DEF Issue, May, Issued
  <2>6. ASSUME NEW g \in Handler, NEW k \in Request, Serving(g, k)'
        PROVE  "issue" \in duty'[g] /\ Cardinality(Issued(k)') + Len(job'[g].units) <= request'[k].quantity
    <3>1. CASE g = h
      BY <1>1, <2>1, <2>3, <2>4, <2>5, <2>6, <3>1 DEF Serving, AlreadyOf
    <3>2. CASE g # h
      <4>1. job'[g] = job[g] /\ Serving(g, k)
        BY <2>4, <2>6, <3>2 DEF Serving
      <4> QED BY <1>1, <2>5, <4>1 DEF IssueInv
    <3> QED BY <3>1, <3>2
  <2>7. IssuedWithinRequest'
    BY <2>5 DEF IssueInv, IssuedWithinRequest
  <2> QED BY <1>1, <2>6, <2>7 DEF IssueInv
<1>13. ASSUME NEW h \in Handler, NEW u \in Unit, DirectIssue(h, u) \/ UpdateAsset(h, u) PROVE IssueInv'
  <2>1. CASE UpdateAsset(h, u)
    <3>1. UNCHANGED <<custody, request>> /\ Turns(h, {})
      BY <2>1 DEF UpdateAsset, Turns
    <3> QED BY <1>3, <1>4, <3>1
  <2>2. CASE DirectIssue(h, u)
    <3>1. PICK m : Begin(h, m) /\ m.request = None
      BY <2>2 DEF DirectIssue, Handing
    <3> QED BY <1>5, <2>2, <3>1 DEF DirectIssue
  <2> QED BY <1>13, <2>1, <2>2
<1>14. ASSUME NEW h \in Handler, NEW c \in DOMAIN custody, AcceptRead(h, c) \/ ReassignRead(h, c) \/ ReleaseRead(h, c)
       PROVE  IssueInv'
  <2>1. PICK m : Begin(h, m) /\ m.op \in {"accept", "reassign", "release"}
    <3>1. CASE AcceptRead(h, c)
      BY <3>1 DEF AcceptRead
    <3>2. CASE ReassignRead(h, c)
      BY <3>2 DEF ReassignRead
    <3>3. CASE ReleaseRead(h, c)
      BY <3>3 DEF ReleaseRead
    <3> QED BY <1>14, <3>1, <3>2, <3>3
  <2> QED BY <1>5, <1>14, <2>1 DEF AcceptRead, ReassignRead, ReleaseRead
<1>15. ASSUME NEW h \in Handler, SettleRequest(h) \/ MarkIssued(h) PROVE IssueInv'
  <2>1. PICK k, status : request' = request \/ request' = [request EXCEPT ![k].status = status]
    BY <1>15 DEF SettleRequest, MarkIssued
  <2>2. \A q \in Request : request[q].quantity <= request'[q].quantity
    <3>1. \A q \in Request : request'[q].quantity = request[q].quantity
      BY <2>1 DEF AssetTypes, RequestOK
    <3> QED BY <1>2, <3>1
  <2>3. Turns(h, {}) /\ \A q \in Request : Issued(q)' \subseteq Issued(q)
    BY <1>15 DEF SettleRequest, MarkIssued, Finished, Turns, Issued
  <2> QED BY <1>3, <2>2, <2>3
<1>16. ASSUME NEW h \in Handler, AssertFree(h) PROVE IssueInv'
  <2>1. PICK j \in Hand : j = job[h] /\ JobOK(j) /\ j # None
    BY <1>16 DEF AssertFree, Doing, AssetTypes, JobsOK, JobOK
  <2>2. PICK m : m = [j EXCEPT !.free = TRUE]
    OBVIOUS
  <2>3. m.units = j.units /\ m.request = j.request /\ Len(j.units) \in Nat /\ Begin(h, m) /\ j.op = "hand"
    BY <1>16, <2>1, <2>2 DEF Hand, AssertFree
  <2> QED BY <1>5, <1>16, <2>1, <2>3 DEF AssertFree, Serving
<1>17. ASSUME NEW h \in Handler, HandOver(h) PROVE IssueInv'
  <2>1. PICK j \in Hand : j = job[h] /\ JobOK(j) /\ j # None
    BY <1>17 DEF HandOver, Doing, AssetTypes, JobsOK, JobOK
  <2>2. j.op = "hand" /\ j.units # <<>> /\ j.units \in Seq(Unit)
    BY <1>17, <2>1 DEF HandOver, Hand, JobOK
  <2>3. PICK u \in Unit : u = Head(j.units)
    BY <2>2
  <2>4. PICK n \in Custody : n = [Held(u, j.who, IF j.who \in Person THEN None ELSE j.who) EXCEPT !.request = j.request]
    BY HeldIsCustody DEF Hand
  <2>5. PassOn({}, n) /\ request' = request /\ Begin(h, [j EXCEPT !.units = Tail(@), !.free = FALSE])
    BY <1>17, <2>1, <2>3, <2>4 DEF HandOver
  <2>6. n.open /\ n.request = j.request
    BY <2>4 DEF Held
  <2>7. PICK m : m = [j EXCEPT !.units = Tail(@), !.free = FALSE]
    OBVIOUS
  <2>8. m.request = j.request /\ m.op = "hand" /\ m.units = Tail(j.units) /\ Len(m.units) = Len(j.units) - 1
        /\ Len(j.units) \in Nat
    BY <2>1, <2>2, <2>7 DEF Hand
  <2>9. \A g \in Handler : job'[g] = IF g = h THEN m ELSE job[g]
    BY <2>5, <2>7 DEF Begin, AssetTypes, JobsOK
  <2>14. \A q : Issued(q)' = (Issued(q) \ {}) \union (IF n.request = q THEN {Len(custody) + 1} ELSE {})
    BY <2>5, <2>6, OpenAfterPassing
  <2>10. \A q \in Request : q # j.request => Issued(q)' = Issued(q)
    BY <2>6, <2>14
  <2>11. ASSUME NEW q \in Request, q = j.request
         PROVE  /\ Cardinality(Issued(q)') = Cardinality(Issued(q)) + 1 /\ Cardinality(Issued(q)) \in Nat
                /\ Cardinality(Issued(q)) + Len(j.units) <= request[q].quantity
                /\ \A g \in Handler : Serving(g, q)' => g = h
    <3>1. Issued(q)' = Issued(q) \union {Len(custody) + 1} /\ Len(custody) + 1 \notin Issued(q)
      <4>1. Len(custody) + 1 \notin DOMAIN custody
        BY DEF AssetTypes
      <4> QED BY <2>6, <2>11, <2>14, <4>1 DEF Issued
    <3>2. IsFiniteSet(Issued(q)) /\ Cardinality(Issued(q)) \in Nat
      BY IssuedCounts
    <3>3. Cardinality(Issued(q)') = Cardinality(Issued(q)) + 1
      BY <3>1, <3>2, FS_AddElement
    <3>4. Serving(h, q)
      BY <2>1, <2>2, <2>11 DEF Serving
    <3>5. \A g \in Handler : Serving(g, q)' => g = h
      BY <2>9, <3>4 DEF Serving, IssueInv
    <3> QED BY <2>1, <3>2, <3>3, <3>4, <3>5 DEF IssueInv
  <2>12. ASSUME NEW g \in Handler, NEW q \in Request, Serving(g, q)'
         PROVE  "issue" \in duty'[g] /\ Cardinality(Issued(q)') + Len(job'[g].units) <= request'[q].quantity
    <3>1. CASE q = j.request
      <4>1. g = h /\ Serving(h, q)
        BY <2>1, <2>2, <2>11, <2>12, <3>1 DEF Serving
      <4>2. request[q].quantity \in Nat /\ job'[g].units = m.units
        BY <1>2, <2>9, <4>1
      <4> QED BY <1>1, <2>5, <2>8, <2>11, <3>1, <4>1, <4>2 DEF IssueInv
    <3>2. CASE q # j.request
      <4>1. g # h /\ Serving(g, q) /\ job'[g] = job[g]
        BY <2>8, <2>9, <2>12, <3>2 DEF Serving
      <4> QED BY <1>1, <2>5, <2>10, <3>2, <4>1 DEF IssueInv
    <3> QED BY <3>1, <3>2
  <2>13. ASSUME NEW q \in Request PROVE Cardinality(Issued(q)') <= request'[q].quantity
    <3>1. CASE q = j.request
      <4>1. Len(j.units) >= 1
        BY <2>2
      <4>2. request[q].quantity \in Nat /\ request'[q] = request[q]
        BY <1>2, <2>5
      <4> QED BY <2>8, <2>11, <3>1, <4>1, <4>2
    <3>2. CASE q # j.request
      BY <2>5, <2>10, <3>2 DEF IssueInv, IssuedWithinRequest
    <3> QED BY <3>1, <3>2
  <2> QED BY <1>1, <2>12, <2>13 DEF IssueInv, IssuedWithinRequest
<1>18. ASSUME NEW h \in Handler, AcceptWrite(h) \/ ReassignWrite(h) \/ ReleaseWrite(h) PROVE IssueInv'
  <2>1. Turns(h, {}) /\ request' = request
    BY <1>18 DEF AcceptWrite, ReassignWrite, ReleaseWrite, Finished, Turns
  <2>2. PICK c \in DOMAIN custody : c = job[h].id
    BY <1>18 DEF AcceptWrite, ReassignWrite, ReleaseWrite, Doing, AssetTypes, JobsOK, JobOK
  <2>3. custody[c] \in Custody
    BY DEF AssetTypes
  <2>4. \A q \in Request : Issued(q)' \subseteq Issued(q)
    <3>1. CASE AcceptWrite(h)
      <4>1. PICK n : n = [custody[c] EXCEPT !.accepted = TRUE]
        OBVIOUS
      <4>2. n.open = custody[c].open /\ n.request = custody[c].request
        BY <2>3, <4>1 DEF Custody
      <4>3. custody' = [custody EXCEPT ![c] = n]
        BY <2>2, <3>1, <4>1 DEF AcceptWrite
      <4> QED BY <4>2, <4>3 DEF Issued, AssetTypes
    <3>2. CASE ReassignWrite(h)
      <4>1. job[h].who \in Person /\ custody[c].holder \in Object
        BY <2>2, <3>2 DEF ReassignWrite, Doing, AssetTypes, JobsOK, JobOK
      <4>2. PICK n \in Custody : n = Held(custody[c].unit, job[h].who, custody[c].holder)
        BY <2>3, <4>1, HeldIsCustody DEF Custody
      <4>3. n.open /\ n.request = None /\ PassOn({c}, n)
        BY <2>2, <3>2, <4>2 DEF Held, ReassignWrite
      <4> QED BY <4>3, OpenAfterPassing, AssetAssumption
    <3>3. CASE ReleaseWrite(h) /\ custody' = Closed({c})
      BY <3>3, OpenAfterClosing
    <3>4. CASE ReleaseWrite(h) /\ custody' # Closed({c})
      <4>1. custody[c].origin \in Object
        BY <2>2, <2>3, <3>4 DEF ReleaseWrite, Custody
      <4>2. PICK n \in Custody : n = [Held(custody[c].unit, custody[c].origin, custody[c].origin) EXCEPT !.accepted = TRUE]
        BY <2>3, <4>1, HeldIsCustody DEF Custody
      <4>3. n.open /\ n.request = None /\ PassOn({c}, n)
        BY <2>2, <3>4, <4>2 DEF Held, ReleaseWrite
      <4> QED BY <4>3, OpenAfterPassing, AssetAssumption
    <3> QED BY <1>18, <3>1, <3>2, <3>3, <3>4
  <2>5. \A q \in Request : request[q].quantity <= request'[q].quantity
    BY <1>2, <2>1
  <2> QED BY <1>3, <2>1, <2>4, <2>5
<1>19. ASSUME NEW h \in Handler, CustodyStep(h) PROVE IssueInv'
  BY <1>10, <1>11, <1>12, <1>13, <1>14, <1>15, <1>16, <1>17, <1>18, <1>19 DEF CustodyStep
<1>6. ASSUME NEW h \in Handler, AllocationStep(h) PROVE IssueInv'
  BY <1>2, <1>3, <1>6, AllocationIssuesNothing, AllocationTurns DEF AllocationOps
<1>7. ASSUME NEW h \in Handler, MoneyStep(h) PROVE IssueInv'
  BY <1>3, <1>4, <1>7, MoneyTypes, MoneyTurns
<1>8. CASE UNCHANGED vars
  <2>1. UNCHANGED <<custody, request, job>>
    BY <1>8 DEF vars
  <2>2. \A g \in Handler, q \in Request : Serving(g, q)' => Serving(g, q) /\ Len(job'[g].units) <= Len(job[g].units)
    BY <2>1, NumbersHold DEF Numbers, Serving
  <2> QED BY <1>1, <1>4, <2>1, <2>2, NothingIssued
<1>9. ASSUME NEW h \in Handler, Abort(h) PROVE IssueInv'
  <2>1. UNCHANGED <<custody, request>> /\ Turns(h, {})
    BY <1>9 DEF Abort, Turns, Finished
  <2> QED BY <1>3, <1>4, <2>1
<1> QED BY <1>6, <1>7, <1>8, <1>9, <1>19 DEF Next

(* issue, handOver and handOverToObject, with assertFree between two units, *)
(* releases, bookings and receipts meanwhile, and requests cut off half     *)
(* way: as long as one handler at most issues on requests, no request has   *)
(* more units out than it asked for.                                        *)
THEOREM RequestsAreNotOverrun == OneIssues => (Spec => []IssuedWithinRequest)
<1>1. OneIssues /\ Init => AssetTypes /\ IssueInv
  BY AssetTypesStart, IssueInvStart
<1>2. AssetTypes /\ IssueInv /\ [Next]_vars => (AssetTypes /\ IssueInv)'
  BY AssetTypesKept, IssueInvKept
<1>3. IssueInv => IssuedWithinRequest
  BY DEF IssueInv
<1> QED BY <1>1, <1>2, <1>3, PTL DEF Spec

-----------------------------------------------------------------------------
(* Bookings of one unit do not overlap.                                    *)

Books(h) == duty[h] \intersect BookingOps # {}

(* The unit and the row a handler has checked and is about to book.        *)
Placing(h, u, r) ==
  /\ job[h] # None /\ job[h].op \in {"allocate", "reallocate"} /\ job[h].unit = u
  /\ r = IF job[h].op = "allocate" THEN job[h].row ELSE alloc[job[h].id].row

BookInv ==
  /\ \A g, h \in Handler : Books(g) /\ Books(h) => g = h
  /\ \A h \in Handler, u \in Unit, r \in Row : Placing(h, u, r) =>
       Books(h) /\ \A i \in OutOf(u) : ~Meets(row[alloc[i].row], row[r])
  /\ \A h \in Handler : job[h] # None /\ job[h].op = "saveTask" => Books(h)
  /\ BookedApart

SameWindow(r) == row'[r].from = row[r].from /\ row'[r].until = row[r].until /\ row'[r].moved = row[r].moved
WindowsStay == \A r \in Row : SameWindow(r)
BookingsStay ==
  /\ DOMAIN alloc \subseteq DOMAIN alloc'
  /\ \A i \in DOMAIN alloc : /\ alloc'[i].live => alloc[i].live
                             /\ alloc'[i].unit = alloc[i].unit
                             /\ alloc'[i].row = alloc[i].row

LEMMA AllocationTyped ==
  ASSUME AssetTypes, NEW i \in DOMAIN alloc
  PROVE  alloc[i] \in Allocation /\ alloc[i].row \in Row /\ alloc[i].unit \in Unit /\ i \in Nat
<1>1. alloc[i] \in Allocation /\ i \in Nat
  BY DEF AssetTypes
<1> QED BY <1>1 DEF Allocation

LEMMA WindowTyped ==
  ASSUME AssetTypes, NEW r \in Row
  PROVE  row[r].from \in Int /\ row[r].until \in Int /\ Never \in Int /\ row[r].object \in Object \union {None}
<1>1. row[r] \in Reservation
  BY DEF AssetTypes
<1> QED BY <1>1, AssetAssumption DEF Reservation

LEMMA BookInvStart == OneBooks /\ Init => BookInv
<1> SUFFICES ASSUME OneBooks, Init PROVE BookInv
  OBVIOUS
<1>1. BookedApart
  BY DEF Init, BookedApart, Live
<1>2. \A g, h \in Handler : Books(g) /\ Books(h) => g = h
  BY DEF Init, OneBooks, Books
<1>3. \A h \in Handler : \A u, r : ~Placing(h, u, r)
  BY DEF Init, Placing
<1>4. \A h \in Handler : job[h] = None
  BY DEF Init
<1> QED BY <1>1, <1>2, <1>3, <1>4 DEF BookInv

(* What BookedApart says of two bookings.                                  *)
Apart(i, j) ==
  LET a == row[alloc[i].row]
      b == row[alloc[j].row]
  IN  b.until = Never \/ b.until < a.from \/ a.until < b.from \/ a.moved >= j \/ b.moved >= j

LEMMA BookedApartIs == BookedApart <=> \A i, j \in Live : i < j /\ alloc[i].unit = alloc[j].unit => Apart(i, j)
BY DEF BookedApart, Apart, MovedSince

LEMMA ApartStays ==
  ASSUME AssetTypes, NEW i, NEW j, Apart(i, j), SameWindow(alloc[i].row), SameWindow(alloc[j].row),
         alloc'[i].row = alloc[i].row, alloc'[j].row = alloc[j].row
  PROVE  Apart(i, j)'
BY DEF Apart, SameWindow

(* A step that books nothing and looks at nothing to book.                 *)
LEMMA NothingBooked ==
  ASSUME AssetTypes, BookInv, duty' = duty, WindowsStay, BookingsStay, DOMAIN alloc' = DOMAIN alloc,
         \A g \in Handler : job'[g] # None /\ job'[g].op \in BookingOps =>
           job'[g] = job[g] \/ (job'[g].op = "saveTask" /\ Books(g))
  PROVE  BookInv'
<1>1. BookedApart'
  <2>1. SUFFICES ASSUME NEW i \in Live', NEW j \in Live', i < j, alloc'[i].unit = alloc'[j].unit
                 PROVE  Apart(i, j)'
    BY DEF BookedApart, Apart, MovedSince
  <2>2. i \in Live /\ j \in Live
    BY DEF Live, BookingsStay
  <2>3. alloc[i].row \in Row /\ alloc[j].row \in Row
    BY <2>2, AllocationTyped DEF Live
  <2>4. alloc'[i].row = alloc[i].row /\ alloc'[j].row = alloc[j].row /\ alloc[i].unit = alloc[j].unit
    BY <2>1, <2>2 DEF BookingsStay, Live
  <2>5. Apart(i, j)
    BY <2>1, <2>2, <2>4, BookedApartIs DEF BookInv
  <2> QED BY <2>3, <2>4, <2>5, ApartStays DEF WindowsStay
<1>2. ASSUME NEW h \in Handler, NEW u \in Unit, NEW r \in Row, Placing(h, u, r)'
      PROVE  Books(h)' /\ \A i \in OutOf(u)' : ~Meets(row[alloc[i].row], row[r])'
  <2>1. job'[h] = job[h] /\ job[h] # None /\ job[h].op \in {"allocate", "reallocate"}
    BY <1>2 DEF Placing, BookingOps
  <2>2. Placing(h, u, r)
    <3>1. CASE job[h].op = "allocate"
      BY <1>2, <2>1, <3>1 DEF Placing
    <3>2. CASE job[h].op = "reallocate"
      <4>1. job[h].id \in DOMAIN alloc
        BY <2>1, <3>2 DEF AssetTypes, JobsOK, JobOK
      <4> QED BY <1>2, <2>1, <3>2, <4>1 DEF Placing, BookingsStay
    <3> QED BY <2>1, <3>1, <3>2
  <2>3. ASSUME NEW i \in OutOf(u)' PROVE ~Meets(row[alloc[i].row], row[r])'
    <3>1. i \in OutOf(u) /\ alloc'[i].row = alloc[i].row /\ alloc[i].row \in Row
      BY AllocationTyped DEF OutOf, Live, BookingsStay
    <3>2. ~Meets(row[alloc[i].row], row[r])
      BY <2>2, <3>1 DEF BookInv
    <3> QED BY <3>1, <3>2 DEF Meets, WindowsStay, SameWindow
  <2> QED BY <2>2, <2>3 DEF BookInv, Books
<1>3. ASSUME NEW h \in Handler, job'[h] # None, job'[h].op = "saveTask" PROVE Books(h)'
  BY <1>3 DEF BookInv, Books, BookingOps
<1> QED BY <1>1, <1>2, <1>3 DEF BookInv, Books

(* A step that books a unit for a row, as it was checked.                  *)
LEMMA OneBooked ==
  ASSUME AssetTypes, BookInv, duty' = duty, WindowsStay, NEW h \in Handler, Finished(h),
         NEW S, NEW u \in Unit, NEW r \in Row, Placing(h, u, r), alloc' = Append(Released(S), Booking(u, r))
  PROVE  BookInv'
<1> DEFINE N == Len(alloc) + 1
<1>1. /\ DOMAIN alloc' = DOMAIN alloc \union {N} /\ N \notin DOMAIN alloc
      /\ \A i \in DOMAIN alloc : i < N
      /\ alloc'[N] = Booking(u, r)
      /\ \A i \in DOMAIN alloc : /\ alloc'[i].live <=> alloc[i].live /\ i \notin S
                                 /\ alloc'[i].unit = alloc[i].unit /\ alloc'[i].row = alloc[i].row
  BY BookingMade
<1>2. alloc'[N].unit = u /\ alloc'[N].row = r
  BY <1>1 DEF Booking
<1>3. N \in Nat
  BY DEF AssetTypes
<1> HIDE DEF N
<1>4. \A i \in OutOf(u) : ~Meets(row[alloc[i].row], row[r])
  BY DEF BookInv
<1>5. BookedApart'
  <2>1. SUFFICES ASSUME NEW i \in Live', NEW j \in Live', i < j, alloc'[i].unit = alloc'[j].unit
                 PROVE  Apart(i, j)'
    BY DEF BookedApart, Apart, MovedSince
  <2>2. i \in DOMAIN alloc \union {N} /\ j \in DOMAIN alloc \union {N}
    BY <1>1 DEF Live
  <2>3. i \in DOMAIN alloc /\ i \in Nat
    BY <1>1, <1>3, <2>1, <2>2, AllocationTyped
  <2>4. i \in Live /\ alloc'[i].row = alloc[i].row /\ alloc[i].row \in Row /\ alloc'[i].unit = alloc[i].unit
    BY <1>1, <2>3, AllocationTyped DEF Live
  <2>5. CASE j = N
    <3>1. i \in OutOf(u)
      BY <1>2, <2>1, <2>4, <2>5 DEF OutOf
    <3>2. ~Meets(row[alloc[i].row], row[r])
      BY <1>4, <3>1
    <3>3. row[r].until = Never \/ row[r].until < row[alloc[i].row].from \/ row[alloc[i].row].until < row[r].from
      <4>1. /\ row[r].until \in Int /\ row[r].from \in Int /\ Never \in Int
            /\ row[alloc[i].row].until \in Int /\ row[alloc[i].row].from \in Int
        BY <2>4, WindowTyped
      <4> QED BY <3>2, <4>1 DEF Meets
    <3> QED BY <1>2, <2>4, <2>5, <3>3 DEF WindowsStay, SameWindow, Apart
  <2>6. CASE j # N
    <3>1. j \in Live /\ alloc'[j].row = alloc[j].row /\ alloc[j].row \in Row /\ alloc'[j].unit = alloc[j].unit
      BY <1>1, <2>2, <2>6, AllocationTyped DEF Live
    <3>2. Apart(i, j)
      BY <2>1, <2>4, <3>1, BookedApartIs DEF BookInv
    <3> QED BY <2>4, <3>1, <3>2, ApartStays DEF WindowsStay
  <2> QED BY <2>5, <2>6
<1>6. \A g \in Handler, v \in Unit, q \in Row : ~Placing(g, v, q)'
  <2>1. SUFFICES ASSUME NEW g \in Handler, NEW v \in Unit, NEW q \in Row, Placing(g, v, q)' PROVE FALSE
    OBVIOUS
  <2>2. g # h /\ job'[g] = job[g]
    BY <2>1 DEF Placing, Finished, AssetTypes, JobsOK
  <2>3. Books(h)
    BY DEF BookInv
  <2>4. Books(g)
    <3>1. job[g] # None /\ job[g].op \in {"allocate", "reallocate"} /\ job[g].unit \in Unit
      BY <2>1, <2>2 DEF Placing, AssetTypes, JobsOK, JobOK
    <3>2. CASE job[g].op = "allocate"
      <4>1. job[g].row \in Row
        BY <3>1, <3>2 DEF AssetTypes, JobsOK, JobOK
      <4> QED BY <3>1, <3>2, <4>1 DEF Placing, BookInv
    <3>3. CASE job[g].op = "reallocate"
      <4>1. alloc[job[g].id].row \in Row
        BY <3>1, <3>3, AllocationTyped DEF AssetTypes, JobsOK, JobOK
      <4> QED BY <3>1, <3>3, <4>1 DEF Placing, BookInv
    <3> QED BY <3>1, <3>2, <3>3
  <2> QED BY <2>2, <2>3, <2>4 DEF BookInv
<1>7. ASSUME NEW g \in Handler, job'[g] # None, job'[g].op = "saveTask" PROVE Books(g)'
  <2>1. job'[g] = job[g]
    BY <1>7 DEF Finished, AssetTypes, JobsOK
  <2> QED BY <1>7, <2>1 DEF BookInv, Books
<1> QED BY <1>5, <1>6, <1>7 DEF BookInv, Books

(* A step that gives a task's row another window: nobody is about to book, *)
(* and bookings of that row count as moved.                                *)
LEMMA TaskMoved ==
  ASSUME AssetTypes, BookInv, duty' = duty, NEW h \in Handler, SaveTask(h)
  PROVE  BookInv'
<1>1. PICK r \in Row :
        /\ row' \in [Row -> Reservation] /\ \A q \in Row \ {r} : row'[q] = row[q]
        /\ row'[r].object = row[r].object
        /\ \/ row'[r].moved = Len(alloc)
           \/ row'[r].moved = row[r].moved /\ row'[r].from = row[r].from /\ row'[r].until = row[r].until
        /\ \E S : alloc' = Released(S)
        /\ Finished(h) /\ UNCHANGED <<asset, custody, back, request, money>>
  BY TaskSaved
<1>2. BookingsStay /\ DOMAIN alloc' = DOMAIN alloc
  BY <1>1, BookingsReleased DEF BookingsStay
<1>3. BookedApart'
  <2>1. SUFFICES ASSUME NEW i \in Live', NEW j \in Live', i < j, alloc'[i].unit = alloc'[j].unit
                 PROVE  Apart(i, j)'
    BY DEF BookedApart, Apart, MovedSince
  <2>2. i \in Live /\ j \in Live
    BY <1>2 DEF Live, BookingsStay
  <2>3. alloc[i].row \in Row /\ alloc[j].row \in Row /\ j <= Len(alloc) /\ j \in Nat
    <3>1. DOMAIN alloc = 1..Len(alloc)
      BY DEF AssetTypes
    <3> QED BY <2>2, <3>1, AllocationTyped DEF Live
  <2>4. alloc'[i].row = alloc[i].row /\ alloc'[j].row = alloc[j].row /\ alloc[i].unit = alloc[j].unit
    BY <1>2, <2>1, <2>2 DEF BookingsStay, Live
  <2>5. Apart(i, j)
    BY <2>1, <2>2, <2>4, BookedApartIs DEF BookInv
  <2>6. CASE row'[r].moved = Len(alloc) /\ r \in {alloc[i].row, alloc[j].row}
    <3>1. Len(alloc) >= j
      BY <2>3 DEF AssetTypes
    <3> QED BY <2>4, <2>6, <3>1 DEF Apart
  <2>7. CASE ~(row'[r].moved = Len(alloc) /\ r \in {alloc[i].row, alloc[j].row})
    <3>1. SameWindow(alloc[i].row) /\ SameWindow(alloc[j].row)
      BY <1>1, <2>3, <2>7 DEF SameWindow
    <3> QED BY <2>4, <2>5, <3>1, ApartStays
  <2> QED BY <2>6, <2>7
<1>4. Books(h) /\ job[h] # None
  BY DEF BookInv, SaveTask, Doing
<1>5. \A g \in Handler : job'[g] # None => g # h /\ job'[g] = job[g]
  BY <1>1 DEF Finished, AssetTypes, JobsOK
<1>6. \A g \in Handler, v \in Unit, q \in Row : ~Placing(g, v, q)'
  <2>1. SUFFICES ASSUME NEW g \in Handler, NEW v \in Unit, NEW q \in Row, Placing(g, v, q)' PROVE FALSE
    OBVIOUS
  <2>2. g # h /\ job'[g] = job[g] /\ job[g] # None /\ job[g].op \in {"allocate", "reallocate"} /\ job[g].unit = v
    BY <1>5, <2>1 DEF Placing
  <2>3. Placing(g, v, q)
    <3>1. CASE job[g].op = "allocate"
      BY <2>1, <2>2, <3>1 DEF Placing
    <3>2. CASE job[g].op = "reallocate"
      <4>1. job[g].id \in DOMAIN alloc
        BY <2>2, <3>2 DEF AssetTypes, JobsOK, JobOK
      <4> QED BY <1>2, <2>1, <2>2, <3>2, <4>1 DEF Placing, BookingsStay
    <3> QED BY <2>2, <3>1, <3>2
  <2> QED BY <1>4, <2>2, <2>3 DEF BookInv
<1>7. ASSUME NEW g \in Handler, job'[g] # None, job'[g].op = "saveTask" PROVE Books(g)'
  BY <1>5, <1>7 DEF BookInv, Books
<1> QED BY <1>3, <1>6, <1>7 DEF BookInv, Books

LEMMA WindowsStayOnStatus ==
  ASSUME AssetTypes, NEW r \in Row, NEW status, row' = [row EXCEPT ![r].status = status]
  PROVE  WindowsStay
<1>1. row[r] \in Reservation
  BY DEF AssetTypes
<1>2. PICK t : t = [row[r] EXCEPT !.status = status]
  OBVIOUS
<1>3. t.from = row[r].from /\ t.until = row[r].until /\ t.moved = row[r].moved
  BY <1>1, <1>2 DEF Reservation
<1> QED BY <1>2, <1>3 DEF AssetTypes, WindowsStay, SameWindow

LEMMA ReleasedStay ==
  ASSUME AssetTypes, NEW S, alloc' = Released(S)
  PROVE  BookingsStay /\ DOMAIN alloc' = DOMAIN alloc
BY BookingsReleased DEF BookingsStay

LEMMA NoTurnsNoBooking ==
  ASSUME AssetTypes, NEW h \in Handler, NEW ops, Turns(h, ops), ops \intersect BookingOps = {}
  PROVE  \A g \in Handler : job'[g] # None /\ job'[g].op \in BookingOps => job'[g] = job[g]
BY TurnOf

(* A handler that has just found a unit to book.                           *)
LEMMA BookableFound ==
  ASSUME AssetTypes, BookInv, duty' = duty, UNCHANGED register, NEW h \in Handler, NEW m, Begin(h, m),
         m.op \in {"allocate", "reallocate"}, m.op \in duty[h], Idle(h),
         \A i \in OutOf(m.unit) :
           ~Meets(row[alloc[i].row], row[IF m.op = "allocate" THEN m.row ELSE alloc[m.id].row])
  PROVE  BookInv'
<1>1. \A g \in Handler : job'[g] = IF g = h THEN m ELSE job[g]
  BY DEF Begin, AssetTypes, JobsOK
<1>2. Books(h)
  BY DEF Books, BookingOps
<1>3. \A u : OutOf(u)' = OutOf(u)
  BY DEF OutOf, Live, register
<1>5. BookedApart'
  BY DEF BookInv, BookedApart, MovedSince, Live, register
<1>6. ASSUME NEW g \in Handler, NEW u \in Unit, NEW r \in Row, Placing(g, u, r)'
      PROVE  Books(g)' /\ \A i \in OutOf(u)' : ~Meets(row[alloc[i].row], row[r])'
  <2>1. CASE g = h
    <3>1. m.unit = u /\ r = IF m.op = "allocate" THEN m.row ELSE alloc[m.id].row
      BY <1>1, <1>6, <2>1 DEF Placing, register
    <3>2. \A i \in OutOf(u) : ~Meets(row[alloc[i].row], row[r])
      BY <3>1
    <3>3. alloc' = alloc /\ row' = row
      BY DEF register
    <3> QED BY <1>2, <1>3, <2>1, <3>2, <3>3 DEF Books, Meets
  <2>2. CASE g # h
    <3>1. Placing(g, u, r) /\ alloc' = alloc /\ row' = row
      BY <1>1, <1>6, <2>2 DEF Placing, register
    <3>2. Books(g) /\ \A i \in OutOf(u) : ~Meets(row[alloc[i].row], row[r])
      BY <3>1 DEF BookInv
    <3> QED BY <1>3, <3>1, <3>2 DEF Books, Meets
  <2> QED BY <2>1, <2>2
<1>7. ASSUME NEW g \in Handler, job'[g] # None, job'[g].op = "saveTask" PROVE Books(g)'
  BY <1>1, <1>7 DEF BookInv, Books
<1> QED BY <1>5, <1>6, <1>7 DEF BookInv, Books

LEMMA BookInvKept == AssetTypes /\ BookInv /\ [Next]_vars => BookInv'
<1> SUFFICES ASSUME AssetTypes, BookInv, [Next]_vars PROVE BookInv'
  OBVIOUS
<1>0. \A ops : "allocate" \notin ops /\ "reallocate" \notin ops /\ "saveTask" \notin ops => ops \intersect BookingOps = {}
  BY DEF BookingOps
<1>1. duty' = duty
  BY DutyKept
<1>2. ASSUME UNCHANGED <<alloc, row>>, NEW h \in Handler, NEW ops, Turns(h, ops),
             ops \intersect BookingOps = {}
      PROVE  BookInv'
  <2>1. WindowsStay /\ BookingsStay
    BY <1>2 DEF WindowsStay, SameWindow, BookingsStay
  <2> QED BY <1>1, <1>2, <2>1, NoTurnsNoBooking, NothingBooked
<1>3. CASE UNCHANGED vars
  <2>1. WindowsStay /\ BookingsStay /\ alloc' = alloc /\ job' = job
    BY <1>3 DEF WindowsStay, SameWindow, BookingsStay, vars
  <2> QED BY <1>1, <2>1, NothingBooked
<1>4. ASSUME NEW h \in Handler, Abort(h) PROVE BookInv'
  <2>1. UNCHANGED <<alloc, row>> /\ Turns(h, {})
    BY <1>4 DEF Abort, Turns, Finished, register
  <2> QED BY <1>0, <1>2, <2>1
<1>5. ASSUME NEW h \in Handler, MoneyStep(h) PROVE BookInv'
  <2>1. UNCHANGED <<alloc, row>> /\ Turns(h, {"finalize", "callback"})
    BY <1>5, MoneyTypes, MoneyTurns DEF register
  <2> QED BY <1>0, <1>2, <2>1
<1>6. ASSUME NEW h \in Handler, CustodyStep(h) PROVE BookInv'
  <2>1. Turns(h, CustodyOps)
    BY <1>6, CustodyTurns
  <2>2. UNCHANGED <<alloc, row>>
    <3> USE DEF register
    <3>1. ASSUME NEW q \in Request, FileRequest(h, q) \/ DecideRead(h, q) \/ CancelRead(h, q) \/ Issue(h, q)
          PROVE  UNCHANGED <<alloc, row>>
      BY <3>1 DEF FileRequest, DecideRead, CancelRead, Issue
    <3>2. ASSUME NEW u \in Unit, DirectIssue(h, u) \/ UpdateAsset(h, u) PROVE UNCHANGED <<alloc, row>>
      BY <3>2 DEF DirectIssue, UpdateAsset
    <3>3. ASSUME NEW c \in DOMAIN custody, AcceptRead(h, c) \/ ReassignRead(h, c) \/ ReleaseRead(h, c)
          PROVE  UNCHANGED <<alloc, row>>
      BY <3>3 DEF AcceptRead, ReassignRead, ReleaseRead
    <3>4. CASE SettleRequest(h) \/ AssertFree(h) \/ HandOver(h) \/ MarkIssued(h)
      BY <3>4 DEF SettleRequest, AssertFree, HandOver, MarkIssued
    <3>5. CASE AcceptWrite(h) \/ ReassignWrite(h) \/ ReleaseWrite(h)
      BY <3>5 DEF AcceptWrite, ReassignWrite, ReleaseWrite
    <3> QED BY <1>6, <3>1, <3>2, <3>3, <3>4, <3>5 DEF CustodyStep
  <2> QED BY <1>0, <1>2, <2>1, <2>2 DEF CustodyOps
<1>7. ASSUME NEW h \in Handler, NEW ops, Turns(h, ops), ops \intersect BookingOps = {},
             NEW S, alloc' = Released(S), WindowsStay
      PROVE  BookInv'
  BY <1>1, <1>7, ReleasedStay, NoTurnsNoBooking, NothingBooked
<1>8. ASSUME NEW h \in Handler, NEW r \in Row, NEW u \in Unit, AllocateCheck(h, r, u) PROVE BookInv'
  <2>1. PICK m : m = [op |-> "allocate", row |-> r, unit |-> u]
    OBVIOUS
  <2>2. m.op = "allocate" /\ m.row = r /\ m.unit = u /\ Begin(h, m) /\ UNCHANGED register
    BY <1>8, <2>1 DEF AllocateCheck
  <2>3. "allocate" \in duty[h] /\ Idle(h) /\ \A i \in OutOf(u) : ~Meets(row[alloc[i].row], row[r])
    BY <1>8 DEF AllocateCheck, May, Bookable
  <2> QED BY <1>1, <2>2, <2>3, BookableFound
<1>9. ASSUME NEW h \in Handler, NEW k \in DOMAIN alloc, NEW u \in Unit, ReallocateCheck(h, k, u) PROVE BookInv'
  <2>1. PICK m : m = [op |-> "reallocate", id |-> k, unit |-> u]
    OBVIOUS
  <2>2. m.op = "reallocate" /\ m.id = k /\ m.unit = u /\ Begin(h, m) /\ UNCHANGED register
    BY <1>9, <2>1 DEF ReallocateCheck
  <2>3. "reallocate" \in duty[h] /\ Idle(h) /\ \A i \in OutOf(u) : ~Meets(row[alloc[i].row], row[alloc[k].row])
    BY <1>9 DEF ReallocateCheck, May, Bookable
  <2> QED BY <1>1, <2>2, <2>3, BookableFound
<1>10. ASSUME NEW h \in Handler, Allocate(h) PROVE BookInv'
  <2>1. PICK r \in Row, u \in Unit : r = job[h].row /\ u = job[h].unit
    BY <1>10 DEF Allocate, Doing, AssetTypes, JobsOK, JobOK
  <2>2. alloc' = Append(Released({}), Booking(u, r))
    <3>1. Released({}) = alloc
      BY DEF Released, AssetTypes
    <3> QED BY <1>10, <2>1, <3>1 DEF Allocate
  <2>3. Placing(h, u, r) /\ Finished(h)
    BY <1>10, <2>1 DEF Allocate, Doing, Placing
  <2>4. PICK status : row' = [row EXCEPT ![r].status = status]
    BY <1>10, <2>1 DEF Allocate
  <2> QED BY <1>1, <2>2, <2>3, <2>4, WindowsStayOnStatus, OneBooked
<1>11. ASSUME NEW h \in Handler, Reallocate(h) PROVE BookInv'
  <2>1. PICK k \in DOMAIN alloc, u \in Unit : k = job[h].id /\ u = job[h].unit
    BY <1>11 DEF Reallocate, Doing, AssetTypes, JobsOK, JobOK
  <2>2. PICK r \in Row : r = alloc[k].row
    BY AllocationTyped
  <2>3. alloc' = Append(Released({k}), Booking(u, r)) /\ Finished(h) /\ row' = row
    BY <1>11, <2>1, <2>2 DEF Reallocate
  <2>4. Placing(h, u, r) /\ WindowsStay
    BY <1>11, <2>1, <2>2, <2>3 DEF Reallocate, Doing, Placing, WindowsStay, SameWindow
  <2> QED BY <1>1, <2>3, <2>4, OneBooked
<1>12. ASSUME NEW h \in Handler, CloseRow(h) PROVE BookInv'
  <2>1. PICK r \in Row, status \in {job[h].status} : row' = [row EXCEPT ![r].status = status]
    BY <1>12 DEF CloseRow, Doing, AssetTypes, JobsOK, JobOK
  <2>2. PICK S : alloc' = Released(S)
    BY <1>12 DEF CloseRow
  <2>3. Turns(h, {})
    BY <1>12 DEF CloseRow, Finished, Turns
  <2> QED BY <1>0, <1>7, <2>1, <2>2, <2>3, WindowsStayOnStatus
<1>13. ASSUME NEW h \in Handler, ReleaseAlloc(h) PROVE BookInv'
  <2>1. PICK k \in DOMAIN alloc : k = job[h].id
    BY <1>13 DEF ReleaseAlloc, Doing, AssetTypes, JobsOK, JobOK
  <2>2. PICK r \in Row : r = alloc[k].row
    BY AllocationTyped
  <2>3. PICK status : row' = [row EXCEPT ![r].status = status]
    BY <1>13, <2>1, <2>2 DEF ReleaseAlloc
  <2>4. alloc' = Released({k}) /\ Turns(h, {})
    BY <1>13, <2>1 DEF ReleaseAlloc, Finished, Turns
  <2> QED BY <1>0, <1>7, <2>3, <2>4, WindowsStayOnStatus
<1>14. ASSUME NEW h \in Handler, NEW k \in DOMAIN alloc, HandBack(h, k) PROVE BookInv'
  <2>1. PICK r \in Row : r = alloc[k].row
    BY AllocationTyped
  <2>2. PICK n : row' = [row EXCEPT ![r].quantity = n]
    BY <1>14, <2>1 DEF HandBack
  <2>3. WindowsStay
    <3>1. row[r] \in Reservation
      BY DEF AssetTypes
    <3>2. PICK t : t = [row[r] EXCEPT !.quantity = n]
      OBVIOUS
    <3>3. t.from = row[r].from /\ t.until = row[r].until /\ t.moved = row[r].moved
      BY <3>1, <3>2 DEF Reservation
    <3> QED BY <2>2, <3>2, <3>3 DEF AssetTypes, WindowsStay, SameWindow
  <2>4. alloc' = Released({k}) /\ Turns(h, {})
    BY <1>14 DEF HandBack, Turns
  <2> QED BY <1>0, <1>7, <2>3, <2>4
<1>15. ASSUME NEW h \in Handler, NEW r \in Row, AcceptUnits(h, r) PROVE BookInv'
  <2>1. PICK n, status : row' = [row EXCEPT ![r].accepted = n, ![r].status = status]
    BY <1>15 DEF AcceptUnits
  <2>2. WindowsStay
    <3>1. row[r] \in Reservation
      BY DEF AssetTypes
    <3>2. PICK t : t = [row[r] EXCEPT !.accepted = n, !.status = status]
      OBVIOUS
    <3>3. t.from = row[r].from /\ t.until = row[r].until /\ t.moved = row[r].moved
      BY <3>1, <3>2 DEF Reservation
    <3>4. row' = [row EXCEPT ![r] = t]
      BY <2>1, <3>2 DEF AssetTypes
    <3> QED BY <3>3, <3>4 DEF AssetTypes, WindowsStay, SameWindow
  <2>3. alloc' = alloc /\ job' = job
    BY <1>15 DEF AcceptUnits
  <2>4. BookingsStay
    BY <2>3 DEF BookingsStay
  <2> QED BY <1>1, <2>2, <2>3, <2>4, NothingBooked
<1>16. ASSUME NEW h \in Handler, NEW r \in Row, FileReturn(h, r) \/ CancelReturn(h, r) PROVE BookInv'
  <2>1. UNCHANGED <<alloc, row>> /\ Turns(h, {})
    BY <1>16 DEF FileReturn, CancelReturn, Turns
  <2> QED BY <1>0, <1>2, <2>1
<1>17. ASSUME NEW h \in Handler, NEW r \in Row, ReceiveReturn(h, r) PROVE BookInv'
  <2>1. PICK status : row' = [row EXCEPT ![r].status = status]
    BY <1>17 DEF ReceiveReturn
  <2>2. PICK S : alloc' = Released(S)
    BY <1>17 DEF ReceiveReturn
  <2>3. Turns(h, {})
    BY <1>17 DEF ReceiveReturn, Turns
  <2> QED BY <1>0, <1>7, <2>1, <2>2, <2>3, WindowsStayOnStatus
<1>18. ASSUME NEW h \in Handler, NEW r \in Row, CloseRowRead(h, r) PROVE BookInv'
  <2>1. PICK m : Begin(h, m) /\ m.op = "closeRow"
    BY <1>18 DEF CloseRowRead
  <2>2. UNCHANGED <<alloc, row>> /\ Turns(h, {"closeRow"})
    BY <1>18, <2>1, TurnTaken DEF CloseRowRead, register
  <2> QED BY <1>0, <1>2, <2>2
<1>19. ASSUME NEW h \in Handler, NEW k \in DOMAIN alloc, ReleaseAllocRead(h, k) PROVE BookInv'
  <2>1. PICK m : Begin(h, m) /\ m.op \in {"releaseAllocation", "remove"}
    BY <1>19 DEF ReleaseAllocRead
  <2>2. UNCHANGED <<alloc, row>> /\ Turns(h, {"releaseAllocation", "remove"})
    BY <1>19, <2>1, TurnTaken DEF ReleaseAllocRead, register
  <2> QED BY <1>0, <1>2, <2>2
<1>21. ASSUME NEW h \in Handler, NEW r \in Row, SaveTaskRead(h, r) PROVE BookInv'
  <2>1. PICK m : Begin(h, m) /\ m.op = "saveTask"
    BY <1>21 DEF SaveTaskRead
  <2>2. UNCHANGED <<alloc, row>> /\ Books(h)
    BY <1>21 DEF SaveTaskRead, May, Books, BookingOps, register
  <2>3. \A g \in Handler : job'[g] # None /\ job'[g].op \in BookingOps =>
          job'[g] = job[g] \/ (job'[g].op = "saveTask" /\ Books(g))
    BY <2>1, <2>2 DEF Begin, AssetTypes, JobsOK
  <2>4. WindowsStay /\ BookingsStay
    BY <2>2 DEF WindowsStay, SameWindow, BookingsStay
  <2> QED BY <1>1, <2>2, <2>3, <2>4, NothingBooked
<1>22. ASSUME NEW h \in Handler, SaveTask(h) PROVE BookInv'
  BY <1>1, <1>22, TaskMoved
<1>20. ASSUME NEW h \in Handler, AllocationStep(h) PROVE BookInv'
  BY <1>8, <1>9, <1>10, <1>11, <1>12, <1>13, <1>14, <1>15, <1>16, <1>17, <1>18, <1>19, <1>20, <1>21, <1>22
     DEF AllocationStep
<1> QED BY <1>3, <1>4, <1>5, <1>6, <1>20 DEF Next

(* allocate and reallocate, among releases, returns, receipts, cancelled    *)
(* rows, hand-overs, maintenance and saves of a task that move what is      *)
(* booked for it: as long as one handler at most books and saves, a booking *)
(* with an end is never laid over an earlier one.  What overlaps by saving  *)
(* a task, one of the two moved since they were both there, is excepted.    *)
THEOREM BookingsNeverOverlap == OneBooks => (Spec => []BookedApart)
<1>1. OneBooks /\ Init => AssetTypes /\ BookInv
  BY AssetTypesStart, BookInvStart
<1>2. AssetTypes /\ BookInv /\ [Next]_vars => (AssetTypes /\ BookInv)'
  BY AssetTypesKept, BookInvKept
<1>3. BookInv => BookedApart
  BY DEF BookInv
<1> QED BY <1>1, <1>2, <1>3, PTL DEF Spec

-----------------------------------------------------------------------------
(* Of every unit it is known who answers for it.                           *)
Acts(h) == ~(duty[h] \subseteq MoneyOps)

(* Of a unit the open row, if any, and the mirror that names its holder.   *)
Sole(u) ==
  IF OpenRows(u) = {} THEN asset[u].holder = None
  ELSE \E c : OpenRows(u) = {c}
              /\ asset[u].holder = IF custody[c].holder \in Person THEN custody[c].holder ELSE None

Latest(i) == \A j \in DOMAIN alloc \ {i} : alloc[j].unit = alloc[i].unit => j < i /\ alloc[j].row # alloc[i].row

(* For a task a person; for an object the object, as long as the unit is   *)
(* its own on the very row it was booked for, or whom it was handed on to. *)
AnswersFor(was, r) ==
  IF row[r].object = None THEN was.holder \in Person
  ELSE was.origin = row[r].object /\ (was.holder \in Object => was.row = r)

Answers(i, c) == c \in OpenRows(alloc[i].unit) /\ AnswersFor(custody[c], alloc[i].row)

Units ==
  /\ \A u \in Unit : Sole(u)
  /\ \A c \in DOMAIN custody : custody[c].holder \in Object => custody[c].origin = custody[c].holder
  /\ \A i \in Live : Latest(i) => \E c : Answers(i, c)

(* What was checked still holds when it is written.                        *)
JobHolds(m) ==
  /\ m.op = "hand" /\ m.free => OpenRows(Head(m.units)) = {} /\ OutOf(Head(m.units)) = {}
  /\ m.op \in {"reassign", "release"} => custody[m.id].open
  /\ m.op = "release" => OutOf(custody[m.id].unit) = {}
  /\ m.op = "allocate" /\ row[m.row].object = None => HasResponsiblePerson(m.unit)
  /\ m.op = "reallocate" /\ row[alloc[m.id].row].object = None => HasResponsiblePerson(m.unit)

Doers ==
  /\ \A g, h \in Handler : Acts(g) /\ Acts(h) => g = h
  /\ \A h \in Handler : job[h] # None /\ job[h].op \in CustodyOps \union AllocationOps => Acts(h) /\ JobHolds(job[h])

ObjectsStay == \A r \in Row : row'[r].object = row[r].object
HoldersStay ==
  /\ DOMAIN custody' = DOMAIN custody
  /\ \A c \in DOMAIN custody : /\ custody'[c].open = custody[c].open /\ custody'[c].unit = custody[c].unit
                               /\ custody'[c].holder = custody[c].holder /\ custody'[c].origin = custody[c].origin
                               /\ custody'[c].row = custody[c].row

LEMMA UnitsStart == OneActs /\ Init => Units /\ Doers
<1> SUFFICES ASSUME OneActs, Init PROVE Units /\ Doers
  OBVIOUS
<1>1. \A u \in Unit : OpenRows(u) = {} /\ asset[u].holder = None
  BY DEF Init, OpenRows
<1>2. Live = {} /\ DOMAIN custody = {}
  BY DEF Init, Live
<1>3. Doers
  BY DEF Init, Doers, OneActs, Acts
<1> QED BY <1>1, <1>2, <1>3 DEF Units, Sole

(* Nobody takes a unit, and none is given back.                            *)
LEMMA NobodyTakes ==
  ASSUME AssetTypes, Units, HoldersStay, \A u \in Unit : asset'[u].holder = asset[u].holder,
         BookingsStay, DOMAIN alloc' = DOMAIN alloc, ObjectsStay
  PROVE  Units'
<1>1. \A u : OpenRows(u)' = OpenRows(u)
  BY DEF OpenRows, HoldersStay
<1>2. ASSUME NEW u \in Unit PROVE Sole(u)'
  <2>1. Sole(u) /\ OpenRows(u)' = OpenRows(u) /\ asset'[u].holder = asset[u].holder
    BY <1>1 DEF Units
  <2>2. \A c \in OpenRows(u) : custody'[c].holder = custody[c].holder
    BY DEF OpenRows, HoldersStay
  <2> QED BY <2>1, <2>2 DEF Sole
<1>3. ASSUME NEW i \in Live', Latest(i)' PROVE \E c : Answers(i, c)'
  <2>1. i \in Live /\ i \in DOMAIN alloc
    BY DEF Live, BookingsStay
  <2>2. alloc'[i].unit = alloc[i].unit /\ alloc'[i].row = alloc[i].row /\ alloc[i].row \in Row
    BY <2>1, AllocationTyped DEF BookingsStay
  <2>3. Latest(i)
    BY <1>3, <2>1, <2>2 DEF Latest, BookingsStay
  <2>4. PICK c : Answers(i, c)
    BY <2>1, <2>3 DEF Units
  <2>6. c \in DOMAIN custody
    BY <2>4 DEF Answers, OpenRows
  <2>5. Answers(i, c)'
    BY <1>1, <2>2, <2>4, <2>6 DEF Answers, AnswersFor, ObjectsStay, HoldersStay
  <2> QED BY <2>5
<1> QED BY <1>2, <1>3 DEF Units, HoldersStay

(* Whatever is freed with other bookings, who answers for a live one stays. *)
LEMMA FreedIsNotIts ==
  ASSUME AssetTypes, Units, NEW T \in SUBSET DOMAIN alloc, NEW i \in Live \ T, Latest(i)
  PROVE  \E c : Answers(i, c) /\ c \notin Freed(T)
<1>1. PICK c : Answers(i, c)
  BY DEF Units
<1>2. SUFFICES ASSUME c \in Freed(T) PROVE FALSE
  BY <1>1
<1>3. PICK k \in T : c \in ObjectRowsOf(k)
  BY <1>2 DEF Freed
<1>4. alloc[k].unit = alloc[i].unit /\ custody[c].row = alloc[k].row /\ custody[c].holder \in Object
  BY <1>1, <1>3 DEF ObjectRowsOf, OpenRows, Answers
<1>5. alloc[k].row # alloc[i].row
  BY <1>3, <1>4 DEF Latest
<1> QED BY <1>1, <1>4, <1>5, AssetAssumption DEF Answers, AnswersFor

(* Rows closed.                                                            *)
LEMMA UnitsGivenBack ==
  ASSUME AssetTypes, Units, ObjectsStay, NEW S, custody' = Closed(S),
         \A u \in Unit : asset'[u].holder = IF OpenRows(u) \intersect S = {} THEN asset[u].holder ELSE None,
         \A i \in Live' : Latest(i)' =>
           alloc'[i].row \in Row /\ \E c \in OpenRows(alloc'[i].unit) \ S : AnswersFor(custody[c], alloc'[i].row)
  PROVE  Units'
<1>1. /\ DOMAIN custody' = DOMAIN custody
      /\ \A c \in DOMAIN custody : /\ custody'[c].holder = custody[c].holder /\ custody'[c].origin = custody[c].origin
                                   /\ custody'[c].row = custody[c].row
  BY RowsClosed
<1>2. \A u : OpenRows(u)' = OpenRows(u) \ S
  BY OpenAfterClosing
<1>3. ASSUME NEW u \in Unit PROVE Sole(u)'
  <2>1. CASE OpenRows(u) \intersect S = {}
    <3>1. OpenRows(u)' = OpenRows(u) /\ asset'[u].holder = asset[u].holder /\ Sole(u)
      BY <1>2, <2>1 DEF Units
    <3>2. \A c \in OpenRows(u) : custody'[c].holder = custody[c].holder
      BY <1>1 DEF OpenRows
    <3> QED BY <3>1, <3>2 DEF Sole
  <2>2. CASE OpenRows(u) \intersect S # {}
    <3>1. OpenRows(u)' = {} /\ asset'[u].holder = None
      BY <1>2, <2>2 DEF Units, Sole
    <3> QED BY <3>1 DEF Sole
  <2> QED BY <2>1, <2>2
<1>4. ASSUME NEW i \in Live', Latest(i)' PROVE \E c : Answers(i, c)'
  <2>1. PICK c \in OpenRows(alloc'[i].unit) \ S : alloc'[i].row \in Row /\ AnswersFor(custody[c], alloc'[i].row)
    BY <1>4
  <2>2. c \in DOMAIN custody
    BY <2>1 DEF OpenRows
  <2>4. Answers(i, c)'
    BY <1>1, <1>2, <2>1, <2>2 DEF Answers, AnswersFor, ObjectsStay
  <2> QED BY <2>4
<1> QED BY <1>1, <1>3, <1>4 DEF Units

(* A unit passed on.                                                       *)
LEMMA UnitPassed ==
  ASSUME AssetTypes, Units, ObjectsStay, NEW S, NEW n \in Custody, n.open, PassOn(S, n),
         OpenRows(n.unit) \subseteq S, n.holder \in Object => n.origin = n.holder,
         asset'[n.unit].holder = IF n.holder \in Person THEN n.holder ELSE None,
         \A u \in Unit \ {n.unit} : asset'[u].holder = IF OpenRows(u) \intersect S = {} THEN asset[u].holder ELSE None,
         \A i \in Live' : Latest(i)' =>
           IF alloc'[i].unit = n.unit THEN alloc'[i].row \in Row /\ AnswersFor(n, alloc'[i].row)
           ELSE alloc'[i].row \in Row /\ \E c \in OpenRows(alloc'[i].unit) \ S : AnswersFor(custody[c], alloc'[i].row)
  PROVE  Units'
<1>0. PICK N : N = Len(custody) + 1
  OBVIOUS
<1>1. /\ DOMAIN custody' = DOMAIN custody \union {N} /\ N \notin DOMAIN custody /\ custody'[N] = n
      /\ \A c \in DOMAIN custody : /\ custody'[c].holder = custody[c].holder /\ custody'[c].origin = custody[c].origin
                                   /\ custody'[c].row = custody[c].row
  BY <1>0, RowPassed
<1>2. \A u : OpenRows(u)' = (OpenRows(u) \ S) \union (IF n.unit = u THEN {N} ELSE {})
  BY <1>0, OpenAfterPassing
<1>3. OpenRows(n.unit)' = {N}
  BY <1>2
<1>4. \A u \in Unit \ {n.unit} : OpenRows(u)' = OpenRows(u) \ S
  BY <1>2
<1>5. ASSUME NEW u \in Unit PROVE Sole(u)'
  <2>1. CASE u = n.unit
    BY <1>1, <1>3, <2>1 DEF Sole
  <2>2. CASE u # n.unit /\ OpenRows(u) \intersect S = {}
    <3>1. OpenRows(u)' = OpenRows(u) /\ asset'[u].holder = asset[u].holder /\ Sole(u)
      BY <1>4, <2>2 DEF Units
    <3>2. \A c \in OpenRows(u) : custody'[c].holder = custody[c].holder
      BY <1>1 DEF OpenRows
    <3> QED BY <3>1, <3>2 DEF Sole
  <2>3. CASE u # n.unit /\ OpenRows(u) \intersect S # {}
    <3>1. OpenRows(u)' = {} /\ asset'[u].holder = None
      BY <1>4, <2>3 DEF Units, Sole
    <3> QED BY <3>1 DEF Sole
  <2> QED BY <2>1, <2>2, <2>3
<1>6. ASSUME NEW i \in Live', Latest(i)' PROVE \E c : Answers(i, c)'
  <2>1. CASE alloc'[i].unit = n.unit
    <3>1. PICK r \in Row : r = alloc'[i].row /\ AnswersFor(n, r)
      BY <1>6, <2>1
    <3>3. AnswersFor(custody[N], r)'
      BY <1>1, <3>1 DEF AnswersFor, ObjectsStay
    <3>4. N \in OpenRows(alloc[i].unit)'
      BY <1>3, <2>1
    <3>2. Answers(i, N)'
      BY <3>1, <3>3, <3>4 DEF Answers
    <3> QED BY <3>2
  <2>2. CASE alloc'[i].unit # n.unit
    <3>1. PICK c \in OpenRows(alloc'[i].unit) \ S : alloc'[i].row \in Row /\ AnswersFor(custody[c], alloc'[i].row)
      BY <1>6, <2>2
    <3>2. c \in DOMAIN custody
      BY <3>1 DEF OpenRows
    <3>4. Answers(i, c)'
      BY <1>1, <1>2, <2>2, <3>1, <3>2 DEF Answers, AnswersFor, ObjectsStay
    <3> QED BY <3>4
  <2> QED BY <2>1, <2>2
<1>7. \A c \in DOMAIN custody' : custody'[c].holder \in Object => custody'[c].origin = custody'[c].holder
  BY <1>1 DEF Units
<1> QED BY <1>5, <1>6, <1>7 DEF Units

(* What is freed is held by an object, and nobody's name is on it.         *)
LEMMA FreedHasNoName ==
  ASSUME AssetTypes, Units, NEW T, NEW u \in Unit, OpenRows(u) \intersect Freed(T) # {}
  PROVE  asset[u].holder = None
<1>1. PICK c \in OpenRows(u) : custody[c].holder \in Object
  BY DEF Freed, ObjectRowsOf
<1> QED BY <1>1, AssetAssumption DEF Units, Sole

LEMMA UnitsReleased ==
  ASSUME AssetTypes, Units, ObjectsStay, NEW T \in SUBSET DOMAIN alloc,
         alloc' = Released(T), custody' = Closed(Freed(T)), asset' = asset
  PROVE  Units'
<1>1. \A u \in Unit : asset'[u].holder = IF OpenRows(u) \intersect Freed(T) = {} THEN asset[u].holder ELSE None
  BY FreedHasNoName
<1>2. ASSUME NEW i \in Live', Latest(i)'
      PROVE  alloc'[i].row \in Row /\ \E c \in OpenRows(alloc'[i].unit) \ Freed(T) : AnswersFor(custody[c], alloc'[i].row)
  <2>1. /\ DOMAIN alloc' = DOMAIN alloc
        /\ \A k \in DOMAIN alloc : /\ alloc'[k].live <=> alloc[k].live /\ k \notin T
                                   /\ alloc'[k].unit = alloc[k].unit /\ alloc'[k].row = alloc[k].row
    BY BookingsReleased
  <2>2. i \in Live \ T /\ i \in DOMAIN alloc
    BY <2>1 DEF Live
  <2>3. Latest(i)
    BY <1>2, <2>1, <2>2 DEF Latest
  <2>4. PICK c : Answers(i, c) /\ c \notin Freed(T)
    BY <2>2, <2>3, FreedIsNotIts
  <2> QED BY <2>1, <2>2, <2>4, AllocationTyped DEF Answers
<1> QED BY <1>1, <1>2, UnitsGivenBack

LEMMA UnitBooked ==
  ASSUME AssetTypes, Units, ObjectsStay, NEW T \in SUBSET DOMAIN alloc, NEW u \in Unit, NEW r \in Row,
         alloc' = Append(Released(T), Booking(u, r)), ObjectTakes(u, r, Freed(T)),
         row[r].object = None => HasResponsiblePerson(u)
  PROVE  Units'
<1>0. PICK N : N = Len(alloc) + 1
  OBVIOUS
<1>1. /\ DOMAIN alloc' = DOMAIN alloc \union {N} /\ N \notin DOMAIN alloc
      /\ \A i \in DOMAIN alloc : i < N
      /\ alloc'[N] = Booking(u, r)
      /\ \A i \in DOMAIN alloc : /\ alloc'[i].live <=> alloc[i].live /\ i \notin T
                                 /\ alloc'[i].unit = alloc[i].unit /\ alloc'[i].row = alloc[i].row
  BY <1>0, BookingMade
<1>2. alloc'[N].unit = u /\ alloc'[N].row = r
  BY <1>1 DEF Booking
<1>3. N \in Nat
  BY <1>0 DEF AssetTypes
<1>4. ASSUME NEW i \in Live', Latest(i)', i # N
      PROVE  /\ alloc'[i].unit # u /\ alloc'[i].row \in Row
             /\ \E c \in OpenRows(alloc'[i].unit) \ Freed(T) : AnswersFor(custody[c], alloc'[i].row)
  <2>1. i \in Live \ T /\ i \in DOMAIN alloc
    BY <1>1, <1>4 DEF Live
  <2>2. alloc'[i].unit # u
    <3>1. i < N /\ i \in Nat
      BY <1>1, <2>1, AllocationTyped
    <3>2. N \in DOMAIN alloc' \ {i}
      BY <1>1, <1>4
    <3>3. alloc'[N].unit = alloc'[i].unit => N < i
      BY <1>4, <3>2 DEF Latest
    <3>4. SUFFICES ASSUME alloc'[i].unit = u PROVE FALSE
      OBVIOUS
    <3>5. N < i
      BY <1>2, <3>3, <3>4
    <3> QED BY <1>3, <3>1, <3>5
  <2>3. Latest(i)
    BY <1>1, <1>4, <2>1 DEF Latest
  <2>4. PICK c : Answers(i, c) /\ c \notin Freed(T)
    BY <2>1, <2>3, FreedIsNotIts
  <2> QED BY <1>1, <2>1, <2>2, <2>4, AllocationTyped DEF Answers
<1>5. CASE row[r].object = None
  <2>1. custody' = Closed(Freed(T)) /\ asset' = asset
    BY <1>5 DEF ObjectTakes
  <2>2. \A v \in Unit : asset'[v].holder = IF OpenRows(v) \intersect Freed(T) = {} THEN asset[v].holder ELSE None
    BY <2>1, FreedHasNoName
  <2>3. \E c \in OpenRows(u) \ Freed(T) : AnswersFor(custody[c], r)
    <3>1. PICK c \in OpenRows(u) : custody[c].holder \in Person
      BY <1>5 DEF HasResponsiblePerson
    <3>2. c \notin Freed(T)
      BY <3>1, AssetAssumption DEF Freed, ObjectRowsOf
    <3> QED BY <1>5, <3>1, <3>2 DEF AnswersFor
  <2>4. \A i \in Live' : Latest(i)' =>
           alloc'[i].row \in Row /\ \E c \in OpenRows(alloc'[i].unit) \ Freed(T) : AnswersFor(custody[c], alloc'[i].row)
    BY <1>2, <1>4, <2>3
  <2> QED BY <2>1, <2>2, <2>4, UnitsGivenBack
<1>6. CASE row[r].object # None
  <2>1. row[r].object \in Object
    BY <1>6, WindowTyped
  <2>2. PICK n \in Custody : n = [Held(u, row[r].object, row[r].object) EXCEPT !.row = r]
    BY <2>1, HeldIsCustody
  <2>3. n.open /\ n.unit = u /\ n.holder = row[r].object /\ n.origin = row[r].object /\ n.row = r
    BY <2>2 DEF Held
  <2>4. PICK S : S = Freed(T) \union OpenRows(u)
    OBVIOUS
  <2>5. PassOn(S, n) /\ asset' = [asset EXCEPT ![u].holder = None]
    BY <1>6, <2>2, <2>4 DEF ObjectTakes
  <2>6. asset'[u].holder = None /\ \A v \in Unit \ {u} : asset'[v] = asset[v]
    BY <2>5 DEF AssetTypes
  <2>7. asset'[n.unit].holder = IF n.holder \in Person THEN n.holder ELSE None
    BY <2>1, <2>3, <2>6, AssetAssumption
  <2>8. \A v \in Unit \ {u} : OpenRows(v) \intersect OpenRows(u) = {}
    BY DEF OpenRows
  <2>9. \A v \in Unit \ {n.unit} : asset'[v].holder = IF OpenRows(v) \intersect S = {} THEN asset[v].holder ELSE None
    BY <2>3, <2>4, <2>6, <2>8, FreedHasNoName
  <2>10. ASSUME NEW i \in Live', Latest(i)'
         PROVE  IF alloc'[i].unit = n.unit THEN alloc'[i].row \in Row /\ AnswersFor(n, alloc'[i].row)
                ELSE alloc'[i].row \in Row /\ \E c \in OpenRows(alloc'[i].unit) \ S : AnswersFor(custody[c], alloc'[i].row)
    <3>1. CASE i = N
      BY <1>2, <1>6, <2>3, <3>1 DEF AnswersFor
    <3>2. CASE i # N
      <4>1. PICK c \in OpenRows(alloc'[i].unit) \ Freed(T) : AnswersFor(custody[c], alloc'[i].row)
        BY <1>4, <2>10, <3>2
      <4>2. c \notin OpenRows(u) /\ alloc'[i].unit # u /\ alloc'[i].row \in Row
        BY <1>4, <2>10, <3>2, <4>1 DEF OpenRows
      <4> QED BY <2>3, <2>4, <4>1, <4>2
    <3> QED BY <3>1, <3>2
  <2>11. OpenRows(n.unit) \subseteq S /\ (n.holder \in Object => n.origin = n.holder)
    BY <2>3, <2>4
  <2>12. PassOn(S, n) /\ n.open
    BY <2>3, <2>5
  <2> QED BY <2>7, <2>9, <2>10, <2>11, <2>12, UnitPassed
<1> QED BY <1>5, <1>6

(* Who does something is the one who does.                                 *)
LEMMA CustodyActs ==
  ASSUME Doers, NEW h \in Handler, CustodyStep(h)
  PROVE  Acts(h)
<1>1. ASSUME NEW op, op \notin MoneyOps, May(h, op) PROVE Acts(h)
  BY <1>1 DEF Acts, May
<1>2. ASSUME NEW op \in CustodyOps, Doing(h, op) PROVE Acts(h)
  BY <1>2 DEF Doing, Doers
<1>3. ASSUME NEW q \in Request, FileRequest(h, q) \/ DecideRead(h, q) \/ CancelRead(h, q) \/ Issue(h, q)
      PROVE  Acts(h)
  <2>1. May(h, "request") \/ May(h, "decide") \/ May(h, "cancelRequest") \/ May(h, "issue")
    BY <1>3 DEF FileRequest, DecideRead, CancelRead, Issue
  <2> QED BY <1>1, <2>1 DEF MoneyOps
<1>4. ASSUME NEW u \in Unit, DirectIssue(h, u) \/ UpdateAsset(h, u) PROVE Acts(h)
  <2>1. May(h, "directIssue") \/ May(h, "updateAsset")
    BY <1>4 DEF DirectIssue, UpdateAsset
  <2> QED BY <1>1, <2>1 DEF MoneyOps
<1>5. ASSUME NEW c \in DOMAIN custody, AcceptRead(h, c) \/ ReassignRead(h, c) \/ ReleaseRead(h, c) PROVE Acts(h)
  <2>1. May(h, "accept") \/ May(h, "reassign") \/ May(h, "release")
    BY <1>5 DEF AcceptRead, ReassignRead, ReleaseRead
  <2> QED BY <1>1, <2>1 DEF MoneyOps
<1>6. CASE SettleRequest(h) \/ AssertFree(h) \/ HandOver(h) \/ MarkIssued(h) \/ AcceptWrite(h) \/ ReassignWrite(h)
           \/ ReleaseWrite(h)
  <2>1. Doing(h, "settle") \/ Doing(h, "hand") \/ Doing(h, "accept") \/ Doing(h, "reassign") \/ Doing(h, "release")
    BY <1>6 DEF SettleRequest, AssertFree, HandOver, MarkIssued, AcceptWrite, ReassignWrite, ReleaseWrite
  <2> QED BY <1>2, <2>1 DEF CustodyOps
<1> QED BY <1>3, <1>4, <1>5, <1>6 DEF CustodyStep

LEMMA AllocationActs ==
  ASSUME Doers, NEW h \in Handler, AllocationStep(h)
  PROVE  Acts(h)
<1>1. ASSUME NEW op, op \notin MoneyOps, May(h, op) PROVE Acts(h)
  BY <1>1 DEF Acts, May
<1>2. ASSUME NEW op \in AllocationOps, Doing(h, op) PROVE Acts(h)
  BY <1>2 DEF Doing, Doers
<1>3. ASSUME NEW r \in Row, NEW u \in Unit, AllocateCheck(h, r, u) PROVE Acts(h)
  BY <1>1, <1>3 DEF AllocateCheck, MoneyOps
<1>4. ASSUME NEW r \in Row, CloseRowRead(h, r) \/ AcceptUnits(h, r) PROVE Acts(h)
  <2>1. May(h, "closeRow") \/ May(h, "acceptUnits")
    BY <1>4 DEF CloseRowRead, AcceptUnits
  <2> QED BY <1>1, <2>1 DEF MoneyOps
<1>5. ASSUME NEW r \in Row, FileReturn(h, r) \/ ReceiveReturn(h, r) \/ CancelReturn(h, r) PROVE Acts(h)
  <2>1. May(h, "return")
    BY <1>5 DEF FileReturn, ReceiveReturn, CancelReturn
  <2> QED BY <1>1, <2>1 DEF MoneyOps
<1>6. ASSUME NEW i \in DOMAIN alloc, NEW u \in Unit, ReallocateCheck(h, i, u) PROVE Acts(h)
  BY <1>1, <1>6 DEF ReallocateCheck, MoneyOps
<1>7. ASSUME NEW i \in DOMAIN alloc, ReleaseAllocRead(h, i) \/ HandBack(h, i) PROVE Acts(h)
  <2>1. May(h, "releaseAllocation") \/ May(h, "remove") \/ May(h, "handBack")
    BY <1>7 DEF ReleaseAllocRead, HandBack
  <2> QED BY <1>1, <2>1 DEF MoneyOps
<1>8. CASE Allocate(h) \/ Reallocate(h) \/ CloseRow(h) \/ ReleaseAlloc(h)
  <2>1. Doing(h, "allocate") \/ Doing(h, "reallocate") \/ Doing(h, "closeRow") \/ Doing(h, "releaseAllocation")
        \/ Doing(h, "remove")
    BY <1>8 DEF Allocate, Reallocate, CloseRow, ReleaseAlloc
  <2> QED BY <1>2, <2>1 DEF AllocationOps
<1>9. ASSUME NEW r \in Row, SaveTaskRead(h, r) PROVE Acts(h)
  BY <1>1, <1>9 DEF SaveTaskRead, MoneyOps
<1>10. CASE SaveTask(h)
  BY <1>2, <1>10 DEF SaveTask, AllocationOps
<1> QED BY <1>3, <1>4, <1>5, <1>6, <1>7, <1>8, <1>9, <1>10 DEF AllocationStep

(* Only what the one who acts takes up need be looked at.                  *)
LEMMA DoersAfter ==
  ASSUME AssetTypes, Doers, duty' = duty, NEW h \in Handler, Acts(h), NEW ops, Turns(h, ops),
         job'[h] # None => JobHolds(job[h])'
  PROVE  Doers'
<1>1. \A g \in Handler : Acts(g)' <=> Acts(g)
  BY DEF Acts
<1>2. ASSUME NEW g \in Handler, job'[g] # None, job'[g].op \in CustodyOps \union AllocationOps
      PROVE  Acts(g) /\ JobHolds(job[g])'
  <2>1. CASE g = h
    BY <1>2, <2>1
  <2>2. CASE g # h
    <3>1. job[g] # None /\ job[g].op \in CustodyOps \union AllocationOps
      BY <1>2, <2>2, TurnOf
    <3> QED BY <2>2, <3>1 DEF Doers
  <2> QED BY <2>1, <2>2
<1> QED BY <1>1, <1>2 DEF Doers

LEMMA StillHolds ==
  ASSUME UNCHANGED register, NEW m
  PROVE  JobHolds(m)' <=> JobHolds(m)
<1>1. \A u : OpenRows(u)' = OpenRows(u) /\ OutOf(u)' = OutOf(u)
  BY DEF OpenRows, OutOf, Live, register
<1>2. \A u : HasResponsiblePerson(u)' <=> HasResponsiblePerson(u)
  BY <1>1 DEF HasResponsiblePerson, register
<1> QED BY <1>1, <1>2 DEF JobHolds, register

LEMMA ReadDoers ==
  ASSUME AssetTypes, Doers, duty' = duty, NEW h \in Handler, Acts(h), NEW m, Begin(h, m), UNCHANGED register,
         JobHolds(m)
  PROVE  Doers'
<1>1. job'[h] = m
  BY DEF Begin, AssetTypes, JobsOK
<1>2. Turns(h, {m.op})
  BY TurnTaken
<1>3. JobHolds(m)'
  BY StillHolds
<1>4. JobHolds(job[h])'
  BY <1>1, <1>3 DEF JobHolds
<1> QED BY <1>2, <1>4, DoersAfter

LEMMA RestDoers ==
  ASSUME AssetTypes, Doers, duty' = duty, NEW h \in Handler, Acts(h), Finished(h) \/ (job' = job /\ Idle(h))
  PROVE  Doers'
<1>1. job'[h] = None /\ Turns(h, {})
  BY DEF Finished, Idle, Turns, AssetTypes, JobsOK
<1> QED BY <1>1, DoersAfter

LEMMA CustodyDoers ==
  ASSUME AssetTypes, Doers, duty' = duty, NEW h \in Handler, CustodyStep(h)
  PROVE  Doers'
<1>0. Acts(h)
  BY CustodyActs
<1>1. ASSUME NEW q \in Request, FileRequest(h, q) PROVE Doers'
  BY <1>0, <1>1, RestDoers DEF FileRequest, May
<1>2. ASSUME NEW q \in Request, DecideRead(h, q) \/ CancelRead(h, q) PROVE Doers'
  <2>1. PICK m : Begin(h, m) /\ m.op = "settle"
    BY <1>2 DEF DecideRead, CancelRead
  <2>2. JobHolds(m)
    BY <2>1 DEF JobHolds
  <2> QED BY <1>0, <1>2, <2>1, <2>2, ReadDoers DEF DecideRead, CancelRead
<1>3. ASSUME NEW q \in Request, Issue(h, q) PROVE Doers'
  <2>1. PICK m : Begin(h, m) /\ m.op = "hand" /\ ~m.free
    BY <1>3 DEF Issue, Handing
  <2>2. JobHolds(m)
    BY <2>1 DEF JobHolds
  <2> QED BY <1>0, <1>3, <2>1, <2>2, ReadDoers DEF Issue
<1>4. ASSUME NEW u \in Unit, DirectIssue(h, u) PROVE Doers'
  <2>1. PICK m : Begin(h, m) /\ m.op = "hand" /\ ~m.free
    BY <1>4 DEF DirectIssue, Handing
  <2>2. JobHolds(m)
    BY <2>1 DEF JobHolds
  <2> QED BY <1>0, <1>4, <2>1, <2>2, ReadDoers DEF DirectIssue
<1>5. ASSUME NEW u \in Unit, UpdateAsset(h, u) PROVE Doers'
  BY <1>0, <1>5, RestDoers DEF UpdateAsset, May
<1>6. ASSUME NEW c \in DOMAIN custody, AcceptRead(h, c) PROVE Doers'
  <2>1. PICK m : Begin(h, m) /\ m.op = "accept"
    BY <1>6 DEF AcceptRead
  <2>2. JobHolds(m)
    BY <2>1 DEF JobHolds
  <2> QED BY <1>0, <1>6, <2>1, <2>2, ReadDoers DEF AcceptRead
<1>7. ASSUME NEW c \in DOMAIN custody, ReassignRead(h, c) PROVE Doers'
  <2>1. PICK m : Begin(h, m) /\ m.op = "reassign" /\ m.id = c /\ custody[c].open
    BY <1>7 DEF ReassignRead
  <2>2. JobHolds(m)
    BY <2>1 DEF JobHolds
  <2> QED BY <1>0, <1>7, <2>1, <2>2, ReadDoers DEF ReassignRead
<1>8. ASSUME NEW c \in DOMAIN custody, ReleaseRead(h, c) PROVE Doers'
  <2>1. PICK m : Begin(h, m) /\ m.op = "release" /\ m.id = c /\ custody[c].open /\ OutOf(custody[c].unit) = {}
    BY <1>8 DEF ReleaseRead, ReturnableCustody
  <2>2. JobHolds(m)
    BY <2>1 DEF JobHolds
  <2> QED BY <1>0, <1>8, <2>1, <2>2, ReadDoers DEF ReleaseRead
<1>9. CASE AssertFree(h)
  <2>1. PICK j \in Hand : j = job[h]
    BY <1>9 DEF AssertFree, Doing, AssetTypes, JobsOK, JobOK
  <2>2. PICK m : m = [j EXCEPT !.free = TRUE]
    OBVIOUS
  <2>3. m.op = "hand" /\ m.units = j.units /\ Begin(h, m) /\ Free(Head(j.units))
    BY <1>9, <2>1, <2>2 DEF Hand, AssertFree
  <2>4. JobHolds(m)
    BY <2>3 DEF JobHolds, Free
  <2> QED BY <1>0, <1>9, <2>3, <2>4, ReadDoers DEF AssertFree
<1>10. CASE HandOver(h)
  <2>1. PICK j \in Hand : j = job[h]
    BY <1>10 DEF HandOver, Doing, AssetTypes, JobsOK, JobOK
  <2>2. PICK m : m = [j EXCEPT !.units = Tail(@), !.free = FALSE]
    OBVIOUS
  <2>3. m.op = "hand" /\ ~m.free /\ Begin(h, m)
    BY <1>10, <2>1, <2>2 DEF Hand, HandOver
  <2>4. job'[h] = m /\ Turns(h, {"hand"})
    BY <2>3, TurnTaken DEF Begin, AssetTypes, JobsOK
  <2>5. JobHolds(job[h])'
    BY <2>3, <2>4 DEF JobHolds
  <2> QED BY <1>0, <2>4, <2>5, DoersAfter
<1>11. CASE SettleRequest(h) \/ MarkIssued(h) \/ AcceptWrite(h) \/ ReassignWrite(h) \/ ReleaseWrite(h)
  <2>1. Finished(h)
    BY <1>11 DEF SettleRequest, MarkIssued, AcceptWrite, ReassignWrite, ReleaseWrite
  <2> QED BY <1>0, <2>1, RestDoers
<1> QED
  BY <1>1, <1>2, <1>3, <1>4, <1>5, <1>6, <1>7, <1>8, <1>9, <1>10, <1>11 DEF CustodyStep

LEMMA AllocationDoers ==
  ASSUME AssetTypes, Doers, duty' = duty, NEW h \in Handler, AllocationStep(h)
  PROVE  Doers'
<1>0. Acts(h)
  BY AllocationActs
<1>1. ASSUME NEW r \in Row, NEW u \in Unit, AllocateCheck(h, r, u) PROVE Doers'
  <2>1. PICK m : m = [op |-> "allocate", row |-> r, unit |-> u]
    OBVIOUS
  <2>2. m.op = "allocate" /\ m.row = r /\ m.unit = u /\ Begin(h, m) /\ UNCHANGED register
    BY <1>1, <2>1 DEF AllocateCheck
  <2>3. JobHolds(m)
    BY <1>1, <2>2 DEF JobHolds, AllocateCheck, Bookable
  <2> QED BY <1>0, <2>2, <2>3, ReadDoers
<1>2. ASSUME NEW i \in DOMAIN alloc, NEW u \in Unit, ReallocateCheck(h, i, u) PROVE Doers'
  <2>1. PICK m : m = [op |-> "reallocate", id |-> i, unit |-> u]
    OBVIOUS
  <2>2. m.op = "reallocate" /\ m.id = i /\ m.unit = u /\ Begin(h, m) /\ UNCHANGED register
    BY <1>2, <2>1 DEF ReallocateCheck
  <2>3. JobHolds(m)
    BY <1>2, <2>2 DEF JobHolds, ReallocateCheck, Bookable
  <2> QED BY <1>0, <2>2, <2>3, ReadDoers
<1>3. ASSUME NEW r \in Row, CloseRowRead(h, r) PROVE Doers'
  <2>1. PICK m : Begin(h, m) /\ m.op = "closeRow"
    BY <1>3 DEF CloseRowRead
  <2>2. JobHolds(m)
    BY <2>1 DEF JobHolds
  <2> QED BY <1>0, <1>3, <2>1, <2>2, ReadDoers DEF CloseRowRead
<1>4. ASSUME NEW i \in DOMAIN alloc, ReleaseAllocRead(h, i) PROVE Doers'
  <2>1. PICK m : Begin(h, m) /\ m.op \in {"releaseAllocation", "remove"}
    BY <1>4 DEF ReleaseAllocRead
  <2>2. JobHolds(m)
    BY <2>1 DEF JobHolds
  <2> QED BY <1>0, <1>4, <2>1, <2>2, ReadDoers DEF ReleaseAllocRead
<1>5. ASSUME NEW r \in Row, AcceptUnits(h, r) \/ FileReturn(h, r) \/ ReceiveReturn(h, r) \/ CancelReturn(h, r)
      PROVE  Doers'
  <2>1. job' = job /\ Idle(h)
    BY <1>5 DEF AcceptUnits, FileReturn, ReceiveReturn, CancelReturn, May
  <2> QED BY <1>0, <2>1, RestDoers
<1>6. ASSUME NEW i \in DOMAIN alloc, HandBack(h, i) PROVE Doers'
  BY <1>0, <1>6, RestDoers DEF HandBack, May
<1>7. CASE Allocate(h) \/ Reallocate(h) \/ CloseRow(h) \/ ReleaseAlloc(h)
  <2>1. Finished(h)
    BY <1>7 DEF Allocate, Reallocate, CloseRow, ReleaseAlloc
  <2> QED BY <1>0, <2>1, RestDoers
<1>8. ASSUME NEW r \in Row, SaveTaskRead(h, r) PROVE Doers'
  <2>1. PICK m : Begin(h, m) /\ m.op = "saveTask"
    BY <1>8 DEF SaveTaskRead
  <2>2. JobHolds(m)
    BY <2>1 DEF JobHolds
  <2> QED BY <1>0, <1>8, <2>1, <2>2, ReadDoers DEF SaveTaskRead
<1>9. CASE SaveTask(h)
  BY <1>0, <1>9, RestDoers DEF SaveTask
<1> QED BY <1>1, <1>2, <1>3, <1>4, <1>5, <1>6, <1>7, <1>8, <1>9 DEF AllocationStep

LEMMA DoersKept == AssetTypes /\ Doers /\ [Next]_vars => Doers'
<1> SUFFICES ASSUME AssetTypes, Doers, [Next]_vars PROVE Doers'
  OBVIOUS
<1>1. duty' = duty
  BY DutyKept
<1>2. \A g \in Handler : Acts(g)' <=> Acts(g)
  BY <1>1 DEF Acts
<1>3. ASSUME UNCHANGED register,
             \A g \in Handler : job'[g] # None /\ job'[g].op \in CustodyOps \union AllocationOps => job'[g] = job[g]
      PROVE  Doers'
  <2>1. ASSUME NEW g \in Handler, job'[g] # None, job'[g].op \in CustodyOps \union AllocationOps
        PROVE  Acts(g)' /\ JobHolds(job[g])'
    <3>1. job'[g] = job[g] /\ Acts(g) /\ JobHolds(job[g])
      BY <1>3, <2>1 DEF Doers
    <3>2. PICK m : m = job[g]
      OBVIOUS
    <3>3. JobHolds(m)'
      BY <1>3, <3>1, <3>2, StillHolds
    <3> QED BY <1>2, <3>1, <3>2, <3>3 DEF JobHolds
  <2> QED BY <1>2, <2>1 DEF Doers
<1>4. ASSUME NEW h \in Handler, MoneyStep(h) PROVE Doers'
  <2>1. UNCHANGED register /\ Turns(h, {"finalize", "callback"})
    BY <1>4, MoneyTypes, MoneyTurns
  <2> QED BY <1>3, <2>1, TurnOf DEF CustodyOps, AllocationOps
<1>5. ASSUME NEW h \in Handler, Abort(h) PROVE Doers'
  <2>1. UNCHANGED register /\ Turns(h, {})
    BY <1>5 DEF Abort, Finished, Turns
  <2> QED BY <1>3, <2>1, TurnOf
<1>6. CASE UNCHANGED vars
  BY <1>3, <1>6 DEF vars, register
<1> QED BY <1>1, <1>4, <1>5, <1>6, CustodyDoers, AllocationDoers DEF Next

(* A unit passed on, or given back, while nothing is booked.               *)
LEMMA LatestSame ==
  ASSUME AssetTypes, alloc' = alloc, NEW i \in Live', Latest(i)'
  PROVE  i \in Live /\ Latest(i) /\ alloc[i].row \in Row /\ alloc'[i] = alloc[i]
BY AllocationTyped DEF Live, Latest

LEMMA UnitHandedOn ==
  ASSUME AssetTypes, Units, UNCHANGED <<row, alloc>>, NEW S, NEW n \in Custody, n.open, PassOn(S, n),
         S \subseteq OpenRows(n.unit), OpenRows(n.unit) \subseteq S, n.holder \in Object => n.origin = n.holder,
         NEW a, asset' = [asset EXCEPT ![n.unit] = a], a.holder = IF n.holder \in Person THEN n.holder ELSE None,
         \A i \in OutOf(n.unit) : Latest(i) => AnswersFor(n, alloc[i].row)
  PROVE  Units'
<1>1. n.unit \in Unit
  BY DEF Custody
<1>2. asset'[n.unit] = a /\ \A u \in Unit \ {n.unit} : asset'[u] = asset[u]
  BY <1>1 DEF AssetTypes
<1>3. \A u \in Unit \ {n.unit} : OpenRows(u) \intersect S = {}
  BY DEF OpenRows
<1>4. \A u \in Unit \ {n.unit} : asset'[u].holder = IF OpenRows(u) \intersect S = {} THEN asset[u].holder ELSE None
  BY <1>2, <1>3
<1>5. ASSUME NEW i \in Live', Latest(i)'
      PROVE  IF alloc'[i].unit = n.unit THEN alloc'[i].row \in Row /\ AnswersFor(n, alloc'[i].row)
             ELSE alloc'[i].row \in Row /\ \E c \in OpenRows(alloc'[i].unit) \ S : AnswersFor(custody[c], alloc'[i].row)
  <2>1. i \in Live /\ Latest(i) /\ alloc[i].row \in Row /\ alloc'[i] = alloc[i]
    BY <1>5, LatestSame
  <2>2. CASE alloc[i].unit = n.unit
    BY <2>1, <2>2 DEF OutOf
  <2>3. CASE alloc[i].unit # n.unit
    <3>1. PICK c : Answers(i, c)
      BY <2>1 DEF Units
    <3>2. c \notin S
      BY <2>3, <3>1 DEF Answers, OpenRows
    <3> QED BY <2>1, <2>3, <3>1, <3>2 DEF Answers
  <2> QED BY <2>2, <2>3
<1>6. ObjectsStay
  BY DEF ObjectsStay
<1>7. asset'[n.unit].holder = IF n.holder \in Person THEN n.holder ELSE None
  BY <1>2
<1> QED BY <1>4, <1>5, <1>6, <1>7, UnitPassed

LEMMA UnitsRest ==
  ASSUME AssetTypes, Units, UNCHANGED <<custody, alloc, row>>, \A u \in Unit : asset'[u].holder = asset[u].holder
  PROVE  Units'
<1>1. HoldersStay /\ BookingsStay /\ ObjectsStay /\ DOMAIN alloc' = DOMAIN alloc
  BY DEF HoldersStay, BookingsStay, ObjectsStay
<1> QED BY <1>1, NobodyTakes

LEMMA CustodyUnits ==
  ASSUME AssetTypes, Units, Doers, NEW h \in Handler, CustodyStep(h)
  PROVE  Units'
<1>1. CASE UNCHANGED <<asset, custody, alloc, row>>
  BY <1>1, UnitsRest
<1>2. ASSUME NEW u \in Unit, UpdateAsset(h, u) PROVE Units'
  <2>1. PICK status : asset' = [asset EXCEPT ![u].status = status]
    BY <1>2 DEF UpdateAsset
  <2>2. PICK a : a = [asset[u] EXCEPT !.status = status]
    OBVIOUS
  <2>3. asset[u] \in [status : AssetStatus, holder : Person \union {None}]
    BY DEF AssetTypes
  <2>4. a.holder = asset[u].holder
    BY <2>2, <2>3
  <2>5. \A v \in Unit : asset'[v].holder = asset[v].holder
    BY <2>1, <2>2, <2>4 DEF AssetTypes
  <2> QED BY <1>2, <2>5, UnitsRest DEF UpdateAsset
<1>3. CASE HandOver(h)
  <2>1. PICK j \in Hand : j = job[h] /\ JobOK(j)
    BY <1>3 DEF HandOver, Doing, AssetTypes, JobsOK, JobOK
  <2>2. j.op = "hand" /\ j.free /\ j.units # <<>> /\ j.units \in Seq(Unit) /\ job[h] # None
    BY <1>3, <2>1 DEF HandOver, Doing, Hand, JobOK
  <2>3. PICK u \in Unit : u = Head(j.units)
    BY <2>2
  <2>4. OpenRows(u) = {} /\ OutOf(u) = {}
    BY <2>1, <2>2, <2>3 DEF Doers, JobHolds, CustodyOps
  <2>5. j.who \in Person \union Object
    BY DEF Hand
  <2>6. PICK n \in Custody : n = [Held(u, j.who, IF j.who \in Person THEN None ELSE j.who) EXCEPT !.request = j.request]
    BY HeldIsCustody DEF Hand
  <2>7. n.open /\ n.unit = u /\ n.holder = j.who /\ n.origin = (IF j.who \in Person THEN None ELSE j.who)
    BY <2>6 DEF Held
  <2>8. PassOn({}, n) /\ UNCHANGED <<row, alloc>>
        /\ asset' = [asset EXCEPT ![u].holder = IF j.who \in Person THEN j.who ELSE None]
    BY <1>3, <2>1, <2>3, <2>6 DEF HandOver
  <2>9. PICK a : a = [asset[u] EXCEPT !.holder = IF j.who \in Person THEN j.who ELSE None]
    OBVIOUS
  <2>10. asset[u] \in [status : AssetStatus, holder : Person \union {None}]
    BY DEF AssetTypes
  <2>11. a.holder = (IF n.holder \in Person THEN n.holder ELSE None) /\ asset' = [asset EXCEPT ![n.unit] = a]
    BY <2>7, <2>8, <2>9, <2>10
  <2>12. n.holder \in Object => n.origin = n.holder
    BY <2>7, AssetAssumption
  <2> QED BY <2>4, <2>7, <2>8, <2>11, <2>12, UnitHandedOn
<1>4. CASE AcceptWrite(h)
  <2>1. PICK c \in DOMAIN custody : c = job[h].id
    BY <1>4 DEF AcceptWrite, Doing, AssetTypes, JobsOK, JobOK
  <2>2. custody[c] \in Custody
    BY DEF AssetTypes
  <2>3. PICK n : n = [custody[c] EXCEPT !.accepted = TRUE]
    OBVIOUS
  <2>4. n.open = custody[c].open /\ n.unit = custody[c].unit /\ n.holder = custody[c].holder
        /\ n.origin = custody[c].origin /\ n.row = custody[c].row
    BY <2>2, <2>3 DEF Custody
  <2>5. custody' = [custody EXCEPT ![c] = n] /\ UNCHANGED <<asset, row, alloc>>
    BY <1>4, <2>1, <2>3 DEF AcceptWrite
  <2>6. HoldersStay
    BY <2>4, <2>5 DEF HoldersStay, AssetTypes
  <2>7. BookingsStay /\ ObjectsStay /\ DOMAIN alloc' = DOMAIN alloc
    BY <2>5 DEF BookingsStay, ObjectsStay
  <2> QED BY <2>5, <2>6, <2>7, NobodyTakes
<1>5. ASSUME NEW c \in DOMAIN custody, c = job[h].id, job[h] # None, job[h].op \in {"reassign", "release"}
      PROVE  /\ custody[c] \in Custody /\ custody[c].unit \in Unit
             /\ OpenRows(custody[c].unit) = {c}
             /\ job[h].op = "release" => OutOf(custody[c].unit) = {}
             /\ job[h].op = "reassign" => custody[c].holder \in Object
  <2>1. JobHolds(job[h]) /\ JobOK(job[h])
    BY <1>5 DEF Doers, CustodyOps, AssetTypes, JobsOK
  <2>2. custody[c] \in Custody
    BY DEF AssetTypes
  <2>3. custody[c].unit \in Unit
    BY <2>2 DEF Custody
  <2>4. c \in OpenRows(custody[c].unit)
    BY <1>5, <2>1 DEF JobHolds, OpenRows
  <2>5. OpenRows(custody[c].unit) = {c}
    BY <2>3, <2>4 DEF Units, Sole
  <2> QED BY <1>5, <2>1, <2>2, <2>3, <2>5 DEF JobHolds, JobOK
<1>6. CASE ReassignWrite(h)
  <2>1. PICK c \in DOMAIN custody, p \in Person : c = job[h].id /\ p = job[h].who
    BY <1>6 DEF ReassignWrite, Doing, AssetTypes, JobsOK, JobOK
  <2>2. custody[c].unit \in Unit /\ OpenRows(custody[c].unit) = {c} /\ custody[c].holder \in Object
    BY <1>5, <1>6, <2>1 DEF ReassignWrite, Doing
  <2>3. PICK u \in Unit : u = custody[c].unit
    BY <2>2
  <2>4. PICK n \in Custody : n = Held(u, p, custody[c].holder)
    BY <2>2, HeldIsCustody
  <2>5. n.open /\ n.unit = u /\ n.holder = p /\ n.origin = custody[c].holder
    BY <2>4 DEF Held
  <2>6. PassOn({c}, n) /\ UNCHANGED <<row, alloc>> /\ asset' = [asset EXCEPT ![u].holder = p]
    BY <1>6, <2>1, <2>3, <2>4 DEF ReassignWrite
  <2>7. PICK a : a = [asset[u] EXCEPT !.holder = p]
    OBVIOUS
  <2>8. asset[u] \in [status : AssetStatus, holder : Person \union {None}]
    BY DEF AssetTypes
  <2>9. a.holder = (IF n.holder \in Person THEN n.holder ELSE None) /\ asset' = [asset EXCEPT ![n.unit] = a]
    BY <2>5, <2>6, <2>7, <2>8
  <2>10. n.holder \notin Object
    BY <2>5, AssetAssumption
  <2>11. ASSUME NEW i \in OutOf(u), Latest(i) PROVE AnswersFor(n, alloc[i].row)
    <3>1. i \in Live /\ alloc[i].unit = u /\ alloc[i].row \in Row
      BY AllocationTyped DEF OutOf, Live
    <3>2. AnswersFor(custody[c], alloc[i].row)
      BY <2>2, <2>3, <2>11, <3>1 DEF Units, Answers
    <3>3. custody[c].origin = custody[c].holder
      BY <2>2 DEF Units
    <3> QED BY <2>5, <2>10, <3>2, <3>3 DEF AnswersFor
  <2> QED BY <2>2, <2>3, <2>5, <2>6, <2>9, <2>10, <2>11, UnitHandedOn
<1>7. CASE ReleaseWrite(h)
  <2>1. PICK c \in DOMAIN custody : c = job[h].id
    BY <1>7 DEF ReleaseWrite, Doing, AssetTypes, JobsOK, JobOK
  <2>2. custody[c] \in Custody /\ OpenRows(custody[c].unit) = {c} /\ OutOf(custody[c].unit) = {}
    BY <1>5, <1>7, <2>1 DEF ReleaseWrite, Doing
  <2>3. PICK u \in Unit : u = custody[c].unit
    BY <2>2 DEF Custody
  <2>4. PICK a : a.holder = None /\ asset' = [asset EXCEPT ![u] = a] /\ UNCHANGED <<row, alloc>>
    BY <1>7, <2>1, <2>3 DEF ReleaseWrite
  <2>5. CASE custody[c].origin # None /\ job[h].condition # "LOST"
    <3>1. custody[c].origin \in Object
      BY <2>2, <2>5 DEF Custody
    <3>2. PICK n \in Custody : n = [Held(u, custody[c].origin, custody[c].origin) EXCEPT !.accepted = TRUE]
      BY <3>1, HeldIsCustody
    <3>3. n.open /\ n.unit = u /\ n.holder = custody[c].origin /\ n.origin = custody[c].origin
      BY <3>2 DEF Held
    <3>4. PassOn({c}, n)
      BY <1>7, <2>1, <2>3, <2>5, <3>2 DEF ReleaseWrite
    <3>5. a.holder = (IF n.holder \in Person THEN n.holder ELSE None) /\ asset' = [asset EXCEPT ![n.unit] = a]
      BY <2>4, <3>1, <3>3, AssetAssumption
    <3> QED BY <2>2, <2>3, <2>4, <3>3, <3>4, <3>5, UnitHandedOn
  <2>6. CASE ~(custody[c].origin # None /\ job[h].condition # "LOST")
    <3>1. custody' = Closed({c})
      BY <1>7, <2>1, <2>6 DEF ReleaseWrite
    <3>2. \A v \in Unit \ {u} : c \notin OpenRows(v)
      BY <2>3 DEF OpenRows
    <3>3. \A v \in Unit : asset'[v].holder = IF OpenRows(v) \intersect {c} = {} THEN asset[v].holder ELSE None
      BY <2>2, <2>3, <2>4, <3>2 DEF AssetTypes
    <3>4. ASSUME NEW i \in Live', Latest(i)'
          PROVE  alloc'[i].row \in Row /\ \E k \in OpenRows(alloc'[i].unit) \ {c} : AnswersFor(custody[k], alloc'[i].row)
      <4>1. i \in Live /\ Latest(i) /\ alloc[i].row \in Row /\ alloc'[i] = alloc[i]
        BY <2>4, <3>4, LatestSame
      <4>2. PICK k : Answers(i, k)
        BY <4>1 DEF Units
      <4>3. k # c
        BY <2>2, <4>1, <4>2 DEF Answers, OpenRows, OutOf
      <4> QED BY <4>1, <4>2, <4>3 DEF Answers
    <3>5. ObjectsStay
      BY <2>4 DEF ObjectsStay
    <3> QED BY <3>1, <3>3, <3>4, <3>5, UnitsGivenBack
  <2> QED BY <2>5, <2>6
<1>8. ASSUME NEW q \in Request, FileRequest(h, q) \/ DecideRead(h, q) \/ CancelRead(h, q) \/ Issue(h, q) PROVE Units'
  BY <1>1, <1>8 DEF FileRequest, DecideRead, CancelRead, Issue, register
<1>9. ASSUME NEW u \in Unit, DirectIssue(h, u) PROVE Units'
  BY <1>1, <1>9 DEF DirectIssue, register
<1>10. ASSUME NEW c \in DOMAIN custody, AcceptRead(h, c) \/ ReassignRead(h, c) \/ ReleaseRead(h, c) PROVE Units'
  BY <1>1, <1>10 DEF AcceptRead, ReassignRead, ReleaseRead, register
<1>11. CASE SettleRequest(h) \/ AssertFree(h) \/ MarkIssued(h)
  BY <1>1, <1>11 DEF SettleRequest, AssertFree, MarkIssued, register
<1> QED BY <1>2, <1>3, <1>4, <1>6, <1>7, <1>8, <1>9, <1>10, <1>11 DEF CustodyStep

LEMMA ObjectsStayOnStatus ==
  ASSUME AssetTypes, NEW r \in Row, NEW status, row' = [row EXCEPT ![r].status = status]
  PROVE  ObjectsStay
<1>1. row[r] \in Reservation
  BY DEF AssetTypes
<1>2. PICK t : t = [row[r] EXCEPT !.status = status]
  OBVIOUS
<1>3. t.object = row[r].object
  BY <1>1, <1>2 DEF Reservation
<1> QED BY <1>2, <1>3 DEF AssetTypes, ObjectsStay

LEMMA AllocationUnits ==
  ASSUME AssetTypes, Units, Doers, NEW h \in Handler, AllocationStep(h)
  PROVE  Units'
<1>1. CASE UNCHANGED <<asset, custody, alloc, row>>
  BY <1>1, UnitsRest
<1>2. ASSUME NEW S, alloc' = Released(S), UNCHANGED <<asset, custody>>, ObjectsStay PROVE Units'
  <2>1. HoldersStay
    BY <1>2 DEF HoldersStay
  <2> QED BY <1>2, <2>1, ReleasedStay, NobodyTakes
<1>3. CASE Allocate(h)
  <2>1. PICK r \in Row, u \in Unit : r = job[h].row /\ u = job[h].unit
    BY <1>3 DEF Allocate, Doing, AssetTypes, JobsOK, JobOK
  <2>2. Freed({}) = {} /\ Released({}) = alloc
    BY DEF Freed, Released, AssetTypes
  <2>3. PICK T \in SUBSET DOMAIN alloc : T = {}
    OBVIOUS
  <2>4. alloc' = Append(Released(T), Booking(u, r)) /\ ObjectTakes(u, r, Freed(T))
    BY <1>3, <2>1, <2>2, <2>3 DEF Allocate
  <2>5. row[r].object = None => HasResponsiblePerson(u)
    BY <1>3, <2>1 DEF Allocate, Doing, Doers, JobHolds, AllocationOps
  <2>6. PICK status : row' = [row EXCEPT ![r].status = status]
    BY <1>3, <2>1 DEF Allocate
  <2> QED BY <2>4, <2>5, <2>6, ObjectsStayOnStatus, UnitBooked
<1>4. CASE Reallocate(h)
  <2>1. PICK k \in DOMAIN alloc, u \in Unit : k = job[h].id /\ u = job[h].unit
    BY <1>4 DEF Reallocate, Doing, AssetTypes, JobsOK, JobOK
  <2>2. PICK r \in Row : r = alloc[k].row
    BY AllocationTyped
  <2>3. PICK T \in SUBSET DOMAIN alloc : T = {k}
    OBVIOUS
  <2>4. alloc' = Append(Released(T), Booking(u, r)) /\ ObjectTakes(u, r, Freed(T)) /\ row' = row
    BY <1>4, <2>1, <2>2, <2>3 DEF Reallocate
  <2>5. row[r].object = None => HasResponsiblePerson(u)
    BY <1>4, <2>1, <2>2 DEF Reallocate, Doing, Doers, JobHolds, AllocationOps
  <2>6. ObjectsStay
    BY <2>4 DEF ObjectsStay
  <2> QED BY <2>4, <2>5, <2>6, UnitBooked
<1>5. CASE CloseRow(h)
  <2>1. PICK r \in Row : r = job[h].row
    BY <1>5 DEF CloseRow, Doing, AssetTypes, JobsOK, JobOK
  <2>2. PICK T \in SUBSET DOMAIN alloc : T = Out(r)
    BY DEF Out, Live
  <2>3. alloc' = Released(T) /\ custody' = Closed(Freed(T)) /\ asset' = asset
    BY <1>5, <2>1, <2>2 DEF CloseRow
  <2>4. PICK status : row' = [row EXCEPT ![r].status = status]
    BY <1>5, <2>1 DEF CloseRow
  <2> QED BY <2>3, <2>4, ObjectsStayOnStatus, UnitsReleased
<1>6. CASE ReleaseAlloc(h)
  <2>1. PICK k \in DOMAIN alloc : k = job[h].id
    BY <1>6 DEF ReleaseAlloc, Doing, AssetTypes, JobsOK, JobOK
  <2>2. PICK r \in Row : r = alloc[k].row
    BY AllocationTyped
  <2>3. PICK T \in SUBSET DOMAIN alloc : T = {k}
    OBVIOUS
  <2>4. alloc' = Released(T) /\ custody' \in {custody, Closed(Freed(T))} /\ asset' = asset
    BY <1>6, <2>1, <2>3 DEF ReleaseAlloc
  <2>5. PICK status : row' = [row EXCEPT ![r].status = status]
    BY <1>6, <2>1, <2>2 DEF ReleaseAlloc
  <2>6. ObjectsStay
    BY <2>5, ObjectsStayOnStatus
  <2> QED BY <1>2, <2>4, <2>6, UnitsReleased
<1>7. ASSUME NEW k \in DOMAIN alloc, HandBack(h, k) PROVE Units'
  <2>1. PICK r \in Row : r = alloc[k].row
    BY AllocationTyped
  <2>2. PICK n : row' = [row EXCEPT ![r].quantity = n]
    BY <1>7, <2>1 DEF HandBack
  <2>3. PICK t : t = [row[r] EXCEPT !.quantity = n]
    OBVIOUS
  <2>4. row[r] \in Reservation
    BY DEF AssetTypes
  <2>5. t.object = row[r].object
    BY <2>3, <2>4 DEF Reservation
  <2>6. ObjectsStay
    BY <2>2, <2>3, <2>5 DEF AssetTypes, ObjectsStay
  <2> QED BY <1>2, <1>7, <2>6 DEF HandBack
<1>8. ASSUME NEW r \in Row, AcceptUnits(h, r) PROVE Units'
  <2>1. PICK n, status : row' = [row EXCEPT ![r].accepted = n, ![r].status = status]
    BY <1>8 DEF AcceptUnits
  <2>2. PICK t : t = [row[r] EXCEPT !.accepted = n, !.status = status]
    OBVIOUS
  <2>3. row[r] \in Reservation
    BY DEF AssetTypes
  <2>4. t.object = row[r].object
    BY <2>2, <2>3 DEF Reservation
  <2>5. row' = [row EXCEPT ![r] = t]
    BY <2>1, <2>2 DEF AssetTypes
  <2>6. ObjectsStay
    BY <2>4, <2>5 DEF AssetTypes, ObjectsStay
  <2>7. HoldersStay /\ BookingsStay /\ DOMAIN alloc' = DOMAIN alloc /\ asset' = asset
    BY <1>8 DEF AcceptUnits, HoldersStay, BookingsStay
  <2> QED BY <2>6, <2>7, NobodyTakes
<1>9. ASSUME NEW r \in Row, ReceiveReturn(h, r) PROVE Units'
  <2>1. PICK S : alloc' = Released(S)
    BY <1>9 DEF ReceiveReturn
  <2>2. PICK status : row' = [row EXCEPT ![r].status = status]
    BY <1>9 DEF ReceiveReturn
  <2>3. UNCHANGED <<asset, custody>>
    BY <1>9 DEF ReceiveReturn
  <2> QED BY <1>2, <2>1, <2>2, <2>3, ObjectsStayOnStatus
<1>10. ASSUME NEW r \in Row, FileReturn(h, r) \/ CancelReturn(h, r) \/ CloseRowRead(h, r) PROVE Units'
  BY <1>1, <1>10 DEF FileReturn, CancelReturn, CloseRowRead, register
<1>11. ASSUME NEW k \in DOMAIN alloc, ReleaseAllocRead(h, k) PROVE Units'
  BY <1>1, <1>11 DEF ReleaseAllocRead, register
<1>12. ASSUME NEW r \in Row, NEW u \in Unit, AllocateCheck(h, r, u) PROVE Units'
  BY <1>1, <1>12 DEF AllocateCheck, register
<1>13. ASSUME NEW k \in DOMAIN alloc, NEW u \in Unit, ReallocateCheck(h, k, u) PROVE Units'
  BY <1>1, <1>13 DEF ReallocateCheck, register
<1>14. ASSUME NEW r \in Row, SaveTaskRead(h, r) PROVE Units'
  BY <1>1, <1>14 DEF SaveTaskRead, register
<1>15. CASE SaveTask(h)
  <2>1. ObjectsStay
    <3>1. PICK r \in Row : row'[r].object = row[r].object /\ \A q \in Row \ {r} : row'[q] = row[q]
      BY <1>15, TaskSaved
    <3> QED BY <3>1 DEF ObjectsStay
  <2>2. PICK S : alloc' = Released(S)
    BY <1>15, TaskSaved
  <2>3. UNCHANGED <<asset, custody>>
    BY <1>15 DEF SaveTask
  <2> QED BY <1>2, <2>1, <2>2, <2>3
<1> QED
  BY <1>3, <1>4, <1>5, <1>6, <1>7, <1>8, <1>9, <1>10, <1>11, <1>12, <1>13, <1>14, <1>15 DEF AllocationStep

LEMMA UnitsKept == AssetTypes /\ Units /\ Doers /\ [Next]_vars => Units'
<1> SUFFICES ASSUME AssetTypes, Units, Doers, [Next]_vars PROVE Units'
  OBVIOUS
<1>1. CASE UNCHANGED register
  BY <1>1, UnitsRest DEF register
<1>2. CASE UNCHANGED vars
  BY <1>1, <1>2 DEF vars, register
<1>3. ASSUME NEW h \in Handler, Abort(h) PROVE Units'
  BY <1>1, <1>3 DEF Abort
<1>4. ASSUME NEW h \in Handler, MoneyStep(h) PROVE Units'
  BY <1>1, <1>4, MoneyTypes
<1> QED BY <1>2, <1>3, <1>4, CustodyUnits, AllocationUnits DEF Next

LEMMA UnitsAnswered == AssetTypes /\ Units => HoldersAnswer
<1> SUFFICES ASSUME AssetTypes, Units PROVE HoldersAnswer
  OBVIOUS
<1>1. ASSUME NEW u \in Unit
      PROVE  /\ Cardinality(OpenRows(u)) <= 1
             /\ {asset[u].holder} \ {None} = {custody[c].holder : c \in OpenRows(u)} \intersect Person
  <2>1. CASE OpenRows(u) = {}
    BY <2>1, FS_EmptySet DEF Units, Sole
  <2>2. CASE OpenRows(u) # {}
    <3>1. PICK c : OpenRows(u) = {c} /\ asset[u].holder = IF custody[c].holder \in Person THEN custody[c].holder ELSE None
      BY <2>2 DEF Units, Sole
    <3>2. Cardinality(OpenRows(u)) = 1
      BY <3>1, FS_Singleton
    <3>3. {custody[k].holder : k \in OpenRows(u)} = {custody[c].holder}
      BY <3>1
    <3> QED BY <3>1, <3>2, <3>3, AssetAssumption
  <2> QED BY <2>1, <2>2
<1>2. ASSUME NEW i \in Live,
             \A j \in DOMAIN alloc \ {i} : alloc[j].unit = alloc[i].unit => j < i /\ alloc[j].row # alloc[i].row
      PROVE  \E c \in OpenRows(alloc[i].unit) :
               IF row[alloc[i].row].object = None THEN custody[c].holder \in Person
                                                  ELSE custody[c].origin = row[alloc[i].row].object
  BY <1>2 DEF Units, Latest, Answers, AnswersFor
<1> QED BY <1>1, <1>2 DEF HoldersAnswer, OneHolderNamed, LastTakerHolds

(* handOver and handOverToObject, bookings that move a unit to an object,  *)
(* reassignments, releases that send it back, rows called off and every     *)
(* way back: as long as one handler at most does anything but look after a  *)
(* job's money, a unit has one holder, the mirror names that holder exactly *)
(* when it is a person, and whoever is to answer for a unit's latest        *)
(* booking answers for it.                                                  *)
THEOREM SomebodyAlwaysAnswers == OneActs => (Spec => []HoldersAnswer)
<1>1. OneActs /\ Init => AssetTypes /\ Units /\ Doers
  BY AssetTypesStart, UnitsStart
<1>2. AssetTypes /\ Units /\ Doers /\ [Next]_vars => (AssetTypes /\ Units /\ Doers)'
  BY AssetTypesKept, UnitsKept, DoersKept
<1>3. AssetTypes /\ Units => HoldersAnswer
  BY UnitsAnswered
<1> QED BY <1>1, <1>2, <1>3, PTL DEF Spec
=============================================================================
