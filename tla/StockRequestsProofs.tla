------------------------ MODULE StockRequestsProofs ------------------------
(***************************************************************************)
(* Proofs about StockRequests, for any warehouses, goods, requests and     *)
(* number of handlers: what the places hold is what there was, is covered  *)
(* by the movements and never negative, and an approved request names its  *)
(* own document.                                                           *)
(***************************************************************************)
EXTENDS StockRequests, Totals

TransferStage == {"ordered", "picked", "sent"}
EditStage == {"editing", "rechecked"}

(* A transfer goes from one place to another; once its units are picked    *)
(* they are as many as its line says.                                      *)
Moves(j) ==
  j.stage \in TransferStage =>
    /\ j.from # j.to
    /\ j.stage # "ordered" => j.units \in SUBSET Asset /\ Cardinality(j.units) = j.lines[AssetItem]

TransfersMove == \A h \in Handler : job[h] # None => Moves(job[h])

(* A transfer made for a request goes to the warehouse that filed it, and  *)
(* once sent its document is there; a request being edited exists.         *)
Serves(j) ==
  /\ j.stage \in TransferStage /\ j.req # None =>
       asked[j.req] # None /\ j.from = Main /\ j.to = asked[j.req].sub
  /\ j.stage = "sent" =>
       /\ j.req # None /\ j.sent \in DOMAIN docs
       /\ docs[j.sent].req = j.req
       /\ docs[j.sent].from = Main /\ docs[j.sent].to = asked[j.req].sub
  /\ j.stage \in EditStage => asked[j.req] # None

ServesItsRequest == \A h \in Handler : job[h] # None => Serves(job[h])

IInv == StoresAddUp /\ TransfersMove /\ ServesItsRequest /\ ApprovedNamesItsTransfer

-----------------------------------------------------------------------------
(* Units are numbered, so the oldest of them can be told: what PickUnits   *)
(* takes is as many as it wants.                                           *)
LEMMA Newest ==
  ASSUME NEW S, S \subseteq Nat, IsFiniteSet(S), S # {}
  PROVE  \E m \in S : \A x \in S : x <= m
<1> DEFINE T == {A \in SUBSET S : \E b \in S : A = {x \in S : x >= b}}
<1>1. PICK A \in T : \A B \in T : B \subseteq A => B = A
  <2>1. T \in SUBSET (SUBSET S)
    OBVIOUS
  <2>2. PICK b \in S : TRUE
    OBVIOUS
  <2>3. {x \in S : x >= b} \in T
    OBVIOUS
  <2>4. T # {}
    BY <2>3
  <2> HIDE DEF T
  <2>5. IsFiniteSet(S)
    OBVIOUS
  <2> QED BY ONLY <2>1, <2>4, <2>5, Smallest
<1>2. PICK m \in S : A = {x \in S : x >= m}
  OBVIOUS
<1>3. ASSUME NEW x \in S, ~(x <= m)
      PROVE  FALSE
  <2> DEFINE B == {y \in S : y >= x}
  <2>1. m \in Nat /\ x \in Nat /\ m < x
    BY <1>2, <1>3
  <2>2. \A y \in S : y >= x => y >= m
    BY <2>1
  <2>3. m >= m /\ ~(m >= x)
    BY <2>1
  <2>4. B \subseteq A /\ m \in A /\ m \notin B
    BY <1>2, <2>2, <2>3
  <2>5. B \in T
    OBVIOUS
  <2> HIDE DEF B, T
  <2> QED BY <1>1, <2>4, <2>5
<1> QED BY <1>3

LEMMA OldestIs ==
  ASSUME NEW S \in SUBSET Asset, NEW n \in Nat, n <= Cardinality(S)
  PROVE  Oldest(S, n) \in SUBSET S /\ Cardinality(Oldest(S, n)) = n
<1>1. IsFiniteSet(S)
  BY PlacesAndUnitsFinite, FS_Subset
<1> DEFINE T == {A \in SUBSET S : n <= Cardinality(A) /\ \A x \in A, y \in S \ A : x < y}
<1>2. PICK A \in T : \A B \in T : B \subseteq A => B = A
  <2>1. T \in SUBSET (SUBSET S)
    OBVIOUS
  <2>2. S \in T
    OBVIOUS
  <2> HIDE DEF T
  <2> QED BY <1>1, <2>1, <2>2, Smallest
<1>3. IsFiniteSet(A) /\ Cardinality(A) \in Nat
  BY <1>1, FS_Subset, FS_CardinalityType
<1>4. ASSUME Cardinality(A) # n
      PROVE  FALSE
  <2>1. A # {}
    BY <1>3, <1>4, FS_EmptySet
  <2>2. PICK m \in A : \A x \in A : x <= m
    BY <1>3, <2>1, UnitsNumbered, Newest
  <2>3. Cardinality(A \ {m}) = Cardinality(A) - 1
    BY <1>3, FS_RemoveElement
  <2>4. \A x \in A \ {m}, y \in S \ (A \ {m}) : x < y
    BY <2>2, UnitsNumbered
  <2>5. A \ {m} \in T
    BY <1>3, <1>4, <2>3, <2>4
  <2> QED BY <1>2, <2>5
<1>5. Cardinality(A) = n /\ \A x \in A, y \in S \ A : x < y
  BY <1>2, <1>4
<1> QED BY <1>5 DEF Oldest

-----------------------------------------------------------------------------
(* The kinds of work a handler can be at, told apart by their stages.      *)
JobType == TransferJob \union AllocateJob \union EditJob \union {None}

LEMMA JobKinds ==
  ASSUME TypeOK, NEW h \in Handler, job[h] # None
  PROVE  /\ job[h].stage \in TransferStage => job[h] \in TransferJob
         /\ job[h].stage = "allocating" => job[h] \in AllocateJob
         /\ job[h].stage \in EditStage => job[h] \in EditJob
  BY DEF TypeOK, TransferJob, AllocateJob, EditJob, TransferStage, EditStage

LEMMA LinesTyped == Lines \subseteq [Item -> Nat]
  BY UnitsNumbered DEF Lines

LEMMA DeltaTyped ==
  ASSUME NEW j \in TransferJob, NEW p, NEW i \in Item
  PROVE  Delta(j, p, i) \in Int
  BY DEF Delta, TransferJob

(* What PickUnits takes of the units at a place.                           *)
LEMMA PickTyped ==
  ASSUME TypeOK, NEW h \in Handler, PickUnits(h)
  PROVE  LET u == Oldest(Transferable(job[h].from), job[h].lines[AssetItem])
         IN  /\ job[h] \in TransferJob
             /\ u \in SUBSET Asset /\ Cardinality(u) = job[h].lines[AssetItem]
             /\ job' = [job EXCEPT ![h].stage = "picked", ![h].units = u]
             /\ UNCHANGED stores
<1>1. job[h] # None /\ job[h].stage = "ordered" /\ job[h] \in TransferJob
  BY JobKinds DEF PickUnits, Doing, TransferStage
<1> DEFINE n == job[h].lines[AssetItem]
           S == Transferable(job[h].from)
<1>2. n \in Nat /\ n <= Cardinality(S)
  BY <1>1 DEF PickUnits, TransferJob, Item
<1>3. S \in SUBSET Asset
  BY DEF Transferable
<1> HIDE DEF n, S
<1>4. Oldest(S, n) \in SUBSET S /\ Cardinality(Oldest(S, n)) = n
  BY <1>2, <1>3, OldestIs
<1>5. /\ job' = [job EXCEPT ![h].stage = "picked", ![h].units = Oldest(S, n)]
      /\ UNCHANGED stores
  BY DEF PickUnits, n, S
<1> QED BY <1>1, <1>3, <1>4, <1>5 DEF n, S

(* A transfer's transaction, named part by part.                           *)
LEMMA TransferIs ==
  ASSUME TypeOK, TransfersMove, NEW h \in Handler, Transfer(h)
  PROVE  /\ job[h] # None /\ job[h].stage = "picked" /\ job[h] \in TransferJob
         /\ job[h].from \in Place /\ job[h].to \in Place /\ job[h].from # job[h].to
         /\ job[h].units \in SUBSET Asset
         /\ Cardinality(job[h].units) = job[h].lines[AssetItem]
         /\ Carry(job[h]) /\ UNCHANGED <<holder>>
         /\ job' = [job EXCEPT ![h] =
                      IF job[h].req = None THEN None
                      ELSE [job[h] EXCEPT !.stage = "sent", !.sent = Len(docs) + 1]]
<1>1. job[h] # None /\ job[h].stage = "picked" /\ job[h] \in TransferJob
  BY JobKinds DEF Transfer, Doing, TransferStage
<1> QED BY <1>1 DEF Transfer, TransfersMove, Moves, TransferStage, TransferJob

-----------------------------------------------------------------------------
(* Types are kept.                                                         *)
LEMMA StepTypes ==
  ASSUME TypeOK, TransfersMove, NEW h \in Handler, StoresStep(h) \/ RequestStep(h)
  PROVE  job' \in [Handler -> JobType]
<1> USE DEF TypeOK, JobType
<1>1. ASSUME NEW from \in Place, NEW to \in Place, NEW lines \in Lines, Order(h, from, to, lines)
      PROVE  job' \in [Handler -> JobType]
  BY <1>1, LinesTyped DEF Order, Ordered, TransferJob
<1>2. CASE PickUnits(h)
  <2>1. PICK u \in SUBSET Asset :
          job[h] \in TransferJob /\ job' = [job EXCEPT ![h].stage = "picked", ![h].units = u]
    BY <1>2, PickTyped
  <2>2. [[job[h] EXCEPT !.stage = "picked"] EXCEPT !.units = u] \in TransferJob
    BY <2>1 DEF TransferJob
  <2>3. job' = [job EXCEPT ![h] = [[job[h] EXCEPT !.stage = "picked"] EXCEPT !.units = u]]
    BY <2>1
  <2> QED BY <2>2, <2>3
<1>3. CASE Transfer(h)
  <2> DEFINE n == Len(docs) + 1
  <2>1. n \in Nat
    OBVIOUS
  <2>2. job[h] \in TransferJob
    BY <1>3, TransferIs
  <2> HIDE DEF n
  <2>3. [[job[h] EXCEPT !.stage = "sent"] EXCEPT !.sent = n] \in TransferJob
    BY <2>1, <2>2 DEF TransferJob
  <2> QED BY <1>3, <2>3, TransferIs DEF n
<1>4. ASSUME NEW a \in Asset, AllocateRead(h, a)
      PROVE  job' \in [Handler -> JobType]
  BY <1>4 DEF AllocateRead, AllocateJob
<1>5. CASE AllocateInsert(h)
  BY <1>5 DEF AllocateInsert, Finished
<1>6. ASSUME NEW a \in Asset, Deallocate(h, a)
      PROVE  job' \in [Handler -> JobType]
  BY <1>6 DEF Deallocate
<1>7. ASSUME NEW r \in Request, NEW lines \in Lines, EditRead(h, r, lines)
      PROVE  job' \in [Handler -> JobType]
  BY <1>7, LinesTyped DEF EditRead, EditJob
<1>8. ASSUME NEW r \in Request, NEW lines \in Lines, NEW sub \in Sub, File(h, r, sub, lines)
      PROVE  job' \in [Handler -> JobType]
  BY <1>8 DEF File
<1>9. ASSUME NEW r \in Request, ApproveRead(h, r)
      PROVE  job' \in [Handler -> JobType]
  <2>1. asked[r] \in RequestRow
    BY <1>9 DEF ApproveRead, Pending
  <2>2. asked[r].sub \in Place /\ Main \in Place /\ asked[r].lines \in [Item -> Nat]
    BY <2>1 DEF RequestRow, Place
  <2>3. [stage |-> "ordered", req |-> r, from |-> Main, to |-> asked[r].sub,
         lines |-> asked[r].lines, units |-> {}, sent |-> 0] \in TransferJob
    BY <2>2 DEF TransferJob
  <2> QED BY <1>9, <2>3 DEF ApproveRead, Ordered
<1>10. ASSUME NEW r \in Request, NEW status \in {"REJECTED", "CANCELLED"}, Decide(h, r, status)
       PROVE  job' \in [Handler -> JobType]
  BY <1>10 DEF Decide
<1>11. CASE EditRecheck(h)
  <2>1. job[h] \in EditJob
    BY <1>11, JobKinds DEF EditRecheck, Doing, EditStage
  <2>2. [job[h] EXCEPT !.stage = "rechecked"] \in EditJob
    BY <2>1 DEF EditJob
  <2>3. job' = [job EXCEPT ![h] = [job[h] EXCEPT !.stage = "rechecked"]]
    BY <1>11 DEF EditRecheck
  <2> QED BY <2>2, <2>3
<1>12. CASE EditWrite(h) \/ ApproveMark(h) \/ Abandon(h)
  BY <1>12 DEF EditWrite, ApproveMark, Abandon, Finished
<1> QED BY <1>1, <1>2, <1>3, <1>4, <1>5, <1>6, <1>7, <1>8, <1>9, <1>10, <1>11, <1>12
        DEF StoresStep, RequestStep

LEMMA TablesTyped ==
  ASSUME TypeOK, TransfersMove, NEW h \in Handler, Transfer(h)
  PROVE  /\ stock' \in [Place -> [Consumable -> Int]]
         /\ moved' \in [Place -> [Item -> Int]]
         /\ home' \in [Asset -> Place]
         /\ docs' \in Seq(Doc)
<1>1. job[h] \in TransferJob /\ Carry(job[h])
  BY TransferIs
<1>2. \A p \in Place, i \in Item : Delta(job[h], p, i) \in Int
  BY <1>1, DeltaTyped
<1>3. \A p \in Place, i \in Consumable : stock[p][i] + Delta(job[h], p, i) \in Int
  BY <1>2 DEF TypeOK, Item
<1>4. \A p \in Place, i \in Item : moved[p][i] + Delta(job[h], p, i) \in Int
  BY <1>2 DEF TypeOK
<1>5. stock' \in [Place -> [Consumable -> Int]] /\ moved' \in [Place -> [Item -> Int]]
  BY <1>1, <1>3, <1>4 DEF Carry
<1>6. home' \in [Asset -> Place]
  BY <1>1 DEF Carry, TypeOK, TransferJob
<1>7. docs' \in Seq(Doc)
  BY <1>1 DEF Carry, TypeOK, TransferJob, Doc
<1> QED BY <1>5, <1>6, <1>7

LEMMA TypeKept ==
  ASSUME TypeOK, TransfersMove, ServesItsRequest, [Next]_vars
  PROVE  TypeOK'
<1>1. CASE UNCHANGED vars
  BY <1>1 DEF TypeOK, vars
<1>2. ASSUME NEW h \in Handler, StoresStep(h), UNCHANGED asked
      PROVE  TypeOK'
  <2>1. job' \in [Handler -> JobType]
    BY <1>2, StepTypes
  <2>2. CASE Transfer(h)
    BY <1>2, <2>1, <2>2, TablesTyped DEF TypeOK, JobType, Transfer
  <2>3. CASE ~Transfer(h)
    <3>1. UNCHANGED <<stock, moved, home, docs>>
      BY <1>2, <2>3 DEF StoresStep, Order, PickUnits, AllocateRead, AllocateInsert, Deallocate, stores
    <3>2. holder' \in [Asset -> Place \union {None}]
      <4>1. CASE AllocateInsert(h)
        <5>1. job[h] \in AllocateJob
          BY <4>1, JobKinds DEF AllocateInsert, Doing
        <5> QED BY <4>1, <5>1 DEF AllocateInsert, AllocateJob, TypeOK
      <4>2. ASSUME NEW a \in Asset, Deallocate(h, a)
            PROVE  holder' \in [Asset -> Place \union {None}]
        BY <4>2 DEF Deallocate, TypeOK
      <4>3. CASE UNCHANGED holder
        BY <4>3 DEF TypeOK
      <4> QED BY <1>2, <2>3, <4>1, <4>2, <4>3
              DEF StoresStep, Order, PickUnits, AllocateRead, stores
    <3> QED BY <1>2, <2>1, <3>1, <3>2 DEF TypeOK, JobType
  <2> QED BY <2>2, <2>3
<1>3. ASSUME NEW h \in Handler, RequestStep(h)
      PROVE  TypeOK'
  <2>1. job' \in [Handler -> JobType]
    BY <1>3, StepTypes
  <2>2. UNCHANGED stores
    BY <1>3 DEF RequestStep, EditRead, File, ApproveRead, Decide, EditRecheck, EditWrite, ApproveMark, Abandon
  <2>3. asked' \in [Request -> RequestRow \union {None}]
    <3>1. ASSUME NEW r \in Request, NEW lines \in Lines, NEW sub \in Sub, File(h, r, sub, lines)
          PROVE  asked' \in [Request -> RequestRow \union {None}]
      <4>1. NewRequest(sub, lines) \in RequestRow
        BY LinesTyped DEF NewRequest, RequestRow
      <4> QED BY <3>1, <4>1 DEF File, TypeOK
    <3>2. CASE EditWrite(h)
      <4>1. job[h] \in EditJob /\ asked[job[h].req] # None
        BY <3>2, JobKinds DEF EditWrite, Doing, EditStage, ServesItsRequest, Serves
      <4> DEFINE r == job[h].req
      <4>2. r \in Request /\ asked[r] \in RequestRow /\ job[h].lines \in [Item -> Nat]
        BY <4>1 DEF EditJob, TypeOK
      <4>3. [asked[r] EXCEPT !.lines = job[h].lines] \in RequestRow
        BY <4>2 DEF RequestRow
      <4> QED BY <3>2, <4>2, <4>3 DEF EditWrite, TypeOK
    <3>3. CASE ApproveMark(h)
      <4>1. job[h] \in TransferJob /\ job[h].req # None
        BY <3>3, JobKinds DEF ApproveMark, Doing, TransferStage, ServesItsRequest, Serves
      <4> DEFINE r == job[h].req
      <4>2. r \in Request /\ job[h].sent \in Nat
        BY <4>1 DEF TransferJob
      <4>3. CASE Pending(r)
        <5>1. asked[r] \in RequestRow
          BY <4>2, <4>3 DEF Pending, TypeOK
        <5>2. [[asked[r] EXCEPT !.status = "APPROVED"] EXCEPT !.sent = job[h].sent] \in RequestRow
          BY <4>2, <5>1 DEF RequestRow
        <5> QED BY <3>3, <4>2, <4>3, <5>2 DEF ApproveMark, TypeOK
      <4> QED BY <3>3, <4>3 DEF ApproveMark, TypeOK
    <3>4. ASSUME NEW r \in Request, NEW status \in {"REJECTED", "CANCELLED"}, Decide(h, r, status)
          PROVE  asked' \in [Request -> RequestRow \union {None}]
      <4>1. asked[r] \in RequestRow
        BY <3>4 DEF Decide, Pending, TypeOK
      <4>2. [asked[r] EXCEPT !.status = status] \in RequestRow
        BY <4>1 DEF RequestRow
      <4> QED BY <3>4, <4>2 DEF Decide, TypeOK
    <3>5. CASE UNCHANGED asked
      BY <3>5 DEF TypeOK
    <3> QED BY <1>3, <3>1, <3>2, <3>3, <3>4, <3>5
            DEF RequestStep, EditRead, ApproveRead, EditRecheck, Abandon
  <2> QED BY <2>1, <2>2, <2>3 DEF TypeOK, JobType, stores
<1> QED BY <1>1, <1>2, <1>3 DEF Next

-----------------------------------------------------------------------------
(* What a step does to the work of the handler that takes it.              *)
LEMMA MovesKept ==
  ASSUME TypeOK, TransfersMove, [Next]_vars
  PROVE  TransfersMove'
<1> USE DEF Moves, TransferStage
<1>1. CASE UNCHANGED vars
  BY <1>1 DEF TransfersMove, vars
<1>2. ASSUME NEW h \in Handler, StoresStep(h) \/ RequestStep(h)
      PROVE  TransfersMove'
  <2> SUFFICES \E x : job' = [job EXCEPT ![h] = x] /\ (x # None => Moves(x))
    BY DEF TransfersMove, TypeOK
  <2>1. ASSUME NEW from \in Place, NEW to \in Place, NEW lines \in Lines, Order(h, from, to, lines)
        PROVE  \E x : job' = [job EXCEPT ![h] = x] /\ (x # None => Moves(x))
    <3> DEFINE x == [stage |-> "ordered", req |-> None, from |-> from, to |-> to,
                     lines |-> lines, units |-> {}, sent |-> 0]
    <3>1. job' = [job EXCEPT ![h] = x]
      BY <2>1 DEF Order, Ordered
    <3>2. Moves(x)
      BY <2>1, PlacesApart DEF Order
    <3> QED BY <3>1, <3>2
  <2>2. CASE PickUnits(h)
    <3>1. PICK u \in SUBSET Asset :
            /\ job[h] \in TransferJob /\ job' = [job EXCEPT ![h].stage = "picked", ![h].units = u]
            /\ Cardinality(u) = job[h].lines[AssetItem]
      BY <2>2, PickTyped
    <3> DEFINE x == [[job[h] EXCEPT !.stage = "picked"] EXCEPT !.units = u]
    <3>2. job' = [job EXCEPT ![h] = x]
      BY <3>1
    <3>3. job[h].from # job[h].to
      BY <2>2 DEF PickUnits, Doing, TransfersMove
    <3>4. Moves(x)
      BY <3>1, <3>3 DEF TransferJob
    <3> QED BY <3>2, <3>4
  <2>3. CASE Transfer(h)
    <3> DEFINE n == Len(docs) + 1
               x == [[job[h] EXCEPT !.stage = "sent"] EXCEPT !.sent = n]
    <3>1. job' = [job EXCEPT ![h] = IF job[h].req = None THEN None ELSE x]
      BY <2>3, TransferIs
    <3>2. /\ job[h] \in TransferJob /\ job[h].from # job[h].to
          /\ job[h].units \in SUBSET Asset
          /\ Cardinality(job[h].units) = job[h].lines[AssetItem]
      BY <2>3, TransferIs
    <3> HIDE DEF n
    <3>3. Moves(x)
      BY <3>2 DEF TransferJob
    <3> QED BY <3>1, <3>3
  <2>4. ASSUME NEW r \in Request, ApproveRead(h, r)
        PROVE  \E x : job' = [job EXCEPT ![h] = x] /\ (x # None => Moves(x))
    <3> DEFINE x == [stage |-> "ordered", req |-> r, from |-> Main, to |-> asked[r].sub,
                     lines |-> asked[r].lines, units |-> {}, sent |-> 0]
    <3>1. job' = [job EXCEPT ![h] = x]
      BY <2>4 DEF ApproveRead, Ordered
    <3>2. Moves(x)
      BY <2>4, PlacesApart DEF ApproveRead, Pending, TypeOK, RequestRow
    <3> QED BY <3>1, <3>2
  <2>5. CASE EditRecheck(h)
    <3>1. job[h] \in EditJob
      BY <2>5, JobKinds DEF EditRecheck, Doing, EditStage
    <3>2. Moves([job[h] EXCEPT !.stage = "rechecked"])
      BY <3>1 DEF EditJob
    <3>3. job' = [job EXCEPT ![h] = [job[h] EXCEPT !.stage = "rechecked"]]
      BY <2>5 DEF EditRecheck
    <3> QED BY <3>2, <3>3
  <2>6. ASSUME NEW r \in Request, NEW lines \in Lines, EditRead(h, r, lines)
        PROVE  \E x : job' = [job EXCEPT ![h] = x] /\ (x # None => Moves(x))
    <3> DEFINE x == [stage |-> "editing", req |-> r, lines |-> lines]
    <3>1. job' = [job EXCEPT ![h] = x]
      BY <2>6 DEF EditRead
    <3>2. Moves(x)
      BY <2>6
    <3> QED BY <3>1, <3>2
  <2>7. ASSUME NEW a \in Asset, AllocateRead(h, a)
        PROVE  \E x : job' = [job EXCEPT ![h] = x] /\ (x # None => Moves(x))
    <3> DEFINE x == [stage |-> "allocating", asset |-> a, place |-> home[a]]
    <3>1. job' = [job EXCEPT ![h] = x]
      BY <2>7 DEF AllocateRead
    <3>2. Moves(x)
      BY <2>7
    <3> QED BY <3>1, <3>2
  <2>8. CASE UNCHANGED job
    <3>1. job' = [job EXCEPT ![h] = job[h]]
      BY <2>8 DEF TypeOK
    <3> QED BY <3>1 DEF TransfersMove
  <2>9. CASE Finished(h)
    BY <2>9 DEF Finished
  <2> QED BY <1>2, <2>1, <2>2, <2>3, <2>4, <2>5, <2>6, <2>7, <2>8, <2>9
          DEF StoresStep, RequestStep, Deallocate, AllocateInsert, File, EditWrite, ApproveMark,
              Decide, Abandon
<1> QED BY <1>1, <1>2 DEF Next

-----------------------------------------------------------------------------
(* Documents are only added, and a request keeps its warehouse.            *)
LEMMA TransferAppends ==
  ASSUME TypeOK, TransfersMove, NEW h \in Handler, Transfer(h)
  PROVE  LET j == job[h] IN
         /\ docs' = Append(docs, [req |-> j.req, from |-> j.from, to |-> j.to, lines |-> j.lines])
         /\ Len(docs') = Len(docs) + 1 /\ Len(docs) \in Nat
         /\ \A d \in DOMAIN docs : d \in DOMAIN docs' /\ docs'[d] = docs[d]
         /\ docs'[Len(docs) + 1] = [req |-> j.req, from |-> j.from, to |-> j.to, lines |-> j.lines]
<1> DEFINE e == [req |-> job[h].req, from |-> job[h].from, to |-> job[h].to, lines |-> job[h].lines]
<1>1. docs' = Append(docs, e)
  BY TransferIs DEF Carry
<1>2. e \in Doc
  BY TransferIs DEF TransferJob, Doc
<1>3. docs \in Seq(Doc)
  BY DEF TypeOK
<1> HIDE DEF e
<1>4. /\ Len(docs') = Len(docs) + 1 /\ Len(docs) \in Nat
      /\ \A d \in DOMAIN docs : d \in DOMAIN docs' /\ docs'[d] = docs[d]
      /\ docs'[Len(docs) + 1] = e
  BY <1>1, <1>2, <1>3
<1> QED BY <1>1, <1>4 DEF e

RowsStay ==
  /\ \A d \in DOMAIN docs : d \in DOMAIN docs' /\ docs'[d] = docs[d]
  /\ \A r \in Request : asked[r] # None => asked'[r] # None /\ asked'[r].sub = asked[r].sub

LEMMA StepKeepsRows ==
  ASSUME TypeOK, TransfersMove, ServesItsRequest, [Next]_vars
  PROVE  RowsStay
<1>1. CASE UNCHANGED vars
  BY <1>1 DEF RowsStay, vars
<1>2. ASSUME NEW h \in Handler, StoresStep(h), UNCHANGED asked
      PROVE  RowsStay
  <2>1. CASE Transfer(h)
    BY <1>2, <2>1, TransferAppends DEF RowsStay
  <2>2. CASE ~Transfer(h)
    <3>1. UNCHANGED docs
      BY <1>2, <2>2 DEF StoresStep, Order, PickUnits, AllocateRead, AllocateInsert, Deallocate, stores
    <3> QED BY <1>2, <3>1 DEF RowsStay
  <2> QED BY <2>1, <2>2
<1>3. ASSUME NEW h \in Handler, RequestStep(h)
      PROVE  RowsStay
  <2>1. UNCHANGED docs
    BY <1>3 DEF RequestStep, EditRead, File, ApproveRead, Decide, EditRecheck, EditWrite,
                ApproveMark, Abandon, stores
  <2>2. asked' \in [Request -> RequestRow \union {None}]
    BY TypeKept DEF TypeOK
  <2>3. ASSUME NEW r \in Request, asked[r] # None
        PROVE  asked'[r] # None /\ asked'[r].sub = asked[r].sub
    <3>1. asked[r] \in RequestRow
      BY <2>3 DEF TypeOK
    <3>2. ASSUME NEW q \in Request, NEW lines \in Lines, NEW sub \in Sub, File(h, q, sub, lines)
          PROVE  asked'[r] = asked[r]
      BY <2>3, <3>2 DEF File, TypeOK
    <3>3. CASE EditWrite(h)
      <4>1. asked' = [asked EXCEPT ![job[h].req] = [asked[job[h].req] EXCEPT !.lines = job[h].lines]]
        BY <3>3 DEF EditWrite
      <4>2. asked'[r] = asked[r] \/ asked'[r] = [asked[r] EXCEPT !.lines = job[h].lines]
        BY <4>1 DEF TypeOK
      <4>3. job[h].lines \in [Item -> Nat]
        BY <3>3, JobKinds DEF EditWrite, Doing, EditStage, EditJob
      <4>4. [asked[r] EXCEPT !.lines = job[h].lines] \in RequestRow
        BY <3>1, <4>3 DEF RequestRow
      <4>5. [asked[r] EXCEPT !.lines = job[h].lines].sub = asked[r].sub
        BY <3>1 DEF RequestRow
      <4> QED BY <3>1, <4>2, <4>4, <4>5, NoneIsNoRow
    <3>4. CASE ApproveMark(h)
      <4> DEFINE n == job[h].sent
                 x == [[asked[r] EXCEPT !.status = "APPROVED"] EXCEPT !.sent = n]
      <4>1. asked'[r] = asked[r] \/ asked'[r] = x
        BY <3>4 DEF ApproveMark, TypeOK
      <4>2. n \in Nat
        BY <3>4, JobKinds DEF ApproveMark, Doing, TransferStage, TransferJob
      <4> HIDE DEF n
      <4>3. x \in RequestRow /\ x.sub = asked[r].sub
        BY <3>1, <4>2 DEF RequestRow
      <4> QED BY <3>1, <4>1, <4>3, NoneIsNoRow
    <3>5. ASSUME NEW q \in Request, NEW status \in {"REJECTED", "CANCELLED"}, Decide(h, q, status)
          PROVE  asked'[r] # None /\ asked'[r].sub = asked[r].sub
      <4> DEFINE x == [asked[r] EXCEPT !.status = status]
      <4>1. asked'[r] = asked[r] \/ asked'[r] = x
        BY <3>5 DEF Decide, TypeOK
      <4>2. x \in RequestRow /\ x.sub = asked[r].sub
        BY <3>1 DEF RequestRow
      <4> QED BY <3>1, <4>1, <4>2, NoneIsNoRow
    <3>6. CASE UNCHANGED asked
      BY <2>3, <3>6
    <3> QED BY <1>3, <2>3, <3>2, <3>3, <3>4, <3>5, <3>6
            DEF RequestStep, EditRead, ApproveRead, EditRecheck, Abandon
  <2> QED BY <2>1, <2>3 DEF RowsStay
<1> QED BY <1>1, <1>2, <1>3 DEF Next

(* What a handler works for stays as it found it.                          *)
LEMMA ServesStays ==
  ASSUME TypeOK, ServesItsRequest, RowsStay, NEW h \in Handler, job[h] # None, job'[h] = job[h]
  PROVE  job'[h] # None /\ Serves(job[h])'
<1>1. Serves(job[h])
  BY DEF ServesItsRequest
<1>2. CASE job[h].stage \in TransferStage
  <2>1. job[h] \in TransferJob /\ job[h].stage \notin EditStage
    BY <1>2, JobKinds DEF TransferStage, EditStage
  <2>2. job[h].req # None => job[h].req \in Request
    BY <2>1 DEF TransferJob
  <2> DEFINE j == job[h]
  <2>3. j.req # None => /\ asked[j.req] # None /\ j.from = Main /\ j.to = asked[j.req].sub
                        /\ asked'[j.req] # None /\ asked'[j.req].sub = asked[j.req].sub
    BY <1>1, <1>2, <2>2 DEF Serves, RowsStay
  <2>4. j.stage = "sent" => /\ j.req # None /\ j.sent \in DOMAIN docs
                            /\ docs[j.sent].req = j.req
                            /\ docs[j.sent].from = Main /\ docs[j.sent].to = asked[j.req].sub
                            /\ j.sent \in DOMAIN docs' /\ docs'[j.sent] = docs[j.sent]
    BY <1>1 DEF Serves, RowsStay
  <2> QED BY <2>1, <2>3, <2>4 DEF Serves
<1>3. CASE job[h].stage \in EditStage
  <2>1. job[h] \in EditJob /\ job[h].stage \notin TransferStage /\ job[h].stage # "sent"
    BY <1>3, JobKinds DEF TransferStage, EditStage
  <2>2. job[h].req \in Request
    BY <2>1 DEF EditJob
  <2> QED BY <1>1, <2>1, <2>2 DEF RowsStay, Serves
<1>4. CASE job[h].stage \notin TransferStage \union EditStage
  BY <1>4 DEF Serves, TransferStage
<1> QED BY <1>2, <1>3, <1>4

(* The work a step leaves its own handler with.                            *)
LEMMA StoresWorkServes ==
  ASSUME TypeOK, TransfersMove, ServesItsRequest, RowsStay,
         NEW h \in Handler, StoresStep(h), UNCHANGED asked, job'[h] # None
  PROVE  Serves(job[h])'
<1> USE DEF TypeOK
<1>1. ASSUME NEW from \in Place, NEW to \in Place, NEW lines \in Lines, Order(h, from, to, lines)
      PROVE  Serves(job[h])'
  <2>1. job'[h].stage = "ordered" /\ job'[h].req = None
    BY <1>1 DEF Order, Ordered
  <2> QED BY <2>1 DEF Serves, EditStage
<1>2. CASE PickUnits(h)
  <2>1. /\ job[h] # None /\ job[h].stage = "ordered" /\ job[h] \in TransferJob
        /\ Serves(job[h]) /\ UNCHANGED docs
    BY <1>2, JobKinds DEF PickUnits, Doing, TransferStage, ServesItsRequest, stores
  <2>2. PICK u \in SUBSET Asset : job' = [job EXCEPT ![h].stage = "picked", ![h].units = u]
    BY <1>2, PickTyped
  <2>3. /\ job'[h].stage = "picked" /\ job'[h].req = job[h].req
        /\ job'[h].from = job[h].from /\ job'[h].to = job[h].to
    BY <2>1, <2>2 DEF TransferJob
  <2> QED BY <2>1, <2>3 DEF Serves, TransferStage, EditStage
<1>3. CASE Transfer(h)
  <2> DEFINE n == Len(docs) + 1
  <2>1. /\ job[h] # None /\ job[h].stage = "picked" /\ job[h] \in TransferJob
        /\ job' = [job EXCEPT ![h] = IF job[h].req = None THEN None
                                     ELSE [job[h] EXCEPT !.stage = "sent", !.sent = n]]
    BY <1>3, TransferIs
  <2>2. Serves(job[h])
    BY <2>1 DEF ServesItsRequest
  <2>3. docs'[n] = [req |-> job[h].req, from |-> job[h].from, to |-> job[h].to, lines |-> job[h].lines]
    BY <1>3, TransferAppends
  <2>4. n \in DOMAIN docs'
    <3>1. Len(docs') = Len(docs) + 1 /\ Len(docs) \in Nat
      BY <1>3, TransferAppends
    <3>2. Len(docs') = n /\ n \in Nat /\ n >= 1
      BY <3>1
    <3>3. docs' \in Seq(Doc)
      BY <1>3, TablesTyped
    <3> HIDE DEF n
    <3> QED BY <3>2, <3>3
  <2> HIDE DEF n
  <2>5. /\ job[h].req # None /\ job'[h].stage = "sent" /\ job'[h].sent = n
        /\ job'[h].req = job[h].req /\ job'[h].from = job[h].from /\ job'[h].to = job[h].to
    BY <2>1 DEF TransferJob
  <2> QED BY <2>1, <2>2, <2>3, <2>4, <2>5 DEF Serves, TransferStage, EditStage
<1>4. ASSUME NEW a \in Asset, AllocateRead(h, a)
      PROVE  Serves(job[h])'
  <2>1. job'[h].stage = "allocating"
    BY <1>4 DEF AllocateRead
  <2> QED BY <2>1 DEF Serves, TransferStage, EditStage
<1>5. CASE Finished(h)
  BY <1>5 DEF Finished
<1>6. CASE UNCHANGED job
  BY <1>6, ServesStays
<1> QED BY <1>1, <1>2, <1>3, <1>4, <1>5, <1>6 DEF StoresStep, Deallocate, AllocateInsert

LEMMA RequestWorkServes ==
  ASSUME TypeOK, TransfersMove, ServesItsRequest, RowsStay,
         NEW h \in Handler, RequestStep(h), job'[h] # None
  PROVE  Serves(job[h])'
<1> USE DEF TypeOK
<1>1. ASSUME NEW r \in Request, NEW lines \in Lines, EditRead(h, r, lines)
      PROVE  Serves(job[h])'
  <2>1. job'[h].stage = "editing" /\ job'[h].req = r /\ asked'[r] # None
    BY <1>1 DEF EditRead, Pending
  <2> QED BY <2>1 DEF Serves, TransferStage
<1>2. CASE EditRecheck(h)
  <2>1. job[h] # None /\ job[h].stage = "editing" /\ asked[job[h].req] # None
    BY <1>2 DEF EditRecheck, Doing, Pending
  <2>2. job[h] \in EditJob
    BY <2>1, JobKinds DEF EditStage
  <2>3. job' = [job EXCEPT ![h] = [job[h] EXCEPT !.stage = "rechecked"]] /\ asked' = asked
    BY <1>2 DEF EditRecheck
  <2>4. job'[h].stage = "rechecked" /\ job'[h].req = job[h].req
    BY <2>2, <2>3 DEF EditJob
  <2> QED BY <2>1, <2>3, <2>4 DEF Serves, TransferStage
<1>3. ASSUME NEW r \in Request, ApproveRead(h, r)
      PROVE  Serves(job[h])'
  <2>1. /\ job'[h].stage = "ordered" /\ job'[h].req = r
        /\ job'[h].from = Main /\ job'[h].to = asked[r].sub
        /\ asked[r] # None /\ asked' = asked
    BY <1>3 DEF ApproveRead, Ordered, Pending
  <2> QED BY <2>1 DEF Serves, EditStage
<1>4. CASE Finished(h)
  BY <1>4 DEF Finished
<1>5. CASE UNCHANGED job
  BY <1>5, ServesStays
<1> QED BY <1>1, <1>2, <1>3, <1>4, <1>5
        DEF RequestStep, File, EditWrite, ApproveMark, Decide, Abandon

(* A step is one handler's: the others' work is left as it was.            *)
LEMMA OthersWait ==
  ASSUME TypeOK, NEW h \in Handler, StoresStep(h) \/ RequestStep(h), NEW g \in Handler, g # h
  PROVE  job'[g] = job[g]
  BY DEF TypeOK, StoresStep, RequestStep, Order, Ordered, PickUnits, Transfer, AllocateRead, Deallocate,
         AllocateInsert, EditRead, File, ApproveRead, Decide, EditRecheck, EditWrite, ApproveMark,
         Abandon, Finished

LEMMA ServesKept ==
  ASSUME TypeOK, TransfersMove, ServesItsRequest, [Next]_vars
  PROVE  ServesItsRequest'
<1>1. RowsStay
  BY StepKeepsRows
<1>2. CASE UNCHANGED vars
  BY <1>2 DEF ServesItsRequest, Serves, vars
<1>3. ASSUME NEW h \in Handler, (StoresStep(h) /\ UNCHANGED asked) \/ RequestStep(h)
      PROVE  ServesItsRequest'
  <2> SUFFICES ASSUME NEW g \in Handler, job'[g] # None PROVE Serves(job[g])'
    BY DEF ServesItsRequest
  <2>1. CASE g = h
    BY <1>1, <1>3, <2>1, StoresWorkServes, RequestWorkServes
  <2>2. CASE g # h
    BY <1>1, <1>3, <2>2, OthersWait, ServesStays
  <2> QED BY <2>1, <2>2
<1> QED BY <1>2, <1>3 DEF Next

-----------------------------------------------------------------------------
(* An approved request goes on naming its document, and only the mark of   *)
(* an approval makes one.                                                  *)
LEMMA ApprovedKept ==
  ASSUME TypeOK, TransfersMove, ServesItsRequest, ApprovedNamesItsTransfer, [Next]_vars
  PROVE  ApprovedNamesItsTransfer'
<1>1. RowsStay /\ asked' \in [Request -> RequestRow \union {None}]
  BY StepKeepsRows, TypeKept DEF TypeOK
<1> SUFFICES ASSUME NEW r \in Request, asked'[r] # None, asked'[r].status = "APPROVED"
             PROVE  /\ asked'[r].sent \in DOMAIN docs'
                    /\ docs'[asked'[r].sent].req = r
                    /\ docs'[asked'[r].sent].from = Main
                    /\ docs'[asked'[r].sent].to = asked'[r].sub
  BY DEF ApprovedNamesItsTransfer
<1> DEFINE Goal == /\ asked'[r].sent \in DOMAIN docs'
                   /\ docs'[asked'[r].sent].req = r
                   /\ docs'[asked'[r].sent].from = Main
                   /\ docs'[asked'[r].sent].to = asked'[r].sub
<1>2. ASSUME asked[r] # None, asked[r].status = "APPROVED", asked'[r].sent = asked[r].sent
      PROVE  Goal
  <2>1. /\ asked[r].sent \in DOMAIN docs
        /\ docs[asked[r].sent].req = r
        /\ docs[asked[r].sent].from = Main /\ docs[asked[r].sent].to = asked[r].sub
    BY <1>2 DEF ApprovedNamesItsTransfer
  <2> QED BY <1>1, <1>2, <2>1 DEF RowsStay
<1>3. CASE asked' = asked
  BY <1>2, <1>3
<1>4. ASSUME NEW h \in Handler, RequestStep(h)
      PROVE  Goal
  <2>1. ASSUME NEW q \in Request, NEW lines \in Lines, NEW sub \in Sub, File(h, q, sub, lines)
        PROVE  Goal
    <3>1. asked'[r] = asked[r] \/ asked'[r].status = "PENDING"
      BY <2>1 DEF File, NewRequest, TypeOK
    <3> QED BY <1>2, <3>1
  <2>2. CASE EditWrite(h)
    <3>1. job[h] \in EditJob /\ asked[job[h].req] # None
      BY <2>2, JobKinds DEF EditWrite, Doing, EditStage, ServesItsRequest, Serves
    <3>2. asked' = [asked EXCEPT ![job[h].req] = [asked[job[h].req] EXCEPT !.lines = job[h].lines]]
      BY <2>2 DEF EditWrite
    <3>3. asked[r] # None
      BY <3>1, <3>2 DEF TypeOK
    <3>4. asked[r] \in RequestRow
      BY <3>3 DEF TypeOK
    <3>5. asked'[r].status = asked[r].status /\ asked'[r].sent = asked[r].sent
      BY <3>2, <3>4 DEF TypeOK, RequestRow
    <3> QED BY <1>2, <3>3, <3>5
  <2>3. CASE ApproveMark(h)
    <3> DEFINE n == job[h].sent
    <3>1. job[h] # None /\ job[h].stage = "sent" /\ job[h] \in TransferJob
      BY <2>3, JobKinds DEF ApproveMark, Doing, TransferStage
    <3>2. Serves(job[h])
      BY <3>1 DEF ServesItsRequest
    <3>3. CASE Pending(job[h].req) /\ r = job[h].req
      <4>1. asked' = [asked EXCEPT ![r] = [[asked[r] EXCEPT !.status = "APPROVED"] EXCEPT !.sent = n]]
        BY <2>3, <3>3 DEF ApproveMark
      <4>2. asked[r] \in RequestRow
        BY <3>3 DEF Pending, TypeOK
      <4>3. /\ n \in DOMAIN docs
            /\ docs[n].req = r
            /\ docs[n].from = Main /\ docs[n].to = asked[r].sub
        BY <3>1, <3>2, <3>3 DEF Serves
      <4> HIDE DEF n
      <4>4. asked'[r].sent = n /\ asked'[r].sub = asked[r].sub
        BY <4>1, <4>2 DEF TypeOK, RequestRow
      <4>5. n \in DOMAIN docs' /\ docs'[n] = docs[n]
        BY <1>1, <4>3 DEF RowsStay
      <4> QED BY <4>3, <4>4, <4>5
    <3>4. CASE ~(Pending(job[h].req) /\ r = job[h].req)
      <4>1. asked'[r] = asked[r]
        BY <2>3, <3>4 DEF ApproveMark, TypeOK
      <4> QED BY <1>2, <4>1
    <3> QED BY <3>3, <3>4
  <2>4. ASSUME NEW q \in Request, NEW status \in {"REJECTED", "CANCELLED"}, Decide(h, q, status)
        PROVE  Goal
    <3>1. asked[q] \in RequestRow
      BY <2>4 DEF Decide, Pending, TypeOK
    <3>2. asked'[r] = asked[r] \/ asked'[r].status = status
      BY <2>4, <3>1 DEF Decide, TypeOK, RequestRow
    <3> QED BY <1>2, <3>2
  <2> QED BY <1>3, <1>4, <2>1, <2>2, <2>3, <2>4
          DEF RequestStep, EditRead, ApproveRead, EditRecheck, Abandon
<1> QED BY <1>3, <1>4 DEF Next, vars

-----------------------------------------------------------------------------
(* A transfer's transaction, place by place.                               *)
LEMMA CarryKeepsCover ==
  ASSUME TypeOK, TransfersMove, NeverOverdrawn, NEW h \in Handler, Transfer(h)
  PROVE  NeverOverdrawn'
<1> SUFFICES ASSUME NEW p \in Place, NEW i \in Consumable PROVE stock'[p][i] >= 0
  BY DEF NeverOverdrawn
<1> DEFINE q == job[h].lines[i]
<1>1. job[h] \in TransferJob /\ Carry(job[h])
  BY TransferIs
<1>2. q \in Nat
  BY <1>1 DEF TransferJob, Item
<1>3. stock[p][i] \in Nat
  BY DEF TypeOK, NeverOverdrawn
<1>4. stock'[p][i] = stock[p][i] + Delta(job[h], p, i)
  BY <1>1 DEF Carry
<1>5. p = job[h].from /\ q > 0 => stock[p][i] >= q
  BY <1>1 DEF Carry, Covered
<1>6. Delta(job[h], p, i) = IF p = job[h].from THEN -q ELSE IF p = job[h].to THEN q ELSE 0
  BY DEF Delta
<1> HIDE DEF q
<1> QED BY <1>2, <1>3, <1>4, <1>5, <1>6

(* Units at a place: those that leave it are fewer, those that reach it    *)
(* are more, by as many as the line says.                                  *)
At(p) == {a \in Asset : home[a] = p}

LEMMA CarryCountsUnits ==
  ASSUME TypeOK, TransfersMove, NEW h \in Handler, Transfer(h), NEW p \in Place
  PROVE  Cardinality(At(p))' = Cardinality(At(p)) + Delta(job[h], p, AssetItem)
<1> DEFINE j == job[h]
           u == j.units
           n == j.lines[AssetItem]
<1>1. /\ j \in TransferJob /\ j.from # j.to
      /\ u \in SUBSET Asset /\ Cardinality(u) = n
      /\ \A a \in u : home[a] = j.from
      /\ home' = [a \in Asset |-> IF a \in u THEN j.to ELSE home[a]]
  BY TransferIs DEF Carry
<1>2. IsFiniteSet(u) /\ IsFiniteSet(At(p))
  BY <1>1, PlacesAndUnitsFinite, FS_Subset DEF At
<1>3. Cardinality(At(p)) \in Nat /\ n \in Nat
  BY <1>1, <1>2, FS_CardinalityType
<1>4. CASE p = j.from
  <2>1. At(p)' = At(p) \ u
    BY <1>1, <1>4 DEF At
  <2>2. At(p) \cap u = u
    BY <1>1, <1>4 DEF At
  <2>3. Cardinality(At(p) \ u) = Cardinality(At(p)) - Cardinality(At(p) \cap u)
    BY <1>2, FS_Difference
  <2> QED BY <1>1, <1>3, <1>4, <2>1, <2>2, <2>3 DEF Delta
<1>5. CASE p = j.to
  <2>1. At(p)' = At(p) \union u
    BY <1>1, <1>5 DEF At
  <2>2. At(p) \cap u = {}
    BY <1>1, <1>5 DEF At
  <2>3. Cardinality(At(p) \union u) = Cardinality(At(p)) + Cardinality(u) - Cardinality(At(p) \cap u)
    BY <1>2, FS_Union
  <2>4. Cardinality({}) = 0
    BY FS_EmptySet
  <2>5. Delta(j, p, AssetItem) = n
    BY <1>1, <1>5 DEF Delta
  <2>6. Cardinality(At(p) \cap u) = 0
    BY <2>2, <2>4
  <2>7. Cardinality(At(p) \union u) = Cardinality(At(p)) + n
    <3>1. Cardinality(u) = n
      BY <1>1
    <3> HIDE DEF u, n
    <3> QED BY <1>3, <2>3, <2>6, <3>1
  <2> QED BY <2>1, <2>5, <2>7
<1>6. CASE p # j.from /\ p # j.to
  <2>1. At(p)' = At(p)
    BY <1>1, <1>6 DEF At
  <2> QED BY <1>3, <1>6, <2>1 DEF Delta
<1> QED BY <1>4, <1>5, <1>6

LEMMA CarryKeepsLedger ==
  ASSUME TypeOK, TransfersMove, LedgerExplainsStock, NEW h \in Handler, Transfer(h)
  PROVE  LedgerExplainsStock'
<1> SUFFICES ASSUME NEW p \in Place, NEW i \in Item
             PROVE  Count(p, i)' = OpeningOf(p, i) + moved'[p][i]
  BY DEF LedgerExplainsStock, OpeningOf
<1> DEFINE d == Delta(job[h], p, i)
<1>1. job[h] \in TransferJob /\ Carry(job[h]) /\ d \in Int
  BY TransferIs, DeltaTyped
<1>2. moved'[p][i] = moved[p][i] + d /\ moved[p][i] \in Int
  BY <1>1 DEF Carry, TypeOK
<1>3. Count(p, i) = OpeningOf(p, i) + moved[p][i]
  BY DEF LedgerExplainsStock
<1>4. OpeningOf(p, i) \in Int
  <2>1. Cardinality(Asset) \in Nat
    BY PlacesAndUnitsFinite, FS_CardinalityType
  <2> QED BY <2>1, StockGiven DEF OpeningOf, Item
<1>5. Count(p, i)' = Count(p, i) + d
  <2>1. CASE i # AssetItem
    <3>1. stock'[p][i] = stock[p][i] + d
      BY <1>1, <2>1 DEF Carry, Item
    <3> QED BY <2>1, <3>1 DEF Count
  <2>2. CASE i = AssetItem
    BY <2>2, CarryCountsUnits DEF Count, At
  <2> QED BY <2>1, <2>2
<1> HIDE DEF d
<1> QED BY <1>1, <1>2, <1>3, <1>4, <1>5

LEMMA CarryLosesNothing ==
  ASSUME TypeOK, TransfersMove, NothingLost, NEW h \in Handler, Transfer(h)
  PROVE  NothingLost'
<1> SUFFICES ASSUME NEW i \in Consumable
             PROVE  SumFunction([p \in Place |-> stock'[p][i]])
                      = SumFunction([p \in Place |-> OpeningStock[p][i]])
  BY DEF NothingLost
<1> DEFINE f == [p \in Place |-> stock[p][i]]
           g == [p \in Place |-> stock'[p][i]]
           x == job[h].from
           y == job[h].to
           q == job[h].lines[i]
<1>1. job[h] \in TransferJob /\ Carry(job[h]) /\ x \in Place /\ y \in Place /\ x # y
  BY TransferIs
<1>2. q \in Int /\ i \in Item
  BY <1>1 DEF TransferJob, Item
<1>3. \A p \in Place : g[p] = f[p] + Delta(job[h], p, i)
  BY <1>1 DEF Carry
<1>4. \A p \in Place : f[p] \in Int /\ g[p] \in Int
  BY TablesTyped DEF TypeOK
<1>5. g[x] = f[x] - q /\ g[y] = f[y] + q
  BY <1>1, <1>2, <1>3, <1>4 DEF Delta
<1>6. \A p \in Place : p # x /\ p # y => g[p] = f[p]
  BY <1>1, <1>2, <1>3, <1>4 DEF Delta
<1>7. IsFiniteSet(Place)
  BY PlacesAndUnitsFinite, FS_AddElement DEF Place
<1>8. DOMAIN f = Place /\ DOMAIN g = Place
  OBVIOUS
<1>9. SumFunction(f) = SumFunction([p \in Place |-> OpeningStock[p][i]])
  BY DEF NothingLost
<1> HIDE DEF f, g, x, y, q
<1>10. SumFunctionOnSet(g, Place) = SumFunctionOnSet(f, Place)
  <2>1. x \in Place /\ y \in Place /\ x # y
    BY <1>1
  <2>2. g[x] + g[y] = f[x] + f[y]
    BY <1>2, <1>4, <1>5, <2>1
  <2> QED BY ONLY <1>4, <1>6, <1>7, <2>1, <2>2, SumMoved
<1>11. SumFunction(g) = SumFunction(f)
  BY <1>8, <1>10 DEF SumFunction
<1> QED BY <1>9, <1>11 DEF f, g

LEMMA StoresKept ==
  ASSUME TypeOK, TransfersMove, ServesItsRequest, StoresAddUp, [Next]_vars
  PROVE  StoresAddUp'
<1>1. TypeOK'
  BY TypeKept
<1>2. ASSUME NEW h \in Handler, Transfer(h)
      PROVE  StoresAddUp'
  BY <1>1, <1>2, CarryKeepsCover, CarryKeepsLedger, CarryLosesNothing DEF StoresAddUp
<1>3. CASE UNCHANGED <<stock, moved, home>>
  BY <1>1, <1>3 DEF StoresAddUp, NeverOverdrawn, LedgerExplainsStock, Count, NothingLost
<1> QED BY <1>2, <1>3
        DEF Next, vars, stores, StoresStep, RequestStep, Order, PickUnits, AllocateRead, Deallocate,
            AllocateInsert, EditRead, File, ApproveRead, Decide, EditRecheck, EditWrite, ApproveMark, Abandon

-----------------------------------------------------------------------------
LEMMA InitInv == Init => IInv
<1> SUFFICES ASSUME Init PROVE IInv
  OBVIOUS
<1>1. \A h \in Handler : job[h] = None
  BY DEF Init
<1>2. TransfersMove /\ ServesItsRequest
  BY <1>1 DEF TransfersMove, ServesItsRequest
<1>3. ApprovedNamesItsTransfer
  BY DEF Init, ApprovedNamesItsTransfer
<1>4. TypeOK
  BY StockGiven DEF Init, StoresInit, TypeOK, Place
<1>5. NeverOverdrawn /\ NothingLost
  BY StockGiven DEF Init, StoresInit, NeverOverdrawn, NothingLost
<1>6. LedgerExplainsStock
  <2> SUFFICES ASSUME NEW p \in Place, NEW i \in Item
               PROVE  Count(p, i) = OpeningOf(p, i) + moved[p][i]
    BY DEF LedgerExplainsStock
  <2>1. moved[p][i] = 0
    BY DEF Init, StoresInit
  <2>2. CASE i # AssetItem
    <3>1. i \in Consumable /\ OpeningStock[p][i] \in Nat
      BY <2>2, StockGiven DEF Item
    <3> QED BY <2>1, <2>2, <3>1 DEF Count, OpeningOf, Init, StoresInit
  <2>3. CASE i = AssetItem
    <3>1. Cardinality(Asset) \in Nat /\ Cardinality({}) = 0
      BY PlacesAndUnitsFinite, FS_CardinalityType, FS_EmptySet
    <3>2. {a \in Asset : home[a] = p} = IF p = Main THEN Asset ELSE {}
      BY DEF Init, StoresInit
    <3> QED BY <2>1, <2>3, <3>1, <3>2 DEF Count, OpeningOf
  <2> QED BY <2>2, <2>3
<1> QED BY <1>2, <1>3, <1>4, <1>5, <1>6 DEF IInv, StoresAddUp

LEMMA InvKept == IInv /\ [Next]_vars => IInv'
  BY StoresKept, MovesKept, ServesKept, ApprovedKept DEF IInv, StoresAddUp

(* What every job under way still has to move, the books of the places and *)
(* the documents requests name stay as they are described above, through   *)
(* any interleaving of transfers, edits and decisions.                     *)
THEOREM InvAlways == Spec => []IInv
  BY InitInv, InvKept, PTL DEF Spec

(* However transfers, approvals and edits overlap and wherever they are    *)
(* cut off, in any number and at any number of warehouses: no place is     *)
(* overdrawn, the paired movements explain what each place holds, and what *)
(* all places hold of an item is what there was.                           *)
THEOREM StoresAlwaysAddUp == Spec => []StoresAddUp
  BY InvAlways, PTL DEF IInv

(* Whoever approved a request, and whatever was approved meanwhile, the    *)
(* document it names is one made for it, to the warehouse that filed it.   *)
THEOREM ApprovedAlwaysNamed == Spec => []ApprovedNamesItsTransfer
  BY InvAlways, PTL DEF IInv
=============================================================================
