--------------------------- MODULE StockTransfers ---------------------------
(***************************************************************************)
(* StockTransfersService: goods moved between the main warehouse and a     *)
(* project's (a `sub'), as one document with many lines.  Consumables are  *)
(* counted per place; assets are single units, homed at a place.           *)
(*                                                                         *)
(* A handler reads and validates, then works in one transaction.  A line   *)
(* of a consumable is a guarded decrement that keeps its row locked to the *)
(* end, so all lines take effect at the commit.  A line of assets first    *)
(* reads the units it will move: other handlers run between that read and  *)
(* the commit.                                                             *)
(***************************************************************************)
EXTENDS Integers, FiniteSets, FiniteSetsExt, Sequences

CONSTANTS
  Consumable, AssetItem, \* the items: some consumables, and one of assets
  Asset,                 \* the units of AssetItem, numbered by their row id
  Sub, Main,             \* project warehouses, and main
  Active,                \* the project warehouses that are ACTIVE
  OpeningStock,          \* what each place holds of each consumable at first
  MaxQty,                \* bound: the largest quantity on a line
  MaxDocs,               \* bound: transfer documents
  Handler,               \* requests served at the same time
  Ops,                   \* the operations they perform
  None

Place == Sub \union {Main}
Item  == Consumable \union {AssetItem}

(* What a document asks for: a quantity of each item, 0 for no line.       *)
Lines == {l \in [Item -> 0..MaxQty] : \E i \in Item : l[i] > 0}

ASSUME ItemsApart == AssetItem \notin Consumable
ASSUME PlacesApart == Main \notin Sub /\ Active \subseteq Sub
ASSUME StockGiven == OpeningStock \in [Place -> [Consumable -> Nat]]
ASSUME PlacesAndUnitsFinite == IsFiniteSet(Sub) /\ IsFiniteSet(Asset)
ASSUME UnitsNumbered == Asset \subseteq Nat /\ MaxQty \in Nat /\ MaxDocs \in Nat

VARIABLES
  stock,   \* Item.quantity (main) and WarehouseStock.quantity (each sub)
  moved,   \* InventoryMovement: the sum of the movements of an item at a place
  home,    \* Asset.warehouseId
  holder,  \* the place of the reservation an asset is allocated to, or None
  docs,    \* StockTransfer: the documents, in order
  job      \* what each handler is doing and has read, or None

stores == <<stock, moved, home, holder, docs>>

StoresInit ==
  /\ stock = OpeningStock
  /\ moved = [p \in Place |-> [i \in Item |-> 0]]
  /\ home = [a \in Asset |-> Main]
  /\ holder = [a \in Asset |-> None]
  /\ docs = <<>>

Doing(h, stage) == job[h] # None /\ job[h].stage = stage
Finished(h) == job' = [job EXCEPT ![h] = None]

(* A transfer validated outside its transaction; `req' is the request it   *)
(* serves, if any, and `sent' the document made for it.                    *)
Ordered(h, req, from, to, lines) ==
  job' = [job EXCEPT ![h] = [stage |-> "ordered", req |-> req, from |-> from,
                             to |-> to, lines |-> lines, units |-> {}, sent |-> 0]]

-----------------------------------------------------------------------------
(* create, called by its own route: TO_SUB needs an active warehouse,      *)
(* TO_MAIN does not.                                                       *)
Order(h, from, to, lines) ==
  /\ job[h] = None /\ "transfer" \in Ops
  /\ \/ from = Main /\ to \in Active
     \/ from \in Sub /\ to = Main
  /\ Ordered(h, None, from, to, lines)
  /\ UNCHANGED stores

(* The transaction: transferable units are AVAILABLE, at the source and    *)
(* not allocated; the oldest are taken.                                    *)
Transferable(p) == {a \in Asset : home[a] = p /\ holder[a] = None}

Oldest(S, n) ==
  CHOOSE T \in SUBSET S : Cardinality(T) = n /\ \A x \in T, y \in S \ T : x < y

PickUnits(h) ==
  /\ Doing(h, "ordered")
  /\ LET from == job[h].from
         n == job[h].lines[AssetItem]
     IN  /\ n <= Cardinality(Transferable(from))
         /\ job' = [job EXCEPT ![h].stage = "picked", ![h].units = Oldest(Transferable(from), n)]
  /\ UNCHANGED stores

(* The guarded writes, the paired movements and the document.              *)
Covered(j) == \A i \in Consumable : j.lines[i] > 0 => stock[j.from][i] >= j.lines[i]

Delta(j, p, i) ==
  IF p = j.from THEN -j.lines[i] ELSE IF p = j.to THEN j.lines[i] ELSE 0

(* Faulty: the destination's quantity is overwritten, not increased.       *)
CarryOverwriting(j) ==
  /\ Covered(j)
  /\ \A a \in j.units : home[a] = j.from
  /\ stock' = [p \in Place |-> [i \in Consumable |->
       IF p = j.to /\ j.lines[i] > 0 THEN j.lines[i] ELSE stock[p][i] + Delta(j, p, i)]]
  /\ moved' = [p \in Place |-> [i \in Item |-> moved[p][i] + Delta(j, p, i)]]
  /\ home' = [a \in Asset |-> IF a \in j.units THEN j.to ELSE home[a]]
  /\ docs' = Append(docs, [req |-> j.req, from |-> j.from, to |-> j.to, lines |-> j.lines])

Carry(j) ==
  /\ Covered(j)
  /\ \A a \in j.units : home[a] = j.from
  /\ stock' = [p \in Place |-> [i \in Consumable |-> stock[p][i] + Delta(j, p, i)]]
  /\ moved' = [p \in Place |-> [i \in Item |-> moved[p][i] + Delta(j, p, i)]]
  /\ home' = [a \in Asset |-> IF a \in j.units THEN j.to ELSE home[a]]
  /\ docs' = Append(docs, [req |-> j.req, from |-> j.from, to |-> j.to, lines |-> j.lines])

Transfer(h) ==
  /\ Doing(h, "picked") /\ Len(docs) < MaxDocs
  /\ Carry(job[h])
  /\ job' = [job EXCEPT ![h] =
               IF job[h].req = None THEN None
               ELSE [job[h] EXCEPT !.stage = "sent", !.sent = Len(docs) + 1]]
  /\ UNCHANGED holder

-----------------------------------------------------------------------------
(* ReservationsService.allocate, as far as transfers meet it: the asset    *)
(* must be at the reservation's place and free when read; the allocation   *)
(* is inserted after.  The reservations overlap in time, so an asset has   *)
(* at most one at once; its release is one write.                          *)
AllocateRead(h, a) ==
  /\ job[h] = None /\ "allocate" \in Ops
  /\ holder[a] = None
  /\ job' = [job EXCEPT ![h] = [stage |-> "allocating", asset |-> a, place |-> home[a]]]
  /\ UNCHANGED stores

AllocateInsert(h) ==
  /\ Doing(h, "allocating")
  /\ holder' = [holder EXCEPT ![job[h].asset] = job[h].place]
  /\ Finished(h)
  /\ UNCHANGED <<stock, moved, home, docs>>

Deallocate(h, a) ==
  /\ job[h] = None /\ "allocate" \in Ops
  /\ holder[a] # None
  /\ holder' = [holder EXCEPT ![a] = None]
  /\ UNCHANGED <<stock, moved, home, docs, job>>

StoresStep(h) ==
  \/ \E from, to \in Place, lines \in Lines : Order(h, from, to, lines)
  \/ PickUnits(h) \/ Transfer(h)
  \/ \E a \in Asset : AllocateRead(h, a) \/ Deallocate(h, a)
  \/ AllocateInsert(h)
=============================================================================
