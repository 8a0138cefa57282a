---------------------------- MODULE ItemRegistry ----------------------------
(***************************************************************************)
(* CategoriesService and ItemsService: the tree of categories, and the     *)
(* cards of items with their variants, codes, pictures and documents.      *)
(* What a handler checks it reads before it writes, each read and each     *)
(* write a statement of its own.  Ids are never given twice.               *)
(***************************************************************************)
EXTENDS Integers, FiniteSets

CONSTANTS
  Category,
  Item,
  Editor,     \* requests under way at once
  Shape,      \* a name, type, unit and category together
  Label,
  File,
  MAX_IMAGES,
  NoParent,
  NoCode,
  Absent,
  Resting

ASSUME RegistryBounds == MAX_IMAGES \in Nat
ASSUME NamesApart ==
  /\ {NoParent, Absent, Resting} \intersect (Category \union Item) = {}
  /\ NoParent # Absent /\ NoCode \notin Item

VARIABLES
  tree,     \* each category's parent
  born,     \* categories there have been
  filed,    \* categories with items
  moving,   \* each editor's change of the tree
  crossed,  \* two walks up the tree have been under way at once
  card,     \* each item's row
  issued,   \* items there have been
  pics,     \* rows of pictures and documents
  uploads,  \* each file's name: not given yet, stored, or removed
  editing,  \* each editor's change of a card
  mingled,  \* two changes of cards have been under way at once
  wins      \* how often an item was assigned a code

treeVars == <<tree, born, filed, moving, crossed>>
cardVars == <<card, issued, pics, uploads, editing, mingled, wins>>

-----------------------------------------------------------------------------
(* The tree.                                                               *)
TreeInit ==
  /\ tree = [c \in Category |-> Absent]
  /\ born = {} /\ filed = {} /\ crossed = FALSE
  /\ moving = [e \in Editor |-> Resting]

Present == {c \in Category : tree[c] # Absent}
Children(S) == {c \in Category : tree[c] \in S}

(* getDescendantIds: a category, its children, theirs, and so on.          *)
getDescendantIds(S) ==
  {c \in Present : \A D \in SUBSET Present : S \subseteq D /\ Children(D) \subseteq D => c \in D}

(* getTree: the roots and what hangs off them.                             *)
getTree == getDescendantIds({c \in Present : tree[c] = NoParent})

Step(e, stage) == moving[e] # Resting /\ moving[e].at = stage
Rest(e) == moving' = [moving EXCEPT ![e] = Resting]

(* create and update: what they find before they walk up from the new      *)
(* parent; without one, or for a leaf, there is nothing to walk for.       *)
StartChange(e, does, id, parent, kids) ==
  LET from == IF kids = {} THEN NoParent ELSE parent
  IN  /\ moving[e] = Resting
      /\ parent \in Present \union {NoParent}
      /\ moving' = [moving EXCEPT ![e] =
           [does |-> does, at |-> "walk", id |-> id, parent |-> parent, kids |-> kids, node |-> from]]
      /\ crossed' = (crossed \/ (from # NoParent /\ \E g \in Editor :
           Step(g, "walk") /\ moving[g].parent # NoParent /\ moving[g].kids # {}))
      /\ UNCHANGED <<tree, born, filed>>

StartCreate(e) ==
  \E parent \in Present \union {NoParent}, kids \in SUBSET Present :
    StartChange(e, "create", NoParent, parent, kids)

StartMove(e) ==
  \E id \in Present, parent \in Present \union {NoParent} :
    id # parent /\ StartChange(e, "move", id, parent, {id})

(* Faulty: only the new parent itself is looked at.                        *)
WalkOnce(e) ==
  /\ Step(e, "walk")
  /\ LET m == moving[e]
     IN  /\ m.node # NoParent
         /\ IF m.node \in m.kids THEN Rest(e) ELSE moving' = [moving EXCEPT ![e].node = NoParent]
  /\ UNCHANGED <<tree, born, filed, crossed>>

(* One read of the walk: refused at a category that is to hang below, or   *)
(* on to its parent.                                                       *)
Walk(e) ==
  /\ Step(e, "walk")
  /\ LET m == moving[e]
     IN  /\ m.node # NoParent
         /\ IF m.node \in m.kids THEN Rest(e)
            ELSE moving' = [moving EXCEPT ![e].node = IF tree[m.node] = Absent THEN NoParent ELSE tree[m.node]]
  /\ UNCHANGED <<tree, born, filed, crossed>>

Walked(e, does) == Step(e, "walk") /\ moving[e].does = does /\ moving[e].node = NoParent

(* The new row, and the children under it, in one transaction; a parent    *)
(* that is gone by now is refused by its foreign key.                      *)
InsertUnder(e) ==
  /\ Walked(e, "create") /\ Rest(e)
  /\ LET m == moving[e]
     IN  IF m.parent \in Present \union {NoParent}
         THEN \E c \in Category \ born :
                /\ tree' = [k \in Category |-> IF k = c THEN m.parent
                                               ELSE IF k \in m.kids /\ tree[k] # Absent THEN c ELSE tree[k]]
                /\ born' = born \union {c}
         ELSE UNCHANGED <<tree, born>>
  /\ UNCHANGED <<filed, crossed>>

SetParent(e) ==
  /\ Walked(e, "move") /\ Rest(e)
  /\ LET m == moving[e]
     IN  tree' = IF m.parent \in Present \union {NoParent} /\ m.id \in Present
                 THEN [tree EXCEPT ![m.id] = m.parent] ELSE tree
  /\ UNCHANGED <<born, filed, crossed>>

(* remove: counts children and items, then deletes; what was filed there   *)
(* in between is left without (ON DELETE SET NULL).                        *)
StartDelete(e) ==
  /\ moving[e] = Resting
  /\ \E id \in Present \ filed :
       /\ Children({id}) = {}
       /\ moving' = [moving EXCEPT ![e] =
            [does |-> "remove", at |-> "delete", id |-> id, parent |-> NoParent, kids |-> {}, node |-> NoParent]]
  /\ UNCHANGED <<tree, born, filed, crossed>>

WriteDelete(e) ==
  /\ Step(e, "delete") /\ Rest(e)
  /\ LET id == moving[e].id
     IN  /\ tree' = IF id \in Present
                    THEN [c \in Category |-> IF c = id THEN Absent
                                             ELSE IF tree[c] = id THEN NoParent ELSE tree[c]]
                    ELSE tree
         /\ filed' = filed \ {id}
  /\ UNCHANGED <<born, crossed>>

(* Items come to a category and leave it (assertMayFileUnder).             *)
Refile ==
  /\ \E c \in Present : filed' = IF c \in filed THEN filed \ {c} ELSE filed \union {c}
  /\ UNCHANGED <<tree, born, moving, crossed>>

TreeNext ==
  \/ \E e \in Editor : \/ StartCreate(e) \/ StartMove(e) \/ StartDelete(e) \/ Walk(e)
                       \/ InsertUnder(e) \/ SetParent(e) \/ WriteDelete(e)
  \/ Refile

(* "A chosen child must not be an ancestor of the chosen parent": as long  *)
(* as no two changes walked up the tree at once, every category hangs off  *)
(* a root, so that getTree shows it.  (Two at once: see the README.)       *)
CategoriesFormATree == ~crossed => getTree = Present

-----------------------------------------------------------------------------
(* The cards.  A variant is an item of its own, under its parent.          *)
Card(of, shape, label, code) == [of |-> of, shape |-> shape, label |-> label, code |-> code]
CardRow == [of : Item \union {NoParent}, shape : Shape, label : Label \union {NoParent},
            code : Item \union {NoCode}]
ASSUME AbsentIsNoCard == Absent \notin CardRow

(* An item without a code is older than the numbering, and no variant.     *)
CardsInit ==
  /\ \E olds \in SUBSET Item, shape \in Shape :
       /\ Cardinality(olds) <= 1
       /\ card = [i \in Item |-> IF i \in olds THEN Card(NoParent, shape, NoParent, NoCode) ELSE Absent]
       /\ issued = olds
  /\ pics = {} /\ uploads = [f \in File |-> "new"] /\ mingled = FALSE
  /\ editing = [e \in Editor |-> Resting]
  /\ wins = [i \in Item |-> 0]

There == {i \in Item : card[i] # Absent}
Variants(p) == {i \in There : card[i].of = p}
Parents == {i \in There : card[i].of = NoParent}
Taken(code, but) == \E i \in There \ {but} : card[i].code = code
hasNoCode(i) == card[i].code = NoCode
ImagesOf(i) == {r \in pics : r.item = i /\ r.kind = "image"}

On(e, does) == editing[e] # Resting /\ editing[e].does = does
Done(e) == editing' = [editing EXCEPT ![e] = Resting]

(* What a handler has read and checked; its write comes after.             *)
Read(e, edit) ==
  /\ editing[e] = Resting
  /\ editing' = [editing EXCEPT ![e] = edit]
  /\ mingled' = (mingled \/ \E g \in Editor : editing[g] # Resting)
  /\ UNCHANGED <<card, issued, pics, uploads, wins>>

Write(e, does) ==
  /\ On(e, does) /\ Done(e)
  /\ UNCHANGED <<mingled, uploads>>

(* create: the row, and its code made of its id.  One item besides         *)
(* variants, at a time (a bound).                                          *)
Create ==
  Parents = {} /\ \E i \in Item \ issued, shape \in Shape :
    /\ card' = IF Taken(i, i) THEN card ELSE [card EXCEPT ![i] = Card(NoParent, shape, NoParent, i)]
    /\ issued' = issued \union {i}
    /\ UNCHANGED <<pics, uploads, editing, mingled, wins>>

(* update: "What the parent is, its variants are".                         *)
ReadUpdate(e) ==
  \E i \in There, shape \in Shape :
    /\ card[i].of # NoParent => shape = card[i].shape
    /\ Read(e, [does |-> "update", id |-> i, shape |-> shape,
                flows |-> Variants(i) # {} /\ shape # card[i].shape])

WriteUpdate(e) ==
  /\ Write(e, "update")
  /\ LET m == editing[e]
     IN  card' = IF m.id \notin There THEN card
                 ELSE [i \in Item |->
                   IF i = m.id \/ (m.flows /\ i \in Variants(m.id)) THEN [card[i] EXCEPT !.shape = m.shape]
                   ELSE card[i]]
  /\ UNCHANGED <<issued, pics, wins>>

(* assignCode: "conditional on the code read a moment ago, so two people   *)
(* racing on the same item cannot both win".                               *)
ReadAssign(e) == \E i \in There : hasNoCode(i) /\ Read(e, [does |-> "assign", id |-> i])

(* Faulty: the code is written whatever it has become.                     *)
AssignAnyway(e) ==
  /\ Write(e, "assign")
  /\ LET i == editing[e].id
         may == i \in There /\ ~Taken(i, i)
     IN  /\ card' = IF may THEN [card EXCEPT ![i].code = i] ELSE card
         /\ wins' = IF may THEN [wins EXCEPT ![i] = @ + 1] ELSE wins
  /\ UNCHANGED <<issued, pics>>

WriteAssign(e) ==
  /\ Write(e, "assign")
  /\ LET i == editing[e].id
         may == i \in There /\ hasNoCode(i) /\ ~Taken(i, i)
     IN  /\ card' = IF may THEN [card EXCEPT ![i].code = i] ELSE card
         /\ wins' = IF may THEN [wins EXCEPT ![i] = @ + 1] ELSE wins
  /\ UNCHANGED <<issued, pics>>

(* assertVariantFree, before the write.                                    *)
assertVariantFree(p, label, code, but) ==
  /\ \A v \in Variants(p) \ {but} : card[v].label # label
  /\ code # NoCode => ~Taken(code, but)

ReadCreateVariant(e) ==
  \E p \in Parents, label \in Label, code \in Item \union {NoCode} :
    /\ assertVariantFree(p, label, code, NoParent)
    /\ Read(e, [does |-> "variant", of |-> p, label |-> label, code |-> code, shape |-> card[p].shape])

WriteCreateVariant(e) ==
  /\ Write(e, "variant")
  /\ LET m == editing[e]
     IN  \E v \in Item \ issued :
           LET code == IF m.code = NoCode THEN v ELSE m.code
           IN  /\ card' = IF m.of \notin There \/ Taken(code, v) THEN card
                          ELSE [card EXCEPT ![v] = Card(m.of, m.shape, m.label, code)]
               /\ issued' = issued \union {v}
  /\ UNCHANGED <<pics, wins>>

(* updateVariant: an emptied code is the variant's own again.  A code      *)
(* somebody thinks of may be the one another item would get.               *)
ReadUpdateVariant(e) ==
  \E v \in There \ Parents, label \in Label, code \in Item :
    /\ assertVariantFree(card[v].of, label, code, v)
    /\ Read(e, [does |-> "rename", id |-> v, label |-> label, code |-> code])

WriteUpdateVariant(e) ==
  /\ Write(e, "rename")
  /\ LET m == editing[e]
     IN  card' = IF m.id \notin There \/ Taken(m.code, m.id) THEN card
                 ELSE [card EXCEPT ![m.id].label = m.label, ![m.id].code = m.code]
  /\ UNCHANGED <<issued, pics, wins>>

(* remove and removeVariant, of an item in whose way nothing stands of     *)
(* what other tables hold (which may be anything): live reservations and   *)
(* open custody, for a variant anything in the books, are counted before;  *)
(* lines of transfers, and variants, forbid the delete itself.             *)
ReadRemove(e) ==
  \E i \in There :
    /\ Variants(i) = {}
    /\ Read(e, [does |-> "remove", id |-> i, files |-> {r.file : r \in {q \in pics : q.item = i}}])

ReadRemoveVariant(e) ==
  \E v \in There \ Parents : Read(e, [does |-> "remove", id |-> v, files |-> {}])

(* The files of what was read go last.                                     *)
ThenUnlink(e, files) == editing' = [editing EXCEPT ![e] = [does |-> "unlink", files |-> files]]

WriteRemove(e) ==
  /\ On(e, "remove")
  /\ LET m == editing[e]
     IN  \/ Done(e) /\ UNCHANGED <<card, pics>>
         \/ /\ m.id \in There /\ Variants(m.id) = {}
            /\ card' = [card EXCEPT ![m.id] = Absent]
            /\ pics' = {r \in pics : r.item # m.id}
            /\ ThenUnlink(e, m.files)
  /\ UNCHANGED <<issued, uploads, mingled, wins>>

Unlink(e) ==
  /\ On(e, "unlink") /\ Done(e)
  /\ uploads' = [f \in File |-> IF f \in editing[e].files THEN "removed" ELSE uploads[f]]
  /\ UNCHANGED <<card, issued, pics, mingled, wins>>

-----------------------------------------------------------------------------
(* Pictures and documents: "store the files first and only then write      *)
(* rows"; the first picture of an item is its cover.                       *)
ReadAdd(e) ==
  \E i \in There, kind \in {"image", "document"}, file \in File :
    /\ uploads[file] = "new"
    /\ kind = "image" => Cardinality(ImagesOf(i)) < MAX_IMAGES
    /\ editing[e] = Resting
    /\ uploads' = [uploads EXCEPT ![file] = "stored"]
    /\ editing' = [editing EXCEPT ![e] =
         [does |-> "add", row |-> [file |-> file, item |-> i, kind |-> kind,
                                   cover |-> kind = "image" /\ ImagesOf(i) = {}]]]
    /\ mingled' = (mingled \/ \E g \in Editor : editing[g] # Resting)
    /\ UNCHANGED <<card, issued, pics, wins>>

WriteAdd(e) ==
  /\ Write(e, "add")
  /\ LET r == editing[e].row
     IN  pics' = IF r.item \in There THEN pics \union {r} ELSE pics
  /\ UNCHANGED <<card, issued, wins>>

(* updateImage: "One cover per item: the previous one steps down".         *)
ReadCover(e) == \E r \in pics : r.kind = "image" /\ Read(e, [does |-> "cover", row |-> r])

WriteCover(e) ==
  /\ Write(e, "cover")
  /\ LET r == editing[e].row
         StepDown(q) == IF q.item = r.item /\ q.kind = "image" /\ ~r.cover THEN [q EXCEPT !.cover = FALSE] ELSE q
     IN  pics' = IF \A q \in pics : q.file # r.file THEN pics
                 ELSE {IF q.file = r.file THEN [q EXCEPT !.cover = TRUE] ELSE StepDown(q) : q \in pics}
  /\ UNCHANGED <<card, issued, wins>>

(* removeImage: "The cover is gone: the first remaining picture takes its  *)
(* place" - whichever the order of the pictures makes the first.           *)
Dropped(rest, r) ==
  LET images == {q \in rest : q.item = r.item /\ q.kind = "image"}
  IN  IF r.cover /\ images # {}
      THEN {(rest \ {q}) \union {[q EXCEPT !.cover = TRUE]} : q \in images}
      ELSE {rest}

ReadDrop(e) == \E r \in pics : Read(e, [does |-> "drop", row |-> r])

WriteDrop(e) ==
  /\ On(e, "drop")
  /\ LET r == editing[e].row
     IN  IF \A q \in pics : q.file # r.file
         THEN Done(e) /\ UNCHANGED pics
         ELSE /\ pics' \in Dropped({q \in pics : q.file # r.file}, r)
              /\ ThenUnlink(e, {r.file})
  /\ UNCHANGED <<card, issued, uploads, mingled, wins>>

(* The process stops: what was stored or not yet unlinked stays.           *)
Crash(e) ==
  /\ editing[e] # Resting /\ Done(e)
  /\ UNCHANGED <<card, issued, pics, uploads, mingled, wins>>

Rows(e) ==
  \/ ReadUpdate(e) \/ WriteUpdate(e) \/ ReadAssign(e) \/ WriteAssign(e)
  \/ ReadCreateVariant(e) \/ WriteCreateVariant(e) \/ ReadUpdateVariant(e) \/ WriteUpdateVariant(e)
  \/ ReadRemoveVariant(e)

Pictures(e) == ReadAdd(e) \/ WriteAdd(e) \/ ReadCover(e) \/ WriteCover(e) \/ ReadDrop(e) \/ WriteDrop(e)

CardsNext(ofRows, ofPictures) ==
  \/ \E e \in Editor : \/ ofRows /\ Rows(e)
                       \/ ofPictures /\ Pictures(e)
                       \/ ReadRemove(e) \/ WriteRemove(e) \/ Unlink(e) \/ Crash(e)
  \/ ofRows /\ Create

(* Whatever overlaps: a row of a picture or a document has its file, a     *)
(* variant its parent, a code one item, and nobody is told twice that an   *)
(* item got its code.  As long as no two changes overlapped: the variants  *)
(* of an item are what it is, no two share a label, and an item with       *)
(* pictures has one cover.                                                 *)
CardsInOrder ==
  /\ \A r \in pics : uploads[r.file] = "stored"
  /\ \A i \in There : card[i].of # NoParent => card[i].of \in Parents
  /\ \A i, j \in There : i # j /\ ~hasNoCode(i) => card[i].code # card[j].code
  /\ \A i \in Item : wins[i] <= 1
  /\ ~mingled =>
       \A i \in There :
         /\ \A v \in Variants(i) : card[v].shape = card[i].shape
         /\ \A v, w \in Variants(i) : v # w => card[v].label # card[w].label
         /\ ImagesOf(i) # {} => Cardinality({r \in ImagesOf(i) : r.cover}) = 1
=============================================================================
