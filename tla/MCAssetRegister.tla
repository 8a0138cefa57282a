-------------------------- MODULE MCAssetRegister ---------------------------
EXTENDS AssetRegister
CONSTANTS h1, h2, r1, r2, r3, o1, p1, p2, u1, u2, q1

MCNever == 9
MCSymmetry == Permutations(Unit) \union Permutations(Person)
For(object, from, until, n) == [object |-> object, from |-> from, until |-> until,
                                quantity |-> n, status |-> "APPROVED", accepted |-> 0, moved |-> 0]
Rows(a, b, c) == [r \in Row |-> CASE r = r1 -> a [] r = r2 -> b [] OTHER -> c]
To(from, until, n) == [from |-> from, until |-> until, quantity |-> n]
MCEdit == {To(1, 2, 1), To(3, 3, 2)}
NoRows == Rows(For(None, 1, 1, 0), For(None, 1, 1, 0), For(None, 1, 1, 0))
Case(a, b, rows) == [may |-> [h \in Handler |-> IF h = h1 THEN a ELSE b], rows |-> rows]

Lending == {"directIssue", "reassign", "release"}
MCInstances == {
  (* requests and hand-overs *)
  Case({"request", "decide", "cancelRequest", "issue", "accept", "release"}, {}, NoRows),
  (* two tasks and an object, their windows meeting in part *)
  Case({"directIssue", "allocate", "reallocate", "release"}, {},
       Rows(For(None, 1, 2, 1), For(o1, 2, 3, 1), For(None, 3, MCNever, 1))),
  (* a task and an object, bookings called off *)
  Case({"directIssue", "reassign", "allocate", "closeRow"}, {},
       Rows(For(None, 1, 2, 1), For(o1, 3, 3, 1), For(o1, 3, 3, 0))),
  (* the ways back *)
  Case(Lending \union {"allocate", "handBack", "return", "acceptUnits"}, {},
       Rows(For(None, 1, 2, 0), For(o1, 1, 3, 2), For(o1, 3, 3, 0))),
  (* and taken back one by one *)
  Case({"directIssue", "reassign", "allocate", "releaseAllocation", "remove"}, {},
       Rows(For(None, 1, 2, 1), For(o1, 3, 3, 1), For(o1, 3, 3, 0))),
  (* tasks moved between bookings *)
  Case({"directIssue", "allocate", "acceptUnits", "saveTask"}, {},
       Rows(For(None, 1, 1, 1), For(None, 3, 3, 1), For(o1, 1, 1, 0))),
  (* a job under way among bookings *)
  Case({"directIssue", "updateAsset", "allocate", "draft", "removeWork"}, {},
       Rows(For(None, 1, 1, 1), For(o1, 2, 3, 0), For(o1, 1, MCNever, 1))),
  (* the money of a job *)
  Case({"draft", "editWork", "finalize", "complete", "removeWork"}, {"callback", "book"}, NoRows)}

ASSUME CasesApart == OneActs /\ OneIssues /\ OneBooks
=============================================================================
