----------------------------- MODULE MCUpkeep ------------------------------
EXTENDS Upkeep, TLC
CONSTANTS main, other, n1, n2, n3, m1, m2, c1, j1, j2, x1, x2, y1, y2, none, root, gone

(* One set names the checks, the categories, the items and the files, one  *)
(* the replicas, the attempts, the editors and the callers.                *)
MCSymmetry == Permutations({n1, n2, n3}) \union Permutations({m1, m2})

(* Times in quarters of a day, none of them nine in the morning.           *)
MCRecords ==
  {[kind |-> "maintenance_due", start |-> 5, end |-> 5],
   [kind |-> "asset_due_back", end |-> 7], [kind |-> "receipt_unconfirmed", assigned |-> 1]}

Blank == [kind |-> "link", project |-> none, task |-> none, object |-> none, submission |-> none,
          next |-> none, line |-> none, status |-> none, fresh |-> "PENDING", back |-> none, file |-> FALSE]
With(fields) == fields @@ Blank

(* One tree is a project p with its task t and object o, the other also    *)
(* has task u; v and x are in neither.                                     *)
MCTree == (j1 :> {"p", "t", "o"} @@ j2 :> {"p", "t", "u"})
MCOriginal ==
  "l1" :> With([project |-> "p"])
  @@ "e1" :> With([kind |-> "estimate", object |-> "o"])
  @@ "s1" :> With([kind |-> "submission", project |-> "p", file |-> TRUE])
  @@ "s2" :> With([kind |-> "submission", project |-> "p"])
  @@ "r1" :> With([kind |-> "reservation", project |-> "p", task |-> "t", status |-> "REJECTED", next |-> "r2"])
  @@ "r2" :> With([kind |-> "reservation", project |-> "p", object |-> "x", submission |-> "s1",
                   status |-> "COMPLETED", fresh |-> "APPROVED", next |-> "r4"])
  @@ "r3" :> With([kind |-> "reservation", project |-> "p", object |-> "o", status |-> "PENDING"])
  @@ "r4" :> With([kind |-> "reservation", project |-> "q", task |-> "u", object |-> "o", status |-> "ALLOCATED"])
  @@ "r5" :> With([kind |-> "reservation", project |-> "p", submission |-> "s2", status |-> "CANCELLED"])
  @@ "q1" :> With([kind |-> "requisition", task |-> "t", line |-> "r4", status |-> "APPROVED", file |-> TRUE])
  @@ "q2" :> With([kind |-> "requisition", task |-> "v", submission |-> "s1", line |-> "r2",
                   status |-> "REJECTION_PENDING", back |-> "IN_REVIEW", file |-> TRUE])
  @@ "q3" :> With([kind |-> "requisition", submission |-> "s2", line |-> "r5", status |-> "DRAFT"])
  @@ "a1" :> With([kind |-> "ask", object |-> "o", status |-> "ISSUED"])
  @@ "a2" :> With([kind |-> "personal", object |-> "o", status |-> "PENDING"])
=============================================================================
