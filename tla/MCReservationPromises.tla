----------------------- MODULE MCReservationPromises -----------------------
(* Small instances of promising: a consumable 1, an asset item 2 and an    *)
(* item in hours 3, two days, and the requests each case is about.         *)
EXTENDS ReservationPromises

CONSTANTS main, sub, h1, h2, t1

(* Of the item in hours there is enough for every request of a case.       *)
OnHand(n) == [i \in Item |-> [p \in Pool |-> IF i = 3 THEN 3 ELSE n]]

Of(i, n) == [item |-> i, qty |-> n]
AsksOf(by, task, pools, days, ends, lines) ==
  {[by |-> by, task |-> task, pool |-> p, from |-> f, to |-> t, lines |-> ls] :
     p \in pools, f \in days, t \in ends, ls \in lines}

(* Creates of a line or two: a consumable or an asset, for a day of the    *)
(* two or open-ended, from either pool; and an item in hours for both days.*)
MCCreates ==
  AsksOf("create", None, {main}, {1}, {1, Open}, {<<Of(1, 1)>>, <<Of(2, 1)>>})
  \union AsksOf("create", None, {sub}, {1}, {1}, {<<Of(2, 1)>>})
  \union AsksOf("create", None, {main}, {2}, {2}, {<<Of(1, 1), Of(1, 1)>>})
  \union AsksOf("create", None, {main}, {1}, {2}, {<<Of(3, 1)>>})
(* A request of an object or of the catalog, for both days.                *)
MCRequests ==
  AsksOf("object", None, {main}, {1}, {2}, {<<Of(1, 1)>>})
  \union AsksOf("catalog", None, {main}, {1}, {2}, {<<Of(2, 1)>>})
  \union AsksOf("catalog", t1, Pool, {1}, {1}, {<<Of(1, 1)>>})
(* Copies over both items, found in either order.                          *)
MCCopies == AsksOf("copy", None, {main}, {1}, {2, Open},
                   {<<Of(1, 1), Of(2, 1)>>, <<Of(2, 1), Of(1, 1)>>})
(* One task, edited up, down, to other days and to other items, while      *)
(* another claims the same.                                                *)
MCEdits ==
  AsksOf("edit", t1, {main}, {1}, {1, 2}, {<<Of(1, 1)>>})
  \union AsksOf("edit", t1, {main}, {1}, {1}, {<<Of(1, 2)>>, <<Of(2, 2), Of(1, 1)>>, <<Of(3, 2)>>})
  \union AsksOf("edit", t1, {main}, {1}, {2}, {<<Of(3, 1)>>})
  \union AsksOf("create", None, {main}, {1}, {1}, {<<Of(1, 1)>>, <<Of(2, 1)>>})

MCInstances == {
  [onHand |-> OnHand(1), hands |-> {h1, h2}, ops |-> {"CANCELLED"},
   asks |-> MCCreates \union MCCopies \union MCRequests],
  [onHand |-> OnHand(2), hands |-> {h1}, ops |-> {"issue", "accept", "REJECTED"},
   asks |-> MCEdits]}

=============================================================================
