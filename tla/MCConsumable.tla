---------------------------- MODULE MCConsumable ----------------------------
(* Small instances of the consumable lifecycle.  r1 and r2 draw from the   *)
(* main shelf; with MCTwoShelves r2 draws from a project's shelf instead. *)
EXTENDS ConsumableLifecycle, TLC

CONSTANTS r1, r2, main, sub

MCOneShelf == [r \in Reservation |-> main]
MCTwoShelves == [r \in Reservation |-> IF r = r2 THEN sub ELSE main]
MCOpening1 == [p \in Pool |-> 1]
MCOpening2 == [p \in Pool |-> 2]
MCOpening3 == [p \in Pool |-> 3]

Symmetry == Permutations(Handler)
=============================================================================
