-------------------------- MODULE MCStockRequests --------------------------
(* Small instances of transfers and stock requests: one consumable, assets *)
(* 1..n, and one or two project warehouses, of which s2 is not active.     *)
EXTENDS StockRequests, TLC

CONSTANTS main, s1, s2, h1, h2

MCOpening1 == [p \in Place |-> [i \in Consumable |-> 1]]

Symmetry == Permutations(Handler)
=============================================================================
