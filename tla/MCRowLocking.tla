---------------------------- MODULE MCRowLocking ----------------------------
(* Small instances of row locking: item 1 is reserved from main by r1 and, *)
(* where there is an r2, from a project's shelf by r2; r1 has two rows.    *)
EXTENDS RowLocking

CONSTANTS r1, r2, h1, h2

MCItemOf == [r \in Reservation |-> 1]
MCRowsOf == [r \in Reservation |-> IF r = r1 THEN <<"a1", "a2">> ELSE <<"a3">>]
=============================================================================
