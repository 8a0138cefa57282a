------------------------- MODULE MCWriteOperations -------------------------
(* Three attempts: enough for a holder, an attempt that takes over and one *)
(* that arrives late.  Requests: two people, two bodies, one shared key,   *)
(* and the two kinds of request that never reach the table.                *)
EXTENDS WriteOperations

CONSTANTS k1, u1, u2, p1, p2

MCRequest ==
  { [key |-> k1, user |-> u1, print |-> p1],
    [key |-> k1, user |-> u1, print |-> p2],
    [key |-> k1, user |-> u2, print |-> p1],
    [key |-> NoKey, user |-> u1, print |-> p1],
    [key |-> BadKey, user |-> u1, print |-> p1] }

MCKey == {k1}
MCUser == {u1, u2}
MCFingerprint == {p1, p2}
MCDetachedP2 == {p2}
=============================================================================
