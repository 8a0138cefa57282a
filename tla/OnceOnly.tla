------------------------------ MODULE OnceOnly ------------------------------
(***************************************************************************)
(* What an idempotency key promises a caller, with no trace of how:  a     *)
(* keyed write is carried out at most once however many attempts are made, *)
(* and whoever is answered is answered with a write of their own that was  *)
(* carried out.  An attempt may also simply never be carried out or        *)
(* answered.  WriteOperations is shown to implement this module.           *)
(***************************************************************************)
CONSTANTS Attempt, NoKey, None

VARIABLES req,      \* what each attempt asks for: [key, user, print]
          effects,  \* the attempts whose writes are in the database
          answer    \* whose write each attempt was told about, or None

vars == <<req, effects, answer>>

Unkeyed(a) == req[a].key = NoKey

(* One attempt may be answered with the write of another only when the two *)
(* name the same key, come from the same person and say the same thing.    *)
SameIntent(a, b) == a = b \/ (~Unkeyed(a) /\ req[a] = req[b])

Init == effects = {} /\ answer = [a \in Attempt |-> None]

Perform(a) ==
  /\ a \notin effects
  /\ Unkeyed(a) \/ \A b \in effects : req[b].key # req[a].key
  /\ effects' = effects \union {a}
  /\ UNCHANGED <<req, answer>>

Reply(a) ==
  /\ answer[a] = None
  /\ \E b \in effects : SameIntent(a, b) /\ answer' = [answer EXCEPT ![a] = b]
  /\ UNCHANGED <<req, effects>>

Next == \E a \in Attempt : Perform(a) \/ Reply(a)

Spec == Init /\ [][Next]_vars
=============================================================================
