-------------------------- MODULE WriteOperations --------------------------
(***************************************************************************)
(* OperationsService.runOnce: one write per idempotency key, however many  *)
(* times it is asked for.  Attempts are HTTP requests, possibly served by  *)
(* different processes; each may crash between any two of its database     *)
(* calls.  The WriteOperation table is a function of the key (its unique   *)
(* index).  The serial id of a row is the attempt that inserted it, and    *)
(* its createdAt the attempt that last stamped it: an attempt inserts or   *)
(* re-stamps a row at most once, so both name a moment uniquely.           *)
(***************************************************************************)
EXTENDS Integers, FiniteSets

CONSTANTS
  Attempt,   \* the requests served
  Key,       \* the idempotency keys clients send
  User, Fingerprint, \* who asks, and the route and body they ask with
  Request,   \* what an attempt may be: some of [key, user, print]
  NoKey,     \* no Idempotency-Key header
  BadKey,    \* a header that trims to nothing or is over 200 characters
  None,
  Detached,  \* prints whose unit of work ignores the transaction it is given
  Outlives   \* whether an attempt may still be working when its lease is up

(* A row of the WriteOperation table, and what a takeover remembers of one. *)
Row == [id : Attempt, stamp : Attempt,
        user : User, print : Fingerprint,
        status : {"IN_FLIGHT", "SUCCEEDED"}, result : Attempt \union {None}]
Found == [id : Attempt, stamp : Attempt]

ASSUME KeysAreApart == NoKey \notin Key /\ BadKey \notin Key /\ NoKey # BadKey
ASSUME NoneIsApart == None \notin Attempt /\ None \notin Row /\ None \notin Found
ASSUME RequestShape ==
  Request \subseteq [key : Key \union {NoKey, BadKey}, user : User, print : Fingerprint]

VARIABLES
  req,      \* the request each attempt carries
  pc,       \* how far each attempt got
  row,      \* the WriteOperation table, by key
  mine,     \* claim.id: the row an attempt holds
  seen,     \* `existing`: the row an attempt found and means to take over
  expired,  \* stamps older than LEASE_MS
  effects,  \* attempts whose business write is committed
  answer    \* whose write an attempt was told about

vars == <<req, pc, row, mine, seen, expired, effects, answer>>

k(a) == req[a].key

Stages == {"start", "lookup", "retry", "takeover", "claimed", "worked",
           "releasing", "committed", "answered", "refused", "crashed"}
Over == {"answered", "refused", "crashed"}

InFlight(a) == [id |-> a, stamp |-> a, user |-> req[a].user,
                print |-> req[a].print, status |-> "IN_FLIGHT", result |-> None]

Init ==
  /\ req \in [Attempt -> Request]
  /\ pc = [a \in Attempt |-> "start"]
  /\ row = [x \in Key |-> None]
  /\ mine = [a \in Attempt |-> None]
  /\ seen = [a \in Attempt |-> None]
  /\ expired = {}
  /\ effects = {}
  /\ answer = [a \in Attempt |-> None]

Goto(a, stage) == pc' = [pc EXCEPT ![a] = stage]

-----------------------------------------------------------------------------
(* No key: a plain transaction, as for every client that predates keys.    *)
RunUnkeyed(a) ==
  /\ pc[a] = "start" /\ k(a) = NoKey
  /\ effects' = effects \union {a}
  /\ Goto(a, "committed")
  /\ UNCHANGED <<req, row, mine, seen, expired, answer>>

(* The work of an unkeyed request refuses, or its key is malformed.        *)
RefuseAtOnce(a) ==
  /\ pc[a] = "start" /\ k(a) \in {NoKey, BadKey}
  /\ Goto(a, "refused")
  /\ UNCHANGED <<req, row, mine, seen, expired, effects, answer>>

(* The INSERT of the key: it lands, and the key is ours ...                *)
Insert(a, stage) ==
  /\ pc[a] = stage /\ k(a) \in Key
  /\ row[k(a)] = None
  /\ row' = [row EXCEPT ![k(a)] = InFlight(a)]
  /\ mine' = [mine EXCEPT ![a] = a]
  /\ Goto(a, "claimed")
  /\ UNCHANGED <<req, seen, expired, effects, answer>>

(* ... or the unique index refuses it (P2002) and the holder is looked up. *)
InsertRefused(a) ==
  /\ pc[a] = "start" /\ k(a) \in Key
  /\ row[k(a)] # None
  /\ Goto(a, "lookup")
  /\ UNCHANGED <<req, row, mine, seen, expired, effects, answer>>

(* The holder let go between the insert and the read: one more insert,     *)
(* and if that loses too the caller is told to come back.                  *)
LookupFindsNothing(a) ==
  /\ pc[a] = "lookup" /\ row[k(a)] = None
  /\ Goto(a, "retry")
  /\ UNCHANGED <<req, row, mine, seen, expired, effects, answer>>

RetryRefused(a) ==
  /\ pc[a] = "retry" /\ row[k(a)] # None
  /\ Goto(a, "refused")
  /\ UNCHANGED <<req, row, mine, seen, expired, effects, answer>>

(* Faulty: the key alone would open another body's answer.                 *)
RedeemableByKey(a, w) == w.user = req[a].user

(* The row is ours only if the person, the route and the body all agree.   *)
Redeemable(a, w) == w.user = req[a].user /\ w.print = req[a].print

PastLease(w) == w.stamp \in expired

LookupRefuses(a) ==
  /\ pc[a] = "lookup" /\ row[k(a)] # None
  /\ \/ ~Redeemable(a, row[k(a)])
     \/ row[k(a)].status = "IN_FLIGHT" /\ ~PastLease(row[k(a)])
  /\ Goto(a, "refused")
  /\ UNCHANGED <<req, row, mine, seen, expired, effects, answer>>

Replay(a) ==
  /\ pc[a] = "lookup" /\ row[k(a)] # None
  /\ Redeemable(a, row[k(a)])
  /\ row[k(a)].status = "SUCCEEDED"
  /\ answer' = [answer EXCEPT ![a] = row[k(a)].result]
  /\ Goto(a, "answered")
  /\ UNCHANGED <<req, row, mine, seen, expired, effects>>

LookupFindsAbandoned(a) ==
  /\ pc[a] = "lookup" /\ row[k(a)] # None
  /\ Redeemable(a, row[k(a)])
  /\ row[k(a)].status = "IN_FLIGHT" /\ PastLease(row[k(a)])
  /\ seen' = [seen EXCEPT ![a] = [id |-> row[k(a)].id, stamp |-> row[k(a)].stamp]]
  /\ Goto(a, "takeover")
  /\ UNCHANGED <<req, row, mine, expired, effects, answer>>

(* Faulty: the takeover does not ask whether the lease was renewed.        *)
StillThere(a) ==
  /\ row[k(a)] # None
  /\ row[k(a)].id = seen[a].id
  /\ row[k(a)].status = "IN_FLIGHT"

(* The conditional update of the takeover still finds the row it read.     *)
StillAbandoned(a) ==
  /\ row[k(a)] # None
  /\ row[k(a)].id = seen[a].id
  /\ row[k(a)].status = "IN_FLIGHT"
  /\ row[k(a)].stamp = seen[a].stamp

TakeOver(a) ==
  /\ pc[a] = "takeover" /\ StillAbandoned(a)
  /\ row' = [row EXCEPT ![k(a)].stamp = a]
  /\ mine' = [mine EXCEPT ![a] = seen[a].id]
  /\ Goto(a, "claimed")
  /\ UNCHANGED <<req, seen, expired, effects, answer>>

TakeOverLost(a) ==
  /\ pc[a] = "takeover" /\ ~StillAbandoned(a)
  /\ Goto(a, "refused")
  /\ UNCHANGED <<req, row, mine, seen, expired, effects, answer>>

-----------------------------------------------------------------------------
(* update({where: {id}}): it names the row by id alone, and fails (rolling *)
(* the transaction back) when the row is gone.                             *)
HoldsRow(a) == row[k(a)] # None /\ row[k(a)].id = mine[a]

Succeed(a) ==
  row' = [row EXCEPT ![k(a)].status = "SUCCEEDED", ![k(a)].result = a]

(* Faulty: the work commits and the row is not flipped with it.            *)
CommitUnrecorded(a) ==
  /\ pc[a] = "claimed" /\ req[a].print \notin Detached
  /\ HoldsRow(a)
  /\ effects' = effects \union {a}
  /\ Goto(a, "committed")
  /\ UNCHANGED <<req, row, mine, seen, expired, answer>>

(* The work and the flip to SUCCEEDED in one transaction.                  *)
CommitWork(a) ==
  /\ pc[a] = "claimed" /\ req[a].print \notin Detached
  /\ HoldsRow(a)
  /\ effects' = effects \union {a}
  /\ Succeed(a)
  /\ Goto(a, "committed")
  /\ UNCHANGED <<req, mine, seen, expired, answer>>

(* A unit of work that ignores the transaction it is handed commits in its *)
(* own, and the flip follows in the outer one.                             *)
CommitDetached(a) ==
  /\ pc[a] = "claimed" /\ req[a].print \in Detached
  /\ effects' = effects \union {a}
  /\ Goto(a, "worked")
  /\ UNCHANGED <<req, row, mine, seen, expired, answer>>

RecordDetached(a) ==
  /\ pc[a] = "worked" /\ HoldsRow(a)
  /\ Succeed(a)
  /\ Goto(a, "committed")
  /\ UNCHANGED <<req, mine, seen, expired, effects, answer>>

(* The work refuses, the transaction times out, or its row is gone.        *)
RollBack(a) ==
  /\ pc[a] \in {"claimed", "worked"}
  /\ Goto(a, "releasing")
  /\ UNCHANGED <<req, row, mine, seen, expired, effects, answer>>

(* The catch block lets the key go, by id and only while IN_FLIGHT; an     *)
(* error of the delete itself is swallowed and the row stays.              *)
ReleaseRow(a) ==
  \/ row' = row
  \/ /\ HoldsRow(a) /\ row[k(a)].status = "IN_FLIGHT"
     /\ row' = [row EXCEPT ![k(a)] = None]

Release(a) ==
  /\ pc[a] = "releasing"
  /\ ReleaseRow(a)
  /\ Goto(a, "refused")
  /\ UNCHANGED <<req, mine, seen, expired, effects, answer>>

Reply(a) ==
  /\ pc[a] = "committed"
  /\ answer' = [answer EXCEPT ![a] = a]
  /\ Goto(a, "answered")
  /\ UNCHANGED <<req, row, mine, seen, expired, effects>>

-----------------------------------------------------------------------------
(* The process dies, or the connection to the client does.                 *)
Crash(a) ==
  /\ pc[a] \notin Over
  /\ Goto(a, "crashed")
  /\ UNCHANGED <<req, row, mine, seen, expired, effects, answer>>

(* LEASE_MS passes since a stamped the row.  A transaction lives at most   *)
(* 7 s (Prisma's defaults: 2 s to start, 5 s to run) of the 60 s lease,    *)
(* so unless Outlives an attempt is done working by then.                  *)
LeaseExpires(a) ==
  /\ a \notin expired
  /\ \E x \in Key : row[x] # None /\ row[x].stamp = a
  /\ Outlives \/ pc[a] \notin {"claimed", "worked"}
  /\ expired' = expired \union {a}
  /\ UNCHANGED <<req, pc, row, mine, seen, effects, answer>>

Step(a) ==
  \/ RunUnkeyed(a) \/ RefuseAtOnce(a)
  \/ Insert(a, "start") \/ InsertRefused(a)
  \/ LookupFindsNothing(a) \/ Insert(a, "retry") \/ RetryRefused(a)
  \/ LookupRefuses(a) \/ Replay(a) \/ LookupFindsAbandoned(a)
  \/ TakeOver(a) \/ TakeOverLost(a)
  \/ CommitWork(a) \/ CommitDetached(a) \/ RecordDetached(a)
  \/ RollBack(a) \/ Release(a) \/ Reply(a)

Next == \E a \in Attempt : Step(a) \/ Crash(a) \/ LeaseExpires(a)

Spec == Init /\ [][Next]_vars

-----------------------------------------------------------------------------
(* Type correctness of the table and of what each attempt carries.         *)
TypeOK ==
  /\ req \in [Attempt -> Request]
  /\ pc \in [Attempt -> Stages]
  /\ row \in [Key -> Row \union {None}]
  /\ mine \in [Attempt -> Attempt \union {None}]
  /\ seen \in [Attempt -> Found \union {None}]
  /\ expired \subseteq Attempt
  /\ effects \subseteq Attempt
  /\ answer \in [Attempt -> Attempt \union {None}]

(* The writes made inside the transaction that flips the row.              *)
Joined(a) == req[a].print \notin Detached
JoinedEffects == {a \in effects : Joined(a)}

(* Of work that joins the transaction it is handed, at most one is ever    *)
(* committed under a key, whatever else is tried under the same key.       *)
JoinedAtMostOnce ==
  \A a, b \in JoinedEffects : k(a) = k(b) /\ k(a) \in Key => a = b

(* "A row still saying IN_FLIGHT is proof the write did not commit": the   *)
(* table and the business data agree about every key, also across crashes, *)
(* as far as work joins the transaction.                                   *)
RowTellsTheTruth ==
  \A x \in Key :
    {a \in JoinedEffects : k(a) = x} =
      {a \in Attempt : row[x] # None /\ row[x].status = "SUCCEEDED"
                       /\ row[x].result = a /\ Joined(a)}

(* Nobody is told of a write that was not carried out, or of somebody      *)
(* else's: an answer names a committed write of the same key, person,      *)
(* route and body.                                                         *)
AnswersAreTrue ==
  \A a \in Attempt : answer[a] # None =>
    /\ answer[a] \in effects
    /\ answer[a] = a \/ (k(a) \in Key /\ req[answer[a]] = req[a])

(* The whole promise: as far as work joins the transaction, the protocol   *)
(* implements the abstract specification.                                  *)
JoinedAnswer == [a \in Attempt |-> IF Joined(a) THEN answer[a] ELSE None]
Once == INSTANCE OnceOnly WITH effects <- JoinedEffects, answer <- JoinedAnswer
ImplementsOnceOnly == Once!Spec
=============================================================================
