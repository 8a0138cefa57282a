----------------------- MODULE WriteOperationsProofs -----------------------
(***************************************************************************)
(* Proofs about WriteOperations, for any number of attempts, keys, people  *)
(* and bodies: the type invariant, and that a key is worked at most once.  *)
(***************************************************************************)
EXTENDS WriteOperations, TLAPS

Fresh == {"start", "lookup", "retry", "takeover"}
Working == {"claimed", "worked"}
Keyed == {"lookup", "retry", "takeover", "claimed", "worked", "releasing"}

(* Only keyed attempts come near the table, and one that means to take a   *)
(* row over has read it.                                                   *)
StageInv ==
  \A a \in Attempt :
    /\ pc[a] \in Keyed => k(a) \in Key
    /\ pc[a] = "takeover" => seen[a] # None

(* A row's id names the attempt that inserted it, which still knows it.    *)
RowInv ==
  \A x \in Key : row[x] # None => mine[row[x].id] = row[x].id

(* An attempt holds no row before it claims one, and only one of its key.  *)
MineInv ==
  \A a \in Attempt :
    /\ pc[a] \in Fresh => mine[a] = None
    /\ pc[a] \in Working => mine[a] # None
    /\ mine[a] # None => mine[mine[a]] = mine[a]

(* A lease that is up belongs to nobody who works, and a row is stamped by *)
(* an attempt that got that far.                                           *)
LeaseInv ==
  \A a \in Attempt :
    /\ pc[a] \in Working => a \notin expired
    /\ pc[a] = "takeover" => seen[a].stamp \in expired
    /\ pc[a] \in Fresh => a \notin expired
    /\ \A x \in Key : row[x] # None /\ row[x].stamp = a => pc[a] \notin Fresh

(* While an attempt works, its row, if still there, is in flight and its.  *)
WorkInv ==
  \A a \in Attempt : pc[a] \in Working /\ HoldsRow(a) =>
    row[k(a)].status = "IN_FLIGHT" /\ row[k(a)].stamp = a

(* A keyed write that joined its transaction is what its row says.         *)
EffectInv ==
  \A a \in JoinedEffects : k(a) \in Key =>
    row[k(a)] # None /\ row[k(a)].status = "SUCCEEDED" /\ row[k(a)].result = a

(* An attempt that holds or is after a row asks for just what it says.     *)
IntentInv ==
  /\ \A x \in Key : row[x] # None =>
       /\ k(row[x].id) = x
       /\ row[x].user = req[row[x].id].user /\ row[x].print = req[row[x].id].print
  /\ \A a \in Attempt :
       /\ mine[a] # None => req[mine[a]] = req[a]
       /\ pc[a] = "takeover" => req[seen[a].id] = req[a]

(* A row that says SUCCEEDED names a write that is in the database.        *)
DoneInv ==
  \A x \in Key : row[x] # None /\ row[x].status = "SUCCEEDED" =>
    row[x].result \in effects /\ req[row[x].result] = req[row[x].id]

(* What an attempt is about to say of itself, it did.                      *)
CommittedInv == \A a \in Attempt : pc[a] \in {"worked", "committed"} => a \in effects

(* Only an attempt that is over has been told anything.                    *)
AnswerInv == \A a \in Attempt : pc[a] # "answered" => answer[a] = None

TypeInv == TypeOK /\ StageInv
IInv ==
  /\ TypeInv /\ RowInv /\ MineInv /\ LeaseInv /\ WorkInv /\ EffectInv
  /\ IntentInv /\ DoneInv /\ CommittedInv /\ AnswerInv

-----------------------------------------------------------------------------
(* The invariant says what is wanted of a key.                             *)
LEMMA EffectsAreSingle == EffectInv => JoinedAtMostOnce
  BY DEF EffectInv, JoinedAtMostOnce, k

(* It holds of an empty table.                                             *)
LEMMA InitInv == Init => IInv
  BY NoneIsApart DEF Init, IInv, TypeInv, TypeOK, StageInv, RowInv, MineInv, LeaseInv,
                     WorkInv, EffectInv, Stages, Keyed, Fresh, Working, HoldsRow, k,
                     IntentInv, DoneInv, CommittedInv, AnswerInv, JoinedEffects

(* Type correctness is kept by every step.                                 *)
LEMMA TypeStep == TypeInv /\ [Next]_vars => TypeInv'
<1> SUFFICES ASSUME TypeInv, [Next]_vars PROVE TypeInv'
  OBVIOUS
<1> USE NoneIsApart DEF TypeInv, TypeOK, StageInv, Goto, Stages, Keyed, k
<1>1. ASSUME UNCHANGED vars PROVE TypeInv'
  BY <1>1 DEF vars
<1>2. ASSUME NEW a \in Attempt, Insert(a, "start") \/ Insert(a, "retry") PROVE TypeInv'
  <2>1. InFlight(a) \in Row
    BY RequestShape DEF InFlight, Row
  <2> QED
    BY <1>2, <2>1 DEF Insert
<1>3. ASSUME NEW a \in Attempt, TakeOver(a) PROVE TypeInv'
  BY <1>3 DEF TakeOver, StillAbandoned, Row, Found
<1>4. ASSUME NEW a \in Attempt, CommitWork(a) \/ RecordDetached(a) PROVE TypeInv'
  BY <1>4 DEF CommitWork, RecordDetached, Succeed, HoldsRow, Row
<1>5. ASSUME NEW a \in Attempt, Release(a) PROVE TypeInv'
  BY <1>5 DEF Release, ReleaseRow
<1>6. ASSUME NEW a \in Attempt, Replay(a) \/ LookupFindsAbandoned(a) PROVE TypeInv'
  BY <1>6 DEF Replay, LookupFindsAbandoned, Row, Found
<1>7. ASSUME NEW a \in Attempt,
             \/ RunUnkeyed(a) \/ RefuseAtOnce(a) \/ InsertRefused(a)
             \/ LookupFindsNothing(a) \/ RetryRefused(a) \/ LookupRefuses(a)
             \/ TakeOverLost(a) \/ CommitDetached(a) \/ RollBack(a) \/ Reply(a)
             \/ Crash(a) \/ LeaseExpires(a)
      PROVE TypeInv'
  BY <1>7 DEF RunUnkeyed, RefuseAtOnce, InsertRefused, LookupFindsNothing, RetryRefused,
              LookupRefuses, TakeOverLost, CommitDetached, RollBack, Reply, Crash, LeaseExpires
<1> QED
  BY <1>1, <1>2, <1>3, <1>4, <1>5, <1>6, <1>7 DEF Next, Step

(* The table and everything an attempt carries keep their types, for any   *)
(* constants and whatever the processes do.                                *)
THEOREM TypeCorrect == Spec => []TypeOK
<1>1. Init => TypeInv
  BY InitInv DEF IInv
<1>2. TypeInv => TypeOK
  BY DEF TypeInv
<1> QED
  BY <1>1, <1>2, TypeStep, PTL DEF Spec
-----------------------------------------------------------------------------
(* Steps that touch neither the table nor anybody's claim.                 *)
Quiet(a) ==
  \/ RunUnkeyed(a) \/ RefuseAtOnce(a) \/ InsertRefused(a) \/ LookupFindsNothing(a)
  \/ RetryRefused(a) \/ LookupRefuses(a) \/ Replay(a) \/ LookupFindsAbandoned(a)
  \/ TakeOverLost(a) \/ CommitDetached(a) \/ RollBack(a) \/ Reply(a) \/ Crash(a)
  \/ LeaseExpires(a)

LEMMA QuietSteps ==
  ASSUME NEW a \in Attempt, Quiet(a)
  PROVE  row' = row /\ mine' = mine /\ req' = req
  BY DEF Quiet, RunUnkeyed, RefuseAtOnce, InsertRefused, LookupFindsNothing, RetryRefused,
         LookupRefuses, Replay, LookupFindsAbandoned, TakeOverLost, CommitDetached,
         RollBack, Reply, Crash, LeaseExpires

LEMMA StepCases ==
  ASSUME [Next]_vars
  PROVE  \/ UNCHANGED vars
         \/ \E a \in Attempt : Quiet(a)
         \/ \E a \in Attempt : Insert(a, "start") \/ Insert(a, "retry")
         \/ \E a \in Attempt : TakeOver(a)
         \/ \E a \in Attempt : CommitWork(a) \/ RecordDetached(a)
         \/ \E a \in Attempt : Release(a)
  BY DEF Next, Step, Quiet

(* What flipping a row to SUCCEEDED changes in the table.                  *)
LEMMA Flip ==
  ASSUME TypeInv, NEW a \in Attempt, CommitWork(a) \/ RecordDetached(a)
  PROVE  /\ k(a) \in Key /\ row[k(a)] \in Row /\ row[k(a)].id = mine[a]
         /\ \A x \in Key : x # k(a) => row'[x] = row[x]
         /\ row'[k(a)] # None
         /\ row'[k(a)].id = row[k(a)].id /\ row'[k(a)].stamp = row[k(a)].stamp
         /\ row'[k(a)].user = row[k(a)].user /\ row'[k(a)].print = row[k(a)].print
         /\ row'[k(a)].status = "SUCCEEDED" /\ row'[k(a)].result = a
         /\ pc' = [pc EXCEPT ![a] = "committed"]
         /\ mine' = mine /\ req' = req /\ seen' = seen /\ expired' = expired
<1>1. k(a) \in Key /\ row[k(a)] \in Row
  BY NoneIsApart DEF TypeInv, TypeOK, StageInv, Keyed, CommitWork, RecordDetached, HoldsRow, k
<1> DEFINE w == row[k(a)]
           new == [row EXCEPT ![k(a)].status = "SUCCEEDED", ![k(a)].result = a]
<1>2. new = [row EXCEPT ![k(a)] = new[k(a)]]
  BY <1>1 DEF TypeInv, TypeOK
<1>3. new[k(a)] = [id |-> w.id, stamp |-> w.stamp, user |-> w.user, print |-> w.print,
                   status |-> "SUCCEEDED", result |-> a]
  BY <1>1 DEF TypeInv, TypeOK, Row
<1>4. new[k(a)] \in Row
  BY <1>1, <1>3 DEF Row
<1> QED
  BY <1>1, <1>2, <1>3, <1>4, NoneIsApart
  DEF TypeInv, TypeOK, CommitWork, RecordDetached, Succeed, HoldsRow, Goto

(* Ids of rows stay known to the attempts they name.                       *)
LEMMA RowStep == TypeInv /\ RowInv /\ MineInv /\ [Next]_vars => RowInv'
<1> SUFFICES ASSUME TypeInv, RowInv, MineInv, [Next]_vars PROVE RowInv'
  OBVIOUS
<1> USE NoneIsApart DEF TypeInv, TypeOK, StageInv, Keyed, Fresh, Working, RowInv, MineInv, k, Row, Found
<1>1. ASSUME UNCHANGED vars PROVE RowInv'
  BY <1>1 DEF vars
<1>2. ASSUME NEW a \in Attempt, Quiet(a) PROVE RowInv'
  BY <1>2, QuietSteps
<1>3. ASSUME NEW a \in Attempt, Insert(a, "start") \/ Insert(a, "retry") PROVE RowInv'
  BY <1>3 DEF Insert, InFlight
<1>4. ASSUME NEW a \in Attempt, TakeOver(a) PROVE RowInv'
  BY <1>4 DEF TakeOver, StillAbandoned
<1>5. ASSUME NEW a \in Attempt, CommitWork(a) \/ RecordDetached(a) PROVE RowInv'
  BY <1>5 DEF CommitWork, RecordDetached, Succeed, HoldsRow
<1>6. ASSUME NEW a \in Attempt, Release(a) PROVE RowInv'
  BY <1>6 DEF Release, ReleaseRow
<1> QED
  BY <1>1, <1>2, <1>3, <1>4, <1>5, <1>6, StepCases

(* An attempt claims at most one row, and remembers whose it was.          *)
LEMMA MineStep == TypeInv /\ RowInv /\ MineInv /\ [Next]_vars => MineInv'
<1> SUFFICES ASSUME TypeInv, RowInv, MineInv, [Next]_vars PROVE MineInv'
  OBVIOUS
<1> USE NoneIsApart DEF TypeInv, TypeOK, StageInv, Keyed, Fresh, Working, RowInv, MineInv, k, Row, Found, Goto, Stages
<1>1. ASSUME UNCHANGED vars PROVE MineInv'
  BY <1>1 DEF vars
<1>2. ASSUME NEW a \in Attempt, Quiet(a) PROVE MineInv'
  <2>1. mine' = mine
    BY <1>2, QuietSteps
  <2>2. \A b \in Attempt : /\ pc'[b] \in Fresh => pc[b] \in Fresh
                           /\ pc'[b] \in Working => pc[b] \in Working
    BY <1>2 DEF Quiet, RunUnkeyed, RefuseAtOnce, InsertRefused, LookupFindsNothing, RetryRefused,
         LookupRefuses, Replay, LookupFindsAbandoned, TakeOverLost, CommitDetached,
         RollBack, Reply, Crash, LeaseExpires
  <2> QED
    BY <2>1, <2>2
<1>3. ASSUME NEW a \in Attempt, Insert(a, "start") \/ Insert(a, "retry") PROVE MineInv'
  BY <1>3 DEF Insert, InFlight
<1>4. ASSUME NEW a \in Attempt, TakeOver(a) PROVE MineInv'
  BY <1>4 DEF TakeOver, StillAbandoned
<1>5. ASSUME NEW a \in Attempt, CommitWork(a) \/ RecordDetached(a) PROVE MineInv'
  BY <1>5 DEF CommitWork, RecordDetached
<1>6. ASSUME NEW a \in Attempt, Release(a) PROVE MineInv'
  BY <1>6 DEF Release
<1> QED
  BY <1>1, <1>2, <1>3, <1>4, <1>5, <1>6, StepCases

(* Within its lease an attempt keeps its stamp: nobody holds a takeover    *)
(* of a lease that is not up.                                              *)
LEMMA LeaseStep ==
  ASSUME ~Outlives, TypeInv, RowInv, MineInv, LeaseInv, [Next]_vars
  PROVE  LeaseInv'
<1> USE NoneIsApart DEF TypeInv, TypeOK, StageInv, Keyed, Fresh, Working, RowInv, MineInv, LeaseInv, k, Row, Found, Goto, Stages
<1>1. ASSUME UNCHANGED vars PROVE LeaseInv'
  BY <1>1 DEF vars
<1>2. ASSUME NEW a \in Attempt, Quiet(a) PROVE LeaseInv'
  <2>1. CASE LeaseExpires(a)
    BY <2>1 DEF LeaseExpires
  <2>2. CASE LookupFindsAbandoned(a)
    BY <2>2 DEF LookupFindsAbandoned, PastLease
  <2>3. CASE ~LeaseExpires(a) /\ ~LookupFindsAbandoned(a)
    <3>1. expired' = expired /\ row' = row /\ seen' = seen
      BY <1>2, <2>3 DEF Quiet, RunUnkeyed, RefuseAtOnce, InsertRefused, LookupFindsNothing,
         RetryRefused, LookupRefuses, Replay, TakeOverLost, CommitDetached, RollBack, Reply, Crash
    <3>2. \A b \in Attempt : /\ pc'[b] \in Fresh => pc[b] \in Fresh
                             /\ pc'[b] \in Working => pc[b] \in Working
                             /\ pc'[b] = "takeover" => pc[b] = "takeover"
      BY <1>2, <2>3 DEF Quiet, RunUnkeyed, RefuseAtOnce, InsertRefused, LookupFindsNothing,
         RetryRefused, LookupRefuses, Replay, TakeOverLost, CommitDetached, RollBack, Reply, Crash
    <3> QED
      BY <3>1, <3>2
  <2> QED
    BY <2>1, <2>2, <2>3
<1>3. ASSUME NEW a \in Attempt, Insert(a, "start") \/ Insert(a, "retry") PROVE LeaseInv'
  BY <1>3 DEF Insert, InFlight
<1>4. ASSUME NEW a \in Attempt, TakeOver(a) PROVE LeaseInv'
  BY <1>4 DEF TakeOver, StillAbandoned
<1>5. ASSUME NEW a \in Attempt, CommitWork(a) \/ RecordDetached(a) PROVE LeaseInv'
  BY <1>5 DEF CommitWork, RecordDetached, Succeed, HoldsRow
<1>6. ASSUME NEW a \in Attempt, Release(a) PROVE LeaseInv'
  BY <1>6 DEF Release, ReleaseRow
<1> QED
  BY <1>1, <1>2, <1>3, <1>4, <1>5, <1>6, StepCases

(* Whoever works under a key works under a row of their own stamp.         *)
LEMMA WorkStep ==
  ASSUME ~Outlives, TypeInv, RowInv, MineInv, LeaseInv, WorkInv, [Next]_vars
  PROVE  WorkInv'
<1> USE NoneIsApart DEF TypeInv, TypeOK, StageInv, Keyed, Fresh, Working, RowInv, MineInv, LeaseInv,
        WorkInv, HoldsRow, k, Row, Found, Goto, Stages
<1>1. ASSUME UNCHANGED vars PROVE WorkInv'
  BY <1>1 DEF vars
<1>2. ASSUME NEW a \in Attempt, Quiet(a) PROVE WorkInv'
  <2>1. row' = row /\ mine' = mine /\ req' = req
    BY <1>2, QuietSteps
  <2>2. \A b \in Attempt : pc'[b] \in Working => pc[b] \in Working
    BY <1>2 DEF Quiet, RunUnkeyed, RefuseAtOnce, InsertRefused, LookupFindsNothing, RetryRefused,
         LookupRefuses, Replay, LookupFindsAbandoned, TakeOverLost, CommitDetached,
         RollBack, Reply, Crash, LeaseExpires
  <2> QED
    BY <2>1, <2>2
<1>3. ASSUME NEW a \in Attempt, Insert(a, "start") \/ Insert(a, "retry") PROVE WorkInv'
  BY <1>3 DEF Insert, InFlight
<1>4. ASSUME NEW a \in Attempt, TakeOver(a) PROVE WorkInv'
  BY <1>4 DEF TakeOver, StillAbandoned
<1>5. ASSUME NEW a \in Attempt, CommitWork(a) \/ RecordDetached(a) PROVE WorkInv'
  BY <1>5 DEF CommitWork, RecordDetached, Succeed
<1>6. ASSUME NEW a \in Attempt, Release(a) PROVE WorkInv'
  BY <1>6 DEF Release, ReleaseRow
<1> QED
  BY <1>1, <1>2, <1>3, <1>4, <1>5, <1>6, StepCases

(* A second commit under a key would find its row already SUCCEEDED.       *)
LEMMA EffectStep ==
  ASSUME TypeInv, RowInv, MineInv, WorkInv, EffectInv, [Next]_vars
  PROVE  EffectInv'
<1> USE NoneIsApart DEF TypeInv, TypeOK, StageInv, Keyed, Working, EffectInv, JoinedEffects, Joined, k, Row, Found
<1>1. ASSUME UNCHANGED vars PROVE EffectInv'
  BY <1>1 DEF vars
<1>2. ASSUME NEW a \in Attempt, Quiet(a) PROVE EffectInv'
  <2>1. row' = row /\ req' = req
    BY <1>2, QuietSteps
  <2>2. \A b \in effects' : b \in effects \/ k(b) = NoKey \/ ~Joined(b)
    BY <1>2 DEF Quiet, RunUnkeyed, RefuseAtOnce, InsertRefused, LookupFindsNothing, RetryRefused,
         LookupRefuses, Replay, LookupFindsAbandoned, TakeOverLost, CommitDetached,
         RollBack, Reply, Crash, LeaseExpires
  <2> QED
    BY <2>1, <2>2, KeysAreApart
<1>3. ASSUME NEW a \in Attempt, Insert(a, "start") \/ Insert(a, "retry") PROVE EffectInv'
  BY <1>3 DEF Insert, InFlight
<1>4. ASSUME NEW a \in Attempt, TakeOver(a) PROVE EffectInv'
  BY <1>4 DEF TakeOver, StillAbandoned
<1>5. ASSUME NEW a \in Attempt, CommitWork(a) \/ RecordDetached(a) PROVE EffectInv'
  BY <1>5 DEF CommitWork, RecordDetached, Succeed, HoldsRow, WorkInv
<1>6. ASSUME NEW a \in Attempt, Release(a) PROVE EffectInv'
  BY <1>6 DEF Release, ReleaseRow, HoldsRow
<1> QED
  BY <1>1, <1>2, <1>3, <1>4, <1>5, <1>6, StepCases

(* Rows and claims keep saying what their attempts asked for.              *)
LEMMA IntentStep ==
  ASSUME TypeInv, RowInv, MineInv, IntentInv, [Next]_vars
  PROVE  IntentInv'
<1> USE NoneIsApart, RequestShape DEF TypeInv, TypeOK, StageInv, Keyed, Fresh, MineInv, IntentInv, k,
        Row, Found, Goto, Stages
<1>1. ASSUME UNCHANGED vars PROVE IntentInv'
  BY <1>1 DEF vars
<1>2. ASSUME NEW a \in Attempt, Quiet(a) PROVE IntentInv'
  <2>1. row' = row /\ mine' = mine /\ req' = req
    BY <1>2, QuietSteps
  <2>2. CASE LookupFindsAbandoned(a)
    BY <2>1, <2>2 DEF LookupFindsAbandoned, Redeemable
  <2>3. CASE ~LookupFindsAbandoned(a)
    <3>1. seen' = seen /\ \A b \in Attempt : pc'[b] = "takeover" => pc[b] = "takeover"
      BY <1>2, <2>3 DEF Quiet, RunUnkeyed, RefuseAtOnce, InsertRefused, LookupFindsNothing,
         RetryRefused, LookupRefuses, Replay, TakeOverLost, CommitDetached, RollBack, Reply,
         Crash, LeaseExpires
    <3> QED
      BY <2>1, <3>1
  <2> QED
    BY <2>2, <2>3
<1>3. ASSUME NEW a \in Attempt, Insert(a, "start") \/ Insert(a, "retry") PROVE IntentInv'
  BY <1>3 DEF Insert, InFlight
<1>4. ASSUME NEW a \in Attempt, TakeOver(a) PROVE IntentInv'
  BY <1>4 DEF TakeOver, StillAbandoned
<1>5. ASSUME NEW a \in Attempt, CommitWork(a) \/ RecordDetached(a) PROVE IntentInv'
  BY <1>5, Flip
<1>6. ASSUME NEW a \in Attempt, Release(a) PROVE IntentInv'
  BY <1>6 DEF Release, ReleaseRow
<1> QED
  BY <1>1, <1>2, <1>3, <1>4, <1>5, <1>6, StepCases

(* SUCCEEDED is written with the work, by the row's own intent.            *)
LEMMA DoneStep ==
  ASSUME TypeInv, RowInv, MineInv, IntentInv, DoneInv, CommittedInv, [Next]_vars
  PROVE  DoneInv' /\ CommittedInv'
<1> USE NoneIsApart DEF TypeInv, TypeOK, StageInv, Keyed, Working, IntentInv, MineInv, DoneInv,
        CommittedInv, k, Row, Found, Goto, Stages
<1>1. ASSUME UNCHANGED vars PROVE DoneInv' /\ CommittedInv'
  BY <1>1 DEF vars
<1>2. ASSUME NEW a \in Attempt, Quiet(a) PROVE DoneInv' /\ CommittedInv'
  <2>1. row' = row /\ mine' = mine /\ req' = req
    BY <1>2, QuietSteps
  <2>2. effects \subseteq effects' /\ CommittedInv'
    BY <1>2 DEF Quiet, RunUnkeyed, RefuseAtOnce, InsertRefused, LookupFindsNothing, RetryRefused,
         LookupRefuses, Replay, LookupFindsAbandoned, TakeOverLost, CommitDetached,
         RollBack, Reply, Crash, LeaseExpires
  <2> QED
    BY <2>1, <2>2
<1>3. ASSUME NEW a \in Attempt, Insert(a, "start") \/ Insert(a, "retry")
      PROVE DoneInv' /\ CommittedInv'
  BY <1>3 DEF Insert, InFlight
<1>4. ASSUME NEW a \in Attempt, TakeOver(a) PROVE DoneInv' /\ CommittedInv'
  BY <1>4 DEF TakeOver, StillAbandoned
<1>5. ASSUME NEW a \in Attempt, CommitWork(a) \/ RecordDetached(a)
      PROVE DoneInv' /\ CommittedInv'
  BY <1>5 DEF CommitWork, RecordDetached, Succeed, HoldsRow
<1>6. ASSUME NEW a \in Attempt, Release(a) PROVE DoneInv' /\ CommittedInv'
  BY <1>6 DEF Release, ReleaseRow
<1> QED
  BY <1>1, <1>2, <1>3, <1>4, <1>5, <1>6, StepCases

(* An answer is given once, at the end.                                    *)
LEMMA AnswerStep == TypeInv /\ AnswerInv /\ [Next]_vars => AnswerInv'
<1> SUFFICES ASSUME TypeInv, AnswerInv, [Next]_vars PROVE AnswerInv'
  OBVIOUS
<1> USE DEF TypeInv, TypeOK, AnswerInv, Goto, Stages, Over
<1>1. ASSUME UNCHANGED vars PROVE AnswerInv'
  BY <1>1 DEF vars
<1>2. ASSUME NEW a \in Attempt, Quiet(a) PROVE AnswerInv'
  BY <1>2 DEF Quiet, RunUnkeyed, RefuseAtOnce, InsertRefused, LookupFindsNothing, RetryRefused,
         LookupRefuses, Replay, LookupFindsAbandoned, TakeOverLost, CommitDetached,
         RollBack, Reply, Crash, LeaseExpires
<1>3. ASSUME NEW a \in Attempt,
             \/ Insert(a, "start") \/ Insert(a, "retry") \/ TakeOver(a)
             \/ CommitWork(a) \/ RecordDetached(a) \/ Release(a)
      PROVE AnswerInv'
  BY <1>3 DEF Insert, TakeOver, CommitWork, RecordDetached, Release
<1> QED
  BY <1>1, <1>2, <1>3, StepCases

-----------------------------------------------------------------------------
(* The whole invariant, when work ends within its lease.                   *)
LEMMA Invariance ==
  ASSUME ~Outlives
  PROVE  Spec => []IInv
<1>1. IInv /\ [Next]_vars => IInv'
  BY TypeStep, RowStep, MineStep, LeaseStep, WorkStep, EffectStep, IntentStep, DoneStep, AnswerStep DEF IInv
<1> QED
  BY <1>1, InitInv, PTL DEF Spec

(* However many attempts are made and wherever they crash, the work of a   *)
(* key is committed at most once: runOnce's promise.                       *)
THEOREM WorkedAtMostOnce ==
  ASSUME ~Outlives
  PROVE  Spec => []JoinedAtMostOnce
<1>1. IInv => JoinedAtMostOnce
  BY EffectsAreSingle DEF IInv
<1> QED
  BY <1>1, Invariance, PTL

(* IN_FLIGHT is proof that nothing was written, and SUCCEEDED that it was: *)
(* the reason a lease may be taken over at all.                            *)
THEOREM StatusIsProof ==
  ASSUME ~Outlives
  PROVE  Spec => []RowTellsTheTruth
<1>1. IInv => RowTellsTheTruth
  BY DEF IInv, TypeInv, TypeOK, IntentInv, EffectInv, DoneInv, RowTellsTheTruth,
         JoinedEffects, k, Row
<1> QED
  BY <1>1, Invariance, PTL

-----------------------------------------------------------------------------
(* What a step adds to the effects and the answers, seen through the eyes  *)
(* of the abstract specification.                                          *)
LEMMA SameView ==
  ASSUME UNCHANGED <<req, effects, answer>>
  PROVE  UNCHANGED Once!vars
  BY DEF Once!vars, JoinedEffects, JoinedAnswer, Joined

LEMMA EffectView ==
  ASSUME TypeInv, NEW a \in Attempt, effects' = effects \union {a}, UNCHANGED <<req, answer>>,
         k(a) = NoKey \/ (\A b \in JoinedEffects : k(b) # k(a)) \/ ~Joined(a)
  PROVE  Once!Perform(a) \/ UNCHANGED Once!vars
<1>1. JoinedAnswer' = JoinedAnswer
  BY DEF JoinedAnswer, Joined
<1>2. JoinedEffects' = JoinedEffects \union (IF Joined(a) THEN {a} ELSE {})
  BY DEF JoinedEffects, Joined
<1>3. CASE Joined(a) /\ a \notin effects
  <2>1. a \notin JoinedEffects /\ JoinedEffects' = JoinedEffects \union {a}
    BY <1>2, <1>3 DEF JoinedEffects
  <2>2. Once!Unkeyed(a) \/ \A b \in JoinedEffects : req[b].key # req[a].key
    BY <1>3 DEF Once!Unkeyed, k
  <2> QED
    BY <1>1, <2>1, <2>2 DEF Once!Perform
<1>4. CASE ~(Joined(a) /\ a \notin effects)
  <2>1. JoinedEffects' = JoinedEffects
    BY <1>2, <1>4 DEF JoinedEffects
  <2> QED
    BY <1>1, <2>1 DEF Once!vars
<1> QED
  BY <1>3, <1>4

LEMMA AnswerView ==
  ASSUME TypeInv, NEW a \in Attempt, NEW b \in effects, answer[a] = None,
         answer' = [answer EXCEPT ![a] = b], UNCHANGED <<req, effects>>,
         a = b \/ (k(a) # NoKey /\ req[a] = req[b])
  PROVE  Once!Reply(a) \/ UNCHANGED Once!vars
<1>1. JoinedEffects' = JoinedEffects /\ answer \in [Attempt -> Attempt \union {None}]
  BY DEF JoinedEffects, Joined, TypeInv, TypeOK
<1>2. CASE Joined(a)
  <2>1. JoinedAnswer[a] = None /\ b \in JoinedEffects
    BY <1>2 DEF JoinedAnswer, JoinedEffects, Joined
  <2>2. JoinedAnswer' = [JoinedAnswer EXCEPT ![a] = b]
    BY <1>1, <1>2 DEF JoinedAnswer, Joined
  <2>3. Once!SameIntent(a, b)
    BY DEF Once!SameIntent, Once!Unkeyed, k
  <2> QED
    BY <1>1, <2>1, <2>2, <2>3 DEF Once!Reply
<1>3. CASE ~Joined(a)
  <2>1. JoinedAnswer' = JoinedAnswer
    BY <1>1, <1>3 DEF JoinedAnswer, Joined
  <2> QED
    BY <1>1, <2>1 DEF Once!vars
<1> QED
  BY <1>2, <1>3

(* Every step of the protocol carries a write out, answers somebody with   *)
(* one, or is invisible to callers.                                        *)
LEMMA StepRefines ==
  ASSUME IInv, [Next]_vars
  PROVE  [Once!Next]_(Once!vars)
<1> USE NoneIsApart, KeysAreApart, RequestShape DEF IInv
<1>1. ASSUME UNCHANGED vars PROVE UNCHANGED Once!vars
  BY <1>1, SameView DEF vars
<1>2. ASSUME NEW a \in Attempt, RunUnkeyed(a) \/ CommitDetached(a)
      PROVE Once!Perform(a) \/ UNCHANGED Once!vars
  BY <1>2, EffectView DEF RunUnkeyed, CommitDetached, Joined
<1>3. ASSUME NEW a \in Attempt, CommitWork(a) PROVE Once!Perform(a) \/ UNCHANGED Once!vars
  <2>1. HoldsRow(a) /\ row[k(a)].status = "IN_FLIGHT" /\ k(a) \in Key
    BY <1>3 DEF CommitWork, WorkInv, Working, TypeInv, StageInv, Keyed
  <2>2. \A b \in JoinedEffects : k(b) # k(a)
    BY <2>1 DEF EffectInv
  <2> QED
    BY <1>3, <2>2, EffectView DEF CommitWork
<1>4. ASSUME NEW a \in Attempt, Replay(a) PROVE Once!Reply(a) \/ UNCHANGED Once!vars
  <2> DEFINE w == row[k(a)]
             b == w.result
  <2>1. k(a) \in Key /\ w \in Row /\ w.status = "SUCCEEDED" /\ Redeemable(a, w)
        /\ answer' = [answer EXCEPT ![a] = b] /\ UNCHANGED <<req, effects>> /\ pc[a] = "lookup"
    BY <1>4 DEF Replay, TypeInv, TypeOK, StageInv, Keyed
  <2>2. b \in effects /\ req[b] = req[w.id] /\ req[w.id].key = k(a)
    BY <2>1 DEF DoneInv, IntentInv, k
  <2>3. w.id \in Attempt /\ req \in [Attempt -> Request]
    BY <2>1 DEF Row, TypeInv, TypeOK
  <2>4. req[w.id] = req[a]
    BY <2>1, <2>2, <2>3 DEF IntentInv, Redeemable, k
  <2>5. k(a) # NoKey /\ answer[a] = None
    BY <2>1 DEF AnswerInv
  <2> QED
    BY <2>1, <2>2, <2>4, <2>5, AnswerView
<1>5. ASSUME NEW a \in Attempt, Reply(a) PROVE Once!Reply(a) \/ UNCHANGED Once!vars
  BY <1>5, AnswerView DEF Reply, CommittedInv, AnswerInv
<1>6. ASSUME NEW a \in Attempt,
             \/ RefuseAtOnce(a) \/ InsertRefused(a) \/ LookupFindsNothing(a)
             \/ RetryRefused(a) \/ LookupRefuses(a) \/ LookupFindsAbandoned(a)
             \/ TakeOverLost(a) \/ RollBack(a) \/ Crash(a) \/ LeaseExpires(a)
             \/ Insert(a, "start") \/ Insert(a, "retry") \/ TakeOver(a)
             \/ RecordDetached(a) \/ Release(a)
      PROVE UNCHANGED Once!vars
  BY <1>6, SameView DEF RefuseAtOnce, InsertRefused, LookupFindsNothing, RetryRefused,
     LookupRefuses, LookupFindsAbandoned, TakeOverLost, RollBack, Crash, LeaseExpires, Insert,
     TakeOver, RecordDetached, Release
<1> QED
  BY <1>1, <1>2, <1>3, <1>4, <1>5, <1>6 DEF Next, Step, Once!Next

(* The protocol implements the promise of OnceOnly, for any number of      *)
(* attempts, crashes and keys: at most one write per key, and no answer    *)
(* but the caller's own write.                                             *)
THEOREM Implements ==
  ASSUME ~Outlives
  PROVE  Spec => ImplementsOnceOnly
<1>1. Init => Once!Init
  BY DEF Init, Once!Init, JoinedEffects, JoinedAnswer
<1>2. IInv /\ [Next]_vars => [Once!Next]_(Once!vars)
  BY StepRefines
<1> QED
  BY <1>1, <1>2, Invariance, PTL DEF Spec, ImplementsOnceOnly, Once!Spec

-----------------------------------------------------------------------------
(* What an attempt was told stays true: requests do not change and writes  *)
(* are not undone; and a new answer is read in a row that says SUCCEEDED,  *)
(* or is about one's own write.                                            *)
LEMMA TruthStep ==
  ASSUME TypeInv, IntentInv, DoneInv, CommittedInv, AnswersAreTrue, [Next]_vars
  PROVE  AnswersAreTrue'
<1> DEFINE True(a, b) == b \in effects /\ (b = a \/ (k(a) \in Key /\ req[b] = req[a]))
<1>1. req' = req /\ effects \subseteq effects'
  BY DEF Next, Step, vars, RunUnkeyed, RefuseAtOnce, Insert, InsertRefused, LookupFindsNothing,
         RetryRefused, LookupRefuses, Replay, LookupFindsAbandoned, TakeOver, TakeOverLost,
         CommitWork, CommitDetached, RecordDetached, RollBack, Release, Reply, Crash, LeaseExpires
<1>2. ASSUME NEW a \in Attempt, NEW b, answer' = [answer EXCEPT ![a] = b], True(a, b)
      PROVE  AnswersAreTrue'
  BY <1>1, <1>2 DEF AnswersAreTrue, TypeInv, TypeOK, k
<1>3. ASSUME NEW a \in Attempt, Replay(a) PROVE AnswersAreTrue'
  <2> DEFINE w == row[k(a)]
             b == w.result
  <2>1. k(a) \in Key /\ w \in Row /\ w # None /\ w.status = "SUCCEEDED" /\ Redeemable(a, w)
        /\ answer' = [answer EXCEPT ![a] = b]
    BY <1>3, NoneIsApart DEF Replay, TypeInv, TypeOK, StageInv, Keyed
  <2>2. b \in effects /\ req[b] = req[w.id] /\ req[w.id].key = k(a)
    BY <2>1 DEF DoneInv, IntentInv, k
  <2>3. w.id \in Attempt /\ req \in [Attempt -> Request]
    BY <2>1 DEF Row, TypeInv, TypeOK
  <2>4. req[w.id] = req[a]
    BY <2>1, <2>2, <2>3, RequestShape DEF IntentInv, Redeemable, k
  <2> QED
    BY <1>2, <2>1, <2>2, <2>4
<1>4. ASSUME NEW a \in Attempt, Reply(a) PROVE AnswersAreTrue'
  BY <1>2, <1>4 DEF Reply, CommittedInv
<1>5. ASSUME answer' = answer PROVE AnswersAreTrue'
  BY <1>1, <1>5 DEF AnswersAreTrue, k
<1>6. (\E a \in Attempt : Replay(a) \/ Reply(a)) \/ answer' = answer
  BY DEF Next, Step, vars, RunUnkeyed, RefuseAtOnce, Insert, InsertRefused, LookupFindsNothing,
         RetryRefused, LookupRefuses, LookupFindsAbandoned, TakeOver, TakeOverLost,
         CommitWork, CommitDetached, RecordDetached, RollBack, Release, Crash, LeaseExpires
<1> QED
  BY <1>3, <1>4, <1>5, <1>6

(* Nobody is ever told of a write that was not carried out, or of somebody *)
(* else's; not even where an attempt outlives its lease.                   *)
THEOREM ToldTheTruth == Spec => []AnswersAreTrue
<1> DEFINE Told == TypeInv /\ RowInv /\ MineInv /\ IntentInv /\ DoneInv /\ CommittedInv /\ AnswersAreTrue
<1>1. Init => Told
  BY InitInv DEF IInv, AnswersAreTrue, Init
<1>2. Told /\ [Next]_vars => Told'
  BY TypeStep, RowStep, MineStep, IntentStep, DoneStep, TruthStep
<1>3. Told => AnswersAreTrue
  OBVIOUS
<1> QED
  BY <1>1, <1>2, <1>3, PTL DEF Spec
=============================================================================
