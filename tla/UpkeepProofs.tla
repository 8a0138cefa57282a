---------------------------- MODULE UpkeepProofs ----------------------------
(***************************************************************************)
(* Proofs about Upkeep, for any number of shelves, checks, clerks,         *)
(* replicas, records, categories, items, files, editors, callers, hours    *)
(* and days: one low-stock alert for a breach, one week of reminders for a *)
(* record, categories that form a tree, lists whose answers are recent,    *)
(* and cards, variants, codes and pictures that keep to their rules.       *)
(***************************************************************************)
EXTENDS Upkeep, FiniteSetTheorems, TLAPS

(* The low-stock checks: their types, and that as long as a shelf is low   *)
(* the alerts sent for it, the checks about to send or to re-arm and a     *)
(* latch that is not set are within one more than what was carried over.   *)
CheckType == [shelf : Shelf, does : {"read", "rearm", "latch", "send"}]

AlertTypes ==
  /\ checks \in [Check -> CheckType \union {Nothing}]
  /\ latch \in [Shelf -> BOOLEAN]
  /\ told \in [Shelf -> Nat] /\ carried \in [Shelf -> Nat]

Unlatched(s) == IF latch[s] THEN 0 ELSE 1
Owed(s) == Cardinality(Late(s)) + Unlatched(s)
AlertsPaidFor == \A s \in Shelf : Low(s) => told[s] + Owed(s) <= 1 + carried[s]

AlertInv == AlertTypes /\ AlertsPaidFor

LEMMA LateFinite ==
  \A s : /\ IsFiniteSet(Late(s)) /\ Cardinality(Late(s)) \in Nat
         /\ IsFiniteSet(Late(s)') /\ Cardinality(Late(s)') \in Nat
<1> TAKE s
<1>1. Late(s) \in SUBSET Check /\ Late(s)' \in SUBSET Check
  BY DEF Late
<1> QED BY <1>1, ChecksAreFinite, FS_Subset, FS_CardinalityType

(* A step that writes no stock.                                            *)
LEMMA NothingWritten ==
  ASSUME AlertInv, UNCHANGED <<stock, minimum, told, carried>>,
         \A s \in Shelf : Low(s) => Owed(s)' <= Owed(s)
  PROVE  AlertsPaidFor'
<1> SUFFICES ASSUME NEW s \in Shelf, Low(s) PROVE told[s] + Owed(s)' <= 1 + carried[s]
  BY DEF AlertsPaidFor, Low
<1>1. told[s] + Owed(s) <= 1 + carried[s] /\ Owed(s)' <= Owed(s)
  BY DEF AlertInv, AlertsPaidFor
<1>2. told[s] \in Nat /\ carried[s] \in Nat /\ Owed(s) \in Nat /\ Owed(s)' \in Nat
  BY LateFinite DEF AlertInv, AlertTypes, Owed, Unlatched
<1> QED BY <1>1, <1>2

(* A step that writes stock, and starts checks at most.                    *)
LEMMA StockWritten ==
  ASSUME AlertInv, latch' = latch, Breached, checks' \in [Check -> CheckType \union {Nothing}],
         \A s \in Shelf : Late(s)' \subseteq Late(s)
  PROVE  AlertInv'
<1>1. AlertTypes'
  BY LateFinite DEF AlertInv, AlertTypes, Breached
<1>2. ASSUME NEW s \in Shelf, Low(s)' PROVE told'[s] + Owed(s)' <= 1 + carried'[s]
  <2>1. Cardinality(Late(s)') <= Cardinality(Late(s)) /\ Unlatched(s)' = Unlatched(s) /\ Unlatched(s) \in {0, 1}
    BY LateFinite, FS_Subset DEF Unlatched
  <2>2. Cardinality(Late(s)') \in Nat /\ Cardinality(Late(s)) \in Nat /\ told[s] \in Nat /\ carried[s] \in Nat
    BY LateFinite DEF AlertInv, AlertTypes
  <2>3. CASE Low(s)
    <3>1. told'[s] = told[s] /\ carried'[s] = carried[s]
      BY <2>3 DEF Breached
    <3>2. told[s] + Owed(s) <= 1 + carried[s]
      BY <2>3 DEF AlertInv, AlertsPaidFor
    <3> QED BY <2>1, <2>2, <3>1, <3>2 DEF Owed
  <2>4. CASE ~Low(s)
    <3>1. told'[s] = 0 /\ carried'[s] = Cardinality(Late(s))
      BY <1>2, <2>4 DEF Breached
    <3> QED BY <2>1, <2>2, <3>1 DEF Owed
  <2> QED BY <2>3, <2>4
<1> QED BY <1>1, <1>2 DEF AlertInv, AlertsPaidFor

LEMMA AlertInit == Init => AlertInv
<1> SUFFICES ASSUME Init PROVE AlertInv
  OBVIOUS
<1>1. /\ latch = [s \in Shelf |-> FALSE]
      /\ told = [s \in Shelf |-> 0] /\ carried = [s \in Shelf |-> 0]
  BY DEF Init, AlertsInit, AlertsAtRest
<1>2. /\ checks \in [Check -> CheckType \union {Nothing}]
      /\ \A k \in Check : checks[k] = Nothing \/ checks[k].does = "read"
  BY ShelvesAndBounds DEF Init, AlertsInit, AlertsAtRest, CheckType
<1>3. \A s : Late(s) = {}
  BY <1>2 DEF Late
<1>4. Cardinality({}) = 0
  BY FS_EmptySet
<1>5. \A s \in Shelf : Owed(s) = 1
  BY <1>1, <1>3, <1>4 DEF Owed, Unlatched
<1> QED BY <1>1, <1>2, <1>5 DEF AlertInv, AlertTypes, AlertsPaidFor

(* A check that starts only reads.                                         *)
LEMMA CheckedReads ==
  ASSUME AlertTypes, NEW s \in Shelf, Checked(s)
  PROVE  /\ checks' \in [Check -> CheckType \union {Nothing}]
         /\ \A t \in Shelf : Late(t)' \subseteq Late(t)
<1>1. PICK k \in Check : checks' = [checks EXCEPT ![k] = [shelf |-> s, does |-> "read"]]
  BY DEF Checked
<1>2. checks' \in [Check -> CheckType \union {Nothing}]
  BY <1>1 DEF AlertTypes, CheckType
<1>3. ASSUME NEW t \in Shelf, NEW c \in Late(t)'
      PROVE  c \in Late(t)
  <2>1. c # k
    BY <1>1, <1>3 DEF Late, AlertTypes
  <2> QED BY <1>1, <1>3, <2>1 DEF Late, AlertTypes
<1> QED BY <1>2, <1>3

(* What becomes of one check changes nothing for the other shelves.        *)
LEMMA OneCheck ==
  ASSUME AlertTypes, NEW k \in Check, checks[k] # Nothing, NEW does \in {"rest", "rearm", "latch", "send"},
         Becomes(k, does), NEW s \in Shelf, s = checks[k].shelf
  PROVE  /\ checks' \in [Check -> CheckType \union {Nothing}]
         /\ \A t \in Shelf : t # s => Late(t)' \subseteq Late(t)
         /\ Late(s)' \subseteq Late(s) \union {k}
         /\ does \in {"rest", "latch"} => Late(s)' \subseteq Late(s) \ {k}
<1>1. checks[k] \in CheckType
  BY DEF AlertTypes
<1>2. PICK c : c = [checks[k] EXCEPT !.does = does]
  OBVIOUS
<1>3. c.shelf = s /\ c.does = does /\ (does # "rest" => c \in CheckType)
  BY <1>1, <1>2 DEF CheckType
<1>4. checks' = [checks EXCEPT ![k] = IF does = "rest" THEN Nothing ELSE c]
  BY <1>2 DEF Becomes
<1>5. checks' \in [Check -> CheckType \union {Nothing}]
  BY <1>3, <1>4 DEF AlertTypes
<1>6. \A t \in Shelf : \A d \in Late(t)' : d \in Late(t) \/ (d = k /\ t = s /\ does \notin {"rest", "latch"})
  BY <1>3, <1>4 DEF Late, AlertTypes
<1>7. does \in {"rest", "latch"} => k \notin Late(s)'
  BY <1>1, <1>3, <1>4 DEF Late, AlertTypes
<1> QED BY <1>5, <1>6, <1>7

LEMMA AlertStep ==
  ASSUME AlertInv, AlertsNext
  PROVE  AlertInv'
<1>1. AlertTypes /\ AlertsPaidFor
  BY DEF AlertInv
<1>2. ASSUME NEW s \in Shelf, Checked(s), latch' = latch, Breached
      PROVE  AlertInv'
  BY <1>1, <1>2, CheckedReads, StockWritten
<1>3. ASSUME UNCHANGED <<checks, latch>>, Breached
      PROVE  AlertInv'
  BY <1>1, <1>3, StockWritten DEF AlertTypes, Late
<1>4. ASSUME NEW k \in Check, checks[k] # Nothing, NEW does \in {"rest", "rearm", "latch", "send"}, Becomes(k, does),
             NEW s \in Shelf, s = checks[k].shelf,
             UNCHANGED <<stock, minimum, carried>>, latch' \in [Shelf -> BOOLEAN], told' \in [Shelf -> Nat],
             \A t \in Shelf : t # s => latch'[t] = latch[t] /\ told'[t] = told[t],
             Low(s) => told'[s] + Owed(s)' <= told[s] + Owed(s)
      PROVE  AlertInv'
  <2>1. /\ checks' \in [Check -> CheckType \union {Nothing}]
        /\ \A t \in Shelf : t # s => Late(t)' \subseteq Late(t)
    BY <1>1, <1>4, OneCheck
  <2>2. AlertTypes'
    BY <1>1, <1>4, <2>1 DEF AlertTypes
  <2>3. ASSUME NEW t \in Shelf, Low(t) PROVE told'[t] + Owed(t)' <= 1 + carried[t]
    <3>1. /\ told[t] \in Nat /\ told'[t] \in Nat /\ carried[t] \in Nat
          /\ Owed(t) \in Nat /\ Owed(t)' \in Nat
      BY <1>1, <1>4, LateFinite DEF AlertTypes, Owed, Unlatched
    <3>2. told[t] + Owed(t) <= 1 + carried[t]
      BY <1>1, <2>3 DEF AlertsPaidFor
    <3>3. told'[t] + Owed(t)' <= told[t] + Owed(t)
      <4>1. CASE t = s
        BY <1>4, <2>3, <4>1
      <4>2. CASE t # s
        <5>1. Cardinality(Late(t)') <= Cardinality(Late(t)) /\ Unlatched(t)' = Unlatched(t) /\ told'[t] = told[t]
          BY <1>4, <2>1, <4>2, LateFinite, FS_Subset DEF Unlatched
        <5>2. Cardinality(Late(t)') \in Nat /\ Cardinality(Late(t)) \in Nat /\ Unlatched(t) \in {0, 1}
          BY LateFinite DEF Unlatched
        <5> QED BY <3>1, <5>1, <5>2 DEF Owed
      <4> QED BY <4>1, <4>2
    <3> QED BY <3>1, <3>2, <3>3
  <2>4. \A t \in Shelf : Low(t)' <=> Low(t)
    BY <1>4 DEF Low
  <2> QED BY <1>4, <2>2, <2>3, <2>4 DEF AlertInv, AlertsPaidFor
<1>5. ASSUME NEW k \in Check, Evaluate(k)
      PROVE  AlertInv'
  <2>1. PICK s \in Shelf : s = checks[k].shelf
    BY <1>1, <1>5 DEF Evaluate, Doing, AlertTypes, CheckType
  <2>2. PICK does \in {"rest", "latch", "rearm"} :
          does = IF minimum = Nothing THEN "rest"
                 ELSE IF stock[s] <= minimum THEN IF latch[s] THEN "rest" ELSE "latch"
                 ELSE IF latch[s] THEN "rearm" ELSE "rest"
    OBVIOUS
  <2>3. Becomes(k, does) /\ checks[k] # Nothing /\ UNCHANGED <<stock, minimum, latch, told, carried>>
    BY <1>5, <2>1, <2>2 DEF Evaluate, Doing
  <2>4. ASSUME Low(s) PROVE told'[s] + Owed(s)' <= told[s] + Owed(s)
    <3>1. does \in {"rest", "latch"}
      BY <2>2, <2>4 DEF Low
    <3>2. Late(s)' \subseteq Late(s) 
      BY <1>1, <2>1, <2>3, <3>1, OneCheck
    <3>3. Cardinality(Late(s)') <= Cardinality(Late(s)) /\ Unlatched(s)' = Unlatched(s)
      BY <2>3, <3>2, LateFinite, FS_Subset DEF Unlatched
    <3>4. told[s] \in Nat /\ Cardinality(Late(s)') \in Nat /\ Cardinality(Late(s)) \in Nat /\ Unlatched(s) \in {0, 1}
      BY <1>1, <3>2, LateFinite DEF AlertTypes, Unlatched
    <3> QED BY <2>3, <3>3, <3>4 DEF Owed
  <2>5. latch' \in [Shelf -> BOOLEAN] /\ told' \in [Shelf -> Nat]
    BY <1>1, <2>3 DEF AlertTypes
  <2> QED BY <1>4, <2>1, <2>3, <2>4, <2>5
<1>6. ASSUME NEW k \in Check, Rearm(k)
      PROVE  AlertInv'
  <2>1. PICK s \in Shelf : s = checks[k].shelf
    BY <1>1, <1>6 DEF Rearm, Doing, AlertTypes, CheckType
  <2>2. /\ Becomes(k, "rest") /\ checks[k] # Nothing /\ UNCHANGED <<stock, minimum, told, carried>>
        /\ latch' = [latch EXCEPT ![s] = FALSE] /\ k \in Late(s)
    BY <1>6, <2>1 DEF Rearm, Doing, Late
  <2>3. Late(s)' \subseteq Late(s) \ {k}
    BY <1>1, <2>1, <2>2, OneCheck
  <2>4. Cardinality(Late(s)') + 1 <= Cardinality(Late(s))
    <3>1. Cardinality(Late(s) \ {k}) = Cardinality(Late(s)) - 1 /\ IsFiniteSet(Late(s) \ {k})
      BY <2>2, LateFinite, FS_RemoveElement, FS_Subset
    <3>2. Cardinality(Late(s)') <= Cardinality(Late(s) \ {k})
      BY <2>3, <3>1, FS_Subset
    <3> QED BY <3>1, <3>2, LateFinite
  <2>5. told[s] \in Nat /\ Cardinality(Late(s)') \in Nat /\ Cardinality(Late(s)) \in Nat
        /\ Unlatched(s) \in {0, 1} /\ Unlatched(s)' \in {0, 1}
    BY <1>1, LateFinite DEF AlertTypes, Unlatched
  <2>6. told'[s] + Owed(s)' <= told[s] + Owed(s)
    BY <2>2, <2>4, <2>5 DEF Owed
  <2>7. /\ latch' \in [Shelf -> BOOLEAN] /\ told' \in [Shelf -> Nat]
        /\ \A t \in Shelf : t # s => latch'[t] = latch[t] /\ told'[t] = told[t]
    BY <1>1, <2>2 DEF AlertTypes
  <2> QED BY <1>4, <2>1, <2>2, <2>6, <2>7
<1>7. ASSUME NEW k \in Check, Latch(k)
      PROVE  AlertInv'
  <2>1. PICK s \in Shelf : s = checks[k].shelf
    BY <1>1, <1>7 DEF Latch, Doing, AlertTypes, CheckType
  <2>2. PICK does \in {"rest", "send"} : does = IF latch[s] THEN "rest" ELSE "send"
    OBVIOUS
  <2>3. /\ Becomes(k, does) /\ checks[k] # Nothing /\ UNCHANGED <<stock, minimum, told, carried>>
        /\ latch' = [latch EXCEPT ![s] = TRUE] /\ k \notin Late(s)
    BY <1>7, <2>1, <2>2 DEF Latch, Doing, Late
  <2>4. told[s] \in Nat /\ Cardinality(Late(s)') \in Nat /\ Cardinality(Late(s)) \in Nat /\ latch[s] \in BOOLEAN
        /\ Unlatched(s)' = 0
    BY <1>1, <2>3, LateFinite DEF AlertTypes, Unlatched
  <2>7. /\ latch' \in [Shelf -> BOOLEAN] /\ told' \in [Shelf -> Nat]
        /\ \A t \in Shelf : t # s => latch'[t] = latch[t] /\ told'[t] = told[t]
    BY <1>1, <2>3 DEF AlertTypes
  <2>5. CASE latch[s]
    <3>1. Late(s)' \subseteq Late(s)
      BY <1>1, <2>1, <2>2, <2>3, <2>5, OneCheck
    <3>2. Cardinality(Late(s)') <= Cardinality(Late(s)) /\ Unlatched(s) = 0
      BY <2>5, <3>1, LateFinite, FS_Subset DEF Unlatched
    <3>3. told'[s] + Owed(s)' <= told[s] + Owed(s)
      BY <2>3, <2>4, <3>2 DEF Owed
    <3> QED BY <1>4, <2>1, <2>3, <2>7, <3>3
  <2>6. CASE ~latch[s]
    <3>1. Late(s)' \subseteq Late(s) \union {k}
      BY <1>1, <2>1, <2>3, OneCheck
    <3>2. Cardinality(Late(s) \union {k}) = Cardinality(Late(s)) + 1 /\ IsFiniteSet(Late(s) \union {k})
      BY <2>3, LateFinite, FS_AddElement
    <3>3. Cardinality(Late(s)') <= Cardinality(Late(s)) + 1 /\ Unlatched(s) = 1
      BY <2>6, <3>1, <3>2, FS_Subset DEF Unlatched
    <3>4. told'[s] + Owed(s)' <= told[s] + Owed(s)
      BY <2>3, <2>4, <3>3 DEF Owed
    <3> QED BY <1>4, <2>1, <2>3, <2>7, <3>4
  <2> QED BY <2>5, <2>6
<1>8. ASSUME NEW k \in Check, Send(k)
      PROVE  AlertInv'
  <2>1. PICK s \in Shelf : s = checks[k].shelf
    BY <1>1, <1>8 DEF Send, Doing, AlertTypes, CheckType
  <2>2. /\ Becomes(k, "rest") /\ checks[k] # Nothing /\ UNCHANGED <<stock, minimum, latch, carried>>
        /\ told' = [told EXCEPT ![s] = @ + 1] /\ k \in Late(s)
    BY <1>8, <2>1 DEF Send, Doing, Late
  <2>3. Late(s)' \subseteq Late(s) \ {k}
    BY <1>1, <2>1, <2>2, OneCheck
  <2>4. Cardinality(Late(s)') + 1 <= Cardinality(Late(s))
    <3>1. Cardinality(Late(s) \ {k}) = Cardinality(Late(s)) - 1 /\ IsFiniteSet(Late(s) \ {k})
      BY <2>2, LateFinite, FS_RemoveElement, FS_Subset
    <3>2. Cardinality(Late(s)') <= Cardinality(Late(s) \ {k})
      BY <2>3, <3>1, FS_Subset
    <3> QED BY <3>1, <3>2, LateFinite
  <2>5. told[s] \in Nat /\ Cardinality(Late(s)') \in Nat /\ Cardinality(Late(s)) \in Nat
        /\ Unlatched(s) \in {0, 1} /\ Unlatched(s)' = Unlatched(s) /\ told'[s] = told[s] + 1
    BY <1>1, <2>2, LateFinite DEF AlertTypes, Unlatched
  <2>6. told'[s] + Owed(s)' <= told[s] + Owed(s)
    BY <2>4, <2>5 DEF Owed
  <2>7. /\ latch' \in [Shelf -> BOOLEAN] /\ told' \in [Shelf -> Nat]
        /\ \A t \in Shelf : t # s => latch'[t] = latch[t] /\ told'[t] = told[t]
    BY <1>1, <2>2, <2>5 DEF AlertTypes
  <2> QED BY <1>4, <2>1, <2>2, <2>6, <2>7
<1>9. CASE StopChecks
  <2>1. checks' = [k \in Check |-> Nothing] /\ UNCHANGED <<stock, minimum, latch, told, carried>>
    BY <1>9 DEF StopChecks
  <2>2. ASSUME NEW t \in Shelf PROVE Owed(t)' <= Owed(t)
    <3>1. Late(t)' \subseteq Late(t) /\ Unlatched(t)' = Unlatched(t) /\ Unlatched(t) \in {0, 1}
      BY <2>1 DEF Late, Unlatched
    <3>2. Cardinality(Late(t)') <= Cardinality(Late(t))
      BY <3>1, LateFinite, FS_Subset
    <3> QED BY <3>1, <3>2, LateFinite DEF Owed
  <2>3. AlertTypes'
    BY <1>1, <2>1 DEF AlertTypes
  <2> QED BY <2>1, <2>2, <2>3, NothingWritten DEF AlertInv
<1>10. ASSUME NEW s \in Shelf, TakeStock(s) \/ BringStock(s)
       PROVE  AlertInv'
  BY <1>2, <1>3, <1>10 DEF TakeStock, BringStock
<1>11. ASSUME NEW c \in Clerk, WriteMovement(c)
       PROVE  AlertInv'
  BY <1>2, <1>11, ShelvesAndBounds DEF WriteMovement
<1>12. CASE UpdateItem
  BY <1>2, <1>12, ShelvesAndBounds DEF UpdateItem
<1>13. CASE UNCHANGED <<stock, minimum, latch, checks, told, carried>>
  BY <1>13 DEF AlertInv, AlertTypes, AlertsPaidFor, Low, Owed, Late, Unlatched
<1>14. ASSUME NEW c \in Clerk, EnterMovement(c)
       PROVE  AlertInv'
  BY <1>13, <1>14 DEF EnterMovement
<1> QED BY <1>5, <1>6, <1>7, <1>8, <1>9, <1>10, <1>11, <1>12, <1>14 DEF AlertsNext

LEMMA AlertKept == AlertInv /\ [Next]_vars => AlertInv'
<1> SUFFICES ASSUME AlertInv, [Next]_vars PROVE AlertInv'
  OBVIOUS
<1>1. CASE AlertsNext
  BY <1>1, AlertStep
<1>2. CASE UNCHANGED alertVars
  BY <1>2 DEF alertVars, AlertInv, AlertTypes, AlertsPaidFor, Low, Owed, Late, Unlatched
<1>3. AlertsNext \/ UNCHANGED alertVars
  BY DEF Next, vars
<1> QED BY <1>1, <1>2, <1>3

(* "Already alerted for this breach - stay quiet until stock recovers":    *)
(* one alert while a shelf stays low, for any number of checks at once and *)
(* wherever they stop, and at most one more for each check that was about  *)
(* to re-arm the shelf or to send when the shelf fell; where none was, the *)
(* comment holds as it stands.                                             *)
THEOREM AlertedOncePerBreach == Spec => []OncePerBreach
<1>1. AlertInv => OncePerBreach
  <2> SUFFICES ASSUME AlertInv, NEW s \in Shelf, Low(s) PROVE told[s] <= 1 + carried[s]
    BY DEF OncePerBreach
  <2>1. told[s] \in Nat /\ carried[s] \in Nat /\ Owed(s) \in Nat
    BY LateFinite DEF AlertInv, AlertTypes, Owed, Unlatched
  <2>2. told[s] + Owed(s) <= 1 + carried[s]
    BY DEF AlertInv, AlertsPaidFor
  <2> QED BY <2>1, <2>2
<1> QED BY <1>1, AlertInit, AlertKept, PTL DEF Spec

-----------------------------------------------------------------------------
(* The reminders.  Which days a record is found on is fixed by its dates;  *)
(* whether it is still open only decides if it is looked for at all.       *)
KindNo == 1..3
Class(n, day) ==
  LET days == yerevanDays(day)
  IN  IF record.kind # Kinds[n] THEN "no"
      ELSE CASE n = 1 -> maintenanceDue(record, days)
             [] n = 2 -> assetsDueBack(record, days)
             [] OTHER -> receiptsUnconfirmed(record, days)

LEMMA DueIsClass == \A n, day : Due(n, yerevanDays(day)) \in {"no", Class(n, day)}
  BY DEF Due, Class

RunType == [day : 0..MaxToday, at : KindNo,
            due : {"unread", "early", "late", "tell early", "tell late"}]

ReminderTypes ==
  /\ record \in Record /\ today \in 0..MaxToday
  /\ runs \in [Replica -> RunType \union {NoRun}]
  /\ early \in [KindNo -> Nat] /\ late \in [KindNo -> Nat]

(* The days marked for a kind of record, on which it was found as `class'. *)
Marked(n, class) == {day \in 0..MaxToday : <<Kinds[n], day>> \in markers /\ Class(n, day) = class}
Telling(n, due) == {r \in Replica : runs[r] # NoRun /\ runs[r].at = n /\ runs[r].due = due}

(* What a run found is so, and every reminder sent or about to be sent has *)
(* a day of its own.                                                       *)
FoundIsSo ==
  \A r \in Replica : runs[r] # NoRun =>
    /\ runs[r].due \in {"early", "tell early"} => Class(runs[r].at, runs[r].day) = "early"
    /\ runs[r].due \in {"late", "tell late"} => Class(runs[r].at, runs[r].day) = "late"
DaysPaidFor ==
  \A n \in KindNo :
    /\ early[n] + Cardinality(Telling(n, "tell early")) <= Cardinality(Marked(n, "early"))
    /\ late[n] + Cardinality(Telling(n, "tell late")) <= Cardinality(Marked(n, "late"))

ReminderInv == ReminderTypes /\ FoundIsSo /\ DaysPaidFor

LEMMA CountsFinite ==
  ASSUME NEW n, NEW w
  PROVE  /\ IsFiniteSet(Telling(n, w)) /\ Cardinality(Telling(n, w)) \in Nat
         /\ IsFiniteSet(Marked(n, w)) /\ Cardinality(Marked(n, w)) \in Nat
<1>1. Telling(n, w) \in SUBSET Replica /\ Marked(n, w) \in SUBSET (0..MaxToday)
  BY DEF Telling, Marked
<1>2. IsFiniteSet(0..MaxToday)
  BY ReminderBounds, FS_Interval
<1> QED BY <1>1, <1>2, ReplicasAreFinite, FS_Subset, FS_CardinalityType

LEMMA MarkedStaysFinite ==
  ASSUME NEW n, NEW w
  PROVE  IsFiniteSet(Marked(n, w)') /\ Cardinality(Marked(n, w)') \in Nat
<1>1. Marked(n, w)' \in SUBSET (0..MaxToday)
  BY DEF Marked
<1>2. IsFiniteSet(0..MaxToday)
  BY ReminderBounds, FS_Interval
<1> QED BY <1>1, <1>2, FS_Subset, FS_CardinalityType

LEMMA ReminderInit == Init => ReminderInv
<1> SUFFICES ASSUME Init PROVE ReminderInv
  OBVIOUS
<1>1. RemindersInit
  BY DEF Init, RemindersAtRest
<1>2. ReminderTypes /\ FoundIsSo
  BY <1>1, ReminderBounds DEF RemindersInit, ReminderTypes, FoundIsSo, KindNo
<1>3. \A n, w : Telling(n, w) = {}
  BY <1>1 DEF RemindersInit, Telling
<1>4. \A n \in KindNo : early[n] = 0 /\ late[n] = 0
  BY <1>1 DEF RemindersInit, KindNo
<1>5. \A n, w : Cardinality(Telling(n, w)) = 0 /\ Cardinality(Marked(n, w)) \in Nat
  BY <1>3, CountsFinite, FS_EmptySet
<1>6. DaysPaidFor
  <2> SUFFICES ASSUME NEW n \in KindNo
               PROVE  /\ early[n] + Cardinality(Telling(n, "tell early")) <= Cardinality(Marked(n, "early"))
                      /\ late[n] + Cardinality(Telling(n, "tell late")) <= Cardinality(Marked(n, "late"))
    BY DEF DaysPaidFor
  <2>1. /\ Cardinality(Telling(n, "tell early")) = 0 /\ Cardinality(Telling(n, "tell late")) = 0
        /\ Cardinality(Marked(n, "early")) \in Nat /\ Cardinality(Marked(n, "late")) \in Nat
    BY <1>5
  <2>2. early[n] = 0 /\ late[n] = 0
    BY <1>4
  <2>3. \A m \in Nat : 0 + 0 <= m
    OBVIOUS
  <2> QED BY <2>1, <2>2, <2>3, Zenon
<1> QED BY <1>2, <1>6 DEF ReminderInv

(* Nothing more is told and no marker goes.                                *)
LEMMA NothingTold ==
  ASSUME DaysPaidFor, ReminderTypes, UNCHANGED <<record, early, late>>, markers \subseteq markers',
         \A n \in KindNo, w \in {"tell early", "tell late"} : Telling(n, w)' \subseteq Telling(n, w)
  PROVE  DaysPaidFor'
<1> SUFFICES ASSUME NEW n \in KindNo
             PROVE  /\ early[n] + Cardinality(Telling(n, "tell early")') <= Cardinality(Marked(n, "early")')
                    /\ late[n] + Cardinality(Telling(n, "tell late")') <= Cardinality(Marked(n, "late")')
  BY DEF DaysPaidFor
<1>1. ASSUME NEW w \in {"tell early", "tell late"}
      PROVE  Cardinality(Telling(n, w)') <= Cardinality(Telling(n, w)) /\ Cardinality(Telling(n, w)') \in Nat
  BY CountsFinite, FS_Subset, FS_CardinalityType
<1>2. ASSUME NEW w
      PROVE  Cardinality(Marked(n, w)) <= Cardinality(Marked(n, w)')
  <2>1. Marked(n, w) \subseteq Marked(n, w)'
    BY DEF Marked, Class
  <2> QED BY <2>1, MarkedStaysFinite, FS_Subset
<1>3. /\ early[n] \in Nat /\ late[n] \in Nat
      /\ early[n] + Cardinality(Telling(n, "tell early")) <= Cardinality(Marked(n, "early"))
      /\ late[n] + Cardinality(Telling(n, "tell late")) <= Cardinality(Marked(n, "late"))
  BY DEF ReminderTypes, DaysPaidFor
<1>4. ASSUME NEW w
      PROVE  Cardinality(Telling(n, w)) \in Nat /\ Cardinality(Marked(n, w)) \in Nat
             /\ Cardinality(Marked(n, w)') \in Nat
  BY CountsFinite, MarkedStaysFinite
<1> DEFINE a == Cardinality(Telling(n, "tell early"))
           a1 == Cardinality(Telling(n, "tell early")')
           b == Cardinality(Marked(n, "early"))
           b1 == Cardinality(Marked(n, "early")')
           c == Cardinality(Telling(n, "tell late"))
           c1 == Cardinality(Telling(n, "tell late")')
           d == Cardinality(Marked(n, "late"))
           d1 == Cardinality(Marked(n, "late")')
<1>5. a1 <= a /\ c1 <= c /\ a1 \in Nat /\ c1 \in Nat
  BY <1>1
<1>6. b <= b1 /\ d <= d1
  BY <1>2
<1>7. a \in Nat /\ b \in Nat /\ c \in Nat /\ d \in Nat /\ b1 \in Nat /\ d1 \in Nat
  BY <1>4
<1>8. early[n] + a <= b /\ late[n] + c <= d /\ early[n] \in Nat /\ late[n] \in Nat
  BY <1>3
<1> HIDE DEF a, a1, b, b1, c, c1, d, d1
<1>9. early[n] + a1 <= b1 /\ late[n] + c1 <= d1
  BY ONLY <1>5, <1>6, <1>7, <1>8
<1> QED BY <1>9 DEF a1, b1, c1, d1

(* A run goes on to the next kind, or is over.                             *)
LEMMA OnwardQuiet ==
  ASSUME ReminderTypes, FoundIsSo, NEW r \in Replica, runs[r] # NoRun, Onward(r)
  PROVE  /\ runs' \in [Replica -> RunType \union {NoRun}]
         /\ runs'[r] # NoRun => runs'[r].due = "unread"
         /\ \A q \in Replica \ {r} : runs'[q] = runs[q]
<1>1. runs[r] \in RunType
  BY DEF ReminderTypes
<1> DEFINE x == [runs[r] EXCEPT !.at = runs[r].at + 1, !.due = "unread"]
<1>2. runs' = [runs EXCEPT ![r] = IF runs[r].at = 3 THEN NoRun ELSE x]
  BY DEF Onward
<1>3. runs[r].at # 3 => x \in RunType /\ x.due = "unread"
  <2>0. runs[r].at \in KindNo
    BY <1>1 DEF RunType
  <2>1. runs[r].at # 3 => runs[r].at + 1 \in KindNo
    BY <2>0 DEF KindNo
  <2> DEFINE m == runs[r].at + 1
  <2>2. ASSUME NEW k \in KindNo
        PROVE  /\ [[runs[r] EXCEPT !.at = k] EXCEPT !.due = "unread"] \in RunType
               /\ [[runs[r] EXCEPT !.at = k] EXCEPT !.due = "unread"].due = "unread"
    BY <1>1, <2>2 DEF RunType
  <2> QED BY <2>1, <2>2
<1> HIDE DEF x
<1> QED BY <1>2, <1>3 DEF ReminderTypes

(* What a step that tells nothing leaves of the replicas that tell.        *)
Tells == {"tell early", "tell late"}

LEMMA QuietRun ==
  ASSUME ReminderTypes, FoundIsSo, NEW r \in Replica, UNCHANGED record,
         runs' \in [Replica -> RunType \union {NoRun}],
         runs'[r] # NoRun =>
           /\ runs'[r].due \in {"unread", "early", "late"}
           /\ runs'[r].due # "unread" => runs'[r].due = Class(runs'[r].at, runs'[r].day),
         \A q \in Replica \ {r} : runs'[q] = runs[q]
  PROVE  /\ FoundIsSo'
         /\ \A n, w : w \in Tells => Telling(n, w)' = Telling(n, w) \ {r}
<1>1. FoundIsSo'
  <2> SUFFICES ASSUME NEW q \in Replica, runs'[q] # NoRun
               PROVE  /\ runs'[q].due \in {"early", "tell early"} => Class(runs[q].at, runs[q].day)' = "early"
                      /\ runs'[q].due \in {"late", "tell late"} => Class(runs[q].at, runs[q].day)' = "late"
    BY DEF FoundIsSo
  <2>1. Class(runs[q].at, runs[q].day)' = Class(runs'[q].at, runs'[q].day)
    BY DEF Class
  <2>2. CASE q = r
    BY <2>1, <2>2
  <2>3. CASE q # r
    BY <2>1, <2>3 DEF FoundIsSo
  <2> QED BY <2>2, <2>3
<1>2. ASSUME NEW n, NEW w \in Tells, NEW q \in Replica
      PROVE  q \in Telling(n, w)' <=> q \in Telling(n, w) \ {r}
  BY DEF Telling, Tells
<1>3. ASSUME NEW n, NEW w \in Tells
      PROVE  Telling(n, w)' = Telling(n, w) \ {r}
  <2>1. Telling(n, w)' \subseteq Replica /\ Telling(n, w) \subseteq Replica
    BY DEF Telling
  <2> QED BY <1>2, <2>1
<1> QED BY <1>1, <1>3

(* A quiet step of a run.                                                  *)
LEMMA QuietKept ==
  ASSUME ReminderInv, NEW r \in Replica,
         UNCHANGED <<record, today, early, late>>, markers \subseteq markers',
         runs' \in [Replica -> RunType \union {NoRun}],
         runs'[r] # NoRun =>
           /\ runs'[r].due \in {"unread", "early", "late"}
           /\ runs'[r].due # "unread" => runs'[r].due = Class(runs'[r].at, runs'[r].day),
         \A q \in Replica \ {r} : runs'[q] = runs[q]
  PROVE  ReminderInv'
<1>1. ReminderTypes /\ FoundIsSo /\ DaysPaidFor
  BY DEF ReminderInv
<1>2. FoundIsSo' /\ \A n, w : w \in Tells => Telling(n, w)' = Telling(n, w) \ {r}
  BY <1>1, QuietRun
<1>3. \A n \in KindNo, w \in {"tell early", "tell late"} : Telling(n, w)' \subseteq Telling(n, w)
  BY <1>2 DEF Tells
<1>4. DaysPaidFor'
  BY <1>1, <1>3, NothingTold
<1>5. ReminderTypes'
  BY <1>1 DEF ReminderTypes
<1> QED BY <1>2, <1>4, <1>5 DEF ReminderInv

LEMMA KindsApart == \A m, n \in KindNo : Kinds[m] = Kinds[n] => m = n
<1>1. Kinds[1] = "maintenance_due" /\ Kinds[2] = "asset_due_back" /\ Kinds[3] = "receipt_unconfirmed"
  BY DEF Kinds
<1>2. \A m \in KindNo : m = 1 \/ m = 2 \/ m = 3
  BY DEF KindNo
<1> QED BY <1>1, <1>2

(* A claim that finds no marker pays for one reminder with a day.          *)
LEMMA ClaimPays ==
  ASSUME ReminderInv, NEW r \in Replica, Claim(r), <<Kinds[runs[r].at], runs[r].day>> \notin markers
  PROVE  ReminderInv'
<1> DEFINE m == runs[r].at
           day == runs[r].day
           w == runs[r].due
           t == IF w = "early" THEN "tell early" ELSE "tell late"
<1>1. ReminderTypes /\ FoundIsSo /\ DaysPaidFor
  BY DEF ReminderInv
<1>2. /\ runs[r] # NoRun /\ runs[r] \in RunType /\ w \in {"early", "late"}
      /\ m \in KindNo /\ day \in 0..MaxToday /\ Class(m, day) = w
  BY <1>1 DEF Claim, ReminderTypes, RunType, FoundIsSo
<1>3. /\ runs' = [runs EXCEPT ![r].due = t]
      /\ markers' = markers \union {<<Kinds[m], day>>}
      /\ UNCHANGED <<record, open, today, early, late, restarts>>
  BY DEF Claim
<1>4. [runs[r] EXCEPT !.due = t] \in RunType
  BY <1>2 DEF RunType
<1>5. ReminderTypes'
  BY <1>1, <1>3, <1>4 DEF ReminderTypes
<1>6. runs'[r].due = t /\ runs'[r].at = m /\ runs'[r].day = day
  BY <1>1, <1>2, <1>3 DEF ReminderTypes, RunType
<1>7. \A q \in Replica \ {r} : runs'[q] = runs[q]
  BY <1>1, <1>3 DEF ReminderTypes
<1>8. \A n, d : Class(n, d)' = Class(n, d)
  <2>1. record' = record
    BY <1>3
  <2> QED BY ONLY <2>1 DEF Class
<1>9. FoundIsSo'
  <2> SUFFICES ASSUME NEW q \in Replica, runs'[q] # NoRun
               PROVE  /\ runs'[q].due \in {"early", "tell early"} => Class(runs'[q].at, runs'[q].day) = "early"
                      /\ runs'[q].due \in {"late", "tell late"} => Class(runs'[q].at, runs'[q].day) = "late"
    BY <1>3 DEF FoundIsSo, Class
  <2>1. CASE q = r
    BY <1>2, <1>6, <2>1
  <2>2. CASE q # r
    BY <1>1, <1>7, <2>2 DEF FoundIsSo
  <2> QED BY <2>1, <2>2
<1>10. ASSUME NEW n \in KindNo, NEW class \in {"early", "late"}, NEW tell,
              tell = IF class = "early" THEN "tell early" ELSE "tell late",
              NEW count \in Nat, count + Cardinality(Telling(n, tell)) <= Cardinality(Marked(n, class))
       PROVE  count + Cardinality(Telling(n, tell)') <= Cardinality(Marked(n, class)')
  <2> DEFINE a == Cardinality(Telling(n, tell))
             a1 == Cardinality(Telling(n, tell)')
             b == Cardinality(Marked(n, class))
             b1 == Cardinality(Marked(n, class)')
  <2>1. a \in Nat /\ b \in Nat /\ b1 \in Nat
    BY CountsFinite, MarkedStaysFinite
  <2>2. CASE n = m /\ class = w
    <3>1. Telling(n, tell)' \subseteq Telling(n, tell) \union {r}
      BY <1>7 DEF Telling
    <3>2. IsFiniteSet(Telling(n, tell) \union {r}) /\ Cardinality(Telling(n, tell) \union {r}) <= a + 1
      <4>1. IsFiniteSet(Telling(n, tell))
        BY CountsFinite
      <4>2. IsFiniteSet(Telling(n, tell) \union {r})
            /\ Cardinality(Telling(n, tell) \union {r}) \in {a, a + 1}
        BY ONLY <4>1, FS_AddElement
      <4> QED BY ONLY <2>1, <4>2
    <3>3. a1 <= Cardinality(Telling(n, tell) \union {r}) /\ a1 \in Nat
          /\ Cardinality(Telling(n, tell) \union {r}) \in Nat
      BY <3>1, <3>2, FS_Subset, FS_CardinalityType
    <3>4. Marked(n, class)' = Marked(n, class) \union {day}
      BY <1>2, <1>3, <1>8, <2>2 DEF Marked
    <3>5. day \notin Marked(n, class)
      BY <2>2 DEF Marked
    <3>6. b1 = b + 1
      BY <3>4, <3>5, CountsFinite, FS_AddElement
    <3>7. count + a <= b
      BY <1>10
    <3> HIDE DEF a, a1, b, b1
    <3>8. a1 <= a + 1
      BY <2>1, <3>2, <3>3
    <3>9. count \in Nat
      BY <1>10
    <3>10. count + a1 <= b1
      BY ONLY <2>1, <3>3, <3>6, <3>7, <3>8, <3>9
    <3> QED BY <3>10 DEF a1, b1
  <2>3. CASE ~(n = m /\ class = w)
    <3>1. r \notin Telling(n, tell)'
      BY <1>2, <1>6, <1>10, <2>3 DEF Telling
    <3>2. Telling(n, tell)' \subseteq Telling(n, tell)
      BY <1>7, <3>1 DEF Telling
    <3>3. a1 <= a /\ a1 \in Nat
      BY <3>2, CountsFinite, FS_Subset, FS_CardinalityType
    <3>4. Marked(n, class) \subseteq Marked(n, class)'
      BY <1>3, <1>8 DEF Marked
    <3>5. b <= b1
      BY <3>4, MarkedStaysFinite, FS_Subset
    <3>6. count + a <= b /\ count \in Nat
      BY <1>10
    <3> HIDE DEF a, a1, b, b1
    <3>7. count + a1 <= b1
      BY ONLY <2>1, <3>3, <3>5, <3>6
    <3> QED BY <3>7 DEF a1, b1
  <2> QED BY <2>2, <2>3
<1>11. DaysPaidFor'
  <2> SUFFICES ASSUME NEW n \in KindNo
               PROVE  /\ early[n] + Cardinality(Telling(n, "tell early")') <= Cardinality(Marked(n, "early")')
                      /\ late[n] + Cardinality(Telling(n, "tell late")') <= Cardinality(Marked(n, "late")')
    BY <1>3 DEF DaysPaidFor
  <2>1. /\ early[n] \in Nat /\ late[n] \in Nat
        /\ early[n] + Cardinality(Telling(n, "tell early")) <= Cardinality(Marked(n, "early"))
        /\ late[n] + Cardinality(Telling(n, "tell late")) <= Cardinality(Marked(n, "late"))
    BY <1>1 DEF ReminderTypes, DaysPaidFor
  <2> QED BY <1>10, <2>1
<1> QED BY <1>5, <1>9, <1>11 DEF ReminderInv

(* A reminder sent is one less to send.                                    *)
LEMMA TellPaid ==
  ASSUME ReminderInv, NEW r \in Replica, Tell(r)
  PROVE  ReminderInv'
<1> DEFINE m == runs[r].at
           w == runs[r].due
           e == IF w = "tell early" THEN 1 ELSE 0
           l == IF w = "tell late" THEN 1 ELSE 0
<1>1. ReminderTypes /\ FoundIsSo /\ DaysPaidFor
  BY DEF ReminderInv
<1>2. runs[r] # NoRun /\ runs[r] \in RunType /\ w \in Tells /\ m \in KindNo
  BY <1>1 DEF Tell, ReminderTypes, RunType, Tells
<1>3. /\ early' = [early EXCEPT ![m] = @ + IF w = "tell early" THEN 1 ELSE 0]
      /\ late' = [late EXCEPT ![m] = @ + IF w = "tell late" THEN 1 ELSE 0]
      /\ Onward(r) /\ UNCHANGED <<record, today, markers>>
  BY DEF Tell
<1>4. /\ runs' \in [Replica -> RunType \union {NoRun}]
      /\ runs'[r] # NoRun => runs'[r].due = "unread"
      /\ \A q \in Replica \ {r} : runs'[q] = runs[q]
  BY <1>1, <1>2, <1>3, OnwardQuiet
<1>5. FoundIsSo' /\ \A n, v : v \in Tells => Telling(n, v)' = Telling(n, v) \ {r}
  BY <1>1, <1>3, <1>4, QuietRun
<1>6. /\ ReminderTypes'
      /\ early'[m] = early[m] + e /\ late'[m] = late[m] + l
      /\ \A n \in KindNo \ {m} : early'[n] = early[n] /\ late'[n] = late[n]
  <2>1. early \in [KindNo -> Nat] /\ late \in [KindNo -> Nat] /\ e \in Nat /\ l \in Nat
    BY <1>1 DEF ReminderTypes
  <2>2. early' = [early EXCEPT ![m] = early[m] + e] /\ late' = [late EXCEPT ![m] = late[m] + l]
    BY <1>3
  <2> HIDE DEF e, l, m
  <2>3. /\ early' \in [KindNo -> Nat] /\ late' \in [KindNo -> Nat]
        /\ early'[m] = early[m] + e /\ late'[m] = late[m] + l
        /\ \A n \in KindNo \ {m} : early'[n] = early[n] /\ late'[n] = late[n]
    BY <1>2, <2>1, <2>2
  <2> QED BY <1>1, <1>3, <1>4, <2>3 DEF ReminderTypes
<1>7. ASSUME NEW n \in KindNo, NEW v \in Tells
      PROVE  Cardinality(Telling(n, v)') =
               Cardinality(Telling(n, v)) - IF n = m /\ v = w THEN 1 ELSE 0
  <2>1. r \in Telling(n, v) <=> n = m /\ v = w
    BY <1>2 DEF Telling
  <2>2. Cardinality(Telling(n, v) \ {r}) =
          IF r \in Telling(n, v) THEN Cardinality(Telling(n, v)) - 1 ELSE Cardinality(Telling(n, v))
    BY CountsFinite, FS_RemoveElement
  <2> QED BY <1>5, <2>1, <2>2, CountsFinite
<1>8. \A n, v : Marked(n, v)' = Marked(n, v)
  BY <1>3 DEF Marked, Class
<1>9. DaysPaidFor'
  <2> SUFFICES ASSUME NEW n \in KindNo
               PROVE  /\ early'[n] + Cardinality(Telling(n, "tell early")') <= Cardinality(Marked(n, "early"))
                      /\ late'[n] + Cardinality(Telling(n, "tell late")') <= Cardinality(Marked(n, "late"))
    BY <1>8 DEF DaysPaidFor
  <2> DEFINE en == IF n = m THEN e ELSE 0
             ln == IF n = m THEN l ELSE 0
             a == Cardinality(Telling(n, "tell early"))
             c == Cardinality(Telling(n, "tell late"))
             b == Cardinality(Marked(n, "early"))
             d == Cardinality(Marked(n, "late"))
  <2>1. early'[n] = early[n] + en /\ late'[n] = late[n] + ln
    <3>1. early[n] \in Nat /\ late[n] \in Nat
      BY <1>1 DEF ReminderTypes
    <3>2. CASE n = m
      <4>1. early'[m] = early[m] + e /\ late'[m] = late[m] + l
        BY <1>6
      <4>2. en = e /\ ln = l
        BY <3>2
      <4> HIDE DEF e, l, m, en, ln
      <4>3. n = m
        BY <3>2
      <4> QED BY ONLY <4>1, <4>2, <4>3
    <3>3. CASE n # m
      <4>1. early'[n] = early[n] /\ late'[n] = late[n]
        BY <1>6, <3>3
      <4>2. en = 0 /\ ln = 0
        BY <3>3
      <4> HIDE DEF en, ln
      <4> QED BY ONLY <3>1, <4>1, <4>2
    <3> QED BY <3>2, <3>3
  <2>2. Cardinality(Telling(n, "tell early")') = a - en /\ Cardinality(Telling(n, "tell late")') = c - ln
    BY <1>7 DEF Tells
  <2>3. early[n] + a <= b /\ late[n] + c <= d /\ early[n] \in Nat /\ late[n] \in Nat
    BY <1>1 DEF DaysPaidFor, ReminderTypes
  <2>4. a \in Nat /\ b \in Nat /\ c \in Nat /\ d \in Nat
    BY CountsFinite
  <2>5. en \in Nat /\ ln \in Nat
    OBVIOUS
  <2> HIDE DEF en, ln, a, b, c, d
  <2>6. early[n] + en + (a - en) <= b /\ late[n] + ln + (c - ln) <= d
    BY ONLY <2>3, <2>4, <2>5
  <2> QED BY <2>1, <2>2, <2>6 DEF b, d
<1> QED BY <1>5, <1>6, <1>9 DEF ReminderInv

LEMMA ReminderStep ==
  ASSUME ReminderInv, RemindersNext
  PROVE  ReminderInv'
<1>1. ReminderTypes /\ FoundIsSo
  BY DEF ReminderInv
<1>2. ASSUME NEW r \in Replica, runs[r] # NoRun, Onward(r),
             UNCHANGED <<record, today, markers, early, late>>
      PROVE  ReminderInv'
  BY <1>1, <1>2, OnwardQuiet, QuietKept
<1>3. ASSUME NEW r \in Replica, Run(r)
      PROVE  ReminderInv'
  <2> DEFINE x == [day |-> today, at |-> 1, due |-> "unread"]
  <2>0. today \in 0..MaxToday /\ 1 \in KindNo
    BY <1>1 DEF ReminderTypes, KindNo
  <2>1. x \in RunType
    BY <2>0 DEF RunType
  <2>2. runs' = [runs EXCEPT ![r] = x] /\ UNCHANGED <<record, today, markers, early, late>>
    BY <1>3 DEF Run
  <2>3. runs' \in [Replica -> RunType \union {NoRun}] /\ runs'[r].due = "unread"
    BY <1>1, <2>1, <2>2 DEF ReminderTypes
  <2>4. \A q \in Replica \ {r} : runs'[q] = runs[q]
    BY <1>1, <2>2 DEF ReminderTypes
  <2> QED BY <2>2, <2>3, <2>4, QuietKept
<1>4. ASSUME NEW r \in Replica, FindDue(r)
      PROVE  ReminderInv'
  <2> DEFINE due == Due(runs[r].at, yerevanDays(runs[r].day))
  <2>1. /\ runs[r] # NoRun /\ runs[r] \in RunType
        /\ UNCHANGED <<record, today, markers, early, late>>
    BY <1>1, <1>4 DEF FindDue, Reading, ReminderTypes
  <2>2. CASE due = "no"
    BY <1>2, <1>4, <2>1, <2>2 DEF FindDue
  <2>3. CASE due # "no"
    <3>1. runs' = [runs EXCEPT ![r].due = due]
      BY <1>4, <2>3 DEF FindDue
    <3>2. due = Class(runs[r].at, runs[r].day)
      BY <2>3, DueIsClass
    <3>3. due \in {"early", "late"}
      BY <2>3, <3>2 DEF Class, maintenanceDue, assetsDueBack, receiptsUnconfirmed
    <3> HIDE DEF due
    <3>4. [runs[r] EXCEPT !.due = due] \in RunType
      BY <2>1, <3>3 DEF RunType
    <3>5. /\ runs'[r].due = due /\ runs'[r].at = runs[r].at /\ runs'[r].day = runs[r].day
          /\ runs' \in [Replica -> RunType \union {NoRun}]
      BY <1>1, <2>1, <3>1, <3>4 DEF ReminderTypes, RunType
    <3>6. \A q \in Replica \ {r} : runs'[q] = runs[q]
      BY <1>1, <3>1 DEF ReminderTypes
    <3> QED BY <2>1, <3>2, <3>3, <3>5, <3>6, QuietKept
  <2> QED BY <2>2, <2>3
<1>5. ASSUME NEW r \in Replica, NobodyToTell(r)
      PROVE  ReminderInv'
  BY <1>2, <1>5 DEF NobodyToTell
<1>6. ASSUME NEW r \in Replica, Claim(r)
      PROVE  ReminderInv'
  <2>1. CASE <<Kinds[runs[r].at], runs[r].day>> \in markers
    BY <1>2, <1>6, <2>1 DEF Claim
  <2>2. CASE <<Kinds[runs[r].at], runs[r].day>> \notin markers
    BY <1>6, <2>2, ClaimPays
  <2> QED BY <2>1, <2>2
<1>7. ASSUME NEW r \in Replica, Restart(r)
      PROVE  ReminderInv'
  <2>1. /\ runs' = [runs EXCEPT ![r] = NoRun]
        /\ UNCHANGED <<record, today, markers, early, late>>
    BY <1>7 DEF Restart
  <2>2. /\ runs' \in [Replica -> RunType \union {NoRun}] /\ runs'[r] = NoRun
        /\ \A q \in Replica \ {r} : runs'[q] = runs[q]
    BY <1>1, <2>1 DEF ReminderTypes
  <2> QED BY <2>1, <2>2, QuietKept
<1>8. CASE Settle \/ NextDay
  <2>1. UNCHANGED <<record, runs, markers, early, late>> /\ today' \in 0..MaxToday
    BY <1>1, <1>8, ReminderBounds DEF Settle, NextDay, ReminderTypes
  <2> QED BY <2>1 DEF ReminderInv, ReminderTypes, FoundIsSo, DaysPaidFor, Telling, Marked, Class
<1> QED BY <1>3, <1>4, <1>5, <1>6, <1>7, <1>8, TellPaid DEF RemindersNext

LEMMA ReminderKept == ReminderInv /\ [Next]_vars => ReminderInv'
<1> SUFFICES ASSUME ReminderInv, [Next]_vars PROVE ReminderInv'
  OBVIOUS
<1>1. CASE RemindersNext
  BY <1>1, ReminderStep
<1>2. CASE UNCHANGED reminderVars
  BY <1>2 DEF reminderVars, ReminderInv, ReminderTypes, FoundIsSo, DaysPaidFor, Telling, Marked, Class
<1>3. RemindersNext \/ UNCHANGED reminderVars
  BY DEF Next, vars
<1> QED BY <1>1, <1>2, <1>3

-----------------------------------------------------------------------------
(* How many days a record can be found on.                                 *)
LEMMA Quarters == \A x \in Int : \E q \in Int, m \in 0..3 : x = 4 * q + m
<1> TAKE x \in Int
<1>1. x \div 4 \in Int /\ x % 4 \in 0..3 /\ x = 4 * (x \div 4) + (x % 4)
  OBVIOUS
<1> QED BY <1>1

LEMMA SomeDays ==
  ASSUME NEW S, NEW a \in Int, NEW k \in Nat, \A d \in S : d \in Int /\ a < d /\ d <= a + k
  PROVE  Cardinality(S) <= k
<1>1. S \in SUBSET ((a + 1)..(a + k))
  OBVIOUS
<1>2. IsFiniteSet((a + 1)..(a + k)) /\ Cardinality((a + 1)..(a + k)) = k
  <2>1. a + 1 \in Int /\ a + k \in Int
    OBVIOUS
  <2>2. /\ IsFiniteSet((a + 1)..(a + k))
        /\ Cardinality((a + 1)..(a + k)) = IF a + 1 > a + k THEN 0 ELSE (a + k) - (a + 1) + 1
    BY <2>1, FS_Interval
  <2> QED BY <2>2
<1> QED BY <1>1, <1>2, FS_Subset

(* Tomorrow is one day; the overdue days of a date are seven.              *)
LEMMA TomorrowOnce ==
  ASSUME NEW date \in Int, NEW S, \A d \in S : d \in Int /\ Tomorrow(date, yerevanDays(d))
  PROVE  Cardinality(S) <= 1
<1>1. PICK q \in Int, m \in 0..3 : date = 4 * q + m
  BY Quarters
<1>2. \A d \in S : d \in Int /\ q - 2 < d /\ d <= q - 2 + 1
  BY <1>1 DEF Tomorrow, yerevanDays
<1>3. q - 2 \in Int
  OBVIOUS
<1> QED BY <1>2, <1>3, SomeDays

LEMMA OverdueWeek ==
  ASSUME NEW date \in Int, NEW S, \A d \in S : d \in Int /\ Overdue(date, yerevanDays(d))
  PROVE  Cardinality(S) <= OVERDUE_DAYS
<1>1. PICK q \in Int, m \in 0..3 : date = 4 * q + m
  BY Quarters
<1>2. \A d \in S : d \in Int /\ q < d /\ d <= q + 7
  BY <1>1 DEF Overdue, yerevanDays, OVERDUE_DAYS
<1> QED BY <1>2, SomeDays DEF OVERDUE_DAYS

(* A receipt is looked for at nine, between two instants that both count:  *)
(* one handed over at nine sharp would be found on eight days.             *)
NotAtNine == \A x \in Record : x.kind = "receipt_unconfirmed" => x.assigned % 4 # 2

LEMMA ReceiptWeek ==
  ASSUME NEW x, x.assigned \in Int, x.assigned % 4 # 2,
         NEW S, \A d \in S : d \in Int /\ receiptsUnconfirmed(x, yerevanDays(d)) = "late"
  PROVE  Cardinality(S) <= OVERDUE_DAYS
<1> DEFINE date == x.assigned
<1>1. PICK q \in Int, m \in 0..3 : date = 4 * q + m
  BY Quarters
<1>2. m # 2
  BY <1>1
<1>3. \A d \in S : d \in Int /\ date <= 4 * d - 6 /\ date >= 4 * d - 34
  BY DEF receiptsUnconfirmed, yerevanDays, RECEIPT_GRACE_DAYS, OVERDUE_DAYS
<1> HIDE DEF date
<1>4. CASE m \in {0, 1}
  <2>1. \A d \in S : d \in Int /\ q + 1 < d /\ d <= q + 1 + 7
    BY <1>1, <1>3, <1>4
  <2>2. q + 1 \in Int
    OBVIOUS
  <2> QED BY <2>1, <2>2, SomeDays DEF OVERDUE_DAYS
<1>5. CASE m = 3
  <2>1. \A d \in S : d \in Int /\ q + 2 < d /\ d <= q + 2 + 7
    BY <1>1, <1>3, <1>5
  <2>2. q + 2 \in Int
    OBVIOUS
  <2> QED BY <2>1, <2>2, SomeDays DEF OVERDUE_DAYS
<1> QED BY <1>2, <1>4, <1>5

LEMMA MarkedDays ==
  ASSUME NotAtNine, ReminderTypes, NEW n \in KindNo
  PROVE  Cardinality(Marked(n, "early")) <= 1 /\ Cardinality(Marked(n, "late")) <= OVERDUE_DAYS
<1>1. \A d \in Marked(n, "early") : d \in Int /\ Class(n, d) = "early"
  BY ReminderBounds DEF Marked
<1>2. \A d \in Marked(n, "late") : d \in Int /\ Class(n, d) = "late"
  BY ReminderBounds DEF Marked
<1>3. CASE record.kind # Kinds[n]
  <2>1. Marked(n, "early") = {} /\ Marked(n, "late") = {}
    BY <1>1, <1>2, <1>3 DEF Class
  <2> QED BY <2>1, FS_EmptySet DEF OVERDUE_DAYS
<1>4. CASE record.kind = Kinds[n] /\ n = 1
  <2>1. record.start \in Int /\ record.end \in Int
    BY <1>4, RecordsAreDated DEF ReminderTypes, Kinds
  <2>2. \A d \in Marked(n, "early") : Tomorrow(record.start, yerevanDays(d))
    BY <1>1, <1>4 DEF Class, maintenanceDue
  <2>3. \A d \in Marked(n, "late") : Overdue(record.end, yerevanDays(d))
    BY <1>2, <1>4 DEF Class, maintenanceDue
  <2> QED BY <1>1, <1>2, <2>1, <2>2, <2>3, TomorrowOnce, OverdueWeek
<1>5. CASE record.kind = Kinds[n] /\ n = 2
  <2>1. record.end \in Int
    BY <1>5, RecordsAreDated DEF ReminderTypes, Kinds
  <2>2. \A d \in Marked(n, "early") : Tomorrow(record.end, yerevanDays(d))
    BY <1>1, <1>5 DEF Class, assetsDueBack
  <2>3. \A d \in Marked(n, "late") : Overdue(record.end, yerevanDays(d))
    BY <1>2, <1>5 DEF Class, assetsDueBack
  <2> QED BY <1>1, <1>2, <2>1, <2>2, <2>3, TomorrowOnce, OverdueWeek
<1>6. CASE record.kind = Kinds[n] /\ n = 3
  <2>1. record.assigned \in Int /\ record.assigned % 4 # 2
    BY <1>6, RecordsAreDated DEF ReminderTypes, Kinds, NotAtNine
  <2>2. Marked(n, "early") = {}
    BY <1>1, <1>6 DEF Class, receiptsUnconfirmed
  <2>3. \A d \in Marked(n, "late") : receiptsUnconfirmed(record, yerevanDays(d)) = "late"
    BY <1>2, <1>6 DEF Class
  <2>4. Cardinality(Marked(n, "late")) <= OVERDUE_DAYS
    BY <1>2, <2>1, <2>3, ReceiptWeek
  <2> QED BY <2>2, <2>4, FS_EmptySet
<1> QED BY <1>3, <1>4, <1>5, <1>6 DEF KindNo

(* "Idempotent per record per day" and no more than a week of reminders of *)
(* an overdue record: for any number of replicas, however often and        *)
(* wherever they stop and run again, unless a hand-over was at nine sharp. *)
THEOREM RemindedNoMoreThanAWeek == NotAtNine => (Spec => []RemindedForAWeek)
<1> SUFFICES ASSUME NotAtNine PROVE Spec => []RemindedForAWeek
  OBVIOUS
<1>1. ReminderInv => RemindedForAWeek
  <2> SUFFICES ASSUME ReminderInv, NEW n \in KindNo PROVE early[n] <= 1 /\ late[n] <= OVERDUE_DAYS
    BY DEF RemindedForAWeek, KindNo
  <2> DEFINE a == Cardinality(Telling(n, "tell early"))
             c == Cardinality(Telling(n, "tell late"))
             b == Cardinality(Marked(n, "early"))
             d == Cardinality(Marked(n, "late"))
  <2>1. b <= 1 /\ d <= 7
    BY MarkedDays DEF ReminderInv, OVERDUE_DAYS
  <2>2. /\ early[n] + a <= b /\ late[n] + c <= d
        /\ early[n] \in Nat /\ late[n] \in Nat
    BY DEF ReminderInv, DaysPaidFor, ReminderTypes
  <2>3. a \in Nat /\ b \in Nat /\ c \in Nat /\ d \in Nat
    BY CountsFinite
  <2> HIDE DEF a, b, c, d
  <2> QED BY ONLY <2>1, <2>2, <2>3 DEF OVERDUE_DAYS
<1> QED BY <1>1, ReminderInit, ReminderKept, PTL DEF Spec

-----------------------------------------------------------------------------
(* Trees, whichever: nothing goes round in a circle (every set of          *)
(* categories has one whose parent is not of the set), and a walk up from  *)
(* one category, stopping at some, comes to another.                       *)
Standing(t) == {c \in Category : t[c] # Absent}
Rooted(t) == \A S \in SUBSET Standing(t) : S # {} => \E c \in S : t[c] \notin S
Leads(t, kids, from, to) ==
  \A S \in SUBSET Standing(t) : from \in S /\ (\A s \in S \ kids : t[s] \in S) => to \in S
Linked(t) == \A c \in Category : t[c] \in Standing(t) \union {NoParent, Absent}

(* Categories that are taken out, or made roots, close no circle and open  *)
(* no other way up.                                                        *)
LEMMA CutKeeps ==
  ASSUME NEW t, NEW u,
         \A c \in Category : u[c] = t[c] \/ u[c] \in {NoParent, Absent},
         \A c \in Category : t[c] = Absent => u[c] = Absent
  PROVE  /\ Rooted(t) => Rooted(u)
         /\ \A kids, from, to : Leads(t, kids, from, to) => Leads(u, kids, from, to)
<1>1. Standing(u) \subseteq Standing(t)
  BY DEF Standing
<1>2. \A c \in Category : u[c] \in Category => u[c] = t[c]
  BY NamesApart
<1>3. Rooted(t) => Rooted(u)
  <2> SUFFICES ASSUME Rooted(t), NEW S \in SUBSET Standing(u), S # {}, \A c \in S : u[c] \in S
               PROVE  FALSE
    BY DEF Rooted
  <2>1. \A c \in S : t[c] \in S
    BY <1>2 DEF Standing
  <2> QED BY <1>1, <2>1 DEF Rooted
<1>4. ASSUME NEW kids, NEW from, NEW to, Leads(t, kids, from, to)
      PROVE  Leads(u, kids, from, to)
  <2> SUFFICES ASSUME NEW S \in SUBSET Standing(u), from \in S, \A s \in S \ kids : u[s] \in S
               PROVE  to \in S
    BY DEF Leads
  <2>1. \A s \in S \ kids : t[s] \in S
    BY <1>2 DEF Standing
  <2> QED BY <1>1, <1>4, <2>1 DEF Leads
<1> QED BY <1>3, <1>4

(* A new category c under p, with some of the present ones under it.       *)
Under(t, c, p, kids) ==
  [k \in Category |-> IF k = c THEN p ELSE IF k \in kids /\ t[k] # Absent THEN c ELSE t[k]]

LEMMA UnderIn ==
  ASSUME NEW t, NEW c \in Category, NEW p \in Category \union {NoParent}, NEW kids, t[c] = Absent
  PROVE  Standing(Under(t, c, p, kids)) = Standing(t) \union {c}
BY NamesApart DEF Standing, Under

LEMMA UnderRooted ==
  ASSUME NEW t, NEW c \in Category, NEW p \in Category \union {NoParent}, NEW kids,
         t[c] = Absent, p # c, Linked(t), Rooted(t),
         kids = {} \/ p = NoParent \/ Leads(t, kids, p, NoParent)
  PROVE  Rooted(Under(t, c, p, kids))
<1> DEFINE u == Under(t, c, p, kids)
<1>1. Standing(u) = Standing(t) \union {c}
  BY UnderIn
<1> SUFFICES ASSUME NEW S \in SUBSET Standing(u), S # {}, \A s \in S : u[s] \in S
             PROVE  FALSE
  BY DEF Rooted
<1>2. \A s \in Category : t[s] # c
  BY NamesApart DEF Linked, Standing
<1>3. S \subseteq Category /\ NoParent \notin S
  BY NamesApart DEF Standing
<1>4. CASE c \notin S
  <2>1. \A s \in S : t[s] \in S
    BY <1>3, <1>4 DEF Under
  <2> QED BY <1>1, <1>4, <2>1 DEF Rooted
<1>5. CASE c \in S
  <2> DEFINE T == S \ {c}
  <2>1. p \in T
    BY <1>3, <1>5 DEF Under
  <2>2. \A s \in T \ kids : t[s] \in T
    BY <1>2, <1>3 DEF Under
  <2>3. T \in SUBSET Standing(t) /\ NoParent \notin T
    BY <1>1, <1>3
  <2> HIDE DEF T
  <2> QED BY <2>1, <2>2, <2>3, NamesApart DEF Rooted, Leads
<1> QED BY <1>4, <1>5

LEMMA UnderLeads ==
  ASSUME NEW t, NEW c \in Category, NEW p \in Category \union {NoParent}, NEW kids,
         t[c] = Absent, p # c, Linked(t), kids = {} \/ p = NoParent,
         NEW some, NEW from, NEW to, c \notin some, from # c, Leads(t, some, from, to)
  PROVE  Leads(Under(t, c, p, kids), some, from, to)
<1> DEFINE u == Under(t, c, p, kids)
<1>1. Standing(u) = Standing(t) \union {c}
  BY UnderIn
<1> SUFFICES ASSUME NEW S \in SUBSET Standing(u), from \in S, \A s \in S \ some : u[s] \in S
             PROVE  to \in S
  BY DEF Leads
<1>2. \A s \in Category : t[s] # c
  BY NamesApart DEF Linked, Standing
<1>3. S \subseteq Category /\ NoParent \notin S
  BY NamesApart DEF Standing
<1> DEFINE T == S \ {c}
<1>4. \A s \in T \ some : t[s] \in T
  BY <1>2, <1>3 DEF Under
<1>5. T \in SUBSET Standing(t) /\ from \in T
  BY <1>1
<1> HIDE DEF T
<1>6. to \in T
  BY <1>4, <1>5 DEF Leads
<1> QED BY <1>6 DEF T

(* A category moved under one from which no walk comes to it.              *)
LEMMA MoveRooted ==
  ASSUME NEW t \in [Category -> Category \union {NoParent, Absent}], NEW id \in Category,
         NEW p \in Category, t[id] # Absent, Rooted(t), Leads(t, {id}, p, NoParent)
  PROVE  Rooted([t EXCEPT ![id] = p])
<1> DEFINE u == [t EXCEPT ![id] = p]
<1>1. Standing(u) = Standing(t)
  BY NamesApart DEF Standing
<1> SUFFICES ASSUME NEW S \in SUBSET Standing(u), S # {}, \A s \in S : u[s] \in S
             PROVE  FALSE
  BY DEF Rooted
<1>2. S \in SUBSET Standing(t) /\ S \subseteq Category /\ NoParent \notin S
  BY <1>1, NamesApart DEF Standing
<1>3. CASE id \notin S
  <2>1. \A s \in S : t[s] \in S
    BY <1>2, <1>3
  <2> QED BY <1>2, <2>1 DEF Rooted
<1>4. CASE id \in S
  <2>1. p \in S
    BY <1>2, <1>4
  <2>2. \A s \in S \ {id} : t[s] \in S
    BY <1>2
  <2> QED BY <1>2, <2>1, <2>2 DEF Leads
<1> QED BY <1>3, <1>4

-----------------------------------------------------------------------------
(* The tree of categories.  While at most one change walks up it, the walk *)
(* still leads from the new parent to where it has come, whatever the      *)
(* others write meanwhile.                                                 *)
Change == [does : {"create", "move", "remove"}, at : {"walk", "delete"},
           id : Category \union {NoParent}, parent : Category \union {NoParent},
           kids : SUBSET Category, node : Category \union {NoParent}]

TreeTypes ==
  /\ tree \in [Category -> Category \union {NoParent, Absent}]
  /\ born \in SUBSET Category /\ Standing(tree) \subseteq born
  /\ Linked(tree)
  /\ moving \in [Editor -> Change \union {Resting}]

Known(m) ==
  /\ m.kids \subseteq born /\ m.parent \in born \union {NoParent}
  /\ m.does = "move" => m.kids = {m.id}

Knows(e) == moving[e] # Resting => Known(moving[e])
Climbs(e) == Step(e, "walk") /\ moving[e].parent # NoParent /\ moving[e].kids # {}
LeadsUp(e) == Leads(tree, moving[e].kids, moving[e].parent, moving[e].node)

TreeInv ==
  /\ TreeTypes
  /\ \A e \in Editor : Knows(e)
  /\ ~crossed => /\ Rooted(tree)
                 /\ \A e, g \in Editor : Climbs(e) /\ Climbs(g) => e = g
                 /\ \A e \in Editor : Climbs(e) => LeadsUp(e)

LEMMA TreeStart == Init => TreeInv
<1> SUFFICES ASSUME Init PROVE TreeInv
  OBVIOUS
<1>1. TreeInit
  BY DEF Init
<1>2. Standing(tree) = {}
  BY <1>1 DEF TreeInit, Standing
<1> QED BY <1>1, <1>2, NamesApart DEF TreeInit, TreeInv, TreeTypes, Linked, Rooted, Climbs, Step, Knows

(* A step of one editor that leaves them at rest.                          *)
LEMMA TreeRested ==
  ASSUME TreeInv, NEW e \in Editor, Rest(e), UNCHANGED crossed,
         TreeTypes', born \subseteq born',
         ~crossed => Rooted(tree'),
         ~crossed => \A g \in Editor \ {e} : Climbs(g) =>
           Leads(tree', moving[g].kids, moving[g].parent, moving[g].node)
  PROVE  TreeInv'
<1>1. moving' = [moving EXCEPT ![e] = Resting] /\ moving \in [Editor -> Change \union {Resting}]
  BY DEF Rest, TreeInv, TreeTypes
<1>2. \A g \in Editor : moving'[g] # Resting => g # e /\ moving'[g] = moving[g]
  BY <1>1
<1>3. \A g \in Editor : Climbs(g)' => g # e /\ Climbs(g)
  BY <1>2 DEF Climbs, Step
<1>4. \A g \in Editor : Knows(g)'
  BY <1>2 DEF TreeInv, Knows, Known
<1>5. \A g \in Editor : ~crossed /\ Climbs(g)' => LeadsUp(g)'
  <2> SUFFICES ASSUME NEW g \in Editor, ~crossed, Climbs(g)' PROVE LeadsUp(g)'
    OBVIOUS
  <2>1. moving'[g] = moving[g] /\ g # e /\ Climbs(g)
    BY <1>2, <1>3 DEF Climbs, Step
  <2> QED BY <2>1 DEF LeadsUp
<1> QED BY <1>3, <1>4, <1>5 DEF TreeInv

LEMMA ChangeStarts ==
  ASSUME TreeInv, NEW e \in Editor, NEW does \in {"create", "move"}, NEW id \in Category \union {NoParent},
         NEW parent, NEW kids \in SUBSET Standing(tree), does = "move" => kids = {id},
         StartChange(e, does, id, parent, kids)
  PROVE  TreeInv'
<1> DEFINE from == IF kids = {} THEN NoParent ELSE parent
           m == [does |-> does, at |-> "walk", id |-> id, parent |-> parent, kids |-> kids, node |-> from]
<1>1. /\ moving' = [moving EXCEPT ![e] = m] /\ UNCHANGED <<tree, born>>
      /\ parent \in Standing(tree) \union {NoParent}
      /\ crossed' = (crossed \/ (from # NoParent /\ \E g \in Editor : Climbs(g)))
  BY DEF StartChange, Present, Standing, Climbs
<1>2. m \in Change /\ Known(m)'
  BY <1>1 DEF TreeInv, TreeTypes, Change, Known, Standing
<1>3. TreeTypes'
  BY <1>1, <1>2 DEF TreeInv, TreeTypes, Linked
<1>4. \A g \in Editor \ {e} : moving'[g] = moving[g]
  BY <1>1 DEF TreeInv, TreeTypes
<1>5. moving'[e] = m
  BY <1>1 DEF TreeInv, TreeTypes
<1>6. \A g \in Editor : Knows(g)'
  BY <1>1, <1>2, <1>4, <1>5 DEF TreeInv, Knows, Known
<1>7. \A g \in Editor \ {e} : (Climbs(g)' <=> Climbs(g)) /\ (LeadsUp(g)' <=> LeadsUp(g))
  BY <1>1, <1>4 DEF Climbs, Step, LeadsUp
<1>8. Climbs(e)' => from # NoParent /\ m.node = m.parent
  BY <1>5 DEF Climbs, Step
<1>9. Climbs(e)' => LeadsUp(e)'
  BY <1>5, <1>8 DEF LeadsUp, Leads
<1>10. ~crossed' => ~crossed /\ (Climbs(e)' => \A g \in Editor : ~Climbs(g))
  BY <1>1, <1>8
<1> QED BY <1>1, <1>3, <1>6, <1>7, <1>9, <1>10 DEF TreeInv

LEMMA TreeStep == TreeInv /\ TreeNext => TreeInv'
<1> SUFFICES ASSUME TreeInv, TreeNext PROVE TreeInv'
  OBVIOUS
<1>0. /\ TreeTypes /\ Standing(tree) = Present /\ Present \subseteq Category
      /\ \A e \in Editor : moving[e] # Resting => moving[e] \in Change /\ Known(moving[e])
  BY DEF TreeInv, TreeTypes, Standing, Present, Knows
<1>1. ASSUME NEW e \in Editor, StartCreate(e)
      PROVE  TreeInv'
  BY <1>0, <1>1, ChangeStarts DEF StartCreate
<1>2. ASSUME NEW e \in Editor, StartMove(e)
      PROVE  TreeInv'
  BY <1>0, <1>2, ChangeStarts DEF StartMove
<1>3. ASSUME NEW e \in Editor, StartDelete(e)
      PROVE  TreeInv'
  <2>1. PICK id \in Present : moving' = [moving EXCEPT ![e] =
          [does |-> "remove", at |-> "delete", id |-> id, parent |-> NoParent, kids |-> {}, node |-> NoParent]]
    BY <1>3 DEF StartDelete
  <2>2. UNCHANGED <<tree, born, crossed>>
    BY <1>3 DEF StartDelete
  <2> DEFINE m == [does |-> "remove", at |-> "delete", id |-> id, parent |-> NoParent, kids |-> {}, node |-> NoParent]
  <2>3. m \in Change /\ Known(m)' /\ m.at = "delete"
    BY <1>0 DEF Change, Known
  <2> HIDE DEF m
  <2>4. moving'[e] = m /\ \A g \in Editor \ {e} : moving'[g] = moving[g]
    BY <1>0, <2>1 DEF TreeTypes, m
  <2>5. TreeTypes'
    BY <1>0, <2>1, <2>2, <2>3 DEF TreeTypes, Linked, m
  <2>6. \A g \in Editor : Knows(g)'
    BY <1>0, <2>2, <2>3, <2>4 DEF Knows, Known
  <2>7. ~Climbs(e)'
    BY <2>3, <2>4 DEF Climbs, Step
  <2>8. \A g \in Editor \ {e} : (Climbs(g)' <=> Climbs(g)) /\ (LeadsUp(g)' <=> LeadsUp(g))
    BY <2>2, <2>4 DEF Climbs, Step, LeadsUp
  <2> QED BY <2>2, <2>5, <2>6, <2>7, <2>8 DEF TreeInv
<1>4. ASSUME NEW e \in Editor, Walk(e)
      PROVE  TreeInv'
  <2> DEFINE m == moving[e]
             on == IF tree[m.node] = Absent THEN NoParent ELSE tree[m.node]
  <2>1. UNCHANGED <<tree, born, crossed>> /\ Step(e, "walk") /\ m.node # NoParent
    BY <1>4 DEF Walk
  <2>2. m \in Change /\ Known(m) /\ m.node \in Category
    BY <1>0, <2>1 DEF Step, Change
  <2>3. CASE m.node \in m.kids
    <3>1. Rest(e)
      BY <1>4, <2>3 DEF Walk
    <3>2. TreeTypes'
      BY <1>0, <2>1, <3>1 DEF TreeTypes, Rest, Linked
    <3> QED BY <2>1, <3>1, <3>2, TreeRested DEF TreeInv, LeadsUp
  <2>4. CASE m.node \notin m.kids
    <3>1. moving' = [moving EXCEPT ![e].node = on]
      BY <1>4, <2>4 DEF Walk
    <3>2. on \in Category \union {NoParent}
      BY <1>0, <2>2 DEF TreeTypes
    <3> HIDE DEF on
    <3>3. /\ moving'[e] = [m EXCEPT !.node = on] /\ moving'[e] \in Change
          /\ \A g \in Editor \ {e} : moving'[g] = moving[g]
      BY <1>0, <2>2, <3>1, <3>2 DEF TreeTypes, Change
    <3>4. TreeTypes'
      BY <1>0, <2>1, <3>1, <3>3 DEF TreeTypes, Linked
    <3>5. /\ moving'[e].node = on /\ moving'[e].kids = m.kids /\ moving'[e].parent = m.parent
          /\ moving'[e].does = m.does /\ moving'[e].id = m.id /\ moving'[e].at = m.at
      BY <2>2, <3>3 DEF Change
    <3>6. \A g \in Editor : Knows(g)'
      BY <1>0, <2>1, <2>2, <3>3, <3>5 DEF Knows, Known
    <3>7. \A g \in Editor : Climbs(g)' => Climbs(g)
      BY <2>1, <3>3, <3>5 DEF Climbs, Step
    <3>8. \A g \in Editor \ {e} : LeadsUp(g)' <=> LeadsUp(g)
      BY <2>1, <3>3 DEF LeadsUp
    <3>9. LeadsUp(e) => LeadsUp(e)'
      <4> SUFFICES ASSUME LeadsUp(e), NEW S \in SUBSET Standing(tree), m.parent \in S, \A s \in S \ m.kids : tree[s] \in S
                   PROVE  on \in S
        BY <2>1, <3>5 DEF LeadsUp, Leads
      <4>1. m.node \in S
        BY DEF LeadsUp, Leads
      <4>2. tree[m.node] \in S /\ S \subseteq Category
        BY <2>4, <4>1 DEF Standing
      <4> QED BY <4>2, NamesApart DEF on
    <3> QED BY <2>1, <3>4, <3>6, <3>7, <3>8, <3>9 DEF TreeInv
  <2> QED BY <2>3, <2>4
<1>5. ASSUME NEW e \in Editor, InsertUnder(e)
      PROVE  TreeInv'
  <2> DEFINE m == moving[e]
  <2>1. Rest(e) /\ UNCHANGED crossed /\ Step(e, "walk") /\ m.node = NoParent
    BY <1>5 DEF InsertUnder, Walked
  <2>2. m \in Change /\ Known(m)
    BY <1>0, <2>1 DEF Step
  <2>3. CASE UNCHANGED <<tree, born>>
    <3>1. TreeTypes'
      BY <1>0, <2>1, <2>3 DEF TreeTypes, Rest, Linked
    <3> QED BY <2>1, <2>3, <3>1, TreeRested DEF TreeInv, LeadsUp
  <2>4. CASE ~UNCHANGED <<tree, born>>
    <3>1. PICK c \in Category \ born : tree' = Under(tree, c, m.parent, m.kids) /\ born' = born \union {c}
      BY <1>5, <2>4 DEF InsertUnder, Under
    <3>2. m.parent \in Present \union {NoParent}
      BY <1>5, <2>4 DEF InsertUnder
    <3> DEFINE p == m.parent
               kids == m.kids
    <3>3. /\ tree[c] = Absent /\ p # c /\ p \in Category \union {NoParent} /\ c \in Category
          /\ Linked(tree) /\ c \notin Standing(tree)
      BY <1>0, <2>2, <3>1, <3>2, NamesApart DEF TreeTypes, Known, Standing, Change
    <3>4. kids = {} \/ p = NoParent \/ Climbs(e)
      BY <2>1 DEF Climbs
    <3>5. ~crossed => kids = {} \/ p = NoParent \/ Leads(tree, kids, p, NoParent)
      BY <2>1, <3>4 DEF TreeInv, LeadsUp
    <3>6. ~crossed => Rooted(tree')
      BY <3>1, <3>3, <3>5, UnderRooted DEF TreeInv
    <3>7. ASSUME ~crossed, NEW g \in Editor \ {e}, Climbs(g)
          PROVE  Leads(tree', moving[g].kids, moving[g].parent, moving[g].node)
      <4>1. ~Climbs(e) /\ LeadsUp(g)
        BY <3>7 DEF TreeInv
      <4>2. kids = {} \/ p = NoParent
        BY <3>4, <4>1
      <4>3. c \notin moving[g].kids /\ moving[g].parent # c
        BY <1>0, <3>1, <3>7, NamesApart DEF Known, Climbs, Step
      <4> QED BY <3>1, <3>3, <4>1, <4>2, <4>3, UnderLeads DEF LeadsUp
    <3>8. TreeTypes'
      <4>1. Standing(tree') = Standing(tree) \union {c}
        BY <3>1, <3>3, UnderIn
      <4>2. tree' \in [Category -> Category \union {NoParent, Absent}] /\ Linked(tree')
        BY <1>0, <3>1, <3>2, <3>3, <4>1 DEF TreeTypes, Under, Linked
      <4>3. moving' \in [Editor -> Change \union {Resting}]
        BY <1>0, <2>1 DEF TreeTypes, Rest
      <4> QED BY <1>0, <3>1, <4>1, <4>2, <4>3 DEF TreeTypes
    <3> QED BY <2>1, <3>1, <3>6, <3>7, <3>8, TreeRested
  <2> QED BY <2>3, <2>4
<1>6. ASSUME NEW e \in Editor, SetParent(e)
      PROVE  TreeInv'
  <2> DEFINE m == moving[e]
             moves == m.parent \in Present \union {NoParent} /\ m.id \in Present
  <2>1. /\ Rest(e) /\ UNCHANGED <<born, crossed>> /\ Step(e, "walk") /\ m.node = NoParent /\ m.does = "move"
        /\ tree' = IF moves THEN [tree EXCEPT ![m.id] = m.parent] ELSE tree
    BY <1>6 DEF SetParent, Walked
  <2>2. m \in Change /\ Known(m) /\ m.kids = {m.id}
    BY <1>0, <2>1 DEF Step, Known
  <2>3. TreeTypes'
    <3>1. tree' \in [Category -> Category \union {NoParent, Absent}]
      BY <1>0, <2>1, <2>2 DEF TreeTypes, Change
    <3>2. Standing(tree') = Standing(tree)
      BY <1>0, <2>1, NamesApart DEF TreeTypes, Standing, Present
    <3>3. Linked(tree')
      BY <1>0, <2>1, <3>2 DEF TreeTypes, Linked
    <3> QED BY <1>0, <2>1, <3>1, <3>2, <3>3 DEF TreeTypes, Rest
  <2>4. CASE ~moves \/ m.parent = NoParent
    <3>1. /\ \A c \in Category : tree'[c] = tree[c] \/ tree'[c] \in {NoParent, Absent}
          /\ \A c \in Category : tree[c] = Absent => tree'[c] = Absent
      BY <1>0, <2>1, <2>4 DEF TreeTypes, Present
    <3>2. /\ Rooted(tree) => Rooted(tree')
          /\ \A kids, from, to : Leads(tree, kids, from, to) => Leads(tree', kids, from, to)
      BY <3>1, CutKeeps
    <3> QED BY <2>1, <2>3, <3>2, TreeRested DEF TreeInv, LeadsUp
  <2>5. CASE moves /\ m.parent # NoParent
    <3>1. Climbs(e)
      BY <2>1, <2>2, <2>5 DEF Climbs
    <3>2. ~crossed => Rooted(tree) /\ Leads(tree, {m.id}, m.parent, NoParent)
      BY <2>1, <2>2, <3>1 DEF TreeInv, LeadsUp
    <3>3. m.id \in Category /\ m.parent \in Category /\ tree[m.id] # Absent
      BY <1>0, <2>5 DEF Present
    <3>4. tree' = [tree EXCEPT ![m.id] = m.parent] /\ tree \in [Category -> Category \union {NoParent, Absent}]
      BY <1>0, <2>1, <2>5 DEF TreeTypes
    <3> HIDE DEF m
    <3>5. ~crossed => Rooted(tree')
      BY <3>2, <3>3, <3>4, MoveRooted
    <3>6. ~crossed => \A g \in Editor \ {e} : ~Climbs(g)
      BY <3>1 DEF TreeInv
    <3> QED BY <2>1, <2>3, <3>5, <3>6, TreeRested
  <2> QED BY <2>4, <2>5
<1>7. ASSUME NEW e \in Editor, WriteDelete(e)
      PROVE  TreeInv'
  <2> DEFINE id == moving[e].id
  <2>1. /\ Rest(e) /\ UNCHANGED <<born, crossed>>
        /\ tree' = IF id \in Present
                   THEN [c \in Category |-> IF c = id THEN Absent ELSE IF tree[c] = id THEN NoParent ELSE tree[c]]
                   ELSE tree
    BY <1>7 DEF WriteDelete
  <2> HIDE DEF id
  <2>2. /\ \A c \in Category : tree'[c] = tree[c] \/ tree'[c] \in {NoParent, Absent}
        /\ \A c \in Category : tree[c] = Absent => tree'[c] = Absent
    BY <1>0, <2>1, NamesApart
  <2>3. /\ Rooted(tree) => Rooted(tree')
        /\ \A kids, from, to : Leads(tree, kids, from, to) => Leads(tree', kids, from, to)
    BY <2>2, CutKeeps
  <2>4. TreeTypes'
    <3>1. tree' \in [Category -> Category \union {NoParent, Absent}]
      BY <1>0, <2>1 DEF TreeTypes
    <3>2. Standing(tree') = Standing(tree) \ {id}
      BY <1>0, <2>1, NamesApart DEF Standing
    <3>3. Linked(tree')
      BY <1>0, <2>1, <3>2 DEF TreeTypes, Linked
    <3> QED BY <1>0, <2>1, <3>1, <3>2, <3>3 DEF TreeTypes, Rest
  <2> QED BY <2>1, <2>3, <2>4, TreeRested DEF TreeInv, LeadsUp
<1>8. CASE Refile
  BY <1>8 DEF Refile, TreeInv, TreeTypes, Knows, Known, Climbs, Step, LeadsUp
<1> QED BY <1>1, <1>2, <1>3, <1>4, <1>5, <1>6, <1>7, <1>8 DEF TreeNext

LEMMA TreeKept == TreeInv /\ [Next]_vars => TreeInv'
<1> SUFFICES ASSUME TreeInv, [Next]_vars PROVE TreeInv'
  OBVIOUS
<1>1. CASE TreeNext
  BY <1>1, TreeStep
<1>2. CASE UNCHANGED treeVars
  BY <1>2 DEF treeVars, TreeInv, TreeTypes, Knows, Known, Climbs, Step, LeadsUp
<1>3. TreeNext \/ UNCHANGED treeVars
  BY DEF Next, vars
<1> QED BY <1>1, <1>2, <1>3

(* As long as no two changes walked up the tree at once, every category    *)
(* hangs off a root and getTree shows it, for any number of categories and *)
(* whatever else is created, moved to the top, emptied and deleted.        *)
THEOREM CategoriesAlwaysATree == Spec => []CategoriesFormATree
<1>1. TreeInv => CategoriesFormATree
  <2> SUFFICES ASSUME TreeTypes, Rooted(tree), NEW c \in Present,
                      NEW D \in SUBSET Present, {k \in Present : tree[k] = NoParent} \subseteq D,
                      Children(D) \subseteq D
               PROVE  c \in D
    BY DEF TreeInv, CategoriesFormATree, getTree, getDescendantIds
  <2>1. Present = Standing(tree)
    BY DEF Present, Standing
  <2>2. \A k \in Present \ D : tree[k] \in Present \ D
    BY <2>1 DEF TreeTypes, Linked, Present, Children
  <2>3. Present \ D = {}
    BY <2>1, <2>2 DEF Rooted
  <2> QED BY <2>3
<1> QED BY <1>1, TreeStart, TreeKept, PTL DEF Spec

-----------------------------------------------------------------------------
(* The remembered lists: how old what is held, what is being read and what *)
(* a caller was given can be.  last[v] is when v was last true, so that    *)
(* what was read then was true no earlier.                                 *)
Remembered == [holds : BOOLEAN, until : Nat]
Loading == [began : Nat, holds : BOOLEAN \union {NoList}]
Asked ==
  [does : {"all", "find", "decide", "check"},
   at : {"begun", "has", "awaits", "queries all", "queries one", "read all", "read one", "answered"},
   round : {1, 2}, began : Nat, seen : SUBSET BOOLEAN,
   holds : BOOLEAN \union {NoList}, remembered : BOOLEAN]

ListTypes ==
  /\ clock \in Nat /\ fact \in BOOLEAN
  /\ last \in [BOOLEAN -> Nat] /\ last[fact] = clock /\ \A v \in BOOLEAN : last[v] <= clock
  /\ cache \in Remembered \union {NoList}
  /\ load \in Loading \union {NoList}
  /\ asks \in [Caller -> Asked \union {NoAsk}]

HeldIsRecent ==
  cache # NoList => /\ cache.until <= clock + TTL
                    /\ cache.until <= last[cache.holds] + TTL + TIMEOUT

(* While a list is good nobody reads it anew.                              *)
ReadIsRecent ==
  load # NoList => /\ load.began <= clock /\ clock <= load.began + TIMEOUT
                   /\ load.holds # NoList => load.began <= last[load.holds]
                   /\ list # "people" /\ ~Good(cache)

Posed(a) ==
  /\ a.began <= clock /\ fact \in a.seen
  /\ a.does = "check" <=> list = "people"
  /\ a.at \in {"has", "awaits"} => list # "people"
  /\ a.at \in {"queries all", "queries one", "read all", "read one"} => list = "people"
  /\ a.does = "all" => a.round = 1
  /\ a.does = "decide" => a.round = 2
  /\ a.remembered => a.at = "answered"

Given(a) ==
  a.at \in {"has", "answered"} =>
    /\ a.holds \in BOOLEAN
    /\ a.began <= last[a.holds] + TTL + TIMEOUT
    /\ a.does = "decide" => a.began <= last[a.holds] + TIMEOUT

(* Who looks a second time is told what was so since they asked.           *)
SeenSince(a) ==
  a.does = "find" =>
    /\ a.at = "has" /\ a.round = 1 /\ load # NoList /\ load.holds # NoList => load.holds \in a.seen
    /\ a.at = "awaits" /\ a.round = 2 /\ load # NoList /\ load.holds # NoList => load.holds \in a.seen
    /\ a.at = "has" /\ a.round = 2 => a.holds \in a.seen
    /\ a.at = "answered" /\ ~a.remembered /\ ~a.holds => a.holds \in a.seen

QueriedSince(a) ==
  /\ a.at \in {"queries all", "queries one", "read all", "read one"} => clock <= a.began + TIMEOUT
  /\ a.at \in {"read all", "read one"} =>
       /\ a.holds \in BOOLEAN /\ a.holds \in a.seen /\ a.began <= last[a.holds]
  /\ a.at \in {"queries one", "read one"} => cache # NoList
  /\ a.at = "answered" /\ a.does = "check" /\ a.holds => TRUE \in a.seen

AskInv(c) ==
  asks[c] # NoAsk => Posed(asks[c]) /\ Given(asks[c]) /\ SeenSince(asks[c]) /\ QueriedSince(asks[c])

ListInv == ListTypes /\ HeldIsRecent /\ ReadIsRecent /\ \A c \in Caller : AskInv(c)

LEMMA ListStart == Init => ListInv
<1> SUFFICES ASSUME Init PROVE ListInv
  OBVIOUS
<1>1. ListsAtRest
  BY DEF Init, ListsInit, ListsStill
<1>2. /\ clock = 0 /\ fact \in BOOLEAN /\ cache = NoList /\ load = NoList
      /\ \A c \in Caller : asks[c] = NoAsk
  BY <1>1 DEF ListsAtRest
<1>3. last \in [BOOLEAN -> Nat] /\ \A v \in BOOLEAN : last[v] = 0
  BY <1>1 DEF ListsAtRest
<1>4. asks \in [Caller -> Asked \union {NoAsk}]
  BY <1>1 DEF ListsAtRest
<1>5. ListTypes
  BY <1>2, <1>3, <1>4 DEF ListTypes
<1> QED BY <1>2, <1>5 DEF ListInv, HeldIsRecent, ReadIsRecent, AskInv

(* A caller's question stands as it stood when something else moves: the   *)
(* read under way may start, end, or see what is so now; a list of people  *)
(* is never forgotten.                                                     *)
LEMMA OthersStand ==
  ASSUME ListInv, NEW c \in Caller, asks'[c] = asks[c], UNCHANGED <<list, clock, fact, last>>,
         load' # NoList /\ load'.holds # NoList => load' = load \/ load'.holds = fact,
         cache' = NoList /\ list = "people" => cache = NoList
  PROVE  AskInv(c)'
<1> SUFFICES ASSUME asks[c] # NoAsk PROVE AskInv(c)'
  BY DEF AskInv
<1>1. AskInv(c)
  BY DEF ListInv
<1>2. Posed(asks[c])' /\ Given(asks[c])'
  BY <1>1 DEF AskInv, Posed, Given
<1>3. SeenSince(asks[c])'
  BY <1>1 DEF AskInv, SeenSince, Posed
<1>4. QueriedSince(asks[c])'
  <2>1. asks[c].at \in {"queries one", "read one"} => list = "people"
    BY <1>1 DEF AskInv, Posed
  <2> QED BY <1>1, <2>1 DEF AskInv, QueriedSince
<1> QED BY <1>2, <1>3, <1>4 DEF AskInv

(* One caller's question moves.                                            *)
LEMMA OneMoves ==
  ASSUME ListInv, NEW c \in Caller, NEW a \in Asked \union {NoAsk},
         asks' = [asks EXCEPT ![c] = a], UNCHANGED <<list, clock, fact, last>>,
         load' \in Loading \union {NoList}, cache' \in Remembered \union {NoList},
         load' # NoList /\ load'.holds # NoList => load' = load \/ load'.holds = fact,
         cache' = NoList /\ list = "people" => cache = NoList,
         HeldIsRecent', ReadIsRecent',
         a # NoAsk => Posed(a)' /\ Given(a)' /\ SeenSince(a)' /\ QueriedSince(a)'
  PROVE  ListInv'
<1>1. asks \in [Caller -> Asked \union {NoAsk}]
  BY DEF ListInv, ListTypes
<1>2. asks'[c] = a /\ asks' \in [Caller -> Asked \union {NoAsk}]
  BY <1>1
<1>3. \A d \in Caller \ {c} : asks'[d] = asks[d]
  BY <1>1
<1>4. ListTypes'
  BY <1>2 DEF ListInv, ListTypes
<1>5. AskInv(c)'
  BY <1>2 DEF AskInv, Posed, Given, SeenSince, QueriedSince
<1>6. \A d \in Caller \ {c} : AskInv(d)'
  BY <1>3, OthersStand
<1> QED BY <1>4, <1>5, <1>6 DEF ListInv

LEMMA FetchKeeps ==
  ASSUME ListInv, NEW c \in Caller, NEW ask \in Asked, NEW held, NEW round \in {1, 2},
         Fetch(c, ask, held, round), UNCHANGED <<list, clock, fact, last>>,
         held = cache \/ held = NoList, list # "people",
         ask.began <= clock, fact \in ask.seen, ask.does # "check", ~ask.remembered,
         round = 2 => held = NoList,
         ask.does = "all" => round = 1,
         ask.does = "decide" => round = 2,
         ask.does = "find" /\ round = 2 /\ load # NoList /\ load.holds # NoList => load.holds \in ask.seen
  PROVE  ListInv'
<1>0. /\ clock \in Nat /\ TTL \in Nat /\ TIMEOUT \in Nat /\ cache \in Remembered \union {NoList}
      /\ load \in Loading \union {NoList} /\ last \in [BOOLEAN -> Nat]
  BY TimesAreNumbers DEF ListInv, ListTypes
<1>1. cache' = held /\ held \in Remembered \union {NoList}
  BY <1>0 DEF Fetch
<1>2. HeldIsRecent'
  BY <1>1 DEF ListInv, HeldIsRecent
<1>3. CASE Good(held)
  <2>1. held = cache /\ held # NoList /\ held \in Remembered /\ clock < held.until /\ round = 1
    BY <1>0, <1>3 DEF Good
  <2>2. load = NoList /\ load' = NoList
    BY <1>3, <2>1 DEF ListInv, ReadIsRecent, Fetch
  <2>3. PICK a : a = [ask EXCEPT !.at = "has", !.round = round, !.holds = held.holds]
    OBVIOUS
  <2>4. asks' = [asks EXCEPT ![c] = a]
    BY <1>3, <2>3 DEF Fetch
  <2>5. /\ a.at = "has" /\ a.round = 1 /\ a.holds = held.holds /\ a.does = ask.does /\ a.began = ask.began
        /\ a.seen = ask.seen /\ a.remembered = ask.remembered /\ a \in Asked
    BY <2>1, <2>3 DEF Asked, Remembered
  <2>6. held.holds \in BOOLEAN /\ held.until \in Nat /\ last[held.holds] \in Nat /\ ask.began \in Nat
    BY <1>0, <2>1 DEF Remembered, Asked
  <2>7. clock < last[held.holds] + TTL + TIMEOUT
    BY <1>0, <2>1, <2>6 DEF ListInv, HeldIsRecent
  <2>8. ask.began <= last[held.holds] + TTL + TIMEOUT /\ ask.does # "decide"
    BY <1>0, <2>1, <2>6, <2>7
  <2>9. Posed(a)' /\ Given(a)' /\ SeenSince(a)' /\ QueriedSince(a)'
    BY <2>1, <2>2, <2>5, <2>6, <2>8 DEF Posed, Given, SeenSince, QueriedSince
  <2>10. ReadIsRecent'
    BY <2>2 DEF ReadIsRecent
  <2> QED BY <1>0, <1>1, <1>2, <2>2, <2>4, <2>5, <2>9, <2>10, OneMoves
<1>4. CASE ~Good(held)
  <2>1. PICK a : a = [ask EXCEPT !.at = "awaits", !.round = round]
    OBVIOUS
  <2>2. asks' = [asks EXCEPT ![c] = a]
    BY <1>4, <2>1 DEF Fetch
  <2>3. /\ a.at = "awaits" /\ a.round = round /\ a.does = ask.does /\ a.began = ask.began
        /\ a.seen = ask.seen /\ a.remembered = ask.remembered /\ a \in Asked
    BY <2>1 DEF Asked
  <2>4. PICK l : l = IF load = NoList THEN [began |-> clock, holds |-> NoList] ELSE load
    OBVIOUS
  <2>5. load' = l
    BY <1>4, <2>4 DEF Fetch
  <2>6. l \in Loading \union {NoList} /\ (l # NoList /\ l.holds # NoList => l = load)
    BY <1>0, <2>4 DEF Loading
  <2>7. ReadIsRecent'
    <3>1. CASE load = NoList
      BY <1>0, <1>1, <1>4, <2>4, <2>5, <3>1 DEF ReadIsRecent, Good
    <3>2. CASE load # NoList
      BY <1>1, <1>4, <2>4, <2>5, <3>2 DEF ListInv, ReadIsRecent, Good
    <3> QED BY <3>1, <3>2
  <2>8. Posed(a)' /\ Given(a)' /\ SeenSince(a)' /\ QueriedSince(a)'
    BY <2>3, <2>5, <2>6 DEF Posed, Given, SeenSince, QueriedSince
  <2> QED BY <1>0, <1>1, <1>2, <2>2, <2>3, <2>5, <2>6, <2>7, <2>8, OneMoves
<1> QED BY <1>3, <1>4

(* The read of a list goes on: it sees what is so now, ends or fails.      *)
LEMMA LoadKeeps == ListInv /\ (LoadReads \/ LoadEnds \/ LoadFails) => ListInv'
<1> SUFFICES ASSUME ListInv, LoadReads \/ LoadEnds \/ LoadFails PROVE ListInv'
  OBVIOUS
<1>0. /\ clock \in Nat /\ TTL \in Nat /\ TIMEOUT \in Nat /\ cache \in Remembered \union {NoList}
      /\ load \in Loading \union {NoList} /\ last \in [BOOLEAN -> Nat] /\ fact \in BOOLEAN /\ last[fact] = clock
      /\ asks \in [Caller -> Asked \union {NoAsk}]
      /\ UNCHANGED <<list, clock, fact, last>>
  BY TimesAreNumbers DEF ListInv, ListTypes, LoadReads, LoadEnds, LoadFails
<1>1. /\ load # NoList /\ load \in Loading /\ load.began <= clock /\ clock <= load.began + TIMEOUT
      /\ list # "people" /\ ~Good(cache) /\ load.began \in Nat
      /\ load.holds # NoList => load.holds \in BOOLEAN /\ load.began <= last[load.holds]
  BY <1>0 DEF LoadReads, LoadEnds, LoadFails, ListInv, ReadIsRecent, Loading
<1>2. CASE LoadReads
  <2>1. PICK l : l = [load EXCEPT !.holds = fact]
    OBVIOUS
  <2>2. load' = l /\ UNCHANGED <<cache, asks>>
    BY <1>2, <2>1 DEF LoadReads
  <2>3. l.holds = fact /\ l.began = load.began /\ l \in Loading
    BY <1>0, <1>1, <2>1 DEF Loading
  <2>4. ListTypes' /\ HeldIsRecent' /\ ReadIsRecent'
    BY <1>0, <1>1, <2>2, <2>3 DEF ListInv, ListTypes, HeldIsRecent, ReadIsRecent, Good
  <2>5. \A c \in Caller : AskInv(c)'
    BY <1>0, <2>2, <2>3, OthersStand
  <2> QED BY <2>4, <2>5 DEF ListInv
<1>3. CASE LoadFails
  <2>1. load' = NoList /\ UNCHANGED cache
    BY <1>3 DEF LoadFails
  <2>2. \A c \in Caller : asks'[c] = NoAsk \/ asks'[c] = asks[c]
    BY <1>0, <1>3 DEF LoadFails
  <2>3. asks' \in [Caller -> Asked \union {NoAsk}]
    BY <1>0, <1>3 DEF LoadFails
  <2>4. ListTypes' /\ HeldIsRecent' /\ ReadIsRecent'
    BY <1>0, <2>1, <2>3 DEF ListInv, ListTypes, HeldIsRecent, ReadIsRecent
  <2>5. \A c \in Caller : AskInv(c)'
    <3> SUFFICES ASSUME NEW c \in Caller PROVE AskInv(c)'
      OBVIOUS
    <3>1. CASE asks'[c] = NoAsk
      BY <3>1 DEF AskInv
    <3>2. CASE asks'[c] = asks[c]
      BY <1>0, <2>1, <3>2, OthersStand
    <3> QED BY <2>2, <3>1, <3>2
  <2> QED BY <2>4, <2>5 DEF ListInv
<1>4. CASE LoadEnds
  <2>1. PICK v : v = load.holds
    OBVIOUS
  <2>2. v \in BOOLEAN /\ load.began <= last[v] /\ last[v] \in Nat
    BY <1>0, <1>1, <1>4, <2>1 DEF LoadEnds
  <2>3. PICK n \in Nat : n = clock + TTL
    BY <1>0
  <2>4. cache' = [holds |-> v, until |-> n] /\ load' = NoList
    BY <1>4, <2>1, <2>3 DEF LoadEnds
  <2>5. cache' \in Remembered /\ cache' # NoList /\ cache'.holds = v /\ cache'.until = n
    BY <2>2, <2>4, NothingIsNoAnswer DEF Remembered
  <2>6. HeldIsRecent'
    BY <1>0, <1>1, <2>2, <2>3, <2>5 DEF HeldIsRecent
  <2>7. ReadIsRecent'
    BY <2>4 DEF ReadIsRecent
  <2>8. ASSUME NEW c \in Caller, Stands(c, "awaits")
        PROVE  AskInv(c)' /\ asks'[c] \in Asked
    <3>1. PICK a : a = asks[c]
      OBVIOUS
    <3>2. PICK b : b = [a EXCEPT !.at = "has", !.holds = v]
      OBVIOUS
    <3>3. asks'[c] = b
      BY <1>0, <1>4, <2>1, <2>8, <3>1, <3>2 DEF LoadEnds
    <3>4. a \in Asked /\ a.at = "awaits" /\ Posed(a) /\ SeenSince(a)
      BY <1>0, <2>8, <3>1 DEF Stands, ListInv, AskInv
    <3>5. /\ b.at = "has" /\ b.round = a.round /\ b.holds = v /\ b.does = a.does /\ b.began = a.began
          /\ b.seen = a.seen /\ b.remembered = a.remembered /\ b \in Asked
      BY <2>2, <3>2, <3>4 DEF Asked
    <3>6. a.began <= last[v] + TIMEOUT /\ a.began <= last[v] + TTL + TIMEOUT
      <4>1. a.began \in Nat /\ a.began <= clock
        BY <3>4 DEF Posed, Asked
      <4> HIDE DEF Asked
      <4>2. clock <= load.began + TIMEOUT /\ load.began <= last[v] /\ load.began \in Nat
        BY <1>1, <2>2
      <4> QED BY <1>0, <2>2, <4>1, <4>2
    <3>7. a.does = "find" /\ a.round = 2 => v \in a.seen
      BY <1>1, <2>1, <2>2, <3>4, NothingIsNoAnswer DEF SeenSince
    <3>8. Posed(b)' /\ Given(b)' /\ QueriedSince(b)'
      BY <1>0, <2>2, <3>4, <3>5, <3>6 DEF Posed, Given, QueriedSince
    <3>9. SeenSince(b)'
      BY <2>4, <3>5, <3>7 DEF SeenSince
    <3> QED BY <3>3, <3>5, <3>8, <3>9 DEF AskInv, Posed, Given, SeenSince, QueriedSince
  <2>9. ASSUME NEW c \in Caller, ~Stands(c, "awaits")
        PROVE  AskInv(c)' /\ asks'[c] = asks[c]
    <3>1. asks'[c] = asks[c]
      BY <1>4, <2>9 DEF LoadEnds
    <3> QED BY <1>0, <2>4, <2>5, <3>1, OthersStand
  <2>10. ListTypes'
    <3>1. \A c \in Caller : asks'[c] \in Asked \union {NoAsk}
      BY <1>0, <2>8, <2>9
    <3>2. asks' \in [Caller -> Asked \union {NoAsk}]
      BY <1>4, <3>1 DEF LoadEnds
    <3> QED BY <1>0, <2>4, <2>5, <3>2 DEF ListInv, ListTypes
  <2> QED BY <2>6, <2>7, <2>8, <2>9, <2>10 DEF ListInv
<1> QED BY <1>2, <1>3, <1>4

(* The row appears or goes, and time passes.                               *)
LEMMA WorldKeeps == ListInv /\ (Flip \/ Tick) => ListInv'
<1> SUFFICES ASSUME ListInv, Flip \/ Tick PROVE ListInv'
  OBVIOUS
<1>0. /\ clock \in Nat /\ TTL \in Nat /\ TIMEOUT \in Nat /\ cache \in Remembered \union {NoList}
      /\ load \in Loading \union {NoList} /\ last \in [BOOLEAN -> Nat] /\ fact \in BOOLEAN /\ last[fact] = clock
      /\ \A v \in BOOLEAN : last[v] <= clock
      /\ asks \in [Caller -> Asked \union {NoAsk}]
      /\ UNCHANGED <<list, cache, load>>
  BY TimesAreNumbers DEF ListInv, ListTypes, Flip, Tick
<1>1. PICK now : now = clock'
  OBVIOUS
<1>2. now \in Nat /\ clock <= now
  BY <1>0, <1>1 DEF Flip, Tick
<1>3. PICK f \in BOOLEAN : f = fact' /\ last' = [last EXCEPT ![f] = now]
  BY <1>0, <1>1 DEF Flip, Tick
<1>4. /\ last' \in [BOOLEAN -> Nat] /\ last'[f] = now
      /\ \A v \in BOOLEAN : last[v] <= last'[v] /\ last'[v] <= now
  BY <1>0, <1>2, <1>3
<1>5. HeldIsRecent'
  <2> SUFFICES ASSUME cache # NoList
               PROVE  cache.until <= now + TTL /\ cache.until <= last'[cache.holds] + TTL + TIMEOUT
    BY <1>0, <1>1 DEF HeldIsRecent
  <2>1. cache.until \in Nat /\ cache.holds \in BOOLEAN
    BY <1>0 DEF Remembered
  <2>2. cache.until <= clock + TTL /\ cache.until <= last[cache.holds] + TTL + TIMEOUT
    BY DEF ListInv, HeldIsRecent
  <2>3. last[cache.holds] \in Nat /\ last'[cache.holds] \in Nat /\ last[cache.holds] <= last'[cache.holds]
    BY <1>0, <1>4, <2>1
  <2> QED BY <1>0, <1>2, <2>1, <2>2, <2>3
<1>6. ReadIsRecent'
  <2> SUFFICES ASSUME load # NoList
               PROVE  /\ load.began <= now /\ now <= load.began + TIMEOUT
                      /\ load.holds # NoList => load.began <= last'[load.holds]
                      /\ list # "people" /\ ~Good(cache)'
    BY <1>0, <1>1 DEF ReadIsRecent
  <2>1. load.began \in Nat /\ load.holds \in BOOLEAN \union {NoList}
    BY <1>0 DEF Loading
  <2>2. /\ load.began <= clock /\ clock <= load.began + TIMEOUT /\ list # "people" /\ ~Good(cache)
        /\ load.holds # NoList => load.began <= last[load.holds]
    BY DEF ListInv, ReadIsRecent
  <2>3. now <= load.began + TIMEOUT
    BY <1>0, <1>1, <2>1, <2>2 DEF Flip, Tick
  <2>4. ~Good(cache)'
    <3>1. cache # NoList => cache.until \in Nat /\ ~(clock < cache.until)
      BY <1>0, <2>2 DEF Good, Remembered
    <3> QED BY <1>0, <1>1, <1>2, <3>1 DEF Good
  <2>5. load.holds # NoList => load.began <= last'[load.holds]
    <3> SUFFICES ASSUME load.holds # NoList PROVE load.began <= last'[load.holds]
      OBVIOUS
    <3>1. load.holds \in BOOLEAN
      BY <2>1
    <3>2. last[load.holds] \in Nat /\ last'[load.holds] \in Nat /\ last[load.holds] <= last'[load.holds]
      BY <1>0, <1>4, <3>1
    <3> QED BY <2>1, <2>2, <3>2
  <2> QED BY <1>0, <1>2, <2>1, <2>2, <2>3, <2>4, <2>5
<1>7. ASSUME NEW c \in Caller
      PROVE  AskInv(c)' /\ asks'[c] \in Asked \union {NoAsk}
  <2>1. CASE asks[c] = NoAsk
    <3>1. asks'[c] = NoAsk
      BY <1>0, <2>1 DEF Flip, Tick
    <3> QED BY <3>1 DEF AskInv
  <2>2. CASE asks[c] # NoAsk
    <3>1. PICK a : a = asks[c]
      OBVIOUS
    <3>2. PICK b : b = asks'[c]
      OBVIOUS
    <3>3. a \in Asked /\ Posed(a) /\ Given(a) /\ SeenSince(a) /\ QueriedSince(a)
      BY <1>0, <2>2, <3>1 DEF ListInv, AskInv
    <3>4. /\ b.at = a.at /\ b.round = a.round /\ b.holds = a.holds /\ b.does = a.does /\ b.began = a.began
          /\ a.seen \subseteq b.seen /\ f \in b.seen /\ b.remembered = a.remembered /\ b \in Asked
      <4>1. CASE Flip
        <5>1. b = [a EXCEPT !.seen = @ \union {f}]
          BY <1>0, <1>3, <2>2, <3>1, <3>2, <4>1 DEF Flip
        <5> QED BY <1>3, <3>3, <5>1 DEF Asked
      <4>2. CASE Tick
        BY <1>3, <3>1, <3>2, <3>3, <4>2 DEF Tick, Posed
      <4> QED BY <4>1, <4>2
    <3>5. /\ a.began \in Nat /\ a.began <= now
          /\ a.at \in {"queries all", "queries one", "read all", "read one"} => now <= a.began + TIMEOUT
      <4>1. a.began \in Nat /\ a.began <= clock
        BY <3>3 DEF Asked, Posed
      <4>2. a.began <= now
        BY <1>0, <1>2, <4>1
      <4>3. CASE Flip
        BY <1>0, <1>1, <3>3, <4>1, <4>2, <4>3 DEF Flip, QueriedSince
      <4>4. CASE Tick
        <5>1. now = clock + 1 /\ (Querying(c) => clock < a.began + TIMEOUT)
          BY <1>1, <3>1, <4>4 DEF Tick
        <5>2. a.at \in {"queries all", "queries one", "read all", "read one"} => Querying(c)
          BY <2>2, <3>1 DEF Querying
        <5>3. PICK t \in Nat : t = a.began
          BY <4>1
        <5>4. Querying(c) => now <= t + TIMEOUT
          <6>1. Querying(c) => clock < t + TIMEOUT
            BY <5>1, <5>3
          <6>2. clock < t + TIMEOUT => now <= t + TIMEOUT
            BY ONLY <1>0, <5>1, t \in Nat
          <6> QED BY <6>1, <6>2
        <5> QED BY <4>1, <4>2, <5>2, <5>3, <5>4
      <4>5. Flip \/ Tick
        OBVIOUS
      <4> QED BY ONLY <4>3, <4>4, <4>5
    <3>6. \A v \in BOOLEAN : /\ last[v] \in Nat /\ last'[v] \in Nat
                             /\ a.began <= last[v] => a.began <= last'[v]
                             /\ a.began <= last[v] + TIMEOUT => a.began <= last'[v] + TIMEOUT
                             /\ a.began <= last[v] + TTL + TIMEOUT => a.began <= last'[v] + TTL + TIMEOUT
      <4>1. \A v \in BOOLEAN : last[v] \in Nat /\ last'[v] \in Nat /\ last[v] <= last'[v]
        BY <1>0, <1>4
      <4> SUFFICES ASSUME NEW v \in BOOLEAN
                   PROVE  /\ last[v] \in Nat /\ last'[v] \in Nat
                          /\ a.began <= last[v] => a.began <= last'[v]
                          /\ a.began <= last[v] + TIMEOUT => a.began <= last'[v] + TIMEOUT
                          /\ a.began <= last[v] + TTL + TIMEOUT => a.began <= last'[v] + TTL + TIMEOUT
        OBVIOUS
      <4>2. last[v] \in Nat /\ last'[v] \in Nat /\ last[v] <= last'[v] /\ a.began \in Nat
        BY <3>5, <4>1
      <4> QED BY ONLY <1>0, <4>2
    <3>7. Posed(b)'
      BY <1>0, <1>1, <1>3, <3>3, <3>4, <3>5 DEF Posed
    <3>8. Given(b)'
      BY <3>3, <3>4, <3>6 DEF Given
    <3>9. SeenSince(b)'
      BY <1>0, <3>3, <3>4 DEF SeenSince
    <3>10. QueriedSince(b)'
      BY <1>0, <1>1, <3>3, <3>4, <3>5, <3>6 DEF QueriedSince
    <3> QED BY <3>2, <3>4, <3>7, <3>8, <3>9, <3>10 DEF AskInv, Posed, Given, SeenSince, QueriedSince
  <2> QED BY <2>1, <2>2
<1>8. asks' \in [Caller -> Asked \union {NoAsk}]
  <2>1. \E q : asks' = [c \in Caller |-> q[c]]
    BY <1>0 DEF Flip, Tick
  <2> QED BY <1>7, <2>1
<1>9. ListTypes'
  BY <1>0, <1>1, <1>2, <1>3, <1>4, <1>8 DEF ListTypes
<1> QED BY <1>5, <1>6, <1>7, <1>9 DEF ListInv

(* What a caller does that asks neither for a read nor forgets a list: its *)
(* record changes to one that is as it must be.                            *)
LEMMA AskMoves ==
  ASSUME ListInv, NEW c \in Caller, NEW a \in Asked \union {NoAsk},
         asks' = [asks EXCEPT ![c] = a], UNCHANGED <<list, clock, fact, last, cache, load>>,
         a # NoAsk => Posed(a) /\ Given(a) /\ SeenSince(a) /\ QueriedSince(a)
  PROVE  ListInv'
<1>1. HeldIsRecent' /\ ReadIsRecent' /\ load' \in Loading \union {NoList} /\ cache' \in Remembered \union {NoList}
  BY DEF ListInv, ListTypes, HeldIsRecent, ReadIsRecent, Good
<1>2. a # NoAsk => Posed(a)' /\ Given(a)' /\ SeenSince(a)' /\ QueriedSince(a)'
  BY DEF Posed, Given, SeenSince, QueriedSince
<1> QED BY <1>1, <1>2, OneMoves

LEMMA CallerKeeps ==
  ASSUME ListInv, NEW c \in Caller,
         \/ AskList(c) \/ AskFresh(c) \/ LookUp(c) \/ LookAgain(c)
         \/ AskPeople(c) \/ QueryReads(c) \/ QueryFails(c)
         \/ AllRead(c) \/ OneRead(c) \/ Leave(c)
  PROVE  ListInv'
<1>0. /\ clock \in Nat /\ TTL \in Nat /\ TIMEOUT \in Nat /\ cache \in Remembered \union {NoList}
      /\ load \in Loading \union {NoList} /\ last \in [BOOLEAN -> Nat] /\ fact \in BOOLEAN /\ last[fact] = clock
      /\ asks \in [Caller -> Asked \union {NoAsk}]
  BY TimesAreNumbers DEF ListInv, ListTypes
<1>1. ASSUME asks[c] # NoAsk
      PROVE  asks[c] \in Asked /\ Posed(asks[c]) /\ Given(asks[c]) /\ SeenSince(asks[c]) /\ QueriedSince(asks[c])
  BY <1>0, <1>1 DEF ListInv, AskInv
<1>2. ASSUME NEW does \in {"all", "find", "decide", "check"}
      PROVE  /\ Question(does) \in Asked /\ Question(does).began <= clock /\ fact \in Question(does).seen
             /\ ~Question(does).remembered /\ Question(does).does = does
  <2>1. {fact} \in SUBSET BOOLEAN /\ clock <= clock
    BY <1>0
  <2>2. PICK q : q = Question(does)
    OBVIOUS
  <2>3. /\ q.does = does /\ q.began = clock /\ q.seen = {fact} /\ q.remembered = FALSE
    BY <2>2 DEF Question
  <2>4. q \in Asked
    BY <1>0, <2>1, <2>2 DEF Question, Asked
  <2> QED BY <2>1, <2>2, <2>3, <2>4
<1>3. CASE AskList(c)
  <2>1. PICK does \in {"all", "find"} : Fetch(c, Question(does), cache, 1)
    BY <1>3 DEF AskList
  <2>2. list # "people" /\ UNCHANGED <<list, clock, fact, last>>
    BY <1>3 DEF AskList
  <2>3. PICK ask : ask = Question(does)
    OBVIOUS
  <2>4. /\ ask \in Asked /\ ask.began <= clock /\ fact \in ask.seen /\ ~ask.remembered /\ ask.does \in {"all", "find"}
        /\ Fetch(c, ask, cache, 1)
    BY <1>2, <2>1, <2>3
  <2> QED BY <2>2, <2>4, FetchKeeps
<1>4. CASE AskFresh(c)
  <2>1. PICK ask : ask = Question("decide")
    OBVIOUS
  <2>2. list # "people" /\ UNCHANGED <<list, clock, fact, last>> /\ Fetch(c, ask, NoList, 2)
    BY <1>4, <2>1 DEF AskFresh
  <2>3. ask \in Asked /\ ask.began <= clock /\ fact \in ask.seen /\ ~ask.remembered /\ ask.does = "decide"
    BY <1>2, <2>1
  <2> QED BY <2>2, <2>3, FetchKeeps
<1>5. CASE LookUp(c)
  <2>1. PICK a : a = asks[c]
    OBVIOUS
  <2>2. /\ a \in Asked /\ Posed(a) /\ Given(a) /\ SeenSince(a) /\ QueriedSince(a)
        /\ a.at = "has" /\ a.round = 1 /\ UNCHANGED <<list, clock, fact, last>>
    BY <1>1, <1>5, <2>1 DEF LookUp, Stands
  <2>3. CASE Enough(a)
    <3>1. PICK b : b = [a EXCEPT !.at = "answered", !.remembered = (a.does = "find" /\ ~a.holds)]
      OBVIOUS
    <3>2. asks' = [asks EXCEPT ![c] = b] /\ UNCHANGED <<cache, load>>
      BY <1>5, <2>1, <2>2, <2>3, <3>1 DEF LookUp, Answer, Asked
    <3>3. /\ b.at = "answered" /\ b.remembered = (a.does = "find" /\ ~a.holds) /\ b.does = a.does /\ b.began = a.began
          /\ b.seen = a.seen /\ b.holds = a.holds /\ b.round = a.round /\ b \in Asked
      BY <2>2, <3>1 DEF Asked
    <3>4. a.does # "check" /\ a.does # "decide" /\ a.holds \in BOOLEAN
      BY <2>2 DEF Posed, Given
    <3>5. Posed(b) /\ Given(b) /\ SeenSince(b) /\ QueriedSince(b)
      BY <2>2, <3>3, <3>4 DEF Posed, Given, SeenSince, QueriedSince
    <3> QED BY <2>2, <3>2, <3>3, <3>5, AskMoves
  <2>4. CASE ~Enough(a)
    <3>1. Fetch(c, a, NoList, 2) /\ a.does # "all"
      BY <1>5, <2>1, <2>4 DEF LookUp, Enough
    <3>2. list # "people" /\ a.began <= clock /\ fact \in a.seen /\ a.does # "check" /\ ~a.remembered /\ a.does # "decide"
      <4>1. list # "people" /\ a.does # "check"
        BY <2>2 DEF Posed
      <4>2. a.began <= clock /\ fact \in a.seen /\ ~a.remembered
        BY <2>2 DEF Posed
      <4>3. a.does # "decide"
        BY <2>2 DEF Posed
      <4> QED BY <4>1, <4>2, <4>3
    <3>3. a.does = "find" /\ load # NoList /\ load.holds # NoList => load.holds \in a.seen
      BY <2>2 DEF SeenSince
    <3> QED BY <2>2, <3>1, <3>2, <3>3, FetchKeeps
  <2> QED BY <2>3, <2>4
<1>6. CASE LookAgain(c) \/ AllRead(c) \/ OneRead(c)
  <2>1. PICK a : a = asks[c]
    OBVIOUS
  <2>2. /\ a \in Asked /\ Posed(a) /\ Given(a) /\ SeenSince(a) /\ QueriedSince(a)
        /\ a.at \in {"has", "read all", "read one"} /\ (a.at = "has" => a.round = 2)
        /\ UNCHANGED <<list, clock, fact, last, load>>
    BY <1>1, <1>6, <2>1 DEF LookAgain, AllRead, OneRead, Stands
  <2>3. PICK b : b = [a EXCEPT !.at = "answered"]
    OBVIOUS
  <2>4. asks' = [asks EXCEPT ![c] = b]
    BY <1>6, <2>1, <2>3 DEF LookAgain, AllRead, OneRead, Answer
  <2>5. /\ b.at = "answered" /\ b.remembered = a.remembered /\ b.does = a.does /\ b.began = a.began
        /\ b.seen = a.seen /\ b.holds = a.holds /\ b.round = a.round /\ b \in Asked
    BY <2>2, <2>3 DEF Asked
  <2>6. /\ a.holds \in BOOLEAN /\ last[a.holds] \in Nat /\ a.began \in Nat /\ a.began <= clock
        /\ a.at = "has" => list # "people"
        /\ a.at # "has" => /\ list = "people" /\ a.does = "check" /\ a.began <= last[a.holds]
                           /\ a.holds \in a.seen /\ clock <= a.began + TIMEOUT
    BY <1>0, <2>2 DEF Posed, Given, QueriedSince, Asked
  <2>7. Posed(b)' /\ SeenSince(b)' /\ QueriedSince(b)'
    BY <2>2, <2>5, <2>6 DEF Posed, SeenSince, QueriedSince
  <2>8. Given(b)'
    <3>1. CASE a.at = "has"
      BY <2>2, <2>5, <3>1 DEF Given
    <3>2. CASE a.at # "has"
      <4>1. a.began <= last[a.holds] + TTL + TIMEOUT
        BY <1>0, <2>6, <3>2
      <4> QED BY <2>2, <2>5, <2>6, <3>2, <4>1 DEF Given
    <3> QED BY <3>1, <3>2
  <2>9. ReadIsRecent' /\ HeldIsRecent' /\ cache' \in Remembered \union {NoList} /\ (cache' = NoList => cache = NoList)
    <3>1. CASE LookAgain(c)
      BY <1>0, <2>2, <3>1 DEF LookAgain, ListInv, ReadIsRecent, HeldIsRecent, Good
    <3>2. CASE AllRead(c) \/ OneRead(c)
      <4>1. load = NoList
        <5>1. a.at # "has"
          BY <2>1, <3>2 DEF AllRead, OneRead, Stands
        <5> QED BY <2>6, <5>1 DEF ListInv, ReadIsRecent
      <4>2. ReadIsRecent'
        BY <2>2, <4>1 DEF ReadIsRecent
      <4>3. CASE AllRead(c)
        <5>1. PICK n \in Nat : n = a.began + TTL
          BY <1>0, <2>6
        <5>v. PICK v \in BOOLEAN : v = a.holds
          BY <2>6
        <5>2. cache' = [holds |-> v, until |-> n] /\ a.at = "read all"
          BY <2>1, <4>3, <5>1, <5>v DEF AllRead, Stands
        <5>3. cache' \in Remembered /\ cache' # NoList /\ cache'.holds = v /\ cache'.until = n
          <6>1. PICK m : m = cache'
            OBVIOUS
          <6>2. m = [holds |-> v, until |-> n]
            BY <5>2, <6>1
          <6>3. m \in [holds : BOOLEAN, until : Nat] /\ m.holds = v /\ m.until = n
            BY ONLY <6>2, v \in BOOLEAN, n \in Nat
          <6> QED BY <6>1, <6>3, NothingIsNoAnswer DEF Remembered
        <5>4. n <= clock + TTL /\ n <= last[v] + TTL + TIMEOUT
          <6>1. PICK x \in Nat : x = last[v]
            BY <1>0
          <6>2. a.began <= clock /\ a.began <= x /\ a.began \in Nat
            BY <2>6, <5>2, <5>v, <6>1
          <6>3. n <= clock + TTL /\ n <= x + TTL + TIMEOUT
            BY ONLY <1>0, <5>1, <6>2, x \in Nat
          <6> QED BY <6>1, <6>3
        <5>5. HeldIsRecent'
          BY <2>2, <5>3, <5>4 DEF HeldIsRecent
        <5> QED BY <4>2, <5>3, <5>5
      <4>4. CASE OneRead(c) /\ a.holds
        <5>1. cache' = cache
          BY <2>1, <4>4 DEF OneRead
        <5> QED BY <1>0, <2>2, <4>2, <5>1 DEF ListInv, HeldIsRecent
      <4>5. CASE OneRead(c) /\ ~a.holds
        <5>1. PICK d : d = [cache EXCEPT !.holds = FALSE]
          OBVIOUS
        <5>2. cache' = d /\ a.at = "read one" /\ a.holds = FALSE
          BY <2>1, <2>6, <4>5, <5>1 DEF OneRead, Stands
        <5>3. cache \in Remembered /\ cache # NoList
          BY <1>0, <2>2, <5>2 DEF QueriedSince
        <5>4. d \in Remembered /\ d # NoList /\ d.holds = FALSE /\ d.until = cache.until /\ cache.until \in Nat
          BY <5>1, <5>3, NothingIsNoAnswer DEF Remembered
        <5>5. cache.until <= clock + TTL
          BY <5>3 DEF ListInv, HeldIsRecent
        <5>6. d.until <= clock + TTL /\ d.until <= last[FALSE] + TTL + TIMEOUT
          <6>1. PICK x \in Nat : x = last[FALSE]
            BY <1>0
          <6>2. PICK u \in Nat : u = d.until /\ u <= clock + TTL
            BY <5>4, <5>5
          <6>3. PICK t \in Nat : t = a.began
            BY <2>6
          <6>4. t <= x /\ clock <= t + TIMEOUT
            BY <2>6, <5>2, <6>1, <6>3
          <6>5. u <= x + TTL + TIMEOUT
            BY ONLY <1>0, <6>2, <6>4, t \in Nat, u \in Nat, x \in Nat
          <6> QED BY <6>1, <6>2, <6>5
        <5>7. HeldIsRecent'
          BY <2>2, <5>2, <5>4, <5>6 DEF HeldIsRecent
        <5> QED BY <4>2, <5>2, <5>4, <5>7
      <4> QED BY <3>2, <4>3, <4>4, <4>5
    <3> QED BY <1>6, <3>1, <3>2
  <2> QED BY <1>0, <2>2, <2>4, <2>5, <2>7, <2>8, <2>9, OneMoves
<1>7. CASE AskPeople(c)
  <2>1. PICK q : q = Question("check")
    OBVIOUS
  <2>2. /\ list = "people" /\ UNCHANGED <<list, clock, fact, last, cache, load>>
        /\ asks' = [asks EXCEPT ![c] =
             IF ~Good(cache) THEN [q EXCEPT !.at = "queries all"]
             ELSE IF ~cache.holds THEN [q EXCEPT !.at = "answered", !.holds = FALSE]
             ELSE [q EXCEPT !.at = "queries one"]]
    BY <1>7, <2>1 DEF AskPeople
  <2>3. /\ q \in Asked /\ q.began = clock /\ q.seen = {fact} /\ ~q.remembered /\ q.does = "check"
    BY <1>2, <2>1 DEF Question
  <2>4. CASE ~Good(cache) \/ cache.holds
    <3>1. PICK b : b = IF ~Good(cache) THEN [q EXCEPT !.at = "queries all"] ELSE [q EXCEPT !.at = "queries one"]
      OBVIOUS
    <3>2. asks' = [asks EXCEPT ![c] = b]
      BY <2>2, <2>4, <3>1
    <3>3. /\ b.at \in {"queries all", "queries one"} /\ b \in Asked /\ b.began = clock /\ b.seen = {fact}
          /\ ~b.remembered /\ b.does = "check" /\ (b.at = "queries one" => cache # NoList)
      BY <2>3, <3>1 DEF Asked, Good
    <3>4. Posed(b) /\ Given(b) /\ SeenSince(b) /\ QueriedSince(b)
      <4>0. clock <= clock + TIMEOUT /\ clock <= clock
        BY ONLY <1>0
      <4>1. Posed(b)
        BY <2>2, <3>3, <4>0 DEF Posed
      <4>2. Given(b)
        BY <2>2, <3>3, <4>0 DEF Given
      <4>3. SeenSince(b)
        BY <2>2, <3>3, <4>0 DEF SeenSince
      <4>4. QueriedSince(b)
        BY <2>2, <3>3, <4>0 DEF QueriedSince
      <4> QED BY <4>1, <4>2, <4>3, <4>4
    <3> QED BY <2>2, <3>2, <3>3, <3>4, AskMoves
  <2>5. CASE Good(cache) /\ ~cache.holds
    <3>1. PICK b : b = [q EXCEPT !.at = "answered", !.holds = FALSE]
      OBVIOUS
    <3>2. asks' = [asks EXCEPT ![c] = b]
      BY <2>2, <2>5, <3>1
    <3>3. /\ b.at = "answered" /\ b \in Asked /\ b.began = clock /\ b.seen = {fact} /\ b.holds = FALSE
          /\ ~b.remembered /\ b.does = "check"
      BY <2>3, <3>1 DEF Asked
    <3>4. cache \in Remembered /\ cache.until \in Nat /\ cache.holds = FALSE /\ clock < cache.until
      BY <1>0, <2>5 DEF Good, Remembered
    <3>5. cache.until <= last[FALSE] + TTL + TIMEOUT /\ last[FALSE] \in Nat
      BY <1>0, <2>5, <3>4 DEF ListInv, HeldIsRecent, Good
    <3>6. clock <= last[FALSE] + TTL + TIMEOUT
      <4>1. PICK x \in Nat : x = last[FALSE]
        BY <3>5
      <4>2. PICK u \in Nat : u = cache.until
        BY <3>4
      <4>3. clock < u /\ u <= x + TTL + TIMEOUT
        BY <3>4, <3>5, <4>1, <4>2
      <4>4. clock <= x + TTL + TIMEOUT
        BY ONLY <1>0, <4>3, u \in Nat, x \in Nat
      <4> QED BY <4>1, <4>4
    <3>7. Posed(b) /\ Given(b) /\ SeenSince(b) /\ QueriedSince(b)
      <4>0. clock <= clock + TIMEOUT /\ clock <= clock
        BY ONLY <1>0
      <4>1. Posed(b)
        BY <2>2, <3>3, <3>6, <4>0 DEF Posed
      <4>2. Given(b)
        BY <2>2, <3>3, <3>6, <4>0 DEF Given
      <4>3. SeenSince(b)
        BY <2>2, <3>3, <3>6, <4>0 DEF SeenSince
      <4>4. QueriedSince(b)
        BY <2>2, <3>3, <3>6, <4>0 DEF QueriedSince
      <4> QED BY <4>1, <4>2, <4>3, <4>4
    <3> QED BY <2>2, <3>2, <3>3, <3>7, AskMoves
  <2> QED BY <2>4, <2>5
<1>8. CASE QueryReads(c)
  <2>1. PICK a : a = asks[c]
    OBVIOUS
  <2>2. /\ a \in Asked /\ Posed(a) /\ QueriedSince(a) /\ a.at \in {"queries all", "queries one"}
        /\ UNCHANGED <<list, clock, fact, last, cache, load>>
    BY <1>1, <1>8, <2>1 DEF QueryReads, Stands
  <2>3. PICK b : b = [a EXCEPT !.at = IF a.at = "queries all" THEN "read all" ELSE "read one", !.holds = fact]
    OBVIOUS
  <2>4. asks' = [asks EXCEPT ![c] = b]
    BY <1>8, <2>1, <2>3 DEF QueryReads, Stands
  <2>5. /\ b.at = IF a.at = "queries all" THEN "read all" ELSE "read one"
        /\ b.remembered = a.remembered /\ b.does = a.does /\ b.began = a.began
        /\ b.seen = a.seen /\ b.holds = fact /\ b.round = a.round /\ b \in Asked
    BY <1>0, <2>2, <2>3 DEF Asked
  <2>6. Posed(b) /\ Given(b) /\ SeenSince(b) /\ QueriedSince(b)
    BY <1>0, <2>2, <2>5 DEF Posed, Given, SeenSince, QueriedSince
  <2> QED BY <2>2, <2>4, <2>5, <2>6, AskMoves
<1>9. CASE QueryFails(c) \/ Leave(c)
  <2>1. asks' = [asks EXCEPT ![c] = NoAsk] /\ UNCHANGED <<list, clock, fact, last, cache, load>>
    BY <1>9 DEF QueryFails, Leave
  <2> QED BY <2>1, AskMoves
<1> QED BY <1>3, <1>4, <1>5, <1>6, <1>7, <1>8, <1>9

LEMMA ListKept == ListInv /\ [Next]_vars => ListInv'
<1> SUFFICES ASSUME ListInv, [Next]_vars PROVE ListInv'
  OBVIOUS
<1>1. CASE ListsNext
  BY <1>1, LoadKeeps, WorldKeeps, CallerKeeps DEF ListsNext
<1>2. CASE UNCHANGED listVars
  BY <1>2 DEF listVars, ListInv, ListTypes, HeldIsRecent, ReadIsRecent, Good,
              AskInv, Posed, Given, SeenSince, QueriedSince
<1>3. ListsNext \/ UNCHANGED listVars
  BY DEF Next, vars
<1> QED BY <1>1, <1>2, <1>3

(* Whatever is shared, forgotten, late or failing, for any number of       *)
(* callers and any times: nobody is told that a row is not there, or that  *)
(* a person is deactivated, which was not so at some time since they       *)
(* asked; what is read for a decision is no older than a read may take,    *)
(* and nothing older than that and the time a list is good for: the whole  *)
(* age may pass the TTL, by what the read took.                            *)
THEOREM ListsAlwaysRecent == Spec => []ListsAreRecent
<1>1. ListInv => ListsAreRecent
  <2> SUFFICES ASSUME ListInv, NEW c \in Caller, Stands(c, "answered")
               PROVE  LET a == asks[c]
                          age == a.began - last[a.holds]
                      IN  /\ age <= TTL + TIMEOUT
                          /\ a.does = "find" /\ ~a.holds /\ ~a.remembered => FALSE \in a.seen
                          /\ a.does = "check" /\ a.holds => TRUE \in a.seen
                          /\ a.does = "decide" => age <= TIMEOUT
    BY DEF ListsAreRecent
  <2>1. PICK a : a = asks[c]
    OBVIOUS
  <2>2. a \in Asked /\ a.at = "answered" /\ Given(a) /\ SeenSince(a) /\ QueriedSince(a)
    BY <2>1 DEF Stands, ListInv, ListTypes, AskInv
  <2>3. a.holds \in BOOLEAN /\ a.began \in Nat /\ last[a.holds] \in Nat /\ TTL \in Nat /\ TIMEOUT \in Nat
    BY <2>2, TimesAreNumbers DEF Given, Asked, ListInv, ListTypes
  <2>4. a.began - last[a.holds] <= TTL + TIMEOUT /\ (a.does = "decide" => a.began - last[a.holds] <= TIMEOUT)
    BY <2>2, <2>3 DEF Given
  <2>5. a.does = "find" /\ ~a.holds /\ ~a.remembered => FALSE \in a.seen
    BY <2>2, <2>3 DEF SeenSince
  <2>6. a.does = "check" /\ a.holds => TRUE \in a.seen
    BY <2>2, <2>3 DEF QueriedSince
  <2> QED BY <2>1, <2>4, <2>5, <2>6
<1> QED BY <1>1, ListStart, ListKept, PTL DEF Spec

-----------------------------------------------------------------------------
(* The cards.  What is read before a change, by the change.                *)
Pic == [file : File, item : Item, kind : {"image", "document"}, cover : BOOLEAN]

EditOK(m) ==
  /\ m.does \in {"update", "assign", "rename", "remove"} => m.id \in Item
  /\ m.does \in {"update", "variant"} => m.shape \in Shape
  /\ m.does = "update" => m.flows \in BOOLEAN
  /\ m.does \in {"variant", "rename"} => m.label \in Label
  /\ m.does = "variant" => m.of \in Item /\ m.code \in Item \union {NoCode}
  /\ m.does = "rename" => m.code \in Item
  /\ m.does \in {"remove", "unlink"} => m.files \in SUBSET File
  /\ m.does \in {"add", "cover", "drop"} => m.row \in Pic

CardTypes ==
  /\ card \in [Item -> CardRow \union {Absent}] /\ issued \subseteq Item /\ There \subseteq issued
  /\ pics \subseteq Pic /\ uploads \in [File -> {"new", "stored", "removed"}]
  /\ editing \in [Editor -> {editing[e] : e \in Editor}]
  /\ \A e \in Editor : editing[e] # Resting => EditOK(editing[e])
  /\ wins \in [Item -> Nat]

LEMMA CardsBegin == Init => CardsInit
BY DEF Init, CardsAtRest

LEMMA TypesOfCards == Init => CardTypes
<1> SUFFICES ASSUME CardsInit PROVE CardTypes
  BY CardsBegin
<1>1. PICK olds \in SUBSET Item, shape \in Shape :
        /\ card = [i \in Item |-> IF i \in olds THEN Card(NoParent, shape, NoParent, NoCode) ELSE Absent]
        /\ issued = olds
  BY DEF CardsInit
<1>2. Card(NoParent, shape, NoParent, NoCode) \in CardRow
  BY DEF Card, CardRow
<1> QED BY <1>1, <1>2 DEF CardsInit, CardTypes, There

LEMMA TypesOfCardsKept == CardTypes /\ [Next]_vars => CardTypes'
<1> SUFFICES ASSUME CardTypes, [Next]_vars PROVE CardTypes'
  OBVIOUS
<1> USE DEF CardTypes
<1>1. CASE UNCHANGED cardVars
  BY <1>1 DEF cardVars, There
<1>2. ASSUME NEW e \in Editor, NEW m, editing' = [editing EXCEPT ![e] = m], m # Resting => EditOK(m)
      PROVE  /\ editing' \in [Editor -> {editing'[g] : g \in Editor}]
             /\ \A g \in Editor : editing'[g] # Resting => EditOK(editing'[g])
  BY <1>2
<1>3. ASSUME NEW e \in Editor, Done(e)
      PROVE  /\ editing' \in [Editor -> {editing'[g] : g \in Editor}]
             /\ \A g \in Editor : editing'[g] # Resting => EditOK(editing'[g])
  BY <1>2, <1>3 DEF Done
<1>4. ASSUME NEW e \in Editor, NEW m, Read(e, m), EditOK(m) PROVE CardTypes'
  BY <1>2, <1>4 DEF Read, There
<1>5. ASSUME NEW e \in Editor, ReadUpdate(e) PROVE CardTypes'
  BY <1>4, <1>5 DEF ReadUpdate, EditOK, There
<1>6. ASSUME NEW e \in Editor, ReadAssign(e) PROVE CardTypes'
  BY <1>4, <1>6 DEF ReadAssign, EditOK, There
<1>7. ASSUME NEW e \in Editor, ReadCreateVariant(e) PROVE CardTypes'
  <2>1. PICK p \in Parents, label \in Label, code \in Item \union {NoCode} :
          Read(e, [does |-> "variant", of |-> p, label |-> label, code |-> code, shape |-> card[p].shape])
    BY <1>7 DEF ReadCreateVariant
  <2>2. p \in Item /\ card[p].shape \in Shape
    BY DEF Parents, There, CardRow
  <2> QED BY <1>4, <2>1, <2>2 DEF EditOK
<1>8. ASSUME NEW e \in Editor, ReadUpdateVariant(e) PROVE CardTypes'
  BY <1>4, <1>8 DEF ReadUpdateVariant, EditOK, There
<1>9. ASSUME NEW e \in Editor, ReadRemoveVariant(e) PROVE CardTypes'
  BY <1>4, <1>9 DEF ReadRemoveVariant, EditOK, There
<1>10. ASSUME NEW e \in Editor, ReadRemove(e) PROVE CardTypes'
  <2>1. PICK i \in There :
          Read(e, [does |-> "remove", id |-> i, files |-> {r.file : r \in {q \in pics : q.item = i}}])
    BY <1>10 DEF ReadRemove
  <2>2. {r.file : r \in {q \in pics : q.item = i}} \in SUBSET File
    BY DEF Pic
  <2> QED BY <1>4, <2>1, <2>2 DEF EditOK, There
<1>11. ASSUME NEW e \in Editor, ReadCover(e) \/ ReadDrop(e) PROVE CardTypes'
  BY <1>4, <1>11 DEF ReadCover, ReadDrop, EditOK
<1>12. ASSUME NEW e \in Editor, ReadAdd(e) PROVE CardTypes'
  <2>1. PICK i \in There, kind \in {"image", "document"}, file \in File :
          /\ uploads[file] = "new"
          /\ kind = "image" => Cardinality(ImagesOf(i)) < MAX_IMAGES
          /\ editing[e] = Resting
          /\ uploads' = [uploads EXCEPT ![file] = "stored"]
          /\ editing' = [editing EXCEPT ![e] =
               [does |-> "add", row |-> [file |-> file, item |-> i, kind |-> kind,
                                         cover |-> kind = "image" /\ ImagesOf(i) = {}]]]
          /\ mingled' = (mingled \/ \E g \in Editor : editing[g] # Resting)
          /\ UNCHANGED <<card, issued, pics, wins>>
    BY <1>12 DEF ReadAdd
  <2>2. [file |-> file, item |-> i, kind |-> kind, cover |-> kind = "image" /\ ImagesOf(i) = {}] \in Pic
    BY DEF Pic, There
  <2> DEFINE row == [file |-> file, item |-> i, kind |-> kind, cover |-> kind = "image" /\ ImagesOf(i) = {}]
             m == [does |-> "add", row |-> row]
  <2>3. EditOK(m)
    BY <2>2 DEF EditOK
  <2>4. editing' = [editing EXCEPT ![e] = m]
    BY <2>1
  <2> HIDE DEF m
  <2> QED BY <1>2, <2>1, <2>3, <2>4 DEF There
<1>13. ASSUME NEW e \in Editor, WriteUpdate(e) PROVE CardTypes'
  <2>1. PICK m : m = editing[e]
    OBVIOUS
  <2>2. m.id \in Item /\ m.shape \in Shape
    BY <1>13, <2>1 DEF WriteUpdate, Write, On, EditOK
  <2>3. card' \in [Item -> CardRow \union {Absent}] /\ \A i \in Item : card[i] = Absent => card'[i] = Absent
    <3>1. CASE m.id \notin There
      BY <1>13, <2>1, <3>1 DEF WriteUpdate
    <3>2. CASE m.id \in There
      <4>1. card' = [i \in Item |->
                   IF i = m.id \/ (m.flows /\ i \in Variants(m.id)) THEN [card[i] EXCEPT !.shape = m.shape]
                   ELSE card[i]]
        BY <1>13, <2>1, <3>2 DEF WriteUpdate
      <4>2. \A i \in There : [card[i] EXCEPT !.shape = m.shape] \in CardRow
        BY <2>2 DEF There, CardRow
      <4> QED BY <3>2, <4>1, <4>2 DEF There, Variants
    <3> QED BY <3>1, <3>2
  <2> QED BY <1>3, <1>13, <2>3 DEF WriteUpdate, Write, There
<1>14. ASSUME NEW e \in Editor, WriteAssign(e) PROVE CardTypes'
  <2>1. PICK i : i = editing[e].id
    OBVIOUS
  <2>2. i \in Item
    BY <1>14, <2>1 DEF WriteAssign, Write, On, EditOK
  <2>3. i \in There => [card[i] EXCEPT !.code = i] \in CardRow
    BY <2>2 DEF There, CardRow
  <2>4. \/ i \in There /\ card' = [card EXCEPT ![i].code = i] /\ wins' = [wins EXCEPT ![i] = @ + 1]
        \/ card' = card /\ wins' = wins
    BY <1>14, <2>1 DEF WriteAssign
  <2>5. Done(e) /\ UNCHANGED <<issued, pics, uploads>>
    BY <1>14 DEF WriteAssign, Write
  <2>6. card' \in [Item -> CardRow \union {Absent}] /\ \A k \in Item : card[k] = Absent => card'[k] = Absent
    <3>1. CASE i \in There /\ card' = [card EXCEPT ![i].code = i]
      <4>1. card' = [card EXCEPT ![i] = [card[i] EXCEPT !.code = i]]
        BY <3>1
      <4> QED BY <2>2, <2>3, <3>1, <4>1 DEF There
    <3> QED BY <2>4, <3>1
  <2>7. wins' \in [Item -> Nat]
    BY <2>2, <2>4
  <2> QED BY <1>3, <2>5, <2>6, <2>7 DEF There
<1>15. ASSUME NEW e \in Editor, WriteCreateVariant(e) PROVE CardTypes'
  <2>1. PICK m : m = editing[e]
    OBVIOUS
  <2>2. m.of \in Item /\ m.shape \in Shape /\ m.label \in Label /\ m.code \in Item \union {NoCode}
    BY <1>15, <2>1 DEF WriteCreateVariant, Write, On, EditOK
  <2>3. PICK v \in Item \ issued, code \in Item :
          /\ card' = IF m.of \notin There \/ Taken(code, v) THEN card
                     ELSE [card EXCEPT ![v] = Card(m.of, m.shape, m.label, code)]
          /\ issued' = issued \union {v}
    <3>1. PICK v \in Item \ issued :
            LET code == IF m.code = NoCode THEN v ELSE m.code
            IN  /\ card' = IF m.of \notin There \/ Taken(code, v) THEN card
                           ELSE [card EXCEPT ![v] = Card(m.of, m.shape, m.label, code)]
                /\ issued' = issued \union {v}
      BY <1>15, <2>1 DEF WriteCreateVariant
    <3> DEFINE code == IF m.code = NoCode THEN v ELSE m.code
    <3>2. code \in Item
      BY <2>2
    <3> HIDE DEF code
    <3> QED BY <3>1, <3>2 DEF code
  <2>4. Card(m.of, m.shape, m.label, code) \in CardRow
    BY <2>2 DEF Card, CardRow
  <2>5. card' \in [Item -> CardRow \union {Absent}] /\ \A i \in Item : i # v => card'[i] = card[i]
    BY <2>3, <2>4
  <2>6. Done(e) /\ UNCHANGED <<pics, wins, uploads>>
    BY <1>15 DEF WriteCreateVariant, Write
  <2>7. issued' \subseteq Item /\ There' \subseteq issued'
    BY <2>3, <2>5 DEF There
  <2> QED BY <1>3, <2>5, <2>6, <2>7
<1>16. ASSUME NEW e \in Editor, WriteUpdateVariant(e) PROVE CardTypes'
  <2>1. PICK m : m = editing[e]
    OBVIOUS
  <2>2. m.id \in Item /\ m.label \in Label /\ m.code \in Item
    BY <1>16, <2>1 DEF WriteUpdateVariant, Write, On, EditOK
  <2>3. m.id \in There => [card[m.id] EXCEPT !.label = m.label, !.code = m.code] \in CardRow
    BY <2>2 DEF There, CardRow
  <2>4. \/ card' = card
        \/ m.id \in There /\ card' = [card EXCEPT ![m.id] = [card[m.id] EXCEPT !.label = m.label, !.code = m.code]]
    BY <1>16, <2>1, <2>2 DEF WriteUpdateVariant, There, CardRow
  <2> QED BY <1>3, <1>16, <2>2, <2>3, <2>4 DEF WriteUpdateVariant, Write, There
<1>17. ASSUME NEW e \in Editor, WriteRemove(e) PROVE CardTypes'
  <2>1. PICK m : m = editing[e]
    OBVIOUS
  <2>2. m.id \in Item /\ m.files \in SUBSET File
    BY <1>17, <2>1 DEF WriteRemove, On, EditOK
  <2>3. CASE Done(e) /\ UNCHANGED <<card, pics>>
    BY <1>3, <1>17, <2>3 DEF WriteRemove, There
  <2>4. CASE /\ card' = [card EXCEPT ![m.id] = Absent]
             /\ pics' = {r \in pics : r.item # m.id}
             /\ ThenUnlink(e, m.files)
    <3>1. EditOK([does |-> "unlink", files |-> m.files])
      BY <2>2 DEF EditOK
    <3> QED BY <1>2, <1>17, <2>4, <3>1 DEF WriteRemove, There, ThenUnlink
  <2> QED BY <1>17, <2>1, <2>3, <2>4 DEF WriteRemove
<1>18. ASSUME NEW e \in Editor, Unlink(e) PROVE CardTypes'
  <2>1. uploads' \in [File -> {"new", "stored", "removed"}]
    BY <1>18 DEF Unlink
  <2> QED BY <1>3, <1>18, <2>1 DEF Unlink, There
<1>19. ASSUME NEW e \in Editor, WriteAdd(e) PROVE CardTypes'
  <2>1. editing[e].row \in Pic
    BY <1>19 DEF WriteAdd, Write, On, EditOK
  <2>2. pics' \subseteq Pic
    BY <1>19, <2>1 DEF WriteAdd
  <2> QED BY <1>3, <1>19, <2>2 DEF WriteAdd, Write, There
<1>20. ASSUME NEW e \in Editor, WriteCover(e) PROVE CardTypes'
  <2>1. PICK r : r = editing[e].row
    OBVIOUS
  <2>2. pics' \subseteq Pic
    <3> DEFINE StepDown(q) == IF q.item = r.item /\ q.kind = "image" /\ ~r.cover THEN [q EXCEPT !.cover = FALSE] ELSE q
    <3>1. pics' = IF \A q \in pics : q.file # r.file THEN pics
                  ELSE {IF q.file = r.file THEN [q EXCEPT !.cover = TRUE] ELSE StepDown(q) : q \in pics}
      BY <1>20, <2>1 DEF WriteCover
    <3>2. \A q \in Pic : [q EXCEPT !.cover = TRUE] \in Pic /\ [q EXCEPT !.cover = FALSE] \in Pic
      BY DEF Pic
    <3> QED BY <3>1, <3>2
  <2> QED BY <1>3, <1>20, <2>2 DEF WriteCover, Write, There
<1>21. ASSUME NEW e \in Editor, WriteDrop(e) PROVE CardTypes'
  <2>1. PICK r : r = editing[e].row
    OBVIOUS
  <2>2. r \in Pic
    BY <1>21, <2>1 DEF WriteDrop, On, EditOK
  <2>3. CASE Done(e) /\ UNCHANGED pics
    BY <1>3, <1>21, <2>3 DEF WriteDrop, There
  <2>4. CASE pics' \in Dropped({q \in pics : q.file # r.file}, r) /\ ThenUnlink(e, {r.file})
    <3>1. EditOK([does |-> "unlink", files |-> {r.file}])
      BY <2>2 DEF EditOK, Pic
    <3>2. pics' \subseteq Pic
      <4>1. \A q \in Pic : [q EXCEPT !.cover = TRUE] \in Pic
        BY DEF Pic
      <4> QED BY <2>4, <4>1 DEF Dropped
    <3> QED BY <1>2, <1>21, <2>4, <3>1, <3>2 DEF WriteDrop, There, ThenUnlink
  <2> QED BY <1>21, <2>1, <2>3, <2>4 DEF WriteDrop
<1>22. ASSUME NEW e \in Editor, Crash(e) PROVE CardTypes'
  BY <1>3, <1>22 DEF Crash, There
<1>23. ASSUME Create PROVE CardTypes'
  <2>1. PICK i \in Item \ issued, shape \in Shape :
          /\ card' = IF Taken(i, i) THEN card ELSE [card EXCEPT ![i] = Card(NoParent, shape, NoParent, i)]
          /\ issued' = issued \union {i}
          /\ UNCHANGED <<pics, uploads, editing, mingled, wins>>
    BY <1>23 DEF Create
  <2>2. Card(NoParent, shape, NoParent, i) \in CardRow
    BY DEF Card, CardRow
  <2>3. card' \in [Item -> CardRow \union {Absent}] /\ \A k \in Item : k # i => card'[k] = card[k]
    BY <2>1, <2>2
  <2> QED BY <2>1, <2>3 DEF There
<1> HIDE DEF CardTypes
<1> QED
  BY <1>1, <1>5, <1>6, <1>7, <1>8, <1>9, <1>10, <1>11, <1>12, <1>13, <1>14, <1>15, <1>16, <1>17,
     <1>18, <1>19, <1>20, <1>21, <1>22, <1>23 DEF Next, vars, CardsNext, Rows, Pictures

-----------------------------------------------------------------------------
(* Pictures, documents and their files.  A file that is being added is     *)
(* nobody else's; what a delete has read is of its item alone.             *)
Busy(e) == editing[e] # Resting
SeenBy(m) == IF m.does \in {"remove", "unlink"} THEN m.files
             ELSE IF m.does \in {"cover", "drop"} THEN {m.row.file} ELSE {}

OneRowEach == \A r, q \in pics : r.file = q.file => r = q
OwnFile(e) ==
  LET f == editing[e].row.file
  IN  /\ uploads[f] = "stored" /\ \A r \in pics : r.file # f
      /\ \A g \in Editor : Busy(g) =>
           f \notin SeenBy(editing[g]) /\ (On(g, "add") /\ g # e => editing[g].row.file # f)

FilesInv ==
  /\ \A r \in pics : uploads[r.file] = "stored"
  /\ OneRowEach
  /\ \A e \in Editor :
       /\ Busy(e) => \A f \in SeenBy(editing[e]) : uploads[f] # "new"
       /\ On(e, "add") => OwnFile(e)
       /\ On(e, "remove") => \A r \in pics : r.file \in editing[e].files => r.item = editing[e].id
       /\ On(e, "unlink") => \A r \in pics : r.file \notin editing[e].files

LEMMA FilesStart == Init => FilesInv
<1> SUFFICES ASSUME CardsInit PROVE FilesInv
  BY CardsBegin
<1> QED BY DEF CardsInit, FilesInv, OneRowEach, Busy, On

(* What a change reads is a file that has its row.                         *)
LEMMA FilesRead ==
  ASSUME CardTypes, FilesInv, NEW e \in Editor, NEW m, editing' = [editing EXCEPT ![e] = m],
         UNCHANGED <<pics, uploads>>, m.does # "add", m.does # "unlink",
         \A f \in SeenBy(m) : \E r \in pics : r.file = f,
         m.does = "remove" => \A r \in pics : r.file \in m.files => r.item = m.id
  PROVE  FilesInv'
<1>1. \A g \in Editor : editing'[g] = IF g = e THEN m ELSE editing[g]
  BY DEF CardTypes
<1>2. ASSUME NEW g \in Editor, On(g, "add")' PROVE OwnFile(g)'
  <2>1. g # e /\ editing'[g] = editing[g] /\ On(g, "add") /\ OwnFile(g)
    BY <1>1, <1>2 DEF On, FilesInv
  <2>2. PICK f : f = editing[g].row.file
    OBVIOUS
  <2>3. \A r \in pics : r.file # f
    BY <2>1, <2>2 DEF OwnFile
  <2>4. \A k \in Editor : Busy(k)' => f \notin SeenBy(editing'[k]) /\ (On(k, "add")' /\ k # g => editing'[k].row.file # f)
    BY <1>1, <2>1, <2>2, <2>3 DEF OwnFile, Busy, On
  <2> QED BY <2>1, <2>2, <2>4 DEF OwnFile
<1>3. ASSUME NEW g \in Editor
      PROVE  /\ Busy(g)' => \A f \in SeenBy(editing'[g]) : uploads'[f] # "new"
             /\ On(g, "remove")' => \A r \in pics' : r.file \in editing'[g].files => r.item = editing'[g].id
             /\ On(g, "unlink")' => \A r \in pics' : r.file \notin editing'[g].files
  <2>1. CASE g = e
    BY <1>1, <2>1 DEF On, FilesInv
  <2>2. CASE g # e
    BY <1>1, <2>2 DEF On, FilesInv, Busy
  <2> QED BY <2>1, <2>2
<1> QED BY <1>2, <1>3 DEF FilesInv, OneRowEach

(* No row comes, and whoever goes on does so with files it had read, which *)
(* have no row any more.                                                   *)
LEMMA FilesFewer ==
  ASSUME CardTypes, FilesInv, NEW e \in Editor, NEW m, editing' = [editing EXCEPT ![e] = m],
         uploads' = uploads, OneRowEach',
         \A q \in pics' : \E r \in pics : r.file = q.file /\ r.item = q.item,
         \/ m = Resting
         \/ /\ Busy(e) /\ m.does = "unlink" /\ m.files \subseteq SeenBy(editing[e])
            /\ \A r \in pics' : r.file \notin m.files
  PROVE  FilesInv'
<1>1. \A g \in Editor : editing'[g] = IF g = e THEN m ELSE editing[g]
  BY DEF CardTypes
<1>2. ASSUME NEW g \in Editor, On(g, "add")' PROVE OwnFile(g)'
  <2>1. g # e /\ editing'[g] = editing[g] /\ On(g, "add") /\ OwnFile(g)
    BY <1>1, <1>2 DEF On, FilesInv
  <2>2. PICK f : f = editing[g].row.file
    OBVIOUS
  <2>3. \A r \in pics' : r.file # f
    BY <2>1, <2>2 DEF OwnFile
  <2>4. \A k \in Editor : Busy(k)' => f \notin SeenBy(editing'[k]) /\ (On(k, "add")' /\ k # g => editing'[k].row.file # f)
    <3> SUFFICES ASSUME NEW k \in Editor, Busy(k)'
                 PROVE  f \notin SeenBy(editing'[k]) /\ (On(k, "add")' /\ k # g => editing'[k].row.file # f)
      OBVIOUS
    <3>1. CASE k # e
      BY <1>1, <2>1, <2>2, <3>1 DEF OwnFile, Busy, On
    <3>2. CASE k = e
      <4>1. m # Resting /\ editing'[k] = m
        BY <1>1, <3>2 DEF Busy
      <4>2. f \notin SeenBy(editing[e])
        BY <2>1, <2>2, <4>1 DEF OwnFile
      <4> QED BY <4>1, <4>2 DEF SeenBy, On
    <3> QED BY <3>1, <3>2
  <2> QED BY <2>1, <2>2, <2>3, <2>4 DEF OwnFile
<1>3. ASSUME NEW g \in Editor
      PROVE  /\ Busy(g)' => \A f \in SeenBy(editing'[g]) : uploads'[f] # "new"
             /\ On(g, "remove")' => \A r \in pics' : r.file \in editing'[g].files => r.item = editing'[g].id
             /\ On(g, "unlink")' => \A r \in pics' : r.file \notin editing'[g].files
  <2>1. CASE g = e
    <3>1. m # Resting => \A f \in SeenBy(m) : uploads[f] # "new"
      BY DEF FilesInv, SeenBy
    <3> QED BY <1>1, <2>1, <3>1 DEF On, Busy
  <2>2. CASE g # e
    <3>1. editing'[g] = editing[g]
      BY <1>1, <2>2
    <3>2. /\ Busy(g) => \A f \in SeenBy(editing[g]) : uploads[f] # "new"
          /\ On(g, "remove") => \A r \in pics : r.file \in editing[g].files => r.item = editing[g].id
          /\ On(g, "unlink") => \A r \in pics : r.file \notin editing[g].files
      BY DEF FilesInv
    <3> QED BY <3>1, <3>2 DEF On, Busy
  <2> QED BY <2>1, <2>2
<1>4. \A r \in pics' : uploads'[r.file] = "stored"
  BY DEF FilesInv
<1> QED BY <1>2, <1>3, <1>4 DEF FilesInv

LEMMA FilesAdded ==
  ASSUME CardTypes, FilesInv, NEW e \in Editor, ReadAdd(e) \/ WriteAdd(e) \/ Unlink(e)
  PROVE  FilesInv'
<1>1. CASE ReadAdd(e)
  <2>1. PICK i \in There, kind \in {"image", "document"}, file \in File :
          /\ uploads[file] = "new"
          /\ kind = "image" => Cardinality(ImagesOf(i)) < MAX_IMAGES
          /\ editing[e] = Resting
          /\ uploads' = [uploads EXCEPT ![file] = "stored"]
          /\ editing' = [editing EXCEPT ![e] =
               [does |-> "add", row |-> [file |-> file, item |-> i, kind |-> kind,
                                         cover |-> kind = "image" /\ ImagesOf(i) = {}]]]
          /\ mingled' = (mingled \/ \E g \in Editor : editing[g] # Resting)
          /\ UNCHANGED <<card, issued, pics, wins>>
    BY <1>1 DEF ReadAdd
  <2>2. PICK m : /\ m = [does |-> "add", row |-> [file |-> file, item |-> i, kind |-> kind,
                                                 cover |-> kind = "image" /\ ImagesOf(i) = {}]]
    OBVIOUS
  <2>3. m.does = "add" /\ m.row.file = file /\ SeenBy(m) = {}
    BY <2>2 DEF SeenBy
  <2>4. \A g \in Editor : editing'[g] = IF g = e THEN m ELSE editing[g]
    BY <2>1, <2>2 DEF CardTypes
  <2>5. \A f \in File : uploads'[f] = IF f = file THEN "stored" ELSE uploads[f]
    BY <2>1 DEF CardTypes
  <2>6. /\ \A r \in pics : r.file \in File /\ r.file # file
        /\ \A g \in Editor : Busy(g) => file \notin SeenBy(editing[g]) /\ SeenBy(editing[g]) \subseteq File
        /\ \A g \in Editor : On(g, "add") => editing[g].row.file \in File \ {file}
    BY <2>1 DEF CardTypes, FilesInv, Pic, EditOK, SeenBy, On, OwnFile, Busy
  <2>7. ASSUME NEW g \in Editor, On(g, "add")' PROVE OwnFile(g)'
    <3>1. CASE g = e
      BY <2>1, <2>3, <2>4, <2>5, <2>6, <3>1 DEF OwnFile, Busy, On
    <3>2. CASE g # e
      <4>1. On(g, "add") /\ OwnFile(g) /\ editing'[g] = editing[g]
        BY <2>4, <2>7, <3>2 DEF On, FilesInv
      <4>2. editing[g].row.file \in File \ {file}
        BY <2>6, <4>1
      <4> QED BY <2>1, <2>3, <2>4, <2>5, <4>1, <4>2 DEF OwnFile, Busy, On
    <3> QED BY <3>1, <3>2
  <2>8. ASSUME NEW g \in Editor
        PROVE  /\ Busy(g)' => \A f \in SeenBy(editing'[g]) : uploads'[f] # "new"
               /\ On(g, "remove")' => \A r \in pics' : r.file \in editing'[g].files => r.item = editing'[g].id
               /\ On(g, "unlink")' => \A r \in pics' : r.file \notin editing'[g].files
    BY <2>1, <2>3, <2>4, <2>5, <2>6 DEF FilesInv, Busy, On
  <2> QED BY <2>1, <2>5, <2>6, <2>7, <2>8 DEF FilesInv, OneRowEach
<1>2. CASE WriteAdd(e)
  <2>1. PICK r : r = editing[e].row
    OBVIOUS
  <2>2. /\ On(e, "add") /\ Done(e) /\ uploads' = uploads
        /\ pics' = IF r.item \in There THEN pics \union {r} ELSE pics
    BY <1>2, <2>1 DEF WriteAdd, Write
  <2>3. /\ uploads[r.file] = "stored" /\ \A q \in pics : q.file # r.file
        /\ \A g \in Editor : Busy(g) => r.file \notin SeenBy(editing[g])
        /\ \A g \in Editor : On(g, "add") /\ g # e => editing[g].row.file # r.file
    BY <2>1, <2>2 DEF FilesInv, OwnFile, On, Busy
  <2>4. \A g \in Editor : editing'[g] = IF g = e THEN Resting ELSE editing[g]
    BY <2>2 DEF Done, CardTypes
  <2>5. ASSUME NEW g \in Editor, On(g, "add")' PROVE OwnFile(g)'
    <3>1. g # e /\ On(g, "add") /\ OwnFile(g) /\ editing'[g] = editing[g]
      BY <2>4, <2>5 DEF On, FilesInv
    <3> QED BY <2>2, <2>3, <2>4, <3>1 DEF OwnFile, Busy, On
  <2>6. ASSUME NEW g \in Editor
        PROVE  /\ Busy(g)' => \A f \in SeenBy(editing'[g]) : uploads'[f] # "new"
               /\ On(g, "remove")' => \A q \in pics' : q.file \in editing'[g].files => q.item = editing'[g].id
               /\ On(g, "unlink")' => \A q \in pics' : q.file \notin editing'[g].files
    <3>1. CASE editing'[g] = Resting
      BY <3>1 DEF Busy, On
    <3>2. CASE editing'[g] # Resting
      <4>1. editing'[g] = editing[g] /\ Busy(g) /\ r.file \notin SeenBy(editing[g])
        BY <2>3, <2>4, <3>2 DEF Busy
      <4> QED BY <2>2, <4>1 DEF FilesInv, Busy, On, SeenBy
    <3> QED BY <3>1, <3>2
  <2>7. OneRowEach'
    BY <2>2, <2>3 DEF OneRowEach, FilesInv
  <2> QED BY <2>2, <2>3, <2>5, <2>6, <2>7 DEF FilesInv
<1>3. CASE Unlink(e)
  <2>1. /\ On(e, "unlink") /\ Done(e) /\ pics' = pics
        /\ uploads' = [f \in File |-> IF f \in editing[e].files THEN "removed" ELSE uploads[f]]
    BY <1>3 DEF Unlink
  <2>2. \A g \in Editor : editing'[g] = IF g = e THEN Resting ELSE editing[g]
    BY <2>1 DEF Done, CardTypes
  <2>3. /\ \A q \in pics : q.file \in File /\ q.file \notin editing[e].files
        /\ \A g \in Editor : On(g, "add") => editing[g].row.file \in File /\ editing[g].row.file \notin editing[e].files
        /\ \A g \in Editor : Busy(g) => SeenBy(editing[g]) \subseteq File
    <3>1. Busy(e) /\ SeenBy(editing[e]) = editing[e].files
      BY <2>1 DEF On, Busy, SeenBy
    <3> QED BY <2>1, <3>1 DEF FilesInv, OwnFile, On, Busy, SeenBy, CardTypes, Pic, EditOK
  <2>4. ASSUME NEW g \in Editor, On(g, "add")' PROVE OwnFile(g)'
    <3>1. g # e /\ On(g, "add") /\ OwnFile(g) /\ editing'[g] = editing[g]
      BY <2>2, <2>4 DEF On, FilesInv
    <3>2. uploads'[editing[g].row.file] = "stored"
      BY <2>1, <2>3, <3>1 DEF OwnFile
    <3> QED BY <2>1, <2>2, <3>1, <3>2 DEF OwnFile, Busy, On
  <2>5. ASSUME NEW g \in Editor
        PROVE  /\ Busy(g)' => \A f \in SeenBy(editing'[g]) : uploads'[f] # "new"
               /\ On(g, "remove")' => \A q \in pics' : q.file \in editing'[g].files => q.item = editing'[g].id
               /\ On(g, "unlink")' => \A q \in pics' : q.file \notin editing'[g].files
    <3>1. CASE editing'[g] = Resting
      BY <3>1 DEF Busy, On
    <3>2. CASE editing'[g] # Resting
      <4>1. editing'[g] = editing[g] /\ Busy(g) /\ SeenBy(editing[g]) \subseteq File
        BY <2>2, <2>3, <3>2 DEF Busy
      <4> QED BY <2>1, <4>1 DEF FilesInv, Busy, On
    <3> QED BY <3>1, <3>2
  <2>6. \A q \in pics' : uploads'[q.file] = "stored"
    BY <2>1, <2>3 DEF FilesInv
  <2> QED BY <2>1, <2>4, <2>5, <2>6 DEF FilesInv, OneRowEach
<1> QED BY <1>1, <1>2, <1>3

LEMMA FilesKept == CardTypes /\ FilesInv /\ [Next]_vars => FilesInv'
<1> SUFFICES ASSUME CardTypes, FilesInv, [Next]_vars PROVE FilesInv'
  OBVIOUS
<1>1. ASSUME UNCHANGED <<pics, uploads, editing>> PROVE FilesInv'
  BY <1>1 DEF FilesInv, OneRowEach, Busy, On, OwnFile
<1>2. ASSUME NEW e \in Editor, Done(e), UNCHANGED <<pics, uploads>> PROVE FilesInv'
  BY <1>2, FilesFewer DEF Done, FilesInv, OneRowEach
<1>3. ASSUME NEW e \in Editor, NEW m, Read(e, m), m.does \in {"update", "assign", "variant", "rename"}
      PROVE  FilesInv'
  <2>1. SeenBy(m) = {}
    BY <1>3 DEF SeenBy
  <2> QED BY <1>3, <2>1, FilesRead DEF Read
<1>4. ASSUME NEW e \in Editor, Rows(e) PROVE FilesInv'
  <2>1. CASE ReadUpdate(e)
    BY <1>3, <2>1 DEF ReadUpdate
  <2>2. CASE ReadAssign(e)
    BY <1>3, <2>2 DEF ReadAssign
  <2>3. CASE ReadCreateVariant(e)
    BY <1>3, <2>3 DEF ReadCreateVariant
  <2>4. CASE ReadUpdateVariant(e)
    BY <1>3, <2>4 DEF ReadUpdateVariant
  <2>5. CASE ReadRemoveVariant(e)
    <3>1. PICK v : Read(e, [does |-> "remove", id |-> v, files |-> {}])
      BY <2>5 DEF ReadRemoveVariant
    <3>2. PICK m : m = [does |-> "remove", id |-> v, files |-> {}]
      OBVIOUS
    <3>3. m.does = "remove" /\ SeenBy(m) = {} /\ m.files = {}
      BY <3>2 DEF SeenBy
    <3>4. Read(e, m)
      BY <3>1, <3>2
    <3> QED BY <3>3, <3>4, FilesRead DEF Read
  <2>6. CASE WriteUpdate(e) \/ WriteAssign(e) \/ WriteCreateVariant(e) \/ WriteUpdateVariant(e)
    BY <1>2, <2>6 DEF WriteUpdate, WriteAssign, WriteCreateVariant, WriteUpdateVariant, Write
  <2> QED BY <1>4, <2>1, <2>2, <2>3, <2>4, <2>5, <2>6 DEF Rows
<1>5. ASSUME NEW e \in Editor, ReadRemove(e) PROVE FilesInv'
  <2>1. PICK i \in There :
          Read(e, [does |-> "remove", id |-> i, files |-> {r.file : r \in {q \in pics : q.item = i}}])
    BY <1>5 DEF ReadRemove
  <2>2. PICK m : m = [does |-> "remove", id |-> i, files |-> {r.file : r \in {q \in pics : q.item = i}}]
    OBVIOUS
  <2>3. m.does = "remove" /\ m.id = i /\ SeenBy(m) = m.files
    BY <2>2 DEF SeenBy
  <2>4. \A f : f \in m.files <=> \E r \in pics : r.item = i /\ r.file = f
    BY <2>2
  <2>5. \A r \in pics : r.file \in m.files => r.item = m.id
    BY <2>3, <2>4 DEF FilesInv, OneRowEach
  <2>6. Read(e, m)
    BY <2>1, <2>2
  <2>7. \A f \in SeenBy(m) : \E r \in pics : r.file = f
    BY <2>3, <2>4
  <2> QED BY <2>3, <2>5, <2>6, <2>7, FilesRead DEF Read
<1>6. ASSUME NEW e \in Editor, ReadCover(e) \/ ReadDrop(e) PROVE FilesInv'
  <2>1. PICK r \in pics, does \in {"cover", "drop"} : Read(e, [does |-> does, row |-> r])
    BY <1>6 DEF ReadCover, ReadDrop
  <2>2. PICK m : m = [does |-> does, row |-> r]
    OBVIOUS
  <2>3. m.does \in {"cover", "drop"} /\ SeenBy(m) = {r.file}
    BY <2>2 DEF SeenBy
  <2>4. Read(e, m)
    BY <2>1, <2>2
  <2> QED BY <2>3, <2>4, FilesRead DEF Read
<1>7. ASSUME NEW e \in Editor, WriteCover(e) PROVE FilesInv'
  <2>1. PICK r : r = editing[e].row
    OBVIOUS
  <2> DEFINE StepDown(q) == IF q.item = r.item /\ q.kind = "image" /\ ~r.cover THEN [q EXCEPT !.cover = FALSE] ELSE q
             After(q) == IF q.file = r.file THEN [q EXCEPT !.cover = TRUE] ELSE StepDown(q)
  <2>2. Done(e) /\ uploads' = uploads /\ (pics' = pics \/ pics' = {After(q) : q \in pics})
    BY <1>7, <2>1 DEF WriteCover, Write
  <2>3. \A q \in pics : After(q).file = q.file /\ After(q).item = q.item
    BY DEF CardTypes, Pic
  <2> HIDE DEF After
  <2>4. OneRowEach' /\ \A q \in pics' : \E p \in pics : p.file = q.file /\ p.item = q.item
    BY <2>2, <2>3 DEF FilesInv, OneRowEach
  <2> QED BY <2>2, <2>4, FilesFewer DEF Done
<1>8. ASSUME NEW e \in Editor, WriteDrop(e) PROVE FilesInv'
  <2>1. PICK r : r = editing[e].row
    OBVIOUS
  <2>2. On(e, "drop") /\ uploads' = uploads
    BY <1>8 DEF WriteDrop
  <2>3. CASE Done(e) /\ UNCHANGED pics
    BY <1>2, <2>2, <2>3
  <2>4. CASE pics' \in Dropped({q \in pics : q.file # r.file}, r) /\ ThenUnlink(e, {r.file})
    <3>1. PICK m : m = [does |-> "unlink", files |-> {r.file}]
      OBVIOUS
    <3>2. /\ m.does = "unlink" /\ m.files = {r.file} /\ editing' = [editing EXCEPT ![e] = m]
          /\ Busy(e) /\ SeenBy(editing[e]) = {r.file}
      BY <2>1, <2>2, <2>4, <3>1 DEF ThenUnlink, Busy, On, SeenBy
    <3> DEFINE rest == {q \in pics : q.file # r.file}
    <3>3. OneRowEach' /\ \A q \in pics' : \E p \in rest : p.file = q.file /\ p.item = q.item
      <4>1. pics' = rest \/ \E q \in rest : pics' = (rest \ {q}) \union {[q EXCEPT !.cover = TRUE]}
        BY <2>4 DEF Dropped
      <4>2. \A q \in rest : LET t == [q EXCEPT !.cover = TRUE] IN t.file = q.file /\ t.item = q.item
        BY DEF CardTypes, Pic
      <4>3. CASE pics' = rest
        BY <4>3 DEF FilesInv, OneRowEach
      <4>4. CASE \E q \in rest : pics' = (rest \ {q}) \union {[q EXCEPT !.cover = TRUE]}
        <5>1. PICK q \in rest : pics' = (rest \ {q}) \union {[q EXCEPT !.cover = TRUE]}
          BY <4>4
        <5>2. PICK t : t = [q EXCEPT !.cover = TRUE] /\ t.file = q.file /\ t.item = q.item
          BY <4>2, <5>1
        <5>3. pics' = (rest \ {q}) \union {t}
          BY <5>1, <5>2
        <5>4. \A p \in rest \ {q} : p.file # t.file
          BY <5>1, <5>2 DEF FilesInv, OneRowEach
        <5>5. OneRowEach'
          BY <5>3, <5>4 DEF FilesInv, OneRowEach
        <5> HIDE DEF rest
        <5> QED BY <5>1, <5>2, <5>3, <5>5
      <4> QED BY <4>1, <4>3, <4>4
    <3>4. \A q \in pics' : q.file \notin m.files
      BY <3>2, <3>3
    <3> QED BY <2>2, <3>2, <3>3, <3>4, FilesFewer
  <2> QED BY <1>8, <2>1, <2>3, <2>4 DEF WriteDrop
<1>9. ASSUME NEW e \in Editor, WriteRemove(e) PROVE FilesInv'
  <2>1. PICK m : m = editing[e]
    OBVIOUS
  <2>2. On(e, "remove") /\ uploads' = uploads
    BY <1>9 DEF WriteRemove
  <2>3. CASE Done(e) /\ UNCHANGED <<card, pics>>
    BY <1>2, <2>2, <2>3
  <2>4. CASE pics' = {r \in pics : r.item # m.id} /\ ThenUnlink(e, m.files)
    <3>1. PICK n : n = [does |-> "unlink", files |-> m.files]
      OBVIOUS
    <3>2. /\ n.does = "unlink" /\ n.files = m.files /\ editing' = [editing EXCEPT ![e] = n]
          /\ Busy(e) /\ SeenBy(editing[e]) = m.files
      BY <2>1, <2>2, <2>4, <3>1 DEF ThenUnlink, Busy, On, SeenBy
    <3>3. \A q \in pics' : q \in pics /\ q.file \notin n.files
      BY <2>1, <2>2, <2>4, <3>2 DEF FilesInv
    <3> QED BY <2>2, <3>2, <3>3, FilesFewer DEF FilesInv, OneRowEach
  <2> QED BY <1>9, <2>1, <2>3, <2>4 DEF WriteRemove
<1>10. ASSUME NEW e \in Editor, Crash(e) PROVE FilesInv'
  BY <1>2, <1>10 DEF Crash
<1>11. ASSUME NEW e \in Editor, Pictures(e) PROVE FilesInv'
  BY <1>6, <1>7, <1>8, <1>11, FilesAdded DEF Pictures
<1> QED
  BY <1>1, <1>4, <1>5, <1>9, <1>10, <1>11, FilesAdded DEF Next, vars, cardVars, CardsNext, Create

-----------------------------------------------------------------------------
(* The rows: variants under parents that are there, and codes apart.       *)
UnderParents == \A i \in There : card[i].of # NoParent => card[i].of \in Parents
CodesApart == \A i, j \in There : i # j /\ ~hasNoCode(i) => card[i].code # card[j].code
RowsInv ==
  /\ UnderParents /\ CodesApart
  /\ \A e \in Editor : On(e, "variant") =>
       editing[e].of \in issued /\ (editing[e].of \in There => editing[e].of \in Parents)
  /\ \A i \in Item : wins[i] \in {0, 1} /\ (wins[i] = 1 => i \in issued /\ (i \in There => ~hasNoCode(i)))

LEMMA RowsStart == Init => RowsInv
<1> SUFFICES ASSUME CardsInit PROVE RowsInv
  BY CardsBegin
<1>1. PICK olds \in SUBSET Item, shape \in Shape :
        /\ Cardinality(olds) <= 1
        /\ card = [i \in Item |-> IF i \in olds THEN Card(NoParent, shape, NoParent, NoCode) ELSE Absent]
        /\ issued = olds
  BY DEF CardsInit
<1>2. \A i \in There : card[i].of = NoParent /\ hasNoCode(i)
  BY <1>1 DEF There, Card, hasNoCode
<1> QED BY <1>2 DEF CardsInit, RowsInv, UnderParents, CodesApart, On

(* The rows keep their parents and codes, and nobody begins a variant.     *)
LEMMA RowsSame ==
  ASSUME RowsInv, There' = There, \A i \in There : card'[i].of = card[i].of /\ card'[i].code = card[i].code,
         UNCHANGED <<issued, wins>>,
         \A g \in Editor : On(g, "variant")' => On(g, "variant") /\ editing'[g].of = editing[g].of
  PROVE  RowsInv'
<1>1. Parents' = Parents
  BY DEF Parents
<1>2. UnderParents' /\ CodesApart'
  BY <1>1 DEF RowsInv, UnderParents, CodesApart, hasNoCode
<1>3. \A i \in Item : wins'[i] = 1 => i \in issued' /\ (i \in There' => ~hasNoCode(i)')
  BY DEF RowsInv, hasNoCode
<1>4. \A g \in Editor : On(g, "variant")' =>
        editing'[g].of \in issued' /\ (editing'[g].of \in There' => editing'[g].of \in Parents')
  BY <1>1 DEF RowsInv
<1> QED BY <1>2, <1>3, <1>4 DEF RowsInv

LEMMA RowsMore ==
  ASSUME CardTypes, RowsInv, NEW v \in Item \ issued, NEW c \in CardRow,
         c.code # NoCode, ~Taken(c.code, v), c.of = NoParent \/ c.of \in Parents,
         card' = [card EXCEPT ![v] = c], issued' = issued \union {v}, wins' = wins,
         \A g \in Editor : On(g, "variant")' => On(g, "variant") /\ editing'[g].of = editing[g].of
  PROVE  RowsInv'
<1>1. /\ There' = There \union {v} /\ v \notin There
      /\ \A i \in Item : card'[i] = IF i = v THEN c ELSE card[i]
  BY AbsentIsNoCard DEF There, CardTypes
<1>2. Parents \subseteq Parents' /\ There \subseteq Item
  BY <1>1 DEF Parents, There
<1>3. UnderParents'
  BY <1>1, <1>2 DEF RowsInv, UnderParents
<1>4. CodesApart'
  BY <1>1, <1>2 DEF RowsInv, CodesApart, hasNoCode, Taken
<1>5. \A i \in Item : wins'[i] = 1 => i \in issued' /\ (i \in There' => ~hasNoCode(i)')
  BY <1>1 DEF RowsInv, hasNoCode
<1>6. \A g \in Editor : On(g, "variant")' =>
        editing'[g].of \in issued' /\ (editing'[g].of \in There' => editing'[g].of \in Parents')
  BY <1>1, <1>2 DEF RowsInv
<1> QED BY <1>3, <1>4, <1>5, <1>6 DEF RowsInv

LEMMA RowsChanged ==
  ASSUME CardTypes, RowsInv, NEW i \in There, NEW c \in CardRow,
         c.of = card[i].of, c.code # NoCode, ~Taken(c.code, i),
         card' = [card EXCEPT ![i] = c], issued' = issued,
         wins' = wins \/ (hasNoCode(i) /\ wins' = [wins EXCEPT ![i] = @ + 1]),
         \A g \in Editor : On(g, "variant")' => On(g, "variant") /\ editing'[g].of = editing[g].of
  PROVE  RowsInv'
<1>1. /\ There' = There /\ i \in Item /\ i \in issued
      /\ \A k \in Item : card'[k] = IF k = i THEN c ELSE card[k]
  BY AbsentIsNoCard DEF There, CardTypes
<1>2. Parents' = Parents /\ There \subseteq Item
  BY <1>1 DEF Parents, There
<1>3. UnderParents'
  BY <1>1, <1>2 DEF RowsInv, UnderParents
<1>4. CodesApart'
  BY <1>1, <1>2 DEF RowsInv, CodesApart, hasNoCode, Taken
<1>5. \A k \in Item : wins'[k] \in {0, 1} /\ (wins'[k] = 1 => k \in issued' /\ (k \in There' => ~hasNoCode(k)'))
  <2>1. \A k \in There : ~hasNoCode(k) \/ k = i => ~hasNoCode(k)'
    BY <1>1, <1>2 DEF hasNoCode
  <2>2. CASE wins' = wins
    BY <1>1, <2>1, <2>2 DEF RowsInv
  <2>3. CASE hasNoCode(i) /\ wins' = [wins EXCEPT ![i] = @ + 1]
    <3>1. wins[i] = 0
      BY <1>1, <2>3 DEF RowsInv
    <3>2. \A k \in Item : wins'[k] = IF k = i THEN 1 ELSE wins[k]
      BY <1>1, <2>3, <3>1 DEF CardTypes
    <3> QED BY <1>1, <2>1, <3>2 DEF RowsInv
  <2> QED BY <2>2, <2>3
<1>6. \A g \in Editor : On(g, "variant")' =>
        editing'[g].of \in issued' /\ (editing'[g].of \in There' => editing'[g].of \in Parents')
  BY <1>1, <1>2 DEF RowsInv
<1> QED BY <1>3, <1>4, <1>5, <1>6 DEF RowsInv

LEMMA RowsFewer ==
  ASSUME CardTypes, RowsInv, NEW i \in There, Variants(i) = {},
         card' = [card EXCEPT ![i] = Absent], UNCHANGED <<issued, wins>>,
         \A g \in Editor : On(g, "variant")' => On(g, "variant") /\ editing'[g].of = editing[g].of
  PROVE  RowsInv'
<1>1. /\ There' = There \ {i} /\ There \subseteq Item
      /\ \A k \in There' : card'[k] = card[k]
  BY DEF There, CardTypes
<1>2. Parents' = Parents \ {i}
  BY <1>1 DEF Parents
<1>3. UnderParents'
  BY <1>1, <1>2 DEF RowsInv, UnderParents, Variants
<1>4. CodesApart'
  BY <1>1, <1>2 DEF RowsInv, CodesApart, hasNoCode
<1>5. \A k \in Item : wins'[k] = 1 => k \in issued' /\ (k \in There' => ~hasNoCode(k)')
  BY <1>1 DEF RowsInv, hasNoCode
<1>6. \A g \in Editor : On(g, "variant")' =>
        editing'[g].of \in issued' /\ (editing'[g].of \in There' => editing'[g].of \in Parents')
  BY <1>1, <1>2 DEF RowsInv
<1> QED BY <1>3, <1>4, <1>5, <1>6 DEF RowsInv

(* What the writes do to the rows.                                         *)
LEMMA Reshaped ==
  ASSUME CardTypes, NEW e \in Editor, WriteUpdate(e), NEW m, m = editing[e]
  PROVE  /\ There' = There
         /\ \A i \in There : card'[i].of = card[i].of /\ card'[i].code = card[i].code /\ card'[i].label = card[i].label
         /\ \A i \in There : card'[i].shape =
              IF m.id \in There /\ (i = m.id \/ (m.flows /\ i \in Variants(m.id))) THEN m.shape ELSE card[i].shape
<1>1. m.id \in Item /\ m.shape \in Shape
  BY DEF WriteUpdate, Write, On, EditOK, CardTypes
<1>2. CASE m.id \notin There
  BY <1>2 DEF WriteUpdate, There
<1>3. CASE m.id \in There
  <2>1. card' = [i \in Item |->
               IF i = m.id \/ (m.flows /\ i \in Variants(m.id)) THEN [card[i] EXCEPT !.shape = m.shape]
               ELSE card[i]]
    BY <1>3 DEF WriteUpdate
  <2>2. \A i \in There : LET c == [card[i] EXCEPT !.shape = m.shape]
                         IN  /\ c \in CardRow /\ c # Absent /\ c.shape = m.shape
                             /\ c.of = card[i].of /\ c.code = card[i].code /\ c.label = card[i].label
    BY <1>1, AbsentIsNoCard DEF CardTypes, There, CardRow
  <2>3. There \subseteq Item /\ Variants(m.id) \subseteq There
    BY DEF There, Variants
  <2>4. ASSUME NEW i \in There
        PROVE  /\ card'[i] # Absent /\ card'[i].of = card[i].of /\ card'[i].code = card[i].code /\ card'[i].label = card[i].label
               /\ card'[i].shape = IF i = m.id \/ (m.flows /\ i \in Variants(m.id)) THEN m.shape ELSE card[i].shape
    <3>1. CASE i = m.id \/ (m.flows /\ i \in Variants(m.id))
      BY <2>1, <2>2, <2>3, <3>1
    <3>2. CASE ~(i = m.id \/ (m.flows /\ i \in Variants(m.id)))
      BY <2>1, <2>3, <3>2 DEF There
    <3> QED BY <3>1, <3>2
  <2>5. \A i \in Item : i \notin There => card'[i] = Absent
    BY <1>3, <2>1, <2>3 DEF There
  <2> QED BY <1>3, <2>4, <2>5 DEF There
<1> QED BY <1>2, <1>3

LEMMA Assigned ==
  ASSUME CardTypes, NEW e \in Editor, WriteAssign(e)
  PROVE  \/ card' = card /\ wins' = wins
         \/ \E i \in There, c \in CardRow :
              /\ hasNoCode(i) /\ c.code \in Item /\ ~Taken(c.code, i)
              /\ c.of = card[i].of /\ c.shape = card[i].shape /\ c.label = card[i].label
              /\ card' = [card EXCEPT ![i] = c] /\ wins' = [wins EXCEPT ![i] = @ + 1]
<1>1. PICK i : i = editing[e].id
  OBVIOUS
<1>2. CASE i \in There /\ hasNoCode(i) /\ ~Taken(i, i)
  <2>1. PICK c : c = [card[i] EXCEPT !.code = i]
    OBVIOUS
  <2>2. c \in CardRow /\ c.code = i /\ i \in Item /\ c.of = card[i].of /\ c.shape = card[i].shape /\ c.label = card[i].label
    BY <1>2, <2>1 DEF CardTypes, There, CardRow
  <2>3. card' = [card EXCEPT ![i].code = i] /\ wins' = [wins EXCEPT ![i] = @ + 1]
    BY <1>1, <1>2 DEF WriteAssign
  <2>4. card' = [card EXCEPT ![i] = c]
    BY <2>1, <2>3
  <2> QED BY <1>2, <2>2, <2>3, <2>4
<1>3. CASE ~(i \in There /\ hasNoCode(i) /\ ~Taken(i, i))
  BY <1>1, <1>3 DEF WriteAssign
<1> QED BY <1>2, <1>3

LEMMA Varied ==
  ASSUME CardTypes, NEW e \in Editor, WriteCreateVariant(e), NEW m, m = editing[e]
  PROVE  \E v \in Item \ issued, c \in CardRow :
           /\ c.of = m.of /\ c.shape = m.shape /\ c.label = m.label /\ c.code \in Item
           /\ issued' = issued \union {v}
           /\ card' = card \/ (m.of \in There /\ ~Taken(c.code, v) /\ card' = [card EXCEPT ![v] = c])
<1>1. m.of \in Item /\ m.shape \in Shape /\ m.label \in Label /\ m.code \in Item \union {NoCode}
  BY DEF WriteCreateVariant, Write, On, EditOK, CardTypes
<1>2. PICK v \in Item \ issued :
        LET code == IF m.code = NoCode THEN v ELSE m.code
        IN  /\ card' = IF m.of \notin There \/ Taken(code, v) THEN card
                       ELSE [card EXCEPT ![v] = Card(m.of, m.shape, m.label, code)]
            /\ issued' = issued \union {v}
  BY DEF WriteCreateVariant
<1>3. PICK code \in Item : code = IF m.code = NoCode THEN v ELSE m.code
  BY <1>1
<1>4. PICK c : c = Card(m.of, m.shape, m.label, code)
  OBVIOUS
<1>5. c \in CardRow /\ c.of = m.of /\ c.shape = m.shape /\ c.label = m.label /\ c.code = code
  BY <1>1, <1>4 DEF Card, CardRow
<1>6. /\ card' = IF m.of \notin There \/ Taken(code, v) THEN card ELSE [card EXCEPT ![v] = c]
      /\ issued' = issued \union {v}
  BY <1>2, <1>3, <1>4
<1> QED BY <1>5, <1>6

LEMMA Renamed ==
  ASSUME CardTypes, NEW e \in Editor, WriteUpdateVariant(e), NEW m, m = editing[e]
  PROVE  \/ card' = card
         \/ \E c \in CardRow :
              /\ m.id \in There /\ c.code = m.code /\ c.code \in Item /\ ~Taken(c.code, m.id)
              /\ c.of = card[m.id].of /\ c.shape = card[m.id].shape /\ c.label = m.label
              /\ card' = [card EXCEPT ![m.id] = c]
<1>1. m.id \in Item /\ m.label \in Label /\ m.code \in Item
  BY DEF WriteUpdateVariant, Write, On, EditOK, CardTypes
<1>2. CASE m.id \in There /\ ~Taken(m.code, m.id)
  <2>1. PICK c : c = [card[m.id] EXCEPT !.label = m.label, !.code = m.code]
    OBVIOUS
  <2>2. card[m.id] \in CardRow
    BY <1>2 DEF CardTypes, There
  <2>3. /\ c \in CardRow /\ c.code = m.code /\ c.label = m.label
        /\ c.of = card[m.id].of /\ c.shape = card[m.id].shape
    BY <1>1, <2>1, <2>2 DEF CardRow
  <2>4. card' = [card EXCEPT ![m.id].label = m.label, ![m.id].code = m.code]
    BY <1>2 DEF WriteUpdateVariant
  <2>5. card' = [card EXCEPT ![m.id] = c]
    BY <1>1, <2>1, <2>2, <2>4 DEF CardTypes, CardRow
  <2> QED BY <1>1, <1>2, <2>3, <2>5
<1>3. CASE ~(m.id \in There /\ ~Taken(m.code, m.id))
  BY <1>3 DEF WriteUpdateVariant
<1> QED BY <1>2, <1>3

LEMMA Created ==
  ASSUME CardTypes, Create
  PROVE  \E i \in Item \ issued, c \in CardRow :
           /\ c.of = NoParent /\ c.code = i /\ issued' = issued \union {i}
           /\ card' = card \/ (~Taken(c.code, i) /\ card' = [card EXCEPT ![i] = c])
<1>1. PICK i \in Item \ issued, shape \in Shape :
        /\ card' = IF Taken(i, i) THEN card ELSE [card EXCEPT ![i] = Card(NoParent, shape, NoParent, i)]
        /\ issued' = issued \union {i}
        /\ UNCHANGED <<pics, uploads, editing, mingled, wins>>
  BY DEF Create
<1>2. PICK c : c = Card(NoParent, shape, NoParent, i)
  OBVIOUS
<1>3. c \in CardRow /\ c.of = NoParent /\ c.code = i
  BY <1>2 DEF Card, CardRow
<1> QED BY <1>1, <1>2, <1>3

LEMMA RowsKept == CardTypes /\ RowsInv /\ [Next]_vars => RowsInv'
<1> SUFFICES ASSUME CardTypes, RowsInv, [Next]_vars PROVE RowsInv'
  OBVIOUS
<1> DEFINE NoneBegins == \A g \in Editor : On(g, "variant")' => On(g, "variant") /\ editing'[g].of = editing[g].of
<1>1. ASSUME UNCHANGED <<card, issued, wins>>, NoneBegins PROVE RowsInv'
  BY <1>1, RowsSame DEF There
<1>2. ASSUME NEW e \in Editor, NEW m, editing' = [editing EXCEPT ![e] = m], m = Resting \/ m.does # "variant"
      PROVE  NoneBegins
  BY <1>2 DEF CardTypes, On
<1>3. ASSUME NEW e \in Editor, Done(e) PROVE NoneBegins
  BY <1>2, <1>3 DEF Done
<1>4. ASSUME NEW e \in Editor, NEW m, Read(e, m), m.does # "variant" PROVE RowsInv'
  BY <1>1, <1>2, <1>4 DEF Read
<1>5. ASSUME NEW e \in Editor, ReadCreateVariant(e) PROVE RowsInv'
  <2>1. PICK m : Read(e, m) /\ m.of \in Parents
    BY <1>5 DEF ReadCreateVariant
  <2>2. m.of \in issued
    BY <2>1 DEF Parents, CardTypes
  <2>3. \A g \in Editor : editing'[g] = IF g = e THEN m ELSE editing[g]
    BY <2>1 DEF Read, CardTypes
  <2>4. UNCHANGED <<card, issued, wins>>
    BY <2>1 DEF Read
  <2>5. UnderParents' /\ CodesApart'
    BY <2>4 DEF RowsInv, UnderParents, CodesApart, There, Parents, hasNoCode
  <2> QED BY <2>1, <2>2, <2>3, <2>4, <2>5 DEF RowsInv, On, There, Parents, hasNoCode
<1>6. ASSUME NEW e \in Editor, WriteUpdate(e) PROVE RowsInv'
  <2>1. NoneBegins /\ UNCHANGED <<issued, wins>>
    BY <1>3, <1>6 DEF WriteUpdate, Write
  <2> QED BY <1>6, <2>1, Reshaped, RowsSame
<1>7. ASSUME NEW e \in Editor, WriteAssign(e) PROVE RowsInv'
  <2>1. NoneBegins /\ UNCHANGED issued
    BY <1>3, <1>7 DEF WriteAssign, Write
  <2>2. CASE card' = card /\ wins' = wins
    BY <1>1, <2>1, <2>2
  <2>3. CASE ~(card' = card /\ wins' = wins)
    <3>1. PICK i \in There, c \in CardRow :
              /\ hasNoCode(i) /\ c.code \in Item /\ ~Taken(c.code, i)
              /\ c.of = card[i].of /\ c.shape = card[i].shape /\ c.label = card[i].label
              /\ card' = [card EXCEPT ![i] = c] /\ wins' = [wins EXCEPT ![i] = @ + 1]
      BY <1>7, <2>3, Assigned
    <3>2. c.code # NoCode
      BY <3>1, NamesApart
    <3> HIDE DEF NoneBegins
    <3> QED BY <2>1, <3>1, <3>2, RowsChanged DEF NoneBegins
  <2> QED BY <2>2, <2>3
<1>8. ASSUME NEW e \in Editor, WriteCreateVariant(e) PROVE RowsInv'
  <2>1. NoneBegins /\ UNCHANGED wins /\ On(e, "variant")
    BY <1>3, <1>8 DEF WriteCreateVariant, Write
  <2>2. PICK m : m = editing[e]
    OBVIOUS
  <2>3. PICK v \in Item \ issued, c \in CardRow :
           /\ c.of = m.of /\ c.shape = m.shape /\ c.label = m.label /\ c.code \in Item
           /\ issued' = issued \union {v}
           /\ card' = card \/ (m.of \in There /\ ~Taken(c.code, v) /\ card' = [card EXCEPT ![v] = c])
    BY <1>8, <2>2, Varied
  <2>4. CASE card' = card
    <3>1. There' = There /\ Parents' = Parents /\ issued \subseteq issued'
      BY <2>3, <2>4 DEF There, Parents
    <3> QED BY <2>1, <2>4, <3>1 DEF RowsInv, UnderParents, CodesApart, hasNoCode
  <2>5. CASE m.of \in There /\ ~Taken(c.code, v) /\ card' = [card EXCEPT ![v] = c]
    <3>1. c.of \in Parents /\ c.code # NoCode
      BY <2>1, <2>2, <2>3, <2>5, NamesApart DEF RowsInv
    <3> QED BY <2>1, <2>3, <2>5, <3>1, RowsMore
  <2> QED BY <2>3, <2>4, <2>5
<1>9. ASSUME NEW e \in Editor, WriteUpdateVariant(e) PROVE RowsInv'
  <2>1. NoneBegins /\ UNCHANGED <<issued, wins>>
    BY <1>3, <1>9 DEF WriteUpdateVariant, Write
  <2>2. PICK m : m = editing[e]
    OBVIOUS
  <2>3. CASE card' = card
    BY <1>1, <2>1, <2>3
  <2>4. CASE card' # card
    <3>1. PICK c \in CardRow :
              /\ m.id \in There /\ c.code = m.code /\ c.code \in Item /\ ~Taken(c.code, m.id)
              /\ c.of = card[m.id].of /\ c.shape = card[m.id].shape /\ c.label = m.label
              /\ card' = [card EXCEPT ![m.id] = c]
      BY <1>9, <2>2, <2>4, Renamed
    <3>2. c.code # NoCode
      BY <3>1, NamesApart
    <3> QED BY <2>1, <3>1, <3>2, RowsChanged
  <2> QED BY <2>3, <2>4
<1>10. ASSUME NEW e \in Editor, WriteRemove(e) PROVE RowsInv'
  <2>1. PICK m : m = editing[e]
    OBVIOUS
  <2>2. CASE Done(e) /\ UNCHANGED <<card, pics>>
    BY <1>1, <1>3, <1>10, <2>2 DEF WriteRemove
  <2>3. CASE m.id \in There /\ Variants(m.id) = {} /\ card' = [card EXCEPT ![m.id] = Absent] /\ ThenUnlink(e, m.files)
    <3>1. NoneBegins
      BY <1>2, <2>3 DEF ThenUnlink
    <3> QED BY <1>10, <2>3, <3>1, RowsFewer DEF WriteRemove
  <2> QED BY <1>10, <2>1, <2>2, <2>3 DEF WriteRemove
<1>11. ASSUME Create PROVE RowsInv'
  <2>1. NoneBegins /\ wins' = wins
    BY <1>11 DEF Create, On
  <2>2. PICK i \in Item \ issued, c \in CardRow :
           /\ c.of = NoParent /\ c.code = i /\ issued' = issued \union {i}
           /\ card' = card \/ (~Taken(c.code, i) /\ card' = [card EXCEPT ![i] = c])
    BY <1>11, Created
  <2>3. CASE card' = card
    <3>1. There' = There /\ Parents' = Parents /\ issued \subseteq issued'
      BY <2>2, <2>3 DEF There, Parents
    <3> QED BY <2>1, <2>3, <3>1 DEF RowsInv, UnderParents, CodesApart, hasNoCode
  <2>4. CASE ~Taken(c.code, i) /\ card' = [card EXCEPT ![i] = c]
    <3>1. c.code # NoCode
      BY <2>2, NamesApart
    <3> QED BY <2>1, <2>2, <2>4, <3>1, RowsMore
  <2> QED BY <2>2, <2>3, <2>4
<1>12. ASSUME NEW e \in Editor, ReadUpdate(e) \/ ReadAssign(e) \/ ReadUpdateVariant(e) \/ ReadRemove(e)
                                  \/ ReadRemoveVariant(e) \/ ReadCover(e) \/ ReadDrop(e)
       PROVE  RowsInv'
  BY <1>4, <1>12 DEF ReadUpdate, ReadAssign, ReadUpdateVariant, ReadRemove, ReadRemoveVariant, ReadCover, ReadDrop
<1>13. ASSUME NEW e \in Editor, Unlink(e) \/ WriteAdd(e) \/ WriteCover(e) \/ Crash(e) PROVE RowsInv'
  BY <1>1, <1>3, <1>13 DEF Unlink, WriteAdd, WriteCover, Write, Crash
<1>14. ASSUME NEW e \in Editor, ReadAdd(e) PROVE RowsInv'
  <2>1. \E row : editing' = [editing EXCEPT ![e] = [does |-> "add", row |-> row]]
    BY <1>14 DEF ReadAdd
  <2>2. UNCHANGED <<card, issued, wins>>
    BY <1>14 DEF ReadAdd
  <2> QED BY <1>1, <1>2, <2>1, <2>2
<1>15. ASSUME NEW e \in Editor, WriteDrop(e) PROVE RowsInv'
  <2>1. NoneBegins
    BY <1>2, <1>3, <1>15 DEF WriteDrop, ThenUnlink
  <2> QED BY <1>1, <1>15, <2>1 DEF WriteDrop
<1>16. ASSUME UNCHANGED cardVars PROVE RowsInv'
  <2>1. NoneBegins
    BY <1>16 DEF cardVars, On
  <2> QED BY <1>1, <1>16, <2>1 DEF cardVars
<1> QED
  BY <1>5, <1>6, <1>7, <1>8, <1>9, <1>10, <1>11, <1>12, <1>13, <1>14, <1>15, <1>16
     DEF Next, vars, CardsNext, Rows, Pictures

-----------------------------------------------------------------------------
(* One change at a time: what it has read is still so when it writes.      *)
ImagesAt(P, i) == {r \in P : r.item = i /\ r.kind = "image"}
OneCover(P, i) ==
  ImagesAt(P, i) # {} => \E c \in ImagesAt(P, i) : c.cover /\ \A q \in ImagesAt(P, i) : q.cover => q = c

Alike == \A i \in There : \A v \in Variants(i) : card[v].shape = card[i].shape
Labelled == \A i \in There : \A v, w \in Variants(i) : v # w => card[v].label # card[w].label
CoversAreImages == \A r \in pics : r.cover => r.kind = "image"
Covered == CoversAreImages /\ \A i \in Item : OneCover(pics, i)

StillSo(m) ==
  /\ m.does = "update" =>
       /\ m.id \in There /\ (card[m.id].of # NoParent => m.shape = card[m.id].shape)
       /\ m.flows <=> Variants(m.id) # {} /\ m.shape # card[m.id].shape
  /\ m.does = "variant" =>
       /\ m.of \in Parents /\ m.shape = card[m.of].shape
       /\ \A v \in Variants(m.of) : card[v].label # m.label
  /\ m.does = "rename" =>
       /\ m.id \in There \ Parents
       /\ \A v \in Variants(card[m.id].of) \ {m.id} : card[v].label # m.label
  /\ m.does = "add" => (m.row.cover <=> m.row.kind = "image" /\ ImagesOf(m.row.item) = {})
  /\ m.does \in {"cover", "drop"} => m.row \in pics
  /\ m.does = "cover" => m.row.kind = "image"

Undisturbed(e) == Busy(e) => StillSo(editing[e])

LoneInv ==
  ~mingled =>
    /\ \A e, g \in Editor : Busy(e) /\ Busy(g) => e = g
    /\ \A e \in Editor : Undisturbed(e)
    /\ Alike /\ Labelled /\ Covered

LEMMA LoneStart == Init => LoneInv
<1> SUFFICES ASSUME CardsInit PROVE LoneInv
  BY CardsBegin
<1>1. PICK olds \in SUBSET Item, shape \in Shape :
        /\ Cardinality(olds) <= 1
        /\ card = [i \in Item |-> IF i \in olds THEN Card(NoParent, shape, NoParent, NoCode) ELSE Absent]
        /\ issued = olds
  BY DEF CardsInit
<1>2. \A i \in There : card[i].of = NoParent
  BY <1>1 DEF There, Card
<1>3. \A i \in There : Variants(i) = {}
  BY <1>2, NamesApart DEF Variants, There
<1> QED BY <1>3 DEF CardsInit, LoneInv, Undisturbed, Busy, Alike, Labelled, Covered, CoversAreImages, OneCover, ImagesAt

(* Pictures: added, made the cover, and dropped.                           *)
LEMMA CoverAdded ==
  ASSUME CardTypes, OneRowEach, NEW r \in Pic, \A q \in pics : q.file # r.file, Covered,
         r.cover <=> r.kind = "image" /\ ImagesOf(r.item) = {}, pics' = pics \union {r}
  PROVE  Covered'
<1>0. CoversAreImages'
  BY DEF Covered, CoversAreImages
<1> SUFFICES ASSUME NEW i \in Item PROVE OneCover(pics', i)
  BY <1>0 DEF Covered
<1>1. ImagesAt(pics', i) = IF r.item = i /\ r.kind = "image" THEN ImagesAt(pics, i) \union {r} ELSE ImagesAt(pics, i)
  BY DEF ImagesAt
<1>2. OneCover(pics, i) /\ ImagesOf(i) = ImagesAt(pics, i)
  BY DEF Covered, ImagesOf, ImagesAt
<1>3. CASE r.item = i /\ r.kind = "image"
  <2>1. CASE ImagesAt(pics, i) = {}
    BY <1>1, <1>2, <1>3, <2>1 DEF OneCover
  <2>2. CASE ImagesAt(pics, i) # {}
    BY <1>1, <1>2, <1>3, <2>2 DEF OneCover
  <2> QED BY <2>1, <2>2
<1>4. CASE ~(r.item = i /\ r.kind = "image")
  BY <1>1, <1>2, <1>4 DEF OneCover
<1> QED BY <1>3, <1>4

LEMMA CoverSet ==
  ASSUME CardTypes, OneRowEach, Covered, NEW e \in Editor, WriteCover(e), editing[e].row \in pics,
         editing[e].row.kind = "image"
  PROVE  Covered'
<1>1. PICK r \in pics : r = editing[e].row
  OBVIOUS
<1> DEFINE StepDown(q) == IF q.item = r.item /\ q.kind = "image" /\ ~r.cover THEN [q EXCEPT !.cover = FALSE] ELSE q
           After(q) == IF q.file = r.file THEN [q EXCEPT !.cover = TRUE] ELSE StepDown(q)
<1>2. pics' = {After(q) : q \in pics}
  BY <1>1 DEF WriteCover
<1>3. \A q \in pics : /\ q \in Pic /\ After(q).item = q.item /\ After(q).kind = q.kind /\ After(q).file = q.file
                      /\ After(q).cover <=> (q = r \/ (q.cover /\ ~(q.item = r.item /\ q.kind = "image" /\ ~r.cover)))
  <2> SUFFICES ASSUME NEW q \in pics
               PROVE  /\ q \in Pic /\ After(q).item = q.item /\ After(q).kind = q.kind /\ After(q).file = q.file
                      /\ After(q).cover <=> (q = r \/ (q.cover /\ ~(q.item = r.item /\ q.kind = "image" /\ ~r.cover)))
    OBVIOUS
  <2>1. q \in Pic
    BY DEF CardTypes
  <2>2. q.file = r.file <=> q = r
    BY <1>1 DEF OneRowEach
  <2>3. CASE q.file = r.file
    BY <2>1, <2>2, <2>3 DEF Pic
  <2>4. CASE q.file # r.file
    BY <2>1, <2>2, <2>4 DEF Pic
  <2> QED BY <2>3, <2>4, <2>1
<1> HIDE DEF After
<1>0. CoversAreImages'
  BY <1>1, <1>2, <1>3 DEF Covered, CoversAreImages
<1> SUFFICES ASSUME NEW i \in Item PROVE OneCover(pics', i)
  BY <1>0 DEF Covered
<1>4. ImagesAt(pics', i) = {After(q) : q \in ImagesAt(pics, i)}
  BY <1>2, <1>3 DEF ImagesAt
<1>5. OneCover(pics, i)
  BY DEF Covered
<1>6. CASE r.item = i /\ ~r.cover
  <2>1. r \in ImagesAt(pics, i)
    BY <1>1, <1>6 DEF ImagesAt
  <2>2. After(r) \in ImagesAt(pics', i) /\ After(r).cover
    BY <1>1, <1>3, <1>4, <2>1
  <2>3. \A q \in ImagesAt(pics, i) : After(q).cover => q = r
    BY <1>1, <1>3, <1>6 DEF ImagesAt
  <2> QED BY <1>4, <2>2, <2>3 DEF OneCover
<1>7. CASE ~(r.item = i /\ ~r.cover)
  <2>1. \A q \in ImagesAt(pics, i) : After(q).cover <=> q.cover
    BY <1>1, <1>3, <1>7 DEF ImagesAt
  <2>2. CASE ImagesAt(pics, i) = {}
    BY <1>4, <2>2 DEF OneCover
  <2>3. CASE ImagesAt(pics, i) # {}
    <3>1. PICK c \in ImagesAt(pics, i) : c.cover /\ \A q \in ImagesAt(pics, i) : q.cover => q = c
      BY <1>5, <2>3 DEF OneCover
    <3>2. After(c) \in ImagesAt(pics', i) /\ After(c).cover
      BY <1>4, <2>1, <3>1
    <3>3. \A q \in ImagesAt(pics', i) : q.cover => q = After(c)
      BY <1>4, <2>1, <3>1
    <3> QED BY <3>2, <3>3 DEF OneCover
  <2> QED BY <2>2, <2>3
<1> QED BY <1>6, <1>7

LEMMA CoverDropped ==
  ASSUME CardTypes, OneRowEach, Covered, NEW r \in pics, pics' \in Dropped({q \in pics : q.file # r.file}, r)
  PROVE  Covered'
<1> DEFINE rest == {q \in pics : q.file # r.file}
           images == {q \in rest : q.item = r.item /\ q.kind = "image"}
<1>1. rest = pics \ {r} /\ r \in Pic /\ \A q \in pics : q \in Pic
  BY DEF OneRowEach, CardTypes
<1>2. images = ImagesAt(pics, r.item) \ {r}
  BY <1>1 DEF ImagesAt
<1> HIDE DEF rest, images
<1>0. CoversAreImages'
  <2>1. pics' = rest \/ \E q \in images : pics' = (rest \ {q}) \union {[q EXCEPT !.cover = TRUE]}
    BY DEF Dropped, rest, images
  <2>2. ASSUME NEW q \in images PROVE [q EXCEPT !.cover = TRUE].kind = "image"
    <3>1. q \in Pic /\ q.kind = "image"
      BY <1>1, <1>2 DEF ImagesAt
    <3> QED BY <3>1 DEF Pic
  <2> QED BY <1>1, <2>1, <2>2 DEF Covered, CoversAreImages
<1> SUFFICES ASSUME NEW i \in Item PROVE OneCover(pics', i)
  BY <1>0 DEF Covered
<1>3. OneCover(pics, i)
  BY DEF Covered
<1>4. CASE r.cover /\ images # {}
  <2>1. PICK q \in images : pics' = (rest \ {q}) \union {[q EXCEPT !.cover = TRUE]}
    BY <1>4 DEF Dropped, rest, images
  <2>0. q \in Pic /\ q.item = r.item /\ q.kind = "image"
    BY <1>1, <1>2, <2>1 DEF ImagesAt
  <2>01. PICK t : t = [q EXCEPT !.cover = TRUE]
    OBVIOUS
  <2>2. t = [q EXCEPT !.cover = TRUE] /\ t.item = r.item /\ t.kind = "image" /\ t.cover
    BY <2>0, <2>01 DEF Pic
  <2>3. pics' = (pics \ {r, q}) \union {t}
    BY <1>1, <2>1, <2>2
  <2>4. CASE i = r.item
    <3>1. ImagesAt(pics', i) = (ImagesAt(pics, i) \ {r, q}) \union {t}
      BY <2>2, <2>3, <2>4 DEF ImagesAt
    <3>2. CASE r.kind = "image"
      <4>1. \A p \in ImagesAt(pics, i) : p.cover => p = r
        BY <1>3, <1>4, <2>4, <3>2 DEF OneCover, ImagesAt
      <4> QED BY <2>2, <3>1, <4>1 DEF OneCover
    <3> QED BY <1>4, <3>2 DEF Covered, CoversAreImages
  <2>5. CASE i # r.item
    <3>1. q.item = r.item
      BY <1>2, <2>1 DEF ImagesAt
    <3>2. ImagesAt(pics', i) = ImagesAt(pics, i)
      BY <2>2, <2>3, <2>5, <3>1 DEF ImagesAt
    <3> QED BY <1>3, <3>2 DEF OneCover
  <2> QED BY <2>4, <2>5
<1>5. CASE ~(r.cover /\ images # {})
  <2>1. pics' = rest
    BY <1>5 DEF Dropped, rest, images
  <2>2. ImagesAt(pics', i) = ImagesAt(pics, i) \ {r}
    BY <1>1, <2>1 DEF ImagesAt
  <2>3. CASE r \in ImagesAt(pics, i)
    <3>1. i = r.item
      BY <2>3 DEF ImagesAt
    <3>2. CASE images = {}
      BY <1>2, <2>2, <3>1, <3>2 DEF OneCover
    <3>3. CASE ~r.cover
      BY <1>3, <2>2, <2>3, <3>3 DEF OneCover
    <3> QED BY <1>5, <3>2, <3>3
  <2>4. CASE r \notin ImagesAt(pics, i)
    BY <1>3, <2>2, <2>4 DEF OneCover
  <2> QED BY <2>3, <2>4
<1> QED BY <1>4, <1>5

LEMMA LoneRead ==
  ASSUME CardTypes, LoneInv, NEW e \in Editor, NEW m, editing' = [editing EXCEPT ![e] = m],
         mingled' = (mingled \/ \E g \in Editor : editing[g] # Resting),
         UNCHANGED <<card, pics>>, ~mingled => StillSo(m)
  PROVE  LoneInv'
<1> SUFFICES ASSUME ~mingled'
             PROVE  /\ \A h, g \in Editor : Busy(h)' /\ Busy(g)' => h = g
                    /\ \A h \in Editor : Undisturbed(h)'
                    /\ Alike' /\ Labelled' /\ Covered'
  BY DEF LoneInv
<1>1. ~mingled /\ \A g \in Editor : ~Busy(g)
  BY DEF Busy
<1>2. \A g \in Editor : editing'[g] = IF g = e THEN m ELSE editing[g]
  BY DEF CardTypes
<1>3. There' = There /\ Parents' = Parents /\ \A i : Variants(i)' = Variants(i) /\ ImagesOf(i)' = ImagesOf(i)
  BY DEF There, Parents, Variants, ImagesOf
<1>4. Alike' /\ Labelled' /\ Covered'
  BY <1>1, <1>3 DEF LoneInv, Alike, Labelled, Covered, CoversAreImages, OneCover, ImagesAt
<1>5. \A h \in Editor : Busy(h)' => h = e
  BY <1>1, <1>2 DEF Busy
<1>6. StillSo(m)'
  BY <1>1, <1>3 DEF StillSo
<1>7. editing'[e] = m
  BY <1>2
<1>8. \A h \in Editor : Undisturbed(h)'
  BY <1>3, <1>5, <1>6, <1>7 DEF Undisturbed, StillSo
<1> QED BY <1>4, <1>5, <1>8

LEMMA LoneWrite ==
  ASSUME CardTypes, LoneInv, mingled' = mingled, NEW e \in Editor, Busy(e), NEW m,
         editing' = [editing EXCEPT ![e] = m], m = Resting \/ m.does = "unlink",
         ~mingled => Alike' /\ Labelled' /\ Covered'
  PROVE  LoneInv'
<1> SUFFICES ASSUME ~mingled
             PROVE  /\ \A h, g \in Editor : Busy(h)' /\ Busy(g)' => h = g
                    /\ \A h \in Editor : Undisturbed(h)'
                    /\ Alike' /\ Labelled' /\ Covered'
  BY DEF LoneInv
<1>1. \A g \in Editor : Busy(g) => g = e
  BY DEF LoneInv
<1>2. \A g \in Editor : editing'[g] = IF g = e THEN m ELSE editing[g]
  BY DEF CardTypes
<1>3. \A h \in Editor : Busy(h)' => h = e
  BY <1>1, <1>2 DEF Busy
<1>4. Busy(e)' => editing'[e].does = "unlink"
  BY <1>2 DEF Busy
<1>5. \A h \in Editor : Undisturbed(h)'
  BY <1>3, <1>4 DEF Undisturbed, StillSo
<1> QED BY <1>3, <1>5

(* Rows that keep shape, label and parent; some may go.                    *)
LEMMA AlikeKept ==
  ASSUME Alike, Labelled, There' \subseteq There,
         \A i \in There' : /\ card'[i].of = card[i].of /\ card'[i].shape = card[i].shape
                           /\ card'[i].label = card[i].label
  PROVE  Alike' /\ Labelled'
<1>1. \A i : Variants(i)' \subseteq Variants(i) /\ Variants(i)' \subseteq There'
  BY DEF Variants
<1> QED BY <1>1 DEF Alike, Labelled

LEMMA CoveredSame == Covered /\ pics' = pics => Covered'
BY DEF Covered, CoversAreImages, OneCover, ImagesAt

LEMMA LoneReads ==
  ASSUME CardTypes, RowsInv, LoneInv, NEW e \in Editor,
         \/ ReadUpdate(e) \/ ReadAssign(e) \/ ReadCreateVariant(e) \/ ReadUpdateVariant(e)
         \/ ReadRemove(e) \/ ReadRemoveVariant(e) \/ ReadAdd(e) \/ ReadCover(e) \/ ReadDrop(e)
  PROVE  LoneInv'
<1>1. ASSUME NEW m, Read(e, m), StillSo(m) PROVE LoneInv'
  BY <1>1, LoneRead DEF Read
<1>2. CASE ReadUpdate(e)
  <2>1. PICK i \in There, shape \in Shape :
          /\ card[i].of # NoParent => shape = card[i].shape
          /\ Read(e, [does |-> "update", id |-> i, shape |-> shape,
                      flows |-> Variants(i) # {} /\ shape # card[i].shape])
    BY <1>2 DEF ReadUpdate
  <2>2. PICK m : m = [does |-> "update", id |-> i, shape |-> shape,
                      flows |-> Variants(i) # {} /\ shape # card[i].shape]
    OBVIOUS
  <2>3. m.does = "update" /\ m.id = i /\ m.shape = shape /\ m.flows = (Variants(i) # {} /\ shape # card[i].shape)
    BY <2>2
  <2>4. StillSo(m)
    BY <2>1, <2>3 DEF StillSo
  <2> QED BY <1>1, <2>1, <2>2, <2>4
<1>3. CASE ReadAssign(e)
  <2>1. PICK i : Read(e, [does |-> "assign", id |-> i])
    BY <1>3 DEF ReadAssign
  <2>2. StillSo([does |-> "assign", id |-> i])
    BY DEF StillSo
  <2> QED BY <1>1, <2>1, <2>2
<1>4. CASE ReadCreateVariant(e)
  <2>1. PICK p \in Parents, label \in Label, code \in Item \union {NoCode} :
          /\ assertVariantFree(p, label, code, NoParent)
          /\ Read(e, [does |-> "variant", of |-> p, label |-> label, code |-> code, shape |-> card[p].shape])
    BY <1>4 DEF ReadCreateVariant
  <2>2. PICK m : m = [does |-> "variant", of |-> p, label |-> label, code |-> code, shape |-> card[p].shape]
    OBVIOUS
  <2>3. m.does = "variant" /\ m.of = p /\ m.label = label /\ m.shape = card[p].shape
    BY <2>2
  <2>4. \A v \in Variants(p) : v # NoParent
    BY NamesApart DEF Variants, There
  <2>5. StillSo(m)
    BY <2>1, <2>3, <2>4 DEF StillSo, assertVariantFree
  <2> QED BY <1>1, <2>1, <2>2, <2>5
<1>5. CASE ReadUpdateVariant(e)
  <2>1. PICK v \in There \ Parents, label \in Label, code \in Item :
          /\ assertVariantFree(card[v].of, label, code, v)
          /\ Read(e, [does |-> "rename", id |-> v, label |-> label, code |-> code])
    BY <1>5 DEF ReadUpdateVariant
  <2>2. PICK m : m = [does |-> "rename", id |-> v, label |-> label, code |-> code]
    OBVIOUS
  <2>3. m.does = "rename" /\ m.id = v /\ m.label = label
    BY <2>2
  <2>4. StillSo(m)
    BY <2>1, <2>3 DEF StillSo, assertVariantFree
  <2> QED BY <1>1, <2>1, <2>2, <2>4
<1>6. CASE ReadRemove(e) \/ ReadRemoveVariant(e)
  <2>1. PICK i, files : Read(e, [does |-> "remove", id |-> i, files |-> files])
    BY <1>6 DEF ReadRemove, ReadRemoveVariant
  <2>2. StillSo([does |-> "remove", id |-> i, files |-> files])
    BY DEF StillSo
  <2> QED BY <1>1, <2>1, <2>2
<1>7. CASE ReadAdd(e)
  <2>1. PICK i \in There, kind \in {"image", "document"}, file \in File :
          /\ uploads[file] = "new"
          /\ kind = "image" => Cardinality(ImagesOf(i)) < MAX_IMAGES
          /\ editing[e] = Resting
          /\ uploads' = [uploads EXCEPT ![file] = "stored"]
          /\ editing' = [editing EXCEPT ![e] =
               [does |-> "add", row |-> [file |-> file, item |-> i, kind |-> kind,
                                         cover |-> kind = "image" /\ ImagesOf(i) = {}]]]
          /\ mingled' = (mingled \/ \E g \in Editor : editing[g] # Resting)
          /\ UNCHANGED <<card, issued, pics, wins>>
    BY <1>7 DEF ReadAdd
  <2>2. PICK m : m = [does |-> "add", row |-> [file |-> file, item |-> i, kind |-> kind,
                                               cover |-> kind = "image" /\ ImagesOf(i) = {}]]
    OBVIOUS
  <2>3. m.does = "add" /\ m.row.item = i /\ m.row.kind = kind /\ m.row.cover = (kind = "image" /\ ImagesOf(i) = {})
    BY <2>2
  <2>4. StillSo(m)
    BY <2>3 DEF StillSo
  <2>5. editing' = [editing EXCEPT ![e] = m]
    BY <2>1, <2>2
  <2> QED BY <2>1, <2>4, <2>5, LoneRead
<1>8. CASE ReadCover(e)
  <2>1. PICK r \in pics : r.kind = "image" /\ Read(e, [does |-> "cover", row |-> r])
    BY <1>8 DEF ReadCover
  <2>2. StillSo([does |-> "cover", row |-> r])
    BY <2>1 DEF StillSo
  <2> QED BY <1>1, <2>1, <2>2
<1>9. CASE ReadDrop(e)
  <2>1. PICK r \in pics : Read(e, [does |-> "drop", row |-> r])
    BY <1>9 DEF ReadDrop
  <2>2. StillSo([does |-> "drop", row |-> r])
    BY <2>1 DEF StillSo
  <2> QED BY <1>1, <2>1, <2>2
<1> QED BY <1>2, <1>3, <1>4, <1>5, <1>6, <1>7, <1>8, <1>9

(* One card is written: it keeps what it is and under which parent, and    *)
(* its label is none of its siblings'.                                     *)
LEMMA OneCardKept ==
  ASSUME CardTypes, Alike, Labelled, NEW i \in There, NEW c \in CardRow, card' = [card EXCEPT ![i] = c],
         c.of = card[i].of, c.shape = card[i].shape,
         c.label = card[i].label \/ \A v \in Variants(card[i].of) \ {i} : card[v].label # c.label
  PROVE  Alike' /\ Labelled'
<1>1. /\ There' = There /\ i \in Item
      /\ \A k \in There : card'[k] = IF k = i THEN c ELSE card[k]
  BY AbsentIsNoCard DEF There, CardTypes
<1>2. \A p : Variants(p)' = Variants(p)
  BY <1>1 DEF Variants
<1>3. Alike'
  BY <1>1, <1>2 DEF Alike, Variants
<1>4. ASSUME NEW p \in There, NEW v \in Variants(p), NEW w \in Variants(p), v # w PROVE card'[v].label # card'[w].label
  <2>1. v \in There /\ w \in There /\ card[v].of = p /\ card[w].of = p /\ card[v].label # card[w].label
    BY <1>4 DEF Variants, Labelled
  <2> QED BY <1>1, <1>4, <2>1
<1> QED BY <1>1, <1>2, <1>3, <1>4 DEF Labelled

(* An item with variants hands its new shape on; a variant keeps its own.  *)
LEMMA UpdateKeeps ==
  ASSUME CardTypes, RowsInv, Alike, Labelled, NEW e \in Editor, WriteUpdate(e), StillSo(editing[e])
  PROVE  Alike' /\ Labelled'
<1>1. PICK m : m = editing[e]
  OBVIOUS
<1>2. /\ There' = There
      /\ \A i \in There : card'[i].of = card[i].of /\ card'[i].label = card[i].label
      /\ \A i \in There : card'[i].shape =
           IF m.id \in There /\ (i = m.id \/ (m.flows /\ i \in Variants(m.id))) THEN m.shape ELSE card[i].shape
  BY <1>1, Reshaped
<1>3. /\ m.id \in There /\ (card[m.id].of # NoParent => m.shape = card[m.id].shape)
      /\ m.flows <=> Variants(m.id) # {} /\ m.shape # card[m.id].shape
  BY <1>1 DEF StillSo, WriteUpdate, Write, On
<1>4. \A p : Variants(p)' = Variants(p) /\ Variants(p) \subseteq There
  BY <1>2 DEF Variants
<1>5. Labelled'
  BY <1>2, <1>4 DEF Labelled
<1>6. ASSUME NEW i \in There, NEW v \in Variants(i) PROVE card'[v].shape = card'[i].shape
  <2>1. v \in There /\ card[v].of = i /\ card[v].shape = card[i].shape /\ i # NoParent
    BY NamesApart DEF Alike, Variants, There
  <2>2. i \in Parents /\ card[i].of = NoParent
    BY <2>1 DEF RowsInv, UnderParents, Parents
  <2>3. CASE i = m.id
    BY <1>2, <1>3, <2>1, <2>3
  <2>4. CASE i # m.id
    <3>1. v \notin Variants(m.id) /\ i \notin Variants(m.id)
      BY <1>3, <2>1, <2>2, <2>4, NamesApart DEF Variants, There
    <3>2. v = m.id => m.shape = card[v].shape
      BY <1>3, <2>1
    <3> QED BY <1>2, <2>1, <2>4, <3>1, <3>2
  <2> QED BY <2>3, <2>4
<1> QED BY <1>2, <1>4, <1>5, <1>6 DEF Alike

LEMMA VariantKeeps ==
  ASSUME CardTypes, RowsInv, Alike, Labelled, NEW e \in Editor, WriteCreateVariant(e), StillSo(editing[e])
  PROVE  Alike' /\ Labelled'
<1>1. PICK m : m = editing[e]
  OBVIOUS
<1>2. PICK v \in Item \ issued, c \in CardRow :
         /\ c.of = m.of /\ c.shape = m.shape /\ c.label = m.label /\ c.code \in Item
         /\ issued' = issued \union {v}
         /\ card' = card \/ (m.of \in There /\ ~Taken(c.code, v) /\ card' = [card EXCEPT ![v] = c])
  BY <1>1, Varied
<1>3. CASE card' = card
  BY <1>3, AlikeKept DEF There
<1>4. CASE card' = [card EXCEPT ![v] = c]
  <2>1. m.of \in Parents /\ m.shape = card[m.of].shape /\ \A w \in Variants(m.of) : card[w].label # m.label
    BY <1>1 DEF StillSo, WriteCreateVariant, Write, On
  <2>2. /\ There' = There \union {v} /\ v \notin There /\ There \subseteq Item
        /\ card'[v] = c /\ \A i \in There : card'[i] = card[i]
    BY <1>2, <1>4, AbsentIsNoCard DEF There, CardTypes
  <2>3. m.of \in There /\ m.of # v
    BY <2>1, <2>2 DEF Parents
  <2>4. \A i \in There : card[i].of # v
    BY <2>2, NamesApart DEF RowsInv, UnderParents, Parents
  <2>5. /\ Variants(v)' = {}
        /\ \A i \in There : Variants(i)' = IF i = m.of THEN Variants(i) \union {v} ELSE Variants(i)
    BY <1>2, <2>2, <2>3, <2>4 DEF Variants
  <2>6. \A i \in There : Variants(i) \subseteq There
    BY DEF Variants
  <2>7. Alike'
    BY <1>2, <2>1, <2>2, <2>3, <2>5, <2>6 DEF Alike
  <2>8. Labelled'
    BY <1>2, <2>1, <2>2, <2>3, <2>5, <2>6 DEF Labelled
  <2> QED BY <2>7, <2>8
<1> QED BY <1>2, <1>3, <1>4

LEMMA CreateKeeps ==
  ASSUME CardTypes, RowsInv, LoneInv, Create
  PROVE  LoneInv'
<1>1. UNCHANGED <<pics, editing, mingled>> /\ There = {} /\ Parents = {}
  BY DEF Create, RowsInv, UnderParents, Parents
<1>2. PICK i \in Item \ issued, c \in CardRow :
         /\ c.of = NoParent /\ c.code = i /\ issued' = issued \union {i}
         /\ card' = card \/ (~Taken(c.code, i) /\ card' = [card EXCEPT ![i] = c])
  BY Created
<1>3. There' \subseteq {i} /\ (i \in There' => card'[i].of = NoParent)
  BY <1>1, <1>2 DEF There, CardTypes
<1>4. \A p \in There' : Variants(p)' = {}
  BY <1>3, NamesApart DEF Variants, There
<1>5. ~mingled => Alike' /\ Labelled' /\ Covered'
  BY <1>1, <1>4, CoveredSame DEF LoneInv, Alike, Labelled
<1>6. ASSUME ~mingled, NEW e \in Editor PROVE Undisturbed(e)'
  <2>1. Undisturbed(e) /\ editing'[e] = editing[e] /\ \A k : ImagesOf(k)' = ImagesOf(k)
    BY <1>1, <1>6 DEF LoneInv, ImagesOf
  <2> QED BY <1>1, <2>1 DEF Undisturbed, StillSo, Busy
<1> QED BY <1>1, <1>5, <1>6 DEF LoneInv, Busy

(* A read begins alone, a write ends alone, and a new item comes to an     *)
(* empty table, where nothing that was read can still be changed.          *)
LEMMA LoneKept == CardTypes /\ FilesInv /\ RowsInv /\ LoneInv /\ [Next]_vars => LoneInv'
<1> SUFFICES ASSUME CardTypes, FilesInv, RowsInv, LoneInv, [Next]_vars PROVE LoneInv'
  OBVIOUS
<1>1. ASSUME NEW e \in Editor, NEW does, On(e, does), ~mingled
      PROVE  StillSo(editing[e]) /\ Alike /\ Labelled /\ Covered
  BY <1>1 DEF LoneInv, Undisturbed, Busy, On
<1>2. ASSUME NEW e \in Editor, Busy(e), Done(e), mingled' = mingled, ~mingled => Alike' /\ Labelled' /\ Covered'
      PROVE  LoneInv'
  BY <1>2, LoneWrite DEF Done
<1>3. ASSUME NEW e \in Editor, NEW files, Busy(e), ThenUnlink(e, files), mingled' = mingled,
             ~mingled => Alike' /\ Labelled' /\ Covered'
      PROVE  LoneInv'
  <2>1. PICK m : m = [does |-> "unlink", files |-> files]
    OBVIOUS
  <2>2. m.does = "unlink" /\ editing' = [editing EXCEPT ![e] = m]
    BY <1>3, <2>1 DEF ThenUnlink
  <2> QED BY <1>3, <2>2, LoneWrite
<1>4. ASSUME NEW e \in Editor, NEW does, Write(e, does) PROVE Busy(e) /\ On(e, does) /\ Done(e) /\ mingled' = mingled
  BY <1>4 DEF Write, On, Busy
<1>5. ASSUME NEW e \in Editor, WriteUpdate(e) PROVE LoneInv'
  <2>1. Write(e, "update") /\ pics' = pics
    BY <1>5 DEF WriteUpdate
  <2>2. ~mingled => Alike' /\ Labelled' /\ Covered'
    BY <1>1, <1>4, <1>5, <2>1, UpdateKeeps, CoveredSame
  <2> QED BY <1>2, <1>4, <2>1, <2>2
<1>6. ASSUME NEW e \in Editor, WriteAssign(e) PROVE LoneInv'
  <2>1. Write(e, "assign") /\ pics' = pics
    BY <1>6 DEF WriteAssign
  <2>2. ASSUME ~mingled PROVE Alike' /\ Labelled'
    <3>1. Alike /\ Labelled
      BY <1>1, <1>4, <2>1, <2>2
    <3>2. CASE card' = card
      BY <3>1, <3>2, AlikeKept DEF There
    <3>3. CASE card' # card
      <4>1. PICK i \in There, c \in CardRow :
              /\ c.of = card[i].of /\ c.shape = card[i].shape /\ c.label = card[i].label
              /\ card' = [card EXCEPT ![i] = c]
        BY <1>6, <3>3, Assigned
      <4> QED BY <3>1, <4>1, OneCardKept
    <3> QED BY <3>2, <3>3
  <2>3. ~mingled => Alike' /\ Labelled' /\ Covered'
    BY <1>1, <1>4, <2>1, <2>2, CoveredSame
  <2> QED BY <1>2, <1>4, <2>1, <2>3
<1>7. ASSUME NEW e \in Editor, WriteCreateVariant(e) PROVE LoneInv'
  <2>1. Write(e, "variant") /\ pics' = pics
    BY <1>7 DEF WriteCreateVariant
  <2>2. ~mingled => Alike' /\ Labelled' /\ Covered'
    BY <1>1, <1>4, <1>7, <2>1, VariantKeeps, CoveredSame
  <2> QED BY <1>2, <1>4, <2>1, <2>2
<1>8. ASSUME NEW e \in Editor, WriteUpdateVariant(e) PROVE LoneInv'
  <2>1. Write(e, "rename") /\ pics' = pics
    BY <1>8 DEF WriteUpdateVariant
  <2>2. ASSUME ~mingled PROVE Alike' /\ Labelled'
    <3>1. Alike /\ Labelled /\ StillSo(editing[e]) /\ On(e, "rename")
      BY <1>1, <1>4, <2>1, <2>2
    <3>2. PICK m : m = editing[e]
      OBVIOUS
    <3>3. CASE card' = card
      BY <3>1, <3>3, AlikeKept DEF There
    <3>4. CASE card' # card
      <4>1. PICK c \in CardRow :
              /\ m.id \in There /\ c.of = card[m.id].of /\ c.shape = card[m.id].shape /\ c.label = m.label
              /\ card' = [card EXCEPT ![m.id] = c]
        BY <1>8, <3>2, <3>4, Renamed
      <4>2. \A v \in Variants(card[m.id].of) \ {m.id} : card[v].label # m.label
        BY <3>1, <3>2 DEF StillSo, On
      <4> QED BY <3>1, <4>1, <4>2, OneCardKept
    <3> QED BY <3>3, <3>4
  <2>3. ~mingled => Alike' /\ Labelled' /\ Covered'
    BY <1>1, <1>4, <2>1, <2>2, CoveredSame
  <2> QED BY <1>2, <1>4, <2>1, <2>3
<1>9. ASSUME NEW e \in Editor, WriteRemove(e) PROVE LoneInv'
  <2>1. PICK m : m = editing[e]
    OBVIOUS
  <2>2. On(e, "remove") /\ Busy(e) /\ mingled' = mingled
    BY <1>9 DEF WriteRemove, On, Busy
  <2>3. CASE Done(e) /\ UNCHANGED <<card, pics>>
    <3>1. ~mingled => Alike' /\ Labelled' /\ Covered'
      BY <1>1, <2>2, <2>3, AlikeKept, CoveredSame DEF There
    <3> QED BY <1>2, <2>2, <2>3, <3>1
  <2>4. CASE /\ card' = [card EXCEPT ![m.id] = Absent]
             /\ pics' = {r \in pics : r.item # m.id}
             /\ ThenUnlink(e, m.files)
    <3>1. There' \subseteq There /\ \A i \in There' : card'[i] = card[i]
      BY <2>4 DEF There, CardTypes
    <3>2. ASSUME NEW i \in Item, OneCover(pics, i) PROVE OneCover(pics', i)
      <4>1. ImagesAt(pics', i) = IF i = m.id THEN {} ELSE ImagesAt(pics, i)
        BY <2>4 DEF ImagesAt
      <4> QED BY <3>2, <4>1 DEF OneCover
    <3>3. Covered => Covered'
      BY <2>4, <3>2 DEF Covered, CoversAreImages
    <3>4. ~mingled => Alike' /\ Labelled' /\ Covered'
      BY <1>1, <2>2, <3>1, <3>3, AlikeKept
    <3> QED BY <1>3, <2>2, <2>4, <3>4
  <2> QED BY <1>9, <2>1, <2>3, <2>4 DEF WriteRemove
<1>10. ASSUME NEW e \in Editor, WriteAdd(e) PROVE LoneInv'
  <2>1. Write(e, "add") /\ card' = card
    BY <1>10 DEF WriteAdd
  <2>2. PICK r : r = editing[e].row
    OBVIOUS
  <2>3. r \in Pic /\ OneRowEach /\ \A q \in pics : q.file # r.file
    BY <1>4, <2>1, <2>2 DEF CardTypes, EditOK, FilesInv, OwnFile, On
  <2>4. pics' = pics \/ pics' = pics \union {r}
    BY <1>10, <2>2 DEF WriteAdd
  <2>5. ASSUME ~mingled PROVE Alike' /\ Labelled' /\ Covered'
    <3>1. On(e, "add") /\ Alike /\ Labelled /\ Covered /\ StillSo(editing[e])
      BY <1>1, <1>4, <2>1, <2>5
    <3>2. r.cover <=> r.kind = "image" /\ ImagesOf(r.item) = {}
      BY <2>2, <3>1 DEF StillSo, On
    <3>3. Covered'
      BY <2>3, <2>4, <3>1, <3>2, CoverAdded, CoveredSame
    <3> QED BY <2>1, <3>1, <3>3, AlikeKept DEF There
  <2> QED BY <1>2, <1>4, <2>1, <2>5
<1>11. ASSUME NEW e \in Editor, WriteCover(e) PROVE LoneInv'
  <2>1. Write(e, "cover") /\ card' = card
    BY <1>11 DEF WriteCover
  <2>2. ASSUME ~mingled PROVE Alike' /\ Labelled' /\ Covered'
    <3>1. On(e, "cover") /\ Alike /\ Labelled /\ Covered /\ StillSo(editing[e])
      BY <1>1, <1>4, <2>1, <2>2
    <3>2. editing[e].row \in pics /\ editing[e].row.kind = "image" /\ OneRowEach
      BY <3>1 DEF StillSo, On, FilesInv
    <3>3. Covered'
      BY <1>11, <3>1, <3>2, CoverSet
    <3> QED BY <2>1, <3>1, <3>3, AlikeKept DEF There
  <2> QED BY <1>2, <1>4, <2>1, <2>2
<1>12. ASSUME NEW e \in Editor, WriteDrop(e) PROVE LoneInv'
  <2>1. PICK r : r = editing[e].row
    OBVIOUS
  <2>2. On(e, "drop") /\ Busy(e) /\ mingled' = mingled /\ card' = card
    BY <1>12 DEF WriteDrop, On, Busy
  <2>3. \/ Done(e) /\ pics' = pics
        \/ pics' \in Dropped({q \in pics : q.file # r.file}, r) /\ ThenUnlink(e, {r.file})
    BY <1>12, <2>1 DEF WriteDrop
  <2>4. ASSUME ~mingled PROVE Alike' /\ Labelled' /\ Covered'
    <3>1. Alike /\ Labelled /\ Covered /\ r \in pics /\ OneRowEach
      BY <1>1, <2>1, <2>2, <2>4 DEF StillSo, On, FilesInv
    <3>2. Covered'
      BY <2>3, <3>1, CoverDropped, CoveredSame
    <3> QED BY <2>2, <3>1, <3>2, AlikeKept DEF There
  <2> QED BY <1>2, <1>3, <2>2, <2>3, <2>4
<1>13. ASSUME NEW e \in Editor, Unlink(e) \/ Crash(e) PROVE LoneInv'
  <2>1. Busy(e) /\ Done(e) /\ UNCHANGED <<card, pics, mingled>>
    BY <1>13 DEF Unlink, Crash, On, Busy
  <2>2. ~mingled => Alike' /\ Labelled' /\ Covered'
    BY <2>1, AlikeKept, CoveredSame DEF There, LoneInv
  <2> QED BY <1>2, <2>1, <2>2
<1>14. ASSUME UNCHANGED cardVars PROVE LoneInv'
  <2>1. /\ UNCHANGED <<card, pics, editing, mingled>>
        /\ There' = There /\ Parents' = Parents /\ \A i : Variants(i)' = Variants(i) /\ ImagesOf(i)' = ImagesOf(i)
    BY <1>14 DEF cardVars, There, Parents, Variants, ImagesOf
  <2>2. ~mingled => Alike' /\ Labelled' /\ Covered'
    BY <2>1, AlikeKept, CoveredSame DEF LoneInv
  <2>3. \A e \in Editor : Undisturbed(e) => Undisturbed(e)'
    BY <2>1 DEF Undisturbed, StillSo, Busy
  <2> QED BY <2>1, <2>2, <2>3 DEF LoneInv, Busy
<1> QED
  BY <1>5, <1>6, <1>7, <1>8, <1>9, <1>10, <1>11, <1>12, <1>13, <1>14, LoneReads, CreateKeeps
     DEF Next, vars, CardsNext, Rows, Pictures

-----------------------------------------------------------------------------
(* Together they are inductive, and they give what is promised: a cover    *)
(* that all others are equal to is one cover.                              *)
CardsInv == CardTypes /\ FilesInv /\ RowsInv /\ LoneInv

LEMMA CardsInvGives == CardsInv => CardsInOrder
<1> SUFFICES ASSUME CardsInv PROVE CardsInOrder
  OBVIOUS
<1>1. \A i \in Item : wins[i] <= 1
  BY DEF CardsInv, RowsInv
<1>2. ASSUME ~mingled, NEW i \in There, ImagesOf(i) # {}
      PROVE  Cardinality({r \in ImagesOf(i) : r.cover}) = 1
  <2>1. OneCover(pics, i) /\ ImagesAt(pics, i) = ImagesOf(i)
    BY <1>2 DEF CardsInv, LoneInv, Covered, There, ImagesAt, ImagesOf
  <2>2. PICK c : {r \in ImagesOf(i) : r.cover} = {c}
    BY <1>2, <2>1 DEF OneCover
  <2> QED BY <2>2, FS_Singleton
<1>3. ASSUME ~mingled, NEW i \in There
      PROVE  /\ \A v \in Variants(i) : card[v].shape = card[i].shape
             /\ \A v, w \in Variants(i) : v # w => card[v].label # card[w].label
  BY <1>3 DEF CardsInv, LoneInv, Alike, Labelled
<1>4. \A r \in pics : uploads[r.file] = "stored"
  BY DEF CardsInv, FilesInv
<1> QED BY <1>1, <1>2, <1>3, <1>4 DEF CardsInOrder, CardsInv, RowsInv, UnderParents, CodesApart

(* Whatever changes of cards, codes, variants, pictures and documents      *)
(* overlap (createVariant, updateVariant, assignCode, remove, addImage,    *)
(* updateImage, removeImage ...) and whichever of them stop half way: a    *)
(* row of a picture has its file, a variant its parent, a code one item,   *)
(* and an item gets its code once.  While no two overlap, variants are     *)
(* what their item is, are told apart, and there is one cover.             *)
THEOREM CardsAlwaysInOrder == Spec => []CardsInOrder
<1>1. Init => CardsInv
  BY TypesOfCards, FilesStart, RowsStart, LoneStart DEF CardsInv
<1>2. CardsInv /\ [Next]_vars => CardsInv'
  BY TypesOfCardsKept, FilesKept, RowsKept, LoneKept DEF CardsInv
<1> QED BY <1>1, <1>2, CardsInvGives, PTL DEF Spec
=============================================================================
