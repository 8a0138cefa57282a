------------------------------- MODULE Upkeep ------------------------------
(***************************************************************************)
(* Parts of the service that share no row with each other and work beside  *)
(* everybody's requests: the low-stock checks, the daily reminders, the    *)
(* copies of projects, the tree of categories, the cards of items, their   *)
(* pictures, and the lists remembered of other services.  A behaviour is   *)
(* of one of them; the others stay where they started.                     *)
(***************************************************************************)
EXTENDS StockAlerts, Reminders, ProjectCopies, ItemRegistry, SharedLists

VARIABLE part

vars == <<alertVars, reminderVars, copyVars, treeVars, cardVars, listVars, part>>

AlertsAtRest ==
  /\ stock = [s \in Shelf |-> 0] /\ minimum = 0
  /\ latch = [s \in Shelf |-> FALSE]
  /\ checks = [k \in Check |-> Nothing] /\ clerks = [c \in Clerk |-> Nothing]
  /\ writes = 0 /\ told = [s \in Shelf |-> 0] /\ carried = [s \in Shelf |-> 0]

RemindersAtRest == RemindersInit /\ record = CHOOSE x \in Record : TRUE

CardsAtRest == CardsInit /\ issued = {}

ListsStill == ListsAtRest /\ list = "projects"

Init ==
  /\ part \in {"alerts", "reminders", "copies", "tree", "cards", "pictures", "lists"}
  /\ IF part = "alerts" THEN AlertsInit ELSE AlertsAtRest
  /\ IF part = "reminders" THEN RemindersInit ELSE RemindersAtRest
  /\ IF part \in {"cards", "pictures"} THEN CardsInit ELSE CardsAtRest
  /\ IF part = "lists" THEN ListsInit ELSE ListsStill
  /\ CopiesInit /\ TreeInit

Next ==
  \/ /\ part = "alerts" /\ AlertsNext
     /\ UNCHANGED <<reminderVars, copyVars, treeVars, cardVars, listVars, part>>
  \/ /\ part = "reminders" /\ RemindersNext
     /\ UNCHANGED <<alertVars, copyVars, treeVars, cardVars, listVars, part>>
  \/ /\ part = "copies" /\ CopiesNext
     /\ UNCHANGED <<alertVars, reminderVars, treeVars, cardVars, listVars, part>>
  \/ /\ part = "tree" /\ TreeNext
     /\ UNCHANGED <<alertVars, reminderVars, copyVars, cardVars, listVars, part>>
  \/ /\ CardsNext(part = "cards", part = "pictures") /\ part \in {"cards", "pictures"}
     /\ UNCHANGED <<alertVars, reminderVars, copyVars, treeVars, listVars, part>>
  \/ /\ part = "lists" /\ ListsNext
     /\ UNCHANGED <<alertVars, reminderVars, copyVars, treeVars, cardVars, part>>

Spec == Init /\ [][Next]_vars
=============================================================================
