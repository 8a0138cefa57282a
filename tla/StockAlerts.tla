---------------------------- MODULE StockAlerts ----------------------------
(***************************************************************************)
(* StockAlertService: who is told, and how often, that a consumable runs   *)
(* low, on the main shelf and on a project's.  The stock is written from   *)
(* everywhere; most writes start a check of their own once they have       *)
(* committed, and nobody waits for it.  Two writers are modelled whole: a  *)
(* movement entered by hand (InventoryService.createMovement) and an edit  *)
(* of the item (ItemsService.update); the rest move stock up or down.      *)
(***************************************************************************)
EXTENDS Integers, FiniteSets

CONSTANTS
  Shelf,      \* Item.quantity and the WarehouseStock rows of the item
  MainShelf,  \* the first of them
  Check,      \* checks under way at once
  Clerk,      \* movements by hand under way at once
  MaxStock,   \* bound: units on a shelf
  MaxWrites,  \* bound: writes of stock
  Nothing

ASSUME ShelvesAndBounds == MainShelf \in Shelf /\ MaxStock \in Nat /\ MaxWrites \in Nat
ASSUME ChecksAreFinite == IsFiniteSet(Check)

VARIABLES
  stock,    \* what each shelf holds
  minimum,  \* Item.minQuantity, or Nothing
  latch,    \* lowStockNotifiedAt is set
  checks,   \* each check: the shelf, and what it is about to do
  clerks,   \* each movement by hand: the quantity it will write
  writes,   \* writes so far
  told,     \* alerts sent for each shelf since it last fell to the minimum
  carried   \* checks that were then about to re-arm the shelf or to send
            \* (both histories)

alertVars == <<stock, minimum, latch, checks, clerks, writes, told, carried>>

(* An item can be created already at or below its threshold: it is checked.*)
AlertsInit ==
  /\ \E q \in 0..MaxStock : stock = [s \in Shelf |-> q]
  /\ minimum \in 0..MaxStock \union {Nothing}
  /\ latch = [s \in Shelf |-> FALSE]
  /\ checks \in {[k \in Check |-> IF k = c THEN [shelf |-> MainShelf, does |-> "read"] ELSE Nothing]
                   : c \in Check}
  /\ clerks = [c \in Clerk |-> Nothing]
  /\ writes = 0
  /\ told = [s \in Shelf |-> 0] /\ carried = [s \in Shelf |-> 0]

-----------------------------------------------------------------------------
(* A breach begins when a write of the stock or of the threshold takes a   *)
(* shelf that was above, and lasts until one takes it back.                *)
Low(s) == minimum # Nothing /\ stock[s] <= minimum
Late(s) == {k \in Check : checks[k] # Nothing /\ checks[k].shelf = s /\ checks[k].does \in {"rearm", "send"}}
Breached ==
  /\ told' = [s \in Shelf |-> IF Low(s)' /\ ~Low(s) THEN 0 ELSE told[s]]
  /\ carried' = [s \in Shelf |-> IF Low(s)' /\ ~Low(s) THEN Cardinality(Late(s)) ELSE carried[s]]

Written(s, quantity) ==
  /\ writes < MaxWrites /\ quantity \in 0..MaxStock
  /\ stock' = [stock EXCEPT ![s] = quantity]
  /\ writes' = writes + 1

Checked(s) ==
  \E k \in Check :
    /\ checks[k] = Nothing
    /\ checks' = [checks EXCEPT ![k] = [shelf |-> s, does |-> "read"]]

(* An issue, or a transfer out, is checked.                                *)
TakeStock(s) ==
  /\ Written(s, stock[s] - 1) /\ Checked(s)
  /\ UNCHANGED <<minimum, latch, clerks>> /\ Breached

(* A delivery, a return, a transfer to main are; a cancelled or rejected   *)
(* reservation's goods are not, nor is anything that comes to a project's  *)
(* shelf.                                                                  *)
BringStock(s) ==
  /\ Written(s, stock[s] + 1)
  /\ (s = MainShelf /\ Checked(s)) \/ UNCHANGED checks
  /\ UNCHANGED <<minimum, latch, clerks>> /\ Breached

(* createMovement reads the shelf, and writes what it computed from it;    *)
(* what others moved in between is lost.                                   *)
EnterMovement(c) ==
  /\ clerks[c] = Nothing /\ writes < MaxWrites
  /\ \E type \in {"IN", "OUT", "ADJUSTMENT"}, n \in 1..MaxStock :
       LET after == CASE type = "IN" -> stock[MainShelf] + n
                      [] type = "OUT" -> stock[MainShelf] - n
                      [] OTHER -> n
       IN  /\ after \in 0..MaxStock
           /\ clerks' = [clerks EXCEPT ![c] = [after |-> after]]
  /\ UNCHANGED <<stock, minimum, latch, checks, writes, told, carried>>

WriteMovement(c) ==
  /\ clerks[c] # Nothing
  /\ Written(MainShelf, clerks[c].after) /\ Checked(MainShelf)
  /\ clerks' = [clerks EXCEPT ![c] = Nothing]
  /\ UNCHANGED <<minimum, latch>> /\ Breached

(* An edit may write the quantity, the threshold or both.                  *)
UpdateItem ==
  /\ \E q \in 0..MaxStock : Written(MainShelf, q)
  /\ minimum' \in 0..MaxStock \union {Nothing}
  /\ Checked(MainShelf)
  /\ UNCHANGED <<latch, clerks>> /\ Breached

-----------------------------------------------------------------------------
Becomes(k, does) ==
  checks' = [checks EXCEPT ![k] = IF does = "rest" THEN Nothing ELSE [@ EXCEPT !.does = does]]

Doing(k, does) == checks[k] # Nothing /\ checks[k].does = does

(* evaluate, evaluateWarehouse: what a check read decides what it does.    *)
Evaluate(k) ==
  /\ Doing(k, "read")
  /\ LET s == checks[k].shelf
     IN  Becomes(k, IF minimum = Nothing THEN "rest"
                    ELSE IF stock[s] <= minimum THEN IF latch[s] THEN "rest" ELSE "latch"
                    ELSE IF latch[s] THEN "rearm" ELSE "rest")
  /\ UNCHANGED <<stock, minimum, latch, clerks, writes, told, carried>>

Rearm(k) ==
  /\ Doing(k, "rearm")
  /\ latch' = [latch EXCEPT ![checks[k].shelf] = FALSE]
  /\ Becomes(k, "rest")
  /\ UNCHANGED <<stock, minimum, clerks, writes, told, carried>>

(* Faulty: the latch is set whether or not somebody else has set it.       *)
LatchAnyway(k) ==
  /\ Doing(k, "latch")
  /\ latch' = [latch EXCEPT ![checks[k].shelf] = TRUE]
  /\ Becomes(k, "send")
  /\ UNCHANGED <<stock, minimum, clerks, writes, told, carried>>

(* "Latch BEFORE sending so two concurrent writes can't both alert".       *)
Latch(k) ==
  /\ Doing(k, "latch")
  /\ latch' = [latch EXCEPT ![checks[k].shelf] = TRUE]
  /\ Becomes(k, IF latch[checks[k].shelf] THEN "rest" ELSE "send")
  /\ UNCHANGED <<stock, minimum, clerks, writes, told, carried>>

Send(k) ==
  /\ Doing(k, "send")
  /\ told' = [told EXCEPT ![checks[k].shelf] = @ + 1]
  /\ Becomes(k, "rest")
  /\ UNCHANGED <<stock, minimum, latch, clerks, writes, carried>>

(* The process stops: its checks and movements are gone.                   *)
StopChecks ==
  /\ \E k \in Check : checks[k] # Nothing
  /\ checks' = [k \in Check |-> Nothing]
  /\ clerks' = [c \in Clerk |-> Nothing]
  /\ UNCHANGED <<stock, minimum, latch, writes, told, carried>>

AlertsNext ==
  \/ \E s \in Shelf : TakeStock(s) \/ BringStock(s)
  \/ \E c \in Clerk : EnterMovement(c) \/ WriteMovement(c)
  \/ UpdateItem
  \/ \E k \in Check : Evaluate(k) \/ Rearm(k) \/ Latch(k) \/ Send(k)
  \/ StopChecks

(* "Already alerted for this breach - stay quiet until stock recovers":    *)
(* while a shelf stays low one alert is sent, however many checks run, and *)
(* one more at most for each check that was, when the shelf fell, about to *)
(* re-arm it, having seen it above, or to send an alert of before.  (Such  *)
(* a check does cause a second alert: see the README.)                     *)
OncePerBreach == \A s \in Shelf : Low(s) => told[s] <= 1 + carried[s]
=============================================================================
