----------------------------- MODULE Reminders -----------------------------
(***************************************************************************)
(* WarehouseRemindersService: once a day, at nine, every replica goes      *)
(* through the maintenance jobs, the reservations with assets out and the  *)
(* hand-overs not confirmed, claims each record's marker for the day and   *)
(* reminds of it.  One record of each kind, whose dates stay; a replica    *)
(* may stop anywhere and run again.  Time is counted in quarters of a day. *)
(***************************************************************************)
EXTENDS Integers, FiniteSets, Sequences

CONSTANTS
  Replica,
  Record,       \* what there may be to remind of: a date for each kind, or None
  MaxToday,     \* bound: days
  MaxRestarts,  \* bound: replicas that stop
  NoRun

OVERDUE_DAYS == 7
RECEIPT_GRACE_DAYS == 2
Kinds == <<"maintenance_due", "asset_due_back", "receipt_unconfirmed">>

ASSUME ReminderBounds == MaxToday \in Nat /\ MaxRestarts \in Nat
ASSUME ReplicasAreFinite == IsFiniteSet(Replica)
ASSUME RecordsAreDated ==
  \A x \in Record :
    /\ x.kind = "maintenance_due" => x.start \in Int /\ x.end \in Int
    /\ x.kind = "asset_due_back" => x.end \in Int
    /\ x.kind = "receipt_unconfirmed" => x.assigned \in Int

VARIABLES
  record,    \* its start and end, or its end, or when it was handed over
  open,      \* it is not done, returned or confirmed yet
  today,
  runs,      \* each replica's run: its day, the kind it is at, and how far
  markers,   \* WarehouseReminderMarker
  early,     \* reminders of a record that is due tomorrow
  late,      \* reminders of a record that is overdue
  restarts

reminderVars == <<record, open, today, runs, markers, early, late, restarts>>

RemindersInit ==
  /\ record \in Record
  /\ open = TRUE /\ today = 0 /\ restarts = 0
  /\ runs = [r \in Replica |-> NoRun]
  /\ markers = {}
  /\ early = [n \in 1..3 |-> 0] /\ late = [n \in 1..3 |-> 0]

(* yerevanDays, at nine.                                                   *)
yerevanDays(day) ==
  [now |-> 4 * day + 2, todayStart |-> 4 * day, tomorrowStart |-> 4 * (day + 1),
   dayAfterStart |-> 4 * (day + 2), overdueFloor |-> 4 * (day - OVERDUE_DAYS)]

Tomorrow(date, days) == days.tomorrowStart <= date /\ date < days.dayAfterStart
Overdue(date, days) == days.overdueFloor <= date /\ date < days.todayStart

(* maintenanceDue, assetsDueBack, receiptsUnconfirmed: what each finds.    *)
maintenanceDue(x, days) ==
  IF Tomorrow(x.start, days) THEN "early" ELSE IF Overdue(x.end, days) THEN "late" ELSE "no"
assetsDueBack(x, days) ==
  IF Tomorrow(x.end, days) THEN "early" ELSE IF Overdue(x.end, days) THEN "late" ELSE "no"
receiptsUnconfirmed(x, days) ==
  LET latest == days.now - 4 * RECEIPT_GRACE_DAYS
  IN  IF x.assigned <= latest /\ x.assigned >= latest - 4 * OVERDUE_DAYS THEN "late" ELSE "no"

Due(n, days) ==
  IF ~open \/ record.kind # Kinds[n] THEN "no"
  ELSE CASE n = 1 -> maintenanceDue(record, days)
         [] n = 2 -> assetsDueBack(record, days)
         [] OTHER -> receiptsUnconfirmed(record, days)

-----------------------------------------------------------------------------
Run(r) ==
  /\ runs[r] = NoRun
  /\ runs' = [runs EXCEPT ![r] = [day |-> today, at |-> 1, due |-> "unread"]]
  /\ UNCHANGED <<record, open, today, markers, early, late, restarts>>

Reading(r) == runs[r] # NoRun /\ runs[r].due = "unread"
Onward(r) ==
  runs' = [runs EXCEPT ![r] =
    IF runs[r].at = 3 THEN NoRun ELSE [runs[r] EXCEPT !.at = runs[r].at + 1, !.due = "unread"]]

FindDue(r) ==
  /\ Reading(r)
  /\ LET due == Due(runs[r].at, yerevanDays(runs[r].day))
     IN  IF due = "no" THEN Onward(r) ELSE runs' = [runs EXCEPT ![r].due = due]
  /\ UNCHANGED <<record, open, today, markers, early, late, restarts>>

(* Nobody to tell is found out before anything is claimed.                 *)
NobodyToTell(r) ==
  /\ runs[r] # NoRun /\ runs[r].due \in {"early", "late"}
  /\ runs[r].at > 1 /\ Onward(r)
  /\ UNCHANGED <<record, open, today, markers, early, late, restarts>>

(* Faulty: the reminder is sent without a marker of its own.               *)
ClaimLooked(r) ==
  /\ runs[r] # NoRun /\ runs[r].due \in {"early", "late"}
  /\ runs' = [runs EXCEPT ![r].due = IF @ = "early" THEN "tell early" ELSE "tell late"]
  /\ UNCHANGED <<record, open, today, markers, early, late, restarts>>

(* claim: "True = ours to send; false = already sent today".               *)
Claim(r) ==
  /\ runs[r] # NoRun /\ runs[r].due \in {"early", "late"}
  /\ LET marker == <<Kinds[runs[r].at], runs[r].day>>
     IN  IF marker \in markers
         THEN Onward(r) /\ UNCHANGED markers
         ELSE /\ markers' = markers \union {marker}
              /\ runs' = [runs EXCEPT ![r].due = IF @ = "early" THEN "tell early" ELSE "tell late"]
  /\ UNCHANGED <<record, open, today, early, late, restarts>>

Tell(r) ==
  /\ runs[r] # NoRun /\ runs[r].due \in {"tell early", "tell late"}
  /\ early' = [early EXCEPT ![runs[r].at] = @ + IF runs[r].due = "tell early" THEN 1 ELSE 0]
  /\ late' = [late EXCEPT ![runs[r].at] = @ + IF runs[r].due = "tell late" THEN 1 ELSE 0]
  /\ Onward(r)
  /\ UNCHANGED <<record, open, today, markers, restarts>>

Restart(r) ==
  /\ runs[r] # NoRun /\ restarts < MaxRestarts
  /\ runs' = [runs EXCEPT ![r] = NoRun]
  /\ restarts' = restarts + 1
  /\ UNCHANGED <<record, open, today, markers, early, late>>

Settle ==
  /\ open /\ open' = FALSE
  /\ UNCHANGED <<record, today, runs, markers, early, late, restarts>>

(* A run, at nine or by hand, is over by midnight.                         *)
NextDay ==
  /\ today < MaxToday /\ today' = today + 1
  /\ \A r \in Replica : runs[r] = NoRun
  /\ UNCHANGED <<record, open, runs, markers, early, late, restarts>>

RemindersNext ==
  \/ \E r \in Replica : Run(r) \/ FindDue(r) \/ NobodyToTell(r) \/ Claim(r) \/ Tell(r) \/ Restart(r)
  \/ Settle \/ NextDay

(* "Idempotent per record per day" and "an overdue record is reminded of   *)
(* for at most this many days": whatever replicas and restarts do, a       *)
(* record is announced once and, once overdue, reminded of seven times.    *)
RemindedForAWeek == \A n \in 1..3 : early[n] <= 1 /\ late[n] <= OVERDUE_DAYS
=============================================================================
