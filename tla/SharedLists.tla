---------------------------- MODULE SharedLists -----------------------------
(***************************************************************************)
(* What the process remembers of other services for a while, and shares    *)
(* among its requests: CRM's projects (crmProjects, over a TtlCache),      *)
(* CRM's objects (ObjectsService) and the deactivated people               *)
(* (UsersPrismaService).  A list is read as the answer to one question:    *)
(* does it hold the row somebody asks about?  A behaviour is of one list;  *)
(* the row it is asked for appears there and goes again.                   *)
(***************************************************************************)
EXTENDS Integers

CONSTANTS
  Caller,
  TTL,       \* how long a list is good for
  TIMEOUT,   \* how long a read of it may take
  MaxClock,  \* bound: time
  MaxFlips,  \* bound: changes of the row
  NoList,
  NoAsk

ASSUME TimesAreNumbers == TTL \in Nat /\ TIMEOUT \in Nat
ASSUME NothingIsNoAnswer == NoList \notin BOOLEAN /\ NoList \notin [holds : BOOLEAN, until : Nat]

VARIABLES
  list,     \* which one
  clock,
  fact,     \* the row is there, at its source
  last,     \* for either answer, when it was last true
  cache,    \* what is remembered, and until when
  load,     \* the read under way: since when, and what it saw
  missing,  \* until when the row is remembered as gone
  asks,     \* each caller's question
  flips

listVars == <<list, clock, fact, last, cache, load, missing, asks, flips>>

ListsAtRest ==
  /\ clock = 0 /\ flips = 0 /\ missing = 0 /\ fact = FALSE
  /\ last = [v \in BOOLEAN |-> 0]
  /\ cache = NoList /\ load = NoList
  /\ asks = [c \in Caller |-> NoAsk]

ListsInit == list \in {"projects", "objects", "people"} /\ ListsAtRest

Good(held) == held # NoList /\ clock < held.until
Stands(c, stage) == asks[c] # NoAsk /\ asks[c].at = stage

-----------------------------------------------------------------------------
(* TtlCache.get, and crmObjects: a list that is good is answered, else the *)
(* caller waits for the read under way, which it starts if there is none.  *)
(* What is held is forgotten first, when it must be fresh.                 *)
Fetch(c, ask, held, round) ==
  /\ cache' = held
  /\ IF Good(held)
     THEN /\ asks' = [asks EXCEPT ![c] = [ask EXCEPT !.at = "has", !.round = round, !.holds = held.holds]]
          /\ load' = load
     ELSE /\ asks' = [asks EXCEPT ![c] = [ask EXCEPT !.at = "awaits", !.round = round]]
          /\ load' = IF load = NoList THEN [began |-> clock, holds |-> NoList] ELSE load

Question(does) ==
  [does |-> does, at |-> "begun", round |-> 1, began |-> clock, seen |-> {fact},
   holds |-> NoList, remembered |-> FALSE]

(* crmProjects and crmObjectsCovering, with or without a row to find.      *)
AskList(c) ==
  /\ list # "people" /\ asks[c] = NoAsk
  /\ \E does \in {"all", "find"} : Fetch(c, Question(does), cache, 1)
  /\ UNCHANGED <<list, clock, fact, last, missing, flips>>

(* crmObjectFresh: "read past the cache - for decisions", though not past  *)
(* a read under way.                                                       *)
AskFresh(c) ==
  /\ list = "objects" /\ asks[c] = NoAsk
  /\ Fetch(c, Question("decide"), NoList, 2)
  /\ missing' = 0
  /\ UNCHANGED <<list, clock, fact, last, flips>>

Answer(c, fields) == asks' = [asks EXCEPT ![c] = [fields EXCEPT !.at = "answered"]]

Enough(a) == a.does = "all" \/ a.holds \/ clock < missing

(* Faulty: what is held is good enough to be asked again.                  *)
LookAtHeld(c) ==
  /\ Stands(c, "has") /\ asks[c].round = 1
  /\ LET a == asks[c]
     IN  IF Enough(a)
         THEN /\ Answer(c, [a EXCEPT !.remembered = a.does = "find" /\ ~a.holds])
              /\ UNCHANGED <<cache, load>>
         ELSE Fetch(c, a, cache, 2)
  /\ UNCHANGED <<list, clock, fact, last, missing, flips>>

(* A row that is not in the list is looked for once more, past the cache,  *)
(* unless it is remembered as gone.                                        *)
LookUp(c) ==
  /\ Stands(c, "has") /\ asks[c].round = 1
  /\ LET a == asks[c]
     IN  IF Enough(a)
         THEN /\ Answer(c, [a EXCEPT !.remembered = a.does = "find" /\ ~a.holds])
              /\ UNCHANGED <<cache, load>>
         ELSE Fetch(c, a, NoList, 2)
  /\ UNCHANGED <<list, clock, fact, last, missing, flips>>

LookAgain(c) ==
  /\ Stands(c, "has") /\ asks[c].round = 2
  /\ Answer(c, asks[c])
  /\ missing' = IF asks[c].does = "find" /\ ~asks[c].holds THEN clock + TTL ELSE missing
  /\ UNCHANGED <<list, clock, fact, last, cache, load, flips>>

(* The other service answers; then the list is here, for all who wait.     *)
LoadReads ==
  /\ load # NoList /\ load.holds = NoList
  /\ load' = [load EXCEPT !.holds = fact]
  /\ UNCHANGED <<list, clock, fact, last, cache, missing, asks, flips>>

LoadEnds ==
  /\ load # NoList /\ load.holds # NoList
  /\ cache' = [holds |-> load.holds, until |-> clock + TTL]
  /\ load' = NoList
  /\ asks' = [c \in Caller |->
       IF Stands(c, "awaits") THEN [asks[c] EXCEPT !.at = "has", !.holds = load.holds] ELSE asks[c]]
  /\ UNCHANGED <<list, clock, fact, last, missing, flips>>

(* It does not answer, or not in time: "a failed load is never cached".    *)
LoadFails ==
  /\ load # NoList
  /\ load' = NoList
  /\ asks' = [c \in Caller |-> IF Stands(c, "awaits") THEN NoAsk ELSE asks[c]]
  /\ UNCHANGED <<list, clock, fact, last, cache, missing, flips>>

-----------------------------------------------------------------------------
(* isDeactivated: a set that lacks the person is trusted, one that has     *)
(* them is not: their own row is read before anyone is refused.            *)
AskPeople(c) ==
  /\ list = "people" /\ asks[c] = NoAsk
  /\ LET q == Question("check")
     IN  asks' = [asks EXCEPT ![c] =
           IF ~Good(cache) THEN [q EXCEPT !.at = "queries all"]
           ELSE IF ~cache.holds THEN [q EXCEPT !.at = "answered", !.holds = FALSE]
           ELSE [q EXCEPT !.at = "queries one"]]
  /\ UNCHANGED <<list, clock, fact, last, cache, load, missing, flips>>

Querying(c) == asks[c] # NoAsk /\ asks[c].at \in {"queries all", "queries one", "read all", "read one"}

QueryReads(c) ==
  /\ \/ Stands(c, "queries all") /\ asks' = [asks EXCEPT ![c].at = "read all", ![c].holds = fact]
     \/ Stands(c, "queries one") /\ asks' = [asks EXCEPT ![c].at = "read one", ![c].holds = fact]
  /\ UNCHANGED <<list, clock, fact, last, cache, load, missing, flips>>

AllRead(c) ==
  /\ Stands(c, "read all")
  /\ cache' = [holds |-> asks[c].holds, until |-> asks[c].began + TTL]
  /\ Answer(c, asks[c])
  /\ UNCHANGED <<list, clock, fact, last, load, missing, flips>>

QueryFails(c) ==
  /\ Querying(c)
  /\ asks' = [asks EXCEPT ![c] = NoAsk]
  /\ UNCHANGED <<list, clock, fact, last, cache, load, missing, flips>>

(* Somebody back is taken out of the set, whichever it is by now.          *)
OneRead(c) ==
  /\ Stands(c, "read one")
  /\ cache' = IF asks[c].holds THEN cache ELSE [cache EXCEPT !.holds = FALSE]
  /\ Answer(c, asks[c])
  /\ UNCHANGED <<list, clock, fact, last, load, missing, flips>>

-----------------------------------------------------------------------------
Leave(c) ==
  /\ Stands(c, "answered")
  /\ asks' = [asks EXCEPT ![c] = NoAsk]
  /\ UNCHANGED <<list, clock, fact, last, cache, load, missing, flips>>

Flip ==
  /\ flips < MaxFlips /\ flips' = flips + 1
  /\ fact' = ~fact
  /\ last' = [last EXCEPT ![~fact] = clock]
  /\ asks' = [c \in Caller |-> IF asks[c] = NoAsk THEN NoAsk ELSE [asks[c] EXCEPT !.seen = @ \union {~fact}]]
  /\ UNCHANGED <<list, clock, cache, load, missing>>

(* AbortSignal.timeout; that a query of the people ends too is assumed.    *)
Tick ==
  /\ clock < MaxClock /\ clock' = clock + 1
  /\ load # NoList => clock < load.began + TIMEOUT
  /\ \A c \in Caller : /\ Querying(c) => clock < asks[c].began + TIMEOUT
                       /\ ~Stands(c, "has")
  /\ last' = [last EXCEPT ![fact] = clock + 1]
  /\ UNCHANGED <<list, fact, cache, load, missing, asks, flips>>

ListsNext ==
  \/ \E c \in Caller : \/ AskList(c) \/ AskFresh(c) \/ LookUp(c) \/ LookAgain(c)
                       \/ AskPeople(c) \/ QueryReads(c) \/ QueryFails(c)
                       \/ AllRead(c) \/ OneRead(c) \/ Leave(c)
  \/ LoadReads \/ LoadEnds \/ LoadFails \/ Flip \/ Tick

-----------------------------------------------------------------------------
(* "A project made a moment ago must not leave a card without its name":   *)
(* a row is said not to be there if it was not, at some time since the     *)
(* question, or if it is remembered as gone.  "Reactivating takes effect   *)
(* at once": a person is refused only if deactivated at some time since    *)
(* the question.  What is read for a decision is no older than a read may  *)
(* take.  Any other answer is no older than that and the time a list is    *)
(* good for: TtlCache's comment, "the staleness each caller picks (<= its  *)
(* TTL)", counts from when the read came back, not from what it saw.       *)
ListsAreRecent ==
  \A c \in Caller : Stands(c, "answered") =>
    LET a == asks[c]
        age == a.began - last[a.holds]
    IN  /\ age <= TTL + TIMEOUT
        /\ a.does = "find" /\ ~a.holds /\ ~a.remembered => FALSE \in a.seen
        /\ a.does = "check" /\ a.holds => TRUE \in a.seen
        /\ a.does = "decide" => age <= TIMEOUT
=============================================================================
