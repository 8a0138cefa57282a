---------------------------- MODULE AssetCustody ----------------------------
(***************************************************************************)
(* AssetCustodyService: requests for units, hand-overs to people and to    *)
(* objects, receipts, reassignments and returns; and AssetsService's       *)
(* update.  Who may do what, and people, objects and tasks as the other    *)
(* services know them, are left out.                                       *)
(***************************************************************************)
EXTENDS AssetTables

-----------------------------------------------------------------------------
(* Requests: the status is checked, then written by id.                    *)

FileRequest(h, q) == \E who \in Person \union Object, n \in 1..2 :
  /\ May(h, "request") /\ request[q].status = "none"
  /\ request' = [request EXCEPT ![q] = [status |-> "PENDING", for |-> who, quantity |-> n]]
  /\ UNCHANGED <<asset, custody, row, alloc, back, money, job, duty>>

DecideRead(h, q) == \E verdict \in {"APPROVED", "REJECTED"} :
  /\ May(h, "decide") /\ request[q].status = "PENDING"
  /\ Begin(h, [op |-> "settle", request |-> q, status |-> verdict])
  /\ UNCHANGED <<register, money>>

CancelRead(h, q) ==
  /\ May(h, "cancelRequest") /\ request[q].status \in {"PENDING", "APPROVED"}
  /\ Begin(h, [op |-> "settle", request |-> q, status |-> "CANCELLED"])
  /\ UNCHANGED <<register, money>>

SettleRequest(h) ==
  /\ Doing(h, "settle")
  /\ request' = [request EXCEPT ![job[h].request].status = job[h].status]
  /\ Finished(h)
  /\ UNCHANGED <<asset, custody, row, alloc, back, money>>

-----------------------------------------------------------------------------
(* assertFree, then handOver and handOverToObject, one unit after the      *)
(* other, each in a transaction of its own.  `last' says that with these   *)
(* units the request is served.                                            *)

Free(u) == asset[u].status = "AVAILABLE" /\ OpenRows(u) = {} /\ OutOf(u) = {}

(* Faulty: a unit is counted once its holder has confirmed it.             *)
ConfirmedOf(q) == Cardinality({c \in Issued(q) : custody[c].accepted})

AlreadyOf(q) == Cardinality(Issued(q))

Handing(who, q, units, last) ==
  [op |-> "hand", who |-> who, request |-> q, units |-> units, free |-> FALSE, last |-> last]

Issue(h, q) == \E units \in {<<u>> : u \in Unit} \union {<<u, v>> : u \in Unit, v \in Unit} :
  /\ May(h, "issue") /\ request[q].status = "APPROVED"
  /\ AlreadyOf(q) + Len(units) <= request[q].quantity
  /\ Begin(h, Handing(request[q].for, q, units,
                      AlreadyOf(q) + Len(units) >= request[q].quantity))
  /\ UNCHANGED <<register, money>>

DirectIssue(h, u) == \E who \in Person \union Object :
  /\ May(h, "directIssue")
  /\ Begin(h, Handing(who, None, <<u>>, FALSE))
  /\ UNCHANGED <<register, money>>

AssertFree(h) ==
  /\ Doing(h, "hand") /\ job[h].units # <<>> /\ ~job[h].free
  /\ Free(Head(job[h].units))
  /\ Begin(h, [job[h] EXCEPT !.free = TRUE])
  /\ UNCHANGED <<register, money>>

HandOver(h) ==
  /\ Doing(h, "hand") /\ job[h].free
  /\ LET u == Head(job[h].units)
         who == job[h].who
         person == who \in Person
     IN  /\ PassOn({}, [Held(u, who, IF person THEN None ELSE who) EXCEPT
                          !.request = job[h].request])
         /\ asset' = [asset EXCEPT ![u].holder = IF person THEN who ELSE None]
  /\ Begin(h, [job[h] EXCEPT !.units = Tail(@), !.free = FALSE])
  /\ UNCHANGED <<row, alloc, back, request, money>>

MarkIssued(h) ==
  /\ Doing(h, "hand") /\ job[h].units = <<>>
  /\ request' = IF job[h].last THEN [request EXCEPT ![job[h].request].status = "ISSUED"]
                               ELSE request
  /\ Finished(h)
  /\ UNCHANGED <<asset, custody, row, alloc, back, money>>

-----------------------------------------------------------------------------
(* accept, reassign and release read the custody row, then write by id.    *)

AcceptRead(h, c) ==
  /\ May(h, "accept") /\ custody[c].open /\ ~custody[c].accepted
  /\ Begin(h, [op |-> "accept", id |-> c])
  /\ UNCHANGED <<register, money>>

AcceptWrite(h) ==
  /\ Doing(h, "accept")
  /\ custody' = [custody EXCEPT ![job[h].id].accepted = TRUE]
  /\ Finished(h)
  /\ UNCHANGED <<asset, row, alloc, back, request, money>>

ReassignRead(h, c) == \E p \in Person :
  /\ May(h, "reassign") /\ custody[c].open /\ custody[c].holder \in Object
  /\ Begin(h, [op |-> "reassign", id |-> c, who |-> p])
  /\ UNCHANGED <<register, money>>

ReassignWrite(h) ==
  /\ Doing(h, "reassign")
  /\ LET was == custody[job[h].id]
     IN  /\ PassOn({job[h].id}, Held(was.unit, job[h].who, was.holder))
         /\ asset' = [asset EXCEPT ![was.unit].holder = job[h].who]
  /\ Finished(h)
  /\ UNCHANGED <<row, alloc, back, request, money>>

(* Faulty: whoever returns a unit is not asked what it is booked for.      *)
ReturnableAlways(c) == custody[c].open /\ custody[c].holder \in Person

(* "The responsible person cannot walk away while the asset is out".       *)
ReturnableCustody(c) == /\ custody[c].open /\ custody[c].holder \in Person
                        /\ OutOf(custody[c].unit) = {}

StatusAfter == [OK |-> "AVAILABLE", DAMAGED |-> "DAMAGED", LOST |-> "RETIRED"]

ReleaseRead(h, c) == \E condition \in DOMAIN StatusAfter :
  /\ May(h, "release") /\ ReturnableCustody(c)
  /\ Begin(h, [op |-> "release", id |-> c, condition |-> condition])
  /\ UNCHANGED <<register, money>>

(* What came from an object goes back to it, unless it is lost.            *)
ReleaseWrite(h) ==
  /\ Doing(h, "release")
  /\ LET was == custody[job[h].id]
     IN  /\ IF was.origin # None /\ job[h].condition # "LOST"
              THEN PassOn({job[h].id},
                          [Held(was.unit, was.origin, was.origin) EXCEPT !.accepted = TRUE])
              ELSE custody' = Closed({job[h].id})
         /\ asset' = [asset EXCEPT ![was.unit] =
                        [status |-> StatusAfter[job[h].condition], holder |-> None]]
  /\ Finished(h)
  /\ UNCHANGED <<row, alloc, back, request, money>>

-----------------------------------------------------------------------------
(* AssetsService.update: any status; responsibleUserId is dropped.         *)
UpdateAsset(h, u) == \E status \in AssetStatus \ {asset[u].status} :
  /\ May(h, "updateAsset")
  /\ asset' = [asset EXCEPT ![u].status = status]
  /\ UNCHANGED <<custody, row, alloc, back, request, money, job, duty>>

CustodyStep(h) ==
  \/ \E q \in Request : FileRequest(h, q) \/ DecideRead(h, q) \/ CancelRead(h, q) \/ Issue(h, q)
  \/ \E u \in Unit : DirectIssue(h, u) \/ UpdateAsset(h, u)
  \/ \E c \in DOMAIN custody : AcceptRead(h, c) \/ ReassignRead(h, c) \/ ReleaseRead(h, c)
  \/ SettleRequest(h) \/ AssertFree(h) \/ HandOver(h) \/ MarkIssued(h)
  \/ AcceptWrite(h) \/ ReassignWrite(h) \/ ReleaseWrite(h)
=============================================================================
