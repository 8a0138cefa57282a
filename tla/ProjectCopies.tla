--------------------------- MODULE ProjectCopies ---------------------------
(***************************************************************************)
(* ProjectCopiesService: the warehouse rows that hang off a duplicated     *)
(* tree of projects, tasks and objects are copied in one transaction,      *)
(* tagged with the job, and can be taken back.  The other service may send *)
(* a job again, or take it back, while the first request runs; an attempt  *)
(* may fail, its commit go unheard or the process stop; rows of the        *)
(* original go on being written meanwhile.  A statement sees what was      *)
(* committed before it (READ COMMITTED) and waits for rows that another    *)
(* transaction has deleted or claimed.  What the create rule answers is    *)
(* ReservationPromises' business.                                          *)
(***************************************************************************)
EXTENDS Integers, FiniteSets

CONSTANTS
  Job,
  Tree,       \* for each job, the projects, tasks and objects it copies
  Attempt,    \* requests under way at once, to copy or to take back
  Original,   \* the rows there may be: a function from their ids (fresh is the
              \* status the create rule would give one)
  LateRows,   \* those not written yet when the first job comes
  Lost,       \* rows whose file is not on the disk
  MaxTries,   \* bound: requests in all
  NoRow,
  NoWork

ASSUME CopyBounds == MaxTries \in Nat /\ LateRows \cup Lost \subseteq DOMAIN Original

VARIABLES
  there,    \* originals written so far
  copies,   \* committed copies
  jobRow,   \* WarehouseProjectCopy: the attempt that made it and what it answered
  disk,     \* files, named by the row they were stored for
  copying,  \* each request: its job, how far it is, what it has made, read or
            \* deleted
  tries,
  cutOff,   \* attempts whose files the process left behind when it stopped
  unheard,  \* attempts that committed without hearing of it
  torn   \* attempts that committed in the middle of a rollback of their job
            \* (three histories)

copyVars == <<there, copies, jobRow, disk, copying, tries, cutOff, unheard, torn>>

Here(id) == [try |-> 0, of |-> id]
Files(ids) == {Here(id) : id \in {i \in ids : Original[i].file}}

CopiesInit ==
  /\ there = DOMAIN Original \ LateRows
  /\ copies = {} /\ tries = 0
  /\ cutOff = {} /\ unheard = {} /\ torn = {}
  /\ jobRow = [j \in Job |-> NoRow]
  /\ disk = Files(DOMAIN Original \ Lost)
  /\ copying = [h \in Attempt |-> NoWork]

-----------------------------------------------------------------------------
(* The statuses a copy starts in.                                          *)
KEPT_RESERVATION_STATUSES == {"REJECTED", "CANCELLED"}
RESET_RESERVATION_STATUSES == {"APPROVED", "PARTIALLY_ALLOCATED", "ALLOCATED", "COMPLETED"}
REQUISITION_RESET == {"SUBMITTED", "IN_REVIEW", "APPROVED", "FULFILLED"}
copiedRequisitionStatus(s) == IF s \in REQUISITION_RESET THEN "PENDING_APPROVAL" ELSE s
copiedAssetRequestStatus(s) == IF s \in {"APPROVED", "ISSUED"} THEN "PENDING" ELSE s

(* What each statement of run finds.                                       *)
Of(kind) == {id \in there : Original[id].kind = kind}
In(j, node) == node # NoRow /\ node \in Tree[j]

linksOf(j) == {id \in Of("link") : In(j, Original[id].project)}
linesOf(j) == {id \in Of("estimate") : In(j, Original[id].object)}
subsOf(j) == {id \in Of("submission") : In(j, Original[id].project)}
sourcesOf(j, subs) ==
  {id \in Of("reservation") :
     LET r == Original[id]
     IN  In(j, r.task) \/ (r.task = NoRow /\ In(j, r.object)) \/ r.submission \in subs}
reqsOf(j, subs) ==
  {id \in Of("requisition") : In(j, Original[id].task) \/ Original[id].submission \in subs}
asksOf(j) == {id \in Of("ask") : In(j, Original[id].object)}

(* preview, of a job not done yet.                                         *)
preview(j) ==
  [link |-> Cardinality(linksOf(j)), estimate |-> Cardinality(linesOf(j)),
   submission |-> Cardinality(subsOf(j)), reservation |-> Cardinality(sourcesOf(j, subsOf(j))),
   requisition |-> Cardinality(reqsOf(j, subsOf(j))), ask |-> Cardinality(asksOf(j))]

(* A row named by another is named in the copy only if it was copied too.  *)
(* Faulty: otherwise the original goes on being named.                     *)
KeptAny(id, try, known) ==
  IF id = NoRow THEN NoRow ELSE [try |-> IF id \in known THEN try ELSE 0, of |-> id]
Kept(id, try, known) == IF id \in known THEN [try |-> try, of |-> id] ELSE NoRow

(* copyFile: a missing file keeps the old url.                             *)
copyFile(id, try) ==
  IF ~Original[id].file THEN NoRow
  ELSE IF Here(id) \in disk THEN [try |-> try, of |-> id] ELSE Here(id)

(* The copy of one row; known are the rows copied before it.               *)
Copied(a, id, known, status, back) ==
  LET r == Original[id]
      inside(node) == IF In(a.job, node) THEN <<a.job, node>> ELSE NoRow
  IN  [job |-> a.job, try |-> a.try, of |-> id, kind |-> r.kind,
       project |-> IF r.project = NoRow THEN NoRow
                   ELSE <<IF In(a.job, r.project) THEN a.job ELSE NoRow, r.project>>,
       task |-> inside(r.task), object |-> inside(r.object),
       submission |-> Kept(r.submission, a.try, known), next |-> Kept(r.next, a.try, known),
       line |-> Kept(r.line, a.try, known),
       status |-> status, back |-> back, file |-> copyFile(id, a.try)]

-----------------------------------------------------------------------------
At(h, stage) == copying[h] # NoWork /\ copying[h].at = stage
End(h) == copying' = [copying EXCEPT ![h] = NoWork]

(* Every statement reads originals and adds their copies to the attempt.   *)
Add(h, rows, then) ==
  /\ copying' = [copying EXCEPT ![h].at = then, ![h].made = @ \union rows,
                                ![h].known = @ \union {c.of : c \in rows}]
  /\ disk' = disk \union {c.file : c \in {d \in rows : d.file # NoRow /\ d.file.try = copying[h].try}}
  /\ UNCHANGED <<there, copies, jobRow, tries, cutOff, unheard, torn>>

(* copy: a job already done is answered from its row (replay).             *)
Look(h, j) ==
  /\ copying[h] = NoWork /\ tries < MaxTries
  /\ tries' = tries + 1
  /\ copying' = [copying EXCEPT ![h] =
       IF jobRow[j] # NoRow THEN @
       ELSE [job |-> j, try |-> tries', at |-> "claim", made |-> {}, known |-> {}]]
  /\ UNCHANGED <<there, copies, jobRow, disk, cutOff, unheard, torn>>

(* The claim waits for another attempt's, and for the deletion of the row  *)
(* it would double, to be committed or given up; the one that lost answers *)
(* what the other stored.                                                  *)
Undoing(h) == At(h, "undo") \/ At(h, "undone") \/ At(h, "tidy")
Claimed(j) == {h \in Attempt : copying[h] # NoWork /\ ~Undoing(h) /\ copying[h].job = j /\ copying[h].at # "claim"}
RowGoing(j) == {h \in Attempt : At(h, "undone") /\ copying[h].job = j /\ copying[h].row}

ClaimJob(h) ==
  /\ At(h, "claim")
  /\ LET j == copying[h].job
     IN  /\ Claimed(j) \union RowGoing(j) = {}
         /\ IF jobRow[j] # NoRow THEN End(h)
            ELSE copying' = [copying EXCEPT ![h].at = "links"]
  /\ UNCHANGED <<there, copies, jobRow, disk, tries, cutOff, unheard, torn>>

CopyLinks(h) ==
  /\ At(h, "links")
  /\ Add(h, {Copied(copying[h], id, {}, NoRow, NoRow) : id \in linksOf(copying[h].job)}, "estimates")

CopyEstimates(h) ==
  /\ At(h, "estimates")
  /\ Add(h, {Copied(copying[h], id, {}, NoRow, NoRow) : id \in linesOf(copying[h].job)}, "submissions")

CopySubmissions(h) ==
  /\ At(h, "submissions")
  /\ Add(h, {Copied(copying[h], id, {}, NoRow, NoRow) : id \in subsOf(copying[h].job)}, "reservations")

(* The chain of replacements is written in a second pass over the same     *)
(* rows, so a row may name a later one.                                    *)
CopyReservations(h) ==
  /\ At(h, "reservations")
  /\ LET a == copying[h]
         sources == sourcesOf(a.job, a.known)
         status(r) == IF r.status \in KEPT_RESERVATION_STATUSES THEN r.status ELSE r.fresh
     IN  Add(h, {Copied(a, id, a.known \union sources, status(Original[id]), NoRow)
                   : id \in sources}, "requisitions")

(* Where a rejection not confirmed would return to starts over as well; a  *)
(* row that starts over has no rejection.                                  *)
CopyRequisitions(h) ==
  /\ At(h, "requisitions")
  /\ LET a == copying[h]
         back(q) == IF q.status \in REQUISITION_RESET THEN NoRow ELSE copiedRequisitionStatus(q.back)
     IN  Add(h, {Copied(a, id, a.known, copiedRequisitionStatus(Original[id].status), back(Original[id]))
                   : id \in reqsOf(a.job, a.known)}, "asks")

CopyAsks(h) ==
  /\ At(h, "asks")
  /\ Add(h, {Copied(copying[h], id, {}, copiedAssetRequestStatus(Original[id].status), NoRow)
               : id \in asksOf(copying[h].job)}, "commit")

WrittenBy(a) == {c.file : c \in {d \in a.made : d.file # NoRow}} \cap [try : {a.try}, of : DOMAIN Original]

(* An answer lost on its way is an error, and the files written go: those  *)
(* of rows that are there.                                                 *)
CommitCopy(h) == \E heard \in BOOLEAN :
  /\ At(h, "commit")
  /\ LET a == copying[h]
         resets(kind, from) ==
           Cardinality({c \in a.made : c.kind = kind /\ Original[c.of].status \in from})
     IN  /\ copies' = copies \union a.made
         /\ jobRow' = [jobRow EXCEPT ![a.job] =
              [try |-> a.try, files |-> WrittenBy(a),
               counts |-> [k \in DOMAIN preview(a.job) |-> Cardinality({c \in a.made : c.kind = k})],
               reset |-> [reservations |-> resets("reservation", RESET_RESERVATION_STATUSES),
                          requisitions |-> resets("requisition", REQUISITION_RESET),
                          assetRequests |-> resets("ask", {"APPROVED", "ISSUED"})]]]
         /\ disk' = IF heard THEN disk ELSE disk \ WrittenBy(a)
         /\ unheard' = unheard \union IF heard THEN {} ELSE {a.try}
         /\ torn' = torn \union {a.try : g \in {g \in Attempt : At(g, "undo") /\ copying[g].job = a.job}}
  /\ End(h)
  /\ UNCHANGED <<there, tries, cutOff>>

(* A statement is refused, or the transaction has taken too long: the      *)
(* files it wrote are removed.                                             *)
FailCopy(h) ==
  /\ copying[h] # NoWork /\ ~Undoing(h)
  /\ disk' = disk \ WrittenBy(copying[h])
  /\ End(h)
  /\ UNCHANGED <<there, copies, jobRow, tries, cutOff, unheard, torn>>

-----------------------------------------------------------------------------
(* rollback, repeatable: the job's row is read, each statement deletes the *)
(* rows of one kind, the last the job's row; the files that row named go   *)
(* once this is committed.  (Taking the replacements out first leaves      *)
(* nothing behind that the deletion does not.)                             *)
Deletions == <<"reservation", "requisition", "ask", "submission", "estimate", "link">>

StartUndo(h, j) ==
  /\ copying[h] = NoWork /\ tries < MaxTries
  /\ tries' = tries + 1
  /\ copying' = [copying EXCEPT ![h] =
       [job |-> j, try |-> 0, at |-> "undo", next |-> 1, gone |-> {}, row |-> FALSE,
        files |-> IF jobRow[j] = NoRow THEN {} ELSE jobRow[j].files]]
  /\ UNCHANGED <<there, copies, jobRow, disk, cutOff, unheard, torn>>

(* Deleting a submission also writes the rows that name it.                *)
Id(c) == [try |-> c.try, of |-> c.of]
GoingBy(others) == UNION {copying[g].gone : g \in {g \in others : At(g, "undo") \/ At(g, "undone")}}

DeleteNext(h) ==
  /\ At(h, "undo") /\ copying[h].next \in DOMAIN Deletions
  /\ LET u == copying[h]
         found == {Id(c) : c \in {d \in copies : d.job = u.job /\ d.kind = Deletions[u.next]}}
         naming == {Id(c) : c \in {d \in copies : d.submission \in found}}
     IN  /\ (found \union naming) \cap GoingBy(Attempt \ {h}) = {}
         /\ copying' = [copying EXCEPT ![h].next = @ + 1, ![h].gone = @ \union found]
  /\ UNCHANGED <<there, copies, jobRow, disk, tries, cutOff, unheard, torn>>

DeleteJobRow(h) ==
  /\ At(h, "undo") /\ copying[h].next \notin DOMAIN Deletions
  /\ RowGoing(copying[h].job) = {}
  /\ copying' = [copying EXCEPT ![h].at = "undone", ![h].row = jobRow[copying[h].job] # NoRow]
  /\ UNCHANGED <<there, copies, jobRow, disk, tries, cutOff, unheard, torn>>

(* What named a submission that is gone names none.                        *)
CommitUndo(h) ==
  /\ At(h, "undone")
  /\ LET u == copying[h]
     IN  /\ copies' = {[c EXCEPT !.submission = IF @ \in u.gone THEN NoRow ELSE @]
                         : c \in {d \in copies : Id(d) \notin u.gone}}
         /\ jobRow' = [jobRow EXCEPT ![u.job] = IF u.row THEN NoRow ELSE @]
  /\ copying' = [copying EXCEPT ![h].at = "tidy"]
  /\ UNCHANGED <<there, disk, tries, cutOff, unheard, torn>>

RemoveFiles(h) ==
  /\ At(h, "tidy")
  /\ disk' = disk \ copying[h].files
  /\ End(h)
  /\ UNCHANGED <<there, copies, jobRow, tries, cutOff, unheard, torn>>

(* The rollback fails, or its commit is not heard of.                      *)
TriesLeft(h) == IF At(h, "tidy") THEN {f.try : f \in copying[h].files}
                ELSE IF Undoing(h) \/ copying[h] = NoWork THEN {} ELSE {copying[h].try}
FailUndo(h) ==
  /\ Undoing(h)
  /\ cutOff' = cutOff \union TriesLeft(h)
  /\ End(h)
  /\ UNCHANGED <<there, copies, jobRow, disk, tries, unheard, torn>>

(* The process stops: the database forgets what was not committed, the     *)
(* disk does not.                                                          *)
StopCopies ==
  /\ \E h \in Attempt : copying[h] # NoWork
  /\ cutOff' = cutOff \union UNION {TriesLeft(h) : h \in Attempt}
  /\ copying' = [h \in Attempt |-> NoWork]
  /\ UNCHANGED <<there, copies, jobRow, disk, tries, unheard, torn>>

Appear(id) ==
  /\ id \notin there
  /\ there' = there \union {id}
  /\ UNCHANGED <<copies, jobRow, disk, copying, tries, cutOff, unheard, torn>>

CopiesNext ==
  \/ \E h \in Attempt :
       \/ \E j \in Job : Look(h, j) \/ StartUndo(h, j)
       \/ ClaimJob(h) \/ CopyLinks(h) \/ CopyEstimates(h) \/ CopySubmissions(h)
       \/ CopyReservations(h) \/ CopyRequisitions(h) \/ CopyAsks(h) \/ CommitCopy(h) \/ FailCopy(h)
       \/ DeleteNext(h) \/ DeleteJobRow(h) \/ CommitUndo(h) \/ RemoveFiles(h) \/ FailUndo(h)
  \/ StopCopies
  \/ \E id \in LateRows : Appear(id)

-----------------------------------------------------------------------------
(* What a copy names is of the same copy, and there.                       *)
NamesItsOwn ==
  \A c \in copies :
    /\ \A ref \in {c.submission, c.next, c.line} \ {NoRow} :
         \E d \in copies : d.job = c.job /\ Id(d) = ref
    /\ \A node \in {c.task, c.object} \ {NoRow} : node[1] = c.job

(* A job is copied once however often it is sent, and its row counts it;   *)
(* but for copies a rollback of the job was under way for.                 *)
CopiedOnce ==
  \A j \in Job :
    LET mine == {c \in copies : c.job = j /\ c.try \notin torn}
    IN  /\ \A c, d \in mine : c.of = d.of => c = d
        /\ jobRow[j] = NoRow => mine = {}
        /\ jobRow[j] # NoRow /\ jobRow[j].try \notin torn =>
             \A k \in DOMAIN jobRow[j].counts : jobRow[j].counts[k] = Cardinality({c \in mine : c.kind = k})

(* No copied row has been before the organization, or can return there.    *)
StartsOver ==
  \A c \in copies :
    /\ c.kind = "requisition" => {c.status, c.back} \cap REQUISITION_RESET = {}
    /\ c.kind = "reservation" => c.status \in KEPT_RESERVATION_STATUSES \union {"APPROVED", "PENDING"}
    /\ c.kind = "ask" => c.status \notin {"APPROVED", "ISSUED"}

(* "Only files this copy wrote - never a file an original still points at":*)
(* a row's file is its copy's own and is there if the original's was,      *)
(* unless the copy did not hear of its commit; and no other file is kept,  *)
(* but what was cut off or torn.                                           *)
FilesFollowRows ==
  /\ Files(DOMAIN Original \ Lost) \subseteq disk
  /\ \A c \in copies : c.file # NoRow /\ c.of \notin Lost =>
       c.file.try = c.try /\ (c.file \in disk \/ c.try \in unheard)
  /\ \A f \in disk : f.try # 0 => \/ f.try \in cutOff \union torn
                                  \/ \E c \in copies : c.file = f
                                  \/ \E h \in Attempt : At(h, "tidy") /\ f \in copying[h].files
                                  \/ \E h \in Attempt : copying[h] # NoWork /\ copying[h].try = f.try

(* However its job is repeated, fails, races with itself, stops and is     *)
(* taken back, a copy is whole, is the only one, and stands on its own.    *)
(* Two things break that: a copy that commits between a rollback's first   *)
(* statement and its last is taken back in part (torn), and one that       *)
(* does not hear of its commit loses its files (unheard; see the README).  *)
CopiesStandAlone == NamesItsOwn /\ CopiedOnce /\ StartsOver /\ FilesFollowRows
=============================================================================
