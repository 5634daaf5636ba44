--------------------------- MODULE KnowledgeIndex ---------------------------
(***************************************************************************)
(* Managed documents and their chunks in the Local Knowledge Store:        *)
(* application/services/documents.py, the indexing part of                 *)
(* application/services/knowledge.py, and the jobs and endpoints that run  *)
(* them.                                                                   *)
(*                                                                         *)
(* A document is a path below the managed directory.  Three things are     *)
(* kept for it in three places: the file, the row in SQLite, and the       *)
(* points in Qdrant.  Requests, the knowledge worker and the scans each    *)
(* work on a copy of the row loaded by a session of their own, over steps  *)
(* separated by parsing, hashing and HTTP calls, and nothing serialises    *)
(* them but the worker's own lock.  An UPDATE writes only the columns that *)
(* differ from the loaded copy.                                            *)
(***************************************************************************)
EXTENDS Naturals, FiniteSets

CONSTANTS
  Docs,             \* relative paths
  Contents,         \* what a file can hold; a content stands for its hash
  Requests,         \* API requests that can be in progress at once
  Scans,            \* reconciliations that can be in progress at once
  Scheduled,        \* the one the scheduler runs
  Worker,           \* the knowledge worker
  None,             \* no file, a null column, no document
  Unhashed,         \* the empty content_hash of a row a scan has inserted
  Limit,            \* process_pending's batch size
  MaxEdits,         \* bound: uploads, deletions and direct changes
  MaxDisturbances   \* bound: crashes, failed steps and unregistrations

ASSUME KnowledgeAssumption ==
  /\ Scheduled \in Scans
  /\ Worker \notin Requests
  /\ None \notin Contents \cup Docs \cup {Unhashed}
  /\ Unhashed \notin Contents
  /\ Limit \in Nat \ {0}
  /\ MaxEdits \in Nat
  /\ MaxDisturbances \in Nat

VARIABLES
  file,          \* the content of each path on disk
  row,           \* each documents row as committed
  points,        \* each document's points in Qdrant
  task,          \* what each request, and the worker, is doing
  queue,         \* the worker's batch: loaded rows not processed yet
  scan,          \* the scans in progress
  registered,    \* whether the connector has a tenant identity
  exposed,       \* history: documents one of the hazards below has hit
  edits,         \* how much of MaxEdits is used
  disturbances   \* how much of MaxDisturbances is used

vars == <<file, row, points, task, queue, scan, registered, exposed, edits,
          disturbances>>

----------------------------------------------------------------------------
Actors == Requests \cup {Worker}
Hashes == Contents \cup {Unhashed}
Outstanding == {"PENDING", "FAILED", "DELETE_PENDING"}

(* The columns of DocumentModel that decide what happens to a document.     *)
(* seen stands for the size and modification time last recorded.            *)
Row == [hash : Hashes, indexed : Hashes \cup {None}, deleted : BOOLEAN,
        status : Outstanding \cup {"INDEXED", "DELETED", "none"},
        seen : Contents \cup {None}]
NoRow == [hash |-> Unhashed, indexed |-> None, deleted |-> FALSE,
          status |-> "none", seen |-> None]

(* A point's id is made of the document and the version (content_hash) it   *)
(* was indexed under; its text is what the file held when it was parsed.    *)
Point == [version : Hashes, text : Contents]

TaskSteps == {"idle", "upsert", "index", "purge", "store", "commit", "erase",
              "erased"}
Task == [pc : TaskSteps, doc : Docs \cup {None}, snap : Row,
         text : Contents \cup {None}]
Idle == [pc |-> "idle", doc |-> None, snap |-> NoRow, text |-> None]

ScanSteps == {"idle", "walk", "hash"}
Scan == [pc : ScanSteps, found : SUBSET Docs, todo : SUBSET Docs,
         doc : Docs \cup {None}, snap : Row, text : Contents \cup {None}]
NoScan == [pc |-> "idle", found |-> {}, todo |-> {}, doc |-> None,
           snap |-> NoRow, text |-> None]

Column(stored, loaded, new) == IF new = loaded THEN stored ELSE new

OutstandingDocs == {d \in Docs : row[d].status \in Outstanding}

(* Who works on a copy of the row of d. *)
Busy(d) == \/ \E a \in Actors : task[a].doc = d
           \/ \E s \in Scans : scan[s].doc = d
           \/ queue[d] # NoRow

Expose(D) == exposed' = exposed \cup D
ExposeIfBusy(D) == Expose({d \in D : Busy(d)})

Edit == edits < MaxEdits /\ edits' = edits + 1
Disturb == disturbances < MaxDisturbances /\ disturbances' = disturbances + 1

Begin(a, pc, d, snap, text) ==
  task' = [task EXCEPT ![a] = [pc |-> pc, doc |-> d, snap |-> snap, text |-> text]]
Continue(a, pc) == task' = [task EXCEPT ![a].pc = pc]
End(a) == task' = [task EXCEPT ![a] = Idle]

----------------------------------------------------------------------------
Init ==
  /\ file \in [Docs -> {None}]
  /\ row = [d \in Docs |-> NoRow]
  /\ points = [d \in Docs |-> {}]
  /\ task = [a \in Actors |-> Idle]
  /\ queue = [d \in Docs |-> NoRow]
  /\ scan = [s \in Scans |-> NoScan]
  /\ registered = FALSE
  /\ exposed = {}
  /\ edits = 0
  /\ disturbances = 0

(* Whoever uses the connector. *)

(* A file is copied into the directory, replaced or removed there.          *)
ChangeDirectly(d, content) ==
  /\ Edit
  /\ file[d] # content
  /\ file' = [file EXCEPT ![d] = content]
  /\ UNCHANGED <<row, points, task, queue, scan, registered, exposed, disturbances>>

Register ==
  /\ ~registered
  /\ registered' = TRUE
  /\ UNCHANGED <<file, row, points, task, queue, scan, exposed, edits, disturbances>>

Unregister ==
  /\ registered
  /\ Disturb
  /\ registered' = FALSE
  /\ UNCHANGED <<file, row, points, task, queue, scan, exposed, edits>>

(* upload(): the temporary file takes the name. *)
Upload(r, d, content) ==
  /\ task[r].pc = "idle"
  /\ Edit
  /\ ExposeIfBusy({d})
  /\ file' = [file EXCEPT ![d] = content]
  /\ Begin(r, "upsert", d, NoRow, content)
  /\ UNCHANGED <<row, points, queue, scan, registered, disturbances>>

(* delete(): the file is unlinked and the deletion made durable.  Without a *)
(* registration the document's ownership cannot be established.             *)
Delete(r, d) ==
  /\ task[r].pc = "idle"
  /\ registered
  /\ row[d] # NoRow
  /\ ~row[d].deleted
  /\ file[d] # None
  /\ Edit
  /\ ExposeIfBusy({d})
  /\ file' = [file EXCEPT ![d] = None]
  /\ row' = [row EXCEPT ![d].deleted = TRUE, ![d].status = "DELETE_PENDING"]
  /\ Begin(r, "erase", d, row'[d], None)
  /\ UNCHANGED <<points, queue, scan, registered, disturbances>>

(* Mutant: the local status goes into the knowledge status. *)
RetryMarksReady(r, d) ==
  /\ task[r].pc = "idle"
  /\ row[d].status = "FAILED"
  /\ Edit
  /\ Expose(IF Busy(d) \/ row[d].deleted THEN {d} ELSE {})
  /\ row' = [row EXCEPT ![d].status = "READY"]
  /\ Begin(r, "index", d, row'[d], None)
  /\ UNCHANGED <<file, points, queue, scan, registered, disturbances>>

(* retry(), then index_document in the same request, whatever it was that   *)
(* had failed.                                                              *)
Retry(r, d) ==
  /\ task[r].pc = "idle"
  /\ row[d].status = "FAILED"
  /\ Edit
  /\ Expose(IF Busy(d) \/ row[d].deleted THEN {d} ELSE {})
  /\ row' = [row EXCEPT ![d].status = "PENDING"]
  /\ Begin(r, "index", d, row'[d], None)
  /\ UNCHANGED <<file, points, queue, scan, registered, disturbances>>

----------------------------------------------------------------------------
(* Mutant: a changed document is not marked for indexing again. *)
UploadStoresQuietly(r) ==
  /\ task[r].pc = "upsert"
  /\ LET d == task[r].doc
     IN /\ row' = IF file[d] = None THEN row
                  ELSE [row EXCEPT ![d].hash = task[r].text, ![d].seen = file[d],
                                   ![d].status = IF @ = "none" THEN "PENDING" ELSE @]
        /\ IF file[d] = None THEN End(r)
           ELSE Begin(r, "index", d, row'[d], None)
  /\ UNCHANGED <<file, points, queue, scan, registered, exposed, edits, disturbances>>

(* _upsert_stable with the hash of the uploaded bytes.  The row is new,     *)
(* unchanged (only its size and times are stored), or starts over.          *)
UploadStores(r) ==
  /\ task[r].pc = "upsert"
  /\ LET d == task[r].doc
         hash == task[r].text
         unchanged == row[d] # NoRow /\ row[d].hash = hash /\ ~row[d].deleted
         fresh == [hash |-> hash, indexed |-> None, deleted |-> FALSE,
                   status |-> "PENDING", seen |-> file[d]]
     IN IF file[d] = None
          THEN End(r) /\ UNCHANGED row
          ELSE /\ row' = IF unchanged THEN [row EXCEPT ![d].seen = file[d]]
                                      ELSE [row EXCEPT ![d] = fresh]
               /\ Begin(r, "index", d, row'[d], None)
  /\ UNCHANGED <<file, points, queue, scan, registered, exposed, edits, disturbances>>

(* process_pending loads its batch. *)
WorkerLoads ==
  /\ task[Worker].pc = "idle"
  /\ \A d \in Docs : queue[d] = NoRow
  /\ OutstandingDocs # {}
  /\ \E batch \in SUBSET OutstandingDocs :
       /\ Cardinality(batch) = Limit \/ (batch = OutstandingDocs /\ Cardinality(batch) < Limit)
       /\ queue' = [d \in Docs |-> IF d \in batch THEN row[d] ELSE NoRow]
       /\ ExposeIfBusy(batch)
  /\ UNCHANGED <<file, row, points, task, scan, registered, edits, disturbances>>

(* ... and takes the next row as it was loaded: a deletion, a version not   *)
(* indexed yet, or nothing to do.                                           *)
WorkerTakes(d) ==
  /\ task[Worker].pc = "idle"
  /\ queue[d] # NoRow
  /\ queue' = [queue EXCEPT ![d] = NoRow]
  /\ LET snap == queue[d]
     IN CASE snap.deleted \/ snap.status = "DELETE_PENDING" -> Begin(Worker, "erase", d, snap, None)
          [] ~snap.deleted /\ snap.status # "DELETE_PENDING" /\ snap.indexed # snap.hash ->
               Begin(Worker, "index", d, snap, None)
          [] OTHER -> UNCHANGED task
  /\ UNCHANGED <<file, row, points, scan, registered, exposed, edits, disturbances>>

----------------------------------------------------------------------------
(* index_document and delete_document, run by a request or by the worker.   *)

(* The file is parsed under the version of the session's copy.              *)
IndexParses(a) ==
  /\ task[a].pc = "index"
  /\ registered
  /\ file[task[a].doc] # None
  /\ Expose(IF task[a].snap.hash \in {Unhashed, file[task[a].doc]} THEN {} ELSE {task[a].doc})
  /\ Begin(a, "purge", task[a].doc, task[a].snap, file[task[a].doc])
  /\ UNCHANGED <<file, row, points, queue, scan, registered, edits, disturbances>>

(* Mutant: the new version is added beside the old ones. *)
IndexPurgesNothing(a) ==
  /\ task[a].pc = "purge"
  /\ Continue(a, "store")
  /\ UNCHANGED <<file, row, points, queue, scan, registered, exposed, edits, disturbances>>

IndexPurges(a) ==
  /\ task[a].pc = "purge"
  /\ points' = [points EXCEPT ![task[a].doc] = {}]
  /\ Continue(a, "store")
  /\ UNCHANGED <<file, row, queue, scan, registered, exposed, edits, disturbances>>

(* A point of the same version is overwritten. *)
IndexStores(a) ==
  /\ task[a].pc = "store"
  /\ LET version == task[a].snap.hash
     IN points' = [points EXCEPT ![task[a].doc] =
                     {p \in @ : p.version # version}
                       \cup {[version |-> version, text |-> task[a].text]}]
  /\ Continue(a, "commit")
  /\ UNCHANGED <<file, row, queue, scan, registered, exposed, edits, disturbances>>

IndexCommits(a) ==
  /\ task[a].pc = "commit"
  /\ LET snap == task[a].snap
     IN row' = [row EXCEPT
                 ![task[a].doc].status = Column(@, snap.status, "INDEXED"),
                 ![task[a].doc].indexed = Column(@, snap.indexed, snap.hash)]
  /\ End(a)
  /\ UNCHANGED <<file, points, queue, scan, registered, exposed, edits, disturbances>>

Erases(a) ==
  /\ task[a].pc = "erase"
  /\ registered
  /\ points' = [points EXCEPT ![task[a].doc] = {}]
  /\ Continue(a, "erased")
  /\ UNCHANGED <<file, row, queue, scan, registered, exposed, edits, disturbances>>

(* The request of a deletion let go of its copy of the row when delete()    *)
(* returned and reads the row again; the worker still holds its batch's.    *)
EraseCommits(a) ==
  /\ task[a].pc = "erased"
  /\ LET loaded == IF a = Worker THEN task[a].snap ELSE row[task[a].doc]
     IN row' = [row EXCEPT
                 ![task[a].doc].status = Column(@, loaded.status, "DELETED"),
                 ![task[a].doc].indexed = Column(@, loaded.indexed, None)]
  /\ End(a)
  /\ UNCHANGED <<file, points, queue, scan, registered, exposed, edits, disturbances>>

(* Mutant: the worker saves all the columns of its copy. *)
FailsSavesAll(a, status) ==
  /\ row' = IF a = Worker
              THEN [row EXCEPT ![task[a].doc] = [task[a].snap EXCEPT !.status = status]]
              ELSE row
  /\ End(a)

(* What is left of an attempt that fails: a request ends with its row as it *)
(* is, the worker stores the status.                                        *)
Fails(a, status) ==
  /\ row' = IF a = Worker
              THEN [row EXCEPT ![task[a].doc].status =
                                 Column(@, task[a].snap.status, status)]
              ELSE row
  /\ End(a)

(* There is no tenant identity; the worker gives its batch up.              *)
Unidentified(a) ==
  /\ task[a].pc \in {"index", "erase"}
  /\ ~registered
  /\ Fails(a, "PENDING")
  /\ queue' = IF a = Worker THEN [d \in Docs |-> NoRow] ELSE queue
  /\ UNCHANGED <<file, points, scan, registered, exposed, edits, disturbances>>

Unreadable(a) ==
  /\ task[a].pc = "index"
  /\ registered
  /\ file[task[a].doc] = None
  /\ Fails(a, "FAILED")
  /\ UNCHANGED <<file, points, queue, scan, registered, exposed, edits, disturbances>>

(* Qdrant fails a call, or does it and the answer is lost. *)
StoreFails(a) ==
  /\ task[a].pc \in {"purge", "store", "erase"}
  /\ registered
  /\ Disturb
  /\ LET d == task[a].doc
         version == task[a].snap.hash
     IN /\ \/ UNCHANGED points
           \/ points' = [points EXCEPT ![d] =
                IF task[a].pc = "store"
                  THEN {p \in @ : p.version # version}
                         \cup {[version |-> version, text |-> task[a].text]}
                  ELSE {}]
        /\ Fails(a, "FAILED")
        /\ Expose(IF task[a].pc # "erase" /\ row'[d].status = "INDEXED" THEN {d} ELSE {})
  /\ UNCHANGED <<file, queue, scan, registered, edits>>

----------------------------------------------------------------------------
(* reconcile().  Two passes, as reconcile_with_stability makes, are two     *)
(* scans in a row.                                                          *)

ScanWalks(s) ==
  /\ scan[s].pc = "idle"
  /\ LET found == {d \in Docs : file[d] # None}
     IN scan' = [scan EXCEPT ![s] = [NoScan EXCEPT !.pc = "walk", !.found = found,
                                                   !.todo = found]]
  /\ UNCHANGED <<file, row, points, task, queue, registered, exposed, edits, disturbances>>

(* A file found by the walk is gone: stat raises and the scan fails.        *)
ScanFails(s) ==
  /\ \/ scan[s].pc = "walk" /\ \E d \in scan[s].todo : file[d] = None
     \/ scan[s].pc = "hash" /\ file[scan[s].doc] = None
  /\ scan' = [scan EXCEPT ![s] = NoScan]
  /\ UNCHANGED <<file, row, points, task, queue, registered, exposed, edits, disturbances>>

(* A file without a row gets one; a file whose size or time changed waits;  *)
(* one that is not stable for long enough waits; one whose deletion was     *)
(* requested is left alone.                                                 *)
ScanPasses(s, d) ==
  /\ scan[s].pc = "walk"
  /\ d \in scan[s].todo
  /\ file[d] # None
  /\ row' = CASE row[d] = NoRow ->
                   [row EXCEPT ![d] = [NoRow EXCEPT !.status = "PENDING", !.seen = file[d]]]
              [] row[d] # NoRow /\ ~row[d].deleted -> [row EXCEPT ![d].seen = file[d]]
              [] OTHER -> row
  /\ scan' = [scan EXCEPT ![s].todo = @ \ {d}]
  /\ UNCHANGED <<file, points, task, queue, registered, exposed, edits, disturbances>>

(* A stable file is hashed in a thread, while the session keeps the row.    *)
ScanHashes(s, d) ==
  /\ scan[s].pc = "walk"
  /\ d \in scan[s].todo
  /\ file[d] # None
  /\ row[d] # NoRow
  /\ ~row[d].deleted
  /\ row[d].seen = file[d]
  /\ ExposeIfBusy({d})
  /\ scan' = [scan EXCEPT ![s].pc = "hash", ![s].todo = @ \ {d}, ![s].doc = d,
                          ![s].snap = row[d], ![s].text = file[d]]
  /\ UNCHANGED <<file, row, points, task, queue, registered, edits, disturbances>>

ScanResumes(s) == scan' = [scan EXCEPT ![s].pc = "walk", ![s].doc = None,
                                       ![s].snap = NoRow, ![s].text = None]

(* Unless the file changed meanwhile, _upsert_stable compares the hash with *)
(* the row the session has kept, and a new version starts over.             *)
ScanStores(s) ==
  /\ scan[s].pc = "hash"
  /\ LET d == scan[s].doc
         snap == scan[s].snap
         hash == scan[s].text
     IN /\ file[d] # None
        /\ row' = IF file[d] # hash \/ snap.hash = hash THEN row
                  ELSE [row EXCEPT ![d].hash = hash,
                                   ![d].status = Column(@, snap.status, "PENDING"),
                                   ![d].indexed = Column(@, snap.indexed, None)]
  /\ ScanResumes(s)
  /\ UNCHANGED <<file, points, task, queue, registered, exposed, edits, disturbances>>

(* Every row the walk did not find a file for becomes a deletion. *)
ScanSweeps(s) ==
  /\ scan[s].pc = "walk"
  /\ scan[s].todo = {}
  /\ LET missing == {d \in Docs \ scan[s].found : row[d] # NoRow /\ ~row[d].deleted}
     IN /\ row' = [d \in Docs |->
                    IF d \in missing
                      THEN [row[d] EXCEPT !.deleted = TRUE, !.status = "DELETE_PENDING"]
                      ELSE row[d]]
        /\ ExposeIfBusy(missing)
  /\ scan' = [scan EXCEPT ![s] = NoScan]
  /\ UNCHANGED <<file, points, task, queue, registered, edits, disturbances>>

(* The process ends and is restarted: files, rows and points remain.        *)
Crash ==
  /\ Disturb
  /\ task' = [a \in Actors |-> Idle]
  /\ queue' = [d \in Docs |-> NoRow]
  /\ scan' = [s \in Scans |-> NoScan]
  /\ Expose({d \in Docs : row[d].status = "INDEXED" /\
               \E a \in Actors : task[a].doc = d /\ task[a].pc = "store"})
  /\ UNCHANGED <<file, row, points, registered, edits>>

----------------------------------------------------------------------------
TaskStep(a) ==
  \/ IndexParses(a) \/ IndexPurges(a) \/ IndexStores(a) \/ IndexCommits(a)
  \/ Erases(a) \/ EraseCommits(a) \/ Unidentified(a) \/ Unreadable(a)

ScanStep(s) ==
  \/ ScanFails(s) \/ ScanStores(s) \/ ScanSweeps(s)
  \/ \E d \in Docs : ScanPasses(s, d) \/ ScanHashes(s, d)

Next ==
  \/ Register \/ Unregister \/ Crash \/ WorkerLoads
  \/ \E d \in Docs :
       \/ WorkerTakes(d)
       \/ \E content \in Contents \cup {None} : ChangeDirectly(d, content)
       \/ \E r \in Requests :
            \/ Delete(r, d) \/ Retry(r, d)
            \/ \E content \in Contents : Upload(r, d, content)
  \/ \E r \in Requests : UploadStores(r)
  \/ \E a \in Actors : TaskStep(a) \/ StoreFails(a)
  \/ \E s \in Scans : ScanWalks(s) \/ ScanStep(s)

(* The interval jobs come round again, every begun step of the event loop   *)
(* is run, and a file nobody changes is stable in some pass of the          *)
(* scheduled scan.                                                          *)
Fairness ==
  /\ WF_vars(WorkerLoads)
  /\ \A d \in Docs : WF_vars(WorkerTakes(d))
  /\ \A r \in Requests : WF_vars(UploadStores(r))
  /\ \A a \in Actors : WF_vars(TaskStep(a))
  /\ WF_vars(ScanWalks(Scheduled))
  /\ \A s \in Scans : WF_vars(ScanStep(s))
  /\ \A d \in Docs : SF_vars(ScanHashes(Scheduled, d))

Spec == Init /\ [][Next]_vars
FairSpec == Spec /\ Fairness

----------------------------------------------------------------------------
(* Properties. *)

TypeOK ==
  /\ file \in [Docs -> Contents \cup {None}]
  /\ row \in [Docs -> Row]
  /\ points \in [Docs -> SUBSET Point]
  /\ task \in [Actors -> Task]
  /\ queue \in [Docs -> Row]
  /\ scan \in [Scans -> Scan]
  /\ registered \in BOOLEAN
  /\ exposed \subseteq Docs
  /\ edits \in 0 .. MaxEdits
  /\ disturbances \in 0 .. MaxDisturbances

(* What the row of a document nobody works on says of its points: exactly   *)
(* one version, the row's, when it is indexed, and none once it is deleted. *)
Agrees(d) ==
  /\ row[d].status = "INDEXED" =>
       {p.version : p \in points[d]} = {row[d].hash} /\ Cardinality(points[d]) = 1
  /\ row[d].status = "DELETED" => points[d] = {}

(* README.md:119-121, "Updates replace old chunks and deletion removes      *)
(* every matching point": through crashes, failed and half-done store       *)
(* calls, lost registrations and direct changes, as long as none of the     *)
(* four hazards of exposed has hit the document: two sessions at once, a    *)
(* file that is no longer the hashed one when it is parsed, a re-index of   *)
(* an indexed document that breaks off, a retry of a failed deletion.       *)
IndexAgrees == \A d \in Docs : ~Busy(d) /\ d \notin exposed => Agrees(d)

(* Why it holds, as one inductive invariant.  A document that is not        *)
(* exposed has at most one user; what its user has loaded still agrees with *)
(* the row; and only between its purge and its commit do the points differ  *)
(* from what the row says.                                                  *)
SoleUser(d) ==
  /\ \A a, b \in Actors : task[a].doc = d /\ task[b].doc = d => a = b
  /\ \A s, t \in Scans : scan[s].doc = d /\ scan[t].doc = d => s = t
  /\ \A a \in Actors, s \in Scans : ~(task[a].doc = d /\ scan[s].doc = d)
  /\ queue[d] # NoRow => /\ \A a \in Actors : task[a].doc # d
                         /\ \A s \in Scans : scan[s].doc # d

Current(snap, d) == /\ snap.status # "none"
                    /\ snap.hash = row[d].hash
                    /\ snap.deleted = row[d].deleted
                    /\ snap.status = row[d].status

Indexing == {"index", "purge", "store", "commit"}
Erasing == {"erase", "erased"}

TaskAgrees(a, d) ==
  /\ task[a].pc \in Indexing \cup Erasing => Current(task[a].snap, d)
  /\ task[a].pc \in Indexing => ~row[d].deleted
  /\ task[a].pc \in Erasing => row[d].deleted
  /\ task[a].pc \in {"store", "erased"} => points[d] = {}
  /\ task[a].pc = "commit" =>
       points[d] = {[version |-> row[d].hash, text |-> task[a].text]}

RowAgrees(d) ==
  /\ row[d].status = "none" => row[d] = NoRow
  /\ row[d].deleted => row[d].status # "INDEXED"
  /\ row[d].status \in {"DELETED", "DELETE_PENDING"} => row[d].deleted
  /\ \/ Agrees(d)
     \/ \E a \in Actors : task[a].doc = d /\ task[a].pc \in {"store", "commit", "erased"}

DocInv(d) ==
  /\ SoleUser(d)
  /\ \A a \in Actors : task[a].doc = d => TaskAgrees(a, d)
  /\ \A s \in Scans : scan[s].doc = d => Current(scan[s].snap, d) /\ ~row[d].deleted
  /\ queue[d] # NoRow => Current(queue[d], d)
  /\ RowAgrees(d)

AgreementInv == \A d \in Docs \ exposed : DocInv(d)

(* docs/documents.md:51, deleting a document "deletes all matching Local    *)
(* Knowledge Store chunks": a tombstone that nobody will come back to has   *)
(* no points left.                                                          *)
TombstonesEmpty ==
  \A d \in Docs :
    row[d].deleted /\ row[d].status \notin Outstanding /\ ~Busy(d) => points[d] = {}

(* docs/architecture.md:74, "UI uploads and direct directory copies         *)
(* converge": a scan turns a row into a deletion only if the file is gone.  *)
SweepsOnlyMissing ==
  [][\A d \in Docs : ~row[d].deleted /\ row'[d].deleted => file'[d] = None]_vars

(* A requested deletion is withdrawn only by a new upload of the document:  *)
(* no worker, retry or scan that loaded the row before brings it back.      *)
DeletionSticks ==
  [][\A d \in Docs : row[d].deleted /\ ~row'[d].deleted =>
       \E r \in Requests : task[r].pc = "upsert" /\ task[r].doc = d]_vars

(* docs/documents.md:35, "Direct-copy files must retain the same size and   *)
(* modification time across checks": nothing is searchable before a scan    *)
(* has found it stable and hashed it.                                       *)
StableBeforeIndexed == \A d \in Docs : \A p \in points[d] : p.version # Unhashed

(* Once everybody leaves the files alone and the connector stays            *)
(* registered, the store holds exactly what the files say, a file copied    *)
(* over a deleted document excepted: that one stays out.                    *)
Wanted(d) == IF file[d] = None \/ row[d].deleted THEN {}
             ELSE {[version |-> file[d], text |-> file[d]]}

Converges ==
  <>[]registered =>
    \A d \in Docs : <>[](d \in exposed) \/ <>[](points[d] = Wanted(d))

=============================================================================
