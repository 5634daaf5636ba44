------------------------ MODULE KnowledgeIndexProofs ------------------------
(***************************************************************************)
(* What TLC checks for one document, one request and one scan, proved for  *)
(* any number of them: typing, that a deletion is withdrawn by an upload    *)
(* only, and that the index agrees with the rows of all documents no hazard *)
(* has hit.                                                                *)
(***************************************************************************)
EXTENDS KnowledgeIndex, FiniteSetTheorems, TLAPS

----------------------------------------------------------------------------
(* Typing, strengthened by what a step under way has in hand. *)

TaskWork(a) ==
  /\ task[a].pc # "idle" => task[a].doc \in Docs
  /\ task[a].pc \in {"upsert", "purge", "store", "commit"} => task[a].text \in Contents

ScanWork(s) ==
  scan[s].pc = "hash" => scan[s].doc \in Docs /\ scan[s].text \in Contents

TypeInv ==
  /\ TypeOK
  /\ \A a \in Actors : TaskWork(a)
  /\ \A s \in Scans : ScanWork(s)

LEMMA IdleTypes == NoRow \in Row /\ Idle \in Task /\ NoScan \in Scan
BY DEF NoRow, Row, Hashes, Outstanding, Idle, Task, TaskSteps, NoScan, Scan, ScanSteps

(* A task, or a scan, that is replaced by a sound one leaves all sound.     *)
LEMMA TaskReplaced ==
  ASSUME TypeInv, NEW a \in Actors, NEW u \in Task, task' = [task EXCEPT ![a] = u],
         u.pc # "idle" => u.doc \in Docs,
         u.pc \in {"upsert", "purge", "store", "commit"} => u.text \in Contents
  PROVE  task' \in [Actors -> Task] /\ \A b \in Actors : TaskWork(b)'
<1>1. task \in [Actors -> Task]
  BY DEF TypeInv, TypeOK
<1>2. task' \in [Actors -> Task]
  BY <1>1
<1>3. ASSUME NEW b \in Actors
      PROVE  TaskWork(b)'
  <2>1. task'[b] = IF b = a THEN u ELSE task[b]
    BY <1>1
  <2> QED
    BY <2>1 DEF TypeInv, TaskWork
<1> QED
  BY <1>2, <1>3

LEMMA BeginType ==
  ASSUME TypeInv, NEW a \in Actors, NEW pc \in TaskSteps, NEW d \in Docs, NEW snap \in Row,
         NEW text \in Contents \cup {None}, Begin(a, pc, d, snap, text),
         pc \in {"upsert", "purge", "store", "commit"} => text \in Contents
  PROVE  task' \in [Actors -> Task] /\ \A b \in Actors : TaskWork(b)'
<1> DEFINE u == [pc |-> pc, doc |-> d, snap |-> snap, text |-> text]
<1>1. u \in Task /\ u.pc = pc /\ u.doc = d /\ u.text = text
  BY DEF Task
<1>2. task' = [task EXCEPT ![a] = u]
  BY DEF Begin
<1> HIDE DEF u
<1> QED
  BY <1>1, <1>2, TaskReplaced

LEMMA ContinueType ==
  ASSUME TypeInv, NEW a \in Actors, NEW pc \in TaskSteps, task[a].pc # "idle",
         Continue(a, pc),
         pc \in {"upsert", "purge", "store", "commit"} => task[a].text \in Contents
  PROVE  task' \in [Actors -> Task] /\ \A b \in Actors : TaskWork(b)'
<1> DEFINE u == [task[a] EXCEPT !.pc = pc]
<1>1. task[a] \in Task /\ task[a].doc \in Docs
  BY DEF TypeInv, TypeOK, TaskWork
<1>2. u \in Task /\ u.pc = pc /\ u.doc = task[a].doc /\ u.text = task[a].text
  BY <1>1 DEF Task
<1>3. task' = [task EXCEPT ![a] = u]
  BY DEF Continue
<1> HIDE DEF u
<1> QED
  BY <1>1, <1>2, <1>3, TaskReplaced

LEMMA EndType ==
  ASSUME TypeInv, NEW a \in Actors, End(a)
  PROVE  task' \in [Actors -> Task] /\ \A b \in Actors : TaskWork(b)'
<1>1. Idle.pc = "idle"
  BY DEF Idle
<1> QED
  BY <1>1, IdleTypes, TaskReplaced DEF End

LEMMA ScanReplaced ==
  ASSUME TypeInv, NEW s \in Scans, NEW u \in Scan, scan' = [scan EXCEPT ![s] = u],
         u.pc = "hash" => u.doc \in Docs /\ u.text \in Contents
  PROVE  scan' \in [Scans -> Scan] /\ \A t \in Scans : ScanWork(t)'
<1>1. scan \in [Scans -> Scan]
  BY DEF TypeInv, TypeOK
<1>2. scan' \in [Scans -> Scan]
  BY <1>1
<1>3. ASSUME NEW t \in Scans
      PROVE  ScanWork(t)'
  <2>1. scan'[t] = IF t = s THEN u ELSE scan[t]
    BY <1>1
  <2> QED
    BY <2>1 DEF TypeInv, ScanWork
<1> QED
  BY <1>2, <1>3

LEMMA ResumesType ==
  ASSUME TypeInv, NEW s \in Scans, ScanResumes(s)
  PROVE  scan' \in [Scans -> Scan] /\ \A t \in Scans : ScanWork(t)'
<1> DEFINE u == [scan[s] EXCEPT !.pc = "walk", !.doc = None, !.snap = NoRow, !.text = None]
<1>1. scan[s] \in Scan
  BY DEF TypeInv, TypeOK
<1>2. u \in Scan /\ u.pc = "walk"
  BY <1>1, IdleTypes DEF Scan, ScanSteps
<1>3. scan' = [scan EXCEPT ![s] = u]
  BY DEF ScanResumes
<1> HIDE DEF u
<1> QED
  BY <1>2, <1>3, ScanReplaced

(* Columns stored in the row of a document keep the type.                   *)
Statuses == Outstanding \cup {"INDEXED", "DELETED", "none"}

LEMMA StatusType ==
  ASSUME row \in [Docs -> Row], NEW d \in Docs, NEW status \in Statuses
  PROVE  [row EXCEPT ![d].status = status] \in [Docs -> Row]
BY DEF Row, Statuses

LEMMA SeenType ==
  ASSUME row \in [Docs -> Row], NEW d \in Docs, NEW seen \in Contents \cup {None}
  PROVE  [row EXCEPT ![d].seen = seen] \in [Docs -> Row]
BY DEF Row

LEMMA DeletionType ==
  ASSUME NEW r \in Row
  PROVE  [r EXCEPT !.deleted = TRUE, !.status = "DELETE_PENDING"] \in Row
BY DEF Row, Outstanding

LEMMA OutcomeType ==
  ASSUME row \in [Docs -> Row], NEW d \in Docs, NEW status \in Statuses,
         NEW indexed \in Hashes \cup {None}
  PROVE  [row EXCEPT ![d].status = status, ![d].indexed = indexed] \in [Docs -> Row]
BY DEF Row, Statuses

LEMMA FailsType ==
  ASSUME TypeInv, NEW a \in Actors, task[a].pc # "idle", NEW status \in Outstanding,
         Fails(a, status)
  PROVE  /\ row' \in [Docs -> Row]
         /\ task' \in [Actors -> Task] /\ \A b \in Actors : TaskWork(b)'
<1> DEFINE d == task[a].doc
           new == Column(row[d].status, task[a].snap.status, status)
<1>1. d \in Docs /\ row \in [Docs -> Row] /\ task[a].snap \in Row
  BY DEF TypeInv, TypeOK, TaskWork, Task
<1>2. new \in Statuses
  BY <1>1 DEF Column, Row, Statuses
<1>3. row' = row \/ row' = [row EXCEPT ![d].status = new]
  BY DEF Fails
<1> HIDE DEF d, new
<1>4. row' \in [Docs -> Row]
  BY <1>1, <1>2, <1>3, StatusType
<1> QED
  BY <1>4, EndType DEF Fails

LEMMA FactsOfTypeInv ==
  ASSUME TypeInv
  PROVE  /\ file \in [Docs -> Contents \cup {None}]
         /\ row \in [Docs -> Row]
         /\ points \in [Docs -> SUBSET Point]
         /\ task \in [Actors -> Task]
         /\ queue \in [Docs -> Row]
         /\ scan \in [Scans -> Scan]
         /\ registered \in BOOLEAN
         /\ exposed \in SUBSET Docs
         /\ edits \in 0 .. MaxEdits
         /\ disturbances \in 0 .. MaxDisturbances
         /\ \A a \in Actors : TaskWork(a)
         /\ \A s \in Scans : ScanWork(s)
BY DEF TypeInv, TypeOK

LEMMA CountType ==
  ASSUME TypeInv
  PROVE  /\ Edit => edits' \in 0 .. MaxEdits
         /\ Disturb => disturbances' \in 0 .. MaxDisturbances
BY KnowledgeAssumption DEF Edit, Disturb, TypeInv, TypeOK

LEMMA ExposeType ==
  ASSUME TypeInv, NEW D \in SUBSET Docs
  PROVE  /\ Expose(D) => exposed' \in SUBSET Docs
         /\ ExposeIfBusy(D) => exposed' \in SUBSET Docs
BY DEF Expose, ExposeIfBusy, TypeInv, TypeOK

(* The steps of the tasks. *)
LEMMA TaskStepTyped ==
  ASSUME TypeInv, NEW a \in Actors, TaskStep(a) \/ StoreFails(a)
  PROVE  TypeInv'
<1> DEFINE d == task[a].doc
           snap == task[a].snap
<1>a. /\ task[a] \in Task /\ snap \in Row /\ row \in [Docs -> Row]
      /\ task[a].pc # "idle" => d \in Docs
      /\ snap.hash \in Hashes /\ snap.status \in Statuses
      /\ snap.indexed \in Hashes \cup {None}
  <2>1. task[a] \in Task
    BY FactsOfTypeInv
  <2>2. snap \in Row
    BY <2>1 DEF Task
  <2>3. snap.hash \in Hashes /\ snap.status \in Statuses /\ snap.indexed \in Hashes \cup {None}
    BY <2>2 DEF Row, Statuses
  <2>4. task[a].pc # "idle" => d \in Docs
    BY FactsOfTypeInv DEF TaskWork
  <2> QED
    BY <2>1, <2>2, <2>3, <2>4, FactsOfTypeInv
<1> USE FactsOfTypeInv
<1>b. ASSUME task[a].pc # "idle", NEW P \in SUBSET Point
      PROVE  [points EXCEPT ![d] = P] \in [Docs -> SUBSET Point]
  BY <1>b
<1>c. ASSUME task[a].pc \in {"purge", "store", "commit"}
      PROVE  [version |-> snap.hash, text |-> task[a].text] \in Point
  BY <1>a, <1>c DEF Point, TaskWork
<1>1. CASE IndexParses(a)
  <2>1. file[d] \in Contents /\ d \in Docs
    BY <1>1, <1>a DEF IndexParses
  <2>2. "purge" \in TaskSteps
    BY DEF TaskSteps
  <2>3. task' \in [Actors -> Task] /\ \A b \in Actors : TaskWork(b)'
    <3>1. Begin(a, "purge", d, snap, file[d])
      BY <1>1 DEF IndexParses
    <3> HIDE DEF d, snap
    <3> QED
      BY <3>1, <2>1, <2>2, <1>a, BeginType
  <2>4. exposed' \in SUBSET Docs
    BY <1>1, <2>1, ExposeType DEF IndexParses, Expose
  <2> QED
    BY <1>1, <2>3, <2>4 DEF IndexParses, TypeInv, TypeOK, ScanWork
<1>2. CASE IndexPurges(a)
  <2>1. task' \in [Actors -> Task] /\ \A b \in Actors : TaskWork(b)'
    BY <1>2, ContinueType DEF IndexPurges, TaskSteps, TaskWork
  <2>2. points' \in [Docs -> SUBSET Point]
    BY <1>2, <1>b DEF IndexPurges
  <2> QED
    BY <1>2, <2>1, <2>2 DEF IndexPurges, TypeInv, TypeOK, ScanWork
<1>3. CASE IndexStores(a)
  <2>1. task' \in [Actors -> Task] /\ \A b \in Actors : TaskWork(b)'
    BY <1>3, ContinueType DEF IndexStores, TaskSteps, TaskWork
  <2>2. points' \in [Docs -> SUBSET Point]
    BY <1>3, <1>a, <1>c DEF IndexStores
  <2> QED
    BY <1>3, <2>1, <2>2 DEF IndexStores, TypeInv, TypeOK, ScanWork
<1>4. CASE IndexCommits(a)
  <2>1. task' \in [Actors -> Task] /\ \A b \in Actors : TaskWork(b)'
    BY <1>4, EndType DEF IndexCommits
  <2>2. row' \in [Docs -> Row]
    <3> DEFINE status == Column(row[d].status, snap.status, "INDEXED")
               indexed == Column(row[d].indexed, snap.indexed, snap.hash)
    <3>1. status \in Statuses /\ indexed \in Hashes \cup {None} /\ d \in Docs
      BY <1>4, <1>a DEF IndexCommits, Column, Statuses, Row
    <3>2. row' = [row EXCEPT ![d].status = status, ![d].indexed = indexed]
      BY <1>4 DEF IndexCommits
    <3> HIDE DEF status, indexed, d
    <3> QED
      BY <3>1, <3>2, OutcomeType
  <2> QED
    BY <1>4, <2>1, <2>2 DEF IndexCommits, TypeInv, TypeOK, ScanWork
<1>5. CASE Erases(a)
  <2>1. task' \in [Actors -> Task] /\ \A b \in Actors : TaskWork(b)'
    BY <1>5, ContinueType DEF Erases, TaskSteps, TaskWork
  <2>2. points' \in [Docs -> SUBSET Point]
    BY <1>5, <1>b DEF Erases
  <2> QED
    BY <1>5, <2>1, <2>2 DEF Erases, TypeInv, TypeOK, ScanWork
<1>6. CASE EraseCommits(a)
  <2>1. task' \in [Actors -> Task] /\ \A b \in Actors : TaskWork(b)'
    BY <1>6, EndType DEF EraseCommits
  <2>2. row' \in [Docs -> Row]
    <3> DEFINE loaded == IF a = Worker THEN snap ELSE row[d]
               status == Column(row[d].status, loaded.status, "DELETED")
               indexed == Column(row[d].indexed, loaded.indexed, None)
    <3>1. status \in Statuses /\ indexed \in Hashes \cup {None} /\ d \in Docs
      BY <1>6, <1>a DEF EraseCommits, Column, Statuses, Row
    <3>2. row' = [row EXCEPT ![d].status = status, ![d].indexed = indexed]
      BY <1>6 DEF EraseCommits
    <3> HIDE DEF status, indexed, d
    <3> QED
      BY <3>1, <3>2, OutcomeType
  <2> QED
    BY <1>6, <2>1, <2>2 DEF EraseCommits, TypeInv, TypeOK, ScanWork
<1>7. CASE Unidentified(a)
  <2>1. /\ row' \in [Docs -> Row]
        /\ task' \in [Actors -> Task] /\ \A b \in Actors : TaskWork(b)'
    BY <1>7, FailsType DEF Unidentified, Outstanding
  <2>2. queue' \in [Docs -> Row]
    BY <1>7, IdleTypes DEF Unidentified
  <2> QED
    BY <1>7, <2>1, <2>2 DEF Unidentified, TypeInv, TypeOK, ScanWork
<1>8. CASE Unreadable(a)
  <2>1. /\ row' \in [Docs -> Row]
        /\ task' \in [Actors -> Task] /\ \A b \in Actors : TaskWork(b)'
    BY <1>8, FailsType DEF Unreadable, Outstanding
  <2> QED
    BY <1>8, <2>1 DEF Unreadable, TypeInv, TypeOK, ScanWork
<1>9. CASE StoreFails(a)
  <2>1. task[a].pc # "idle" /\ d \in Docs
    BY <1>9, <1>a DEF StoreFails
  <2>2. /\ row' \in [Docs -> Row]
        /\ task' \in [Actors -> Task] /\ \A b \in Actors : TaskWork(b)'
    BY <1>9, FailsType DEF StoreFails, Outstanding
  <2>3. points' \in [Docs -> SUBSET Point]
    <3>1. CASE UNCHANGED points
      BY <3>1
    <3>2. CASE points' = [points EXCEPT ![d] = {}]
      BY <3>2
    <3>3. CASE /\ task[a].pc = "store"
               /\ points' = [points EXCEPT ![d] =
                    {p \in @ : p.version # snap.hash}
                      \cup {[version |-> snap.hash, text |-> task[a].text]}]
      BY <3>3, <1>a, <1>c
    <3> QED
      BY <1>9, <3>1, <3>2, <3>3 DEF StoreFails
  <2>4. exposed' \in SUBSET Docs
    BY <1>9, <2>1, ExposeType DEF StoreFails, Expose
  <2>5. disturbances' \in 0 .. MaxDisturbances
    BY <1>9, CountType DEF StoreFails
  <2> QED
    BY <1>9, <2>2, <2>3, <2>4, <2>5 DEF StoreFails, TypeInv, TypeOK, ScanWork
<1> QED
  BY <1>1, <1>2, <1>3, <1>4, <1>5, <1>6, <1>7, <1>8, <1>9 DEF TaskStep

(* The steps of users, requests and the worker's batch. *)
LEMMA RequestStepTyped ==
  ASSUME TypeInv, NEW r \in Requests, NEW d \in Docs,
         \/ Delete(r, d)
         \/ Retry(r, d)
         \/ \E content \in Contents : Upload(r, d, content)
  PROVE  TypeInv'
<1> USE FactsOfTypeInv
<1>a. r \in Actors /\ row[d] \in Row
  BY DEF Actors
<1>b. "erase" \in TaskSteps /\ "index" \in TaskSteps /\ "upsert" \in TaskSteps
  BY DEF TaskSteps
<1>1. CASE Delete(r, d)
  <2>1. row' \in [Docs -> Row] /\ row'[d] \in Row
    BY <1>1 DEF Delete, Row, Outstanding
  <2>2. task' \in [Actors -> Task] /\ \A b \in Actors : TaskWork(b)'
    <3>1. Begin(r, "erase", d, row'[d], None)
      BY <1>1 DEF Delete
    <3> QED
      BY <3>1, <2>1, <1>a, <1>b, BeginType
  <2>3. exposed' \in SUBSET Docs /\ edits' \in 0 .. MaxEdits
    BY <1>1, ExposeType, CountType DEF Delete
  <2>4. file' \in [Docs -> Contents \cup {None}]
    BY <1>1 DEF Delete
  <2> QED
    BY <1>1, <2>1, <2>2, <2>3, <2>4 DEF Delete, TypeInv, TypeOK, ScanWork
<1>2. CASE Retry(r, d)
  <2>1. row' \in [Docs -> Row] /\ row'[d] \in Row
    BY <1>2 DEF Retry, Row, Outstanding
  <2>2. task' \in [Actors -> Task] /\ \A b \in Actors : TaskWork(b)'
    <3>1. Begin(r, "index", d, row'[d], None)
      BY <1>2 DEF Retry
    <3> QED
      BY <3>1, <2>1, <1>a, <1>b, BeginType
  <2>3. exposed' \in SUBSET Docs /\ edits' \in 0 .. MaxEdits
    BY <1>2, ExposeType, CountType DEF Retry, Expose
  <2> QED
    BY <1>2, <2>1, <2>2, <2>3 DEF Retry, TypeInv, TypeOK, ScanWork
<1>3. ASSUME NEW content \in Contents, Upload(r, d, content)
      PROVE  TypeInv'
  <2>2. task' \in [Actors -> Task] /\ \A b \in Actors : TaskWork(b)'
    <3>1. Begin(r, "upsert", d, NoRow, content)
      BY <1>3 DEF Upload
    <3> QED
      BY <3>1, <1>a, <1>b, IdleTypes, BeginType
  <2>3. exposed' \in SUBSET Docs /\ edits' \in 0 .. MaxEdits
    BY <1>3, ExposeType, CountType DEF Upload
  <2>4. file' \in [Docs -> Contents \cup {None}]
    BY <1>3 DEF Upload
  <2> QED
    BY <1>3, <2>2, <2>3, <2>4 DEF Upload, TypeInv, TypeOK, ScanWork
<1> QED
  BY <1>1, <1>2, <1>3

LEMMA UploadStoresTyped ==
  ASSUME TypeInv, NEW r \in Requests, UploadStores(r)
  PROVE  TypeInv'
<1> DEFINE d == task[r].doc
           hash == task[r].text
           fresh == [hash |-> hash, indexed |-> None, deleted |-> FALSE,
                     status |-> "PENDING", seen |-> file[d]]
<1> USE FactsOfTypeInv
<1>1. r \in Actors /\ d \in Docs /\ hash \in Contents
  BY DEF Actors, UploadStores, TaskWork
<1>2. file[d] \in Contents \cup {None} /\ row[d] \in Row
  BY <1>1
<1>3. fresh \in Row
  BY <1>1, <1>2 DEF Row, Hashes, Outstanding
<1>4. \/ row' = row
      \/ row' = [row EXCEPT ![d].seen = file[d]]
      \/ row' = [row EXCEPT ![d] = fresh]
  BY DEF UploadStores
<1>5. row' \in [Docs -> Row]
  <2> HIDE DEF fresh
  <2>1. CASE row' = [row EXCEPT ![d].seen = file[d]]
    BY <2>1, <1>1, <1>2, SeenType
  <2>2. CASE row' = [row EXCEPT ![d] = fresh]
    BY <2>2, <1>3
  <2> QED
    BY <1>4, <2>1, <2>2
<1>6. End(r) \/ Begin(r, "index", d, row'[d], None)
  BY DEF UploadStores
<1>7. task' \in [Actors -> Task] /\ \A b \in Actors : TaskWork(b)'
  <2> HIDE DEF d, hash, fresh
  <2>1. row'[d] \in Row /\ "index" \in TaskSteps
    BY <1>1, <1>5 DEF TaskSteps
  <2> QED
    BY <1>1, <1>6, <2>1, EndType, BeginType
<1> QED
  BY <1>5, <1>7 DEF UploadStores, TypeInv, TypeOK, ScanWork

LEMMA WorkerStepTyped ==
  ASSUME TypeInv, WorkerLoads \/ \E d \in Docs : WorkerTakes(d)
  PROVE  TypeInv'
<1> USE FactsOfTypeInv
<1>1. CASE WorkerLoads
  <2>1. PICK batch \in SUBSET OutstandingDocs :
          /\ queue' = [d \in Docs |-> IF d \in batch THEN row[d] ELSE NoRow]
          /\ ExposeIfBusy(batch)
    BY <1>1 DEF WorkerLoads
  <2>2. queue' \in [Docs -> Row]
    BY <2>1, IdleTypes
  <2>3. exposed' \in SUBSET Docs
    BY <2>1, ExposeType DEF OutstandingDocs
  <2> QED
    BY <1>1, <2>2, <2>3 DEF WorkerLoads, TypeInv, TypeOK, ScanWork, TaskWork
<1>2. ASSUME NEW d \in Docs, WorkerTakes(d)
      PROVE  TypeInv'
  <2>1. queue' \in [Docs -> Row] /\ queue[d] \in Row /\ Worker \in Actors
    BY <1>2, IdleTypes DEF WorkerTakes, Actors
  <2>2. \/ Begin(Worker, "erase", d, queue[d], None)
        \/ Begin(Worker, "index", d, queue[d], None)
        \/ UNCHANGED task
    BY <1>2 DEF WorkerTakes
  <2>3. task' \in [Actors -> Task] /\ \A b \in Actors : TaskWork(b)'
    <3>1. "erase" \in TaskSteps /\ "index" \in TaskSteps
      BY DEF TaskSteps
    <3>2. CASE UNCHANGED task
      BY <3>2 DEF TaskWork
    <3> QED
      BY <2>1, <2>2, <3>1, <3>2, BeginType
  <2> QED
    BY <1>2, <2>1, <2>3 DEF WorkerTakes, TypeInv, TypeOK, ScanWork
<1> QED
  BY <1>1, <1>2

(* The steps of the scans. *)
LEMMA ScanStepTyped ==
  ASSUME TypeInv, NEW s \in Scans, ScanWalks(s) \/ ScanStep(s)
  PROVE  TypeInv'
<1> USE FactsOfTypeInv
<1>a. scan[s] \in Scan
  OBVIOUS
<1>1. CASE ScanWalks(s)
  <2> DEFINE found == {d \in Docs : file[d] # None}
             u == [NoScan EXCEPT !.pc = "walk", !.found = found, !.todo = found]
  <2>1. u \in Scan /\ u.pc = "walk"
    BY IdleTypes DEF NoScan, Scan, ScanSteps
  <2>2. scan' = [scan EXCEPT ![s] = u]
    BY <1>1 DEF ScanWalks
  <2> HIDE DEF u
  <2>3. scan' \in [Scans -> Scan] /\ \A t \in Scans : ScanWork(t)'
    BY <2>1, <2>2, ScanReplaced
  <2> QED
    BY <1>1, <2>3 DEF ScanWalks, TypeInv, TypeOK, TaskWork
<1>b. NoScan.pc = "idle"
  BY DEF NoScan
<1>2. CASE ScanFails(s)
  <2>1. scan' = [scan EXCEPT ![s] = NoScan]
    BY <1>2 DEF ScanFails
  <2>2. scan' \in [Scans -> Scan] /\ \A t \in Scans : ScanWork(t)'
    BY <2>1, <1>b, IdleTypes, ScanReplaced
  <2> QED
    BY <1>2, <2>2 DEF ScanFails, TypeInv, TypeOK, TaskWork
<1>3. ASSUME NEW d \in Docs, ScanPasses(s, d)
      PROVE  TypeInv'
  <2> DEFINE u == [scan[s] EXCEPT !.todo = @ \ {d}]
             inserted == [NoRow EXCEPT !.status = "PENDING", !.seen = file[d]]
  <2>1. u \in Scan /\ u.pc = "walk"
    BY <1>3, <1>a DEF Scan, ScanPasses
  <2>2. scan' = [scan EXCEPT ![s] = u]
    BY <1>3 DEF ScanPasses
  <2>3. file[d] \in Contents \cup {None} /\ inserted \in Row
    BY IdleTypes DEF Row, Outstanding
  <2>4. \/ row' = [row EXCEPT ![d] = inserted]
        \/ row' = [row EXCEPT ![d].seen = file[d]]
        \/ row' = row
    BY <1>3 DEF ScanPasses
  <2> HIDE DEF u, inserted
  <2>5. row' \in [Docs -> Row]
    BY <2>3, <2>4, SeenType
  <2>6. scan' \in [Scans -> Scan] /\ \A t \in Scans : ScanWork(t)'
    BY <2>1, <2>2, ScanReplaced
  <2> QED
    BY <1>3, <2>5, <2>6 DEF ScanPasses, TypeInv, TypeOK, TaskWork
<1>4. ASSUME NEW d \in Docs, ScanHashes(s, d)
      PROVE  TypeInv'
  <2> DEFINE u == [scan[s] EXCEPT !.pc = "hash", !.todo = @ \ {d}, !.doc = d,
                                  !.snap = row[d], !.text = file[d]]
  <2>1. file[d] \in Contents /\ row[d] \in Row
    BY <1>4 DEF ScanHashes
  <2>2. u \in Scan /\ u.doc = d /\ u.text = file[d]
    BY <2>1, <1>a DEF Scan, ScanSteps
  <2>3. scan' = [scan EXCEPT ![s] = u]
    BY <1>4 DEF ScanHashes
  <2> HIDE DEF u
  <2>4. scan' \in [Scans -> Scan] /\ \A t \in Scans : ScanWork(t)'
    BY <2>1, <2>2, <2>3, ScanReplaced
  <2>5. exposed' \in SUBSET Docs
    BY <1>4, ExposeType DEF ScanHashes
  <2> QED
    BY <1>4, <2>4, <2>5 DEF ScanHashes, TypeInv, TypeOK, TaskWork
<1>5. CASE ScanStores(s)
  <2> DEFINE d == scan[s].doc
             hash == scan[s].text
             status == Column(row[d].status, scan[s].snap.status, "PENDING")
             indexed == Column(row[d].indexed, scan[s].snap.indexed, None)
  <2>1. d \in Docs /\ hash \in Contents
    BY <1>5 DEF ScanStores, ScanWork
  <2>2. status \in Statuses /\ indexed \in Hashes \cup {None}
    BY <2>1 DEF Column, Row, Statuses, Outstanding
  <2>3. \/ row' = row
        \/ row' = [row EXCEPT ![d].hash = hash, ![d].status = status, ![d].indexed = indexed]
    BY <1>5 DEF ScanStores
  <2> HIDE DEF d, hash, status, indexed
  <2>4. row' \in [Docs -> Row]
    BY <2>1, <2>2, <2>3 DEF Row, Hashes, Statuses
  <2>5. scan' \in [Scans -> Scan] /\ \A t \in Scans : ScanWork(t)'
    BY <1>5, ResumesType DEF ScanStores
  <2> QED
    BY <1>5, <2>4, <2>5 DEF ScanStores, TypeInv, TypeOK, TaskWork
<1>6. CASE ScanSweeps(s)
  <2> DEFINE missing == {d \in Docs \ scan[s].found : row[d] # NoRow /\ ~row[d].deleted}
  <2>1. row' \in [Docs -> Row]
    <3>1. row' = [d \in Docs |->
                    IF d \in missing
                      THEN [row[d] EXCEPT !.deleted = TRUE, !.status = "DELETE_PENDING"]
                      ELSE row[d]]
      BY <1>6 DEF ScanSweeps
    <3>2. ASSUME NEW d \in Docs
          PROVE  [row[d] EXCEPT !.deleted = TRUE, !.status = "DELETE_PENDING"] \in Row
      BY DeletionType
    <3> HIDE DEF missing
    <3> QED
      BY <3>1, <3>2
  <2>2. exposed' \in SUBSET Docs
    BY <1>6, ExposeType DEF ScanSweeps
  <2>3. scan' \in [Scans -> Scan] /\ \A t \in Scans : ScanWork(t)'
    <3>1. scan' = [scan EXCEPT ![s] = NoScan]
      BY <1>6 DEF ScanSweeps
    <3> QED
      BY <3>1, <1>b, IdleTypes, ScanReplaced
  <2> QED
    BY <1>6, <2>1, <2>2, <2>3 DEF ScanSweeps, TypeInv, TypeOK, TaskWork
<1> QED
  BY <1>1, <1>2, <1>3, <1>4, <1>5, <1>6 DEF ScanStep

LEMMA TypeInvKept == TypeInv /\ [Next]_vars => TypeInv'
<1> SUFFICES ASSUME TypeInv, [Next]_vars
             PROVE  TypeInv'
  OBVIOUS
<1> USE FactsOfTypeInv
<1>1. CASE Register \/ Unregister
  BY <1>1, CountType DEF Register, Unregister, TypeInv, TypeOK, TaskWork, ScanWork
<1>2. CASE Crash
  <2>1. task' \in [Actors -> Task] /\ \A a \in Actors : TaskWork(a)'
    BY <1>2, IdleTypes DEF Crash, TaskWork, Idle
  <2>2. scan' \in [Scans -> Scan] /\ \A s \in Scans : ScanWork(s)'
    BY <1>2, IdleTypes DEF Crash, ScanWork, NoScan
  <2>3. queue' \in [Docs -> Row]
    BY <1>2, IdleTypes DEF Crash
  <2>4. exposed' \in SUBSET Docs
    BY <1>2 DEF Crash, Expose
  <2>5. disturbances' \in 0 .. MaxDisturbances
    BY <1>2, CountType DEF Crash
  <2> QED
    BY <1>2, <2>1, <2>2, <2>3, <2>4, <2>5 DEF Crash, TypeInv, TypeOK
<1>3. ASSUME NEW d \in Docs, NEW content \in Contents \cup {None}, ChangeDirectly(d, content)
      PROVE  TypeInv'
  <2>1. file' \in [Docs -> Contents \cup {None}] /\ edits' \in 0 .. MaxEdits
    BY <1>3, CountType DEF ChangeDirectly
  <2> QED
    BY <1>3, <2>1 DEF ChangeDirectly, TypeInv, TypeOK, TaskWork, ScanWork
<1>4. CASE UNCHANGED vars
  BY <1>4 DEF vars, TypeInv, TypeOK, TaskWork, ScanWork
<1> QED
  BY <1>1, <1>2, <1>3, <1>4, TaskStepTyped, RequestStepTyped, UploadStoresTyped,
     WorkerStepTyped, ScanStepTyped DEF Next

LEMMA TypeInvAlways == Spec => []TypeInv
<1>1. Init => TypeInv
  <2> SUFFICES ASSUME Init
               PROVE  TypeInv
    OBVIOUS
  <2>1. row \in [Docs -> Row] /\ queue \in [Docs -> Row]
    BY IdleTypes DEF Init
  <2>2. task \in [Actors -> Task] /\ \A a \in Actors : TaskWork(a)
    BY IdleTypes DEF Init, TaskWork, Idle
  <2>3. scan \in [Scans -> Scan] /\ \A s \in Scans : ScanWork(s)
    BY IdleTypes DEF Init, ScanWork, NoScan
  <2>4. edits \in 0 .. MaxEdits /\ disturbances \in 0 .. MaxDisturbances
    BY KnowledgeAssumption DEF Init
  <2> QED
    BY <2>1, <2>2, <2>3, <2>4 DEF Init, TypeInv, TypeOK
<1> QED
  BY <1>1, TypeInvKept, PTL DEF Spec

(* Every reachable state is well typed: no status leaves the documented     *)
(* ones, and no half-done step is without its document or its text.         *)
THEOREM TypeCorrect == Spec => []TypeOK
<1>1. TypeInv => TypeOK
  BY DEF TypeInv
<1> QED
  BY <1>1, TypeInvAlways, PTL

----------------------------------------------------------------------------
(* Of all steps only UploadStores clears deletion_requested; the scans, the *)
(* worker and a retry store other columns of the row.                       *)
LEMMA DeletedKept ==
  ASSUME TypeInv, NEW d \in Docs, row[d].deleted, ~row'[d].deleted, [Next]_vars
  PROVE  \E r \in Requests : task[r].pc = "upsert" /\ task[r].doc = d
<1> USE FactsOfTypeInv
<1>a. row[d] \in Row /\ row[d] # NoRow
  BY DEF NoRow
<1>1. row' # row
  OBVIOUS
<1>2. ASSUME NEW a \in Actors, TaskStep(a) \/ StoreFails(a)
      PROVE  FALSE
  <2>1. ASSUME NEW e, NEW status, NEW indexed,
               \/ row' = [row EXCEPT ![e].status = status]
               \/ row' = [row EXCEPT ![e].status = status, ![e].indexed = indexed]
        PROVE  row'[d].deleted = row[d].deleted
    <3>1. \/ row'[d] = row[d]
          \/ row'[d] = [row[d] EXCEPT !.status = status]
          \/ row'[d] = [row[d] EXCEPT !.status = status, !.indexed = indexed]
      BY <2>1
    <3> QED
      BY <3>1, <1>a DEF Row
  <2>2. CASE IndexCommits(a) \/ EraseCommits(a)
    <3> DEFINE e == task[a].doc
               loaded == IF a = Worker THEN task[a].snap ELSE row[e]
    <3>1. CASE IndexCommits(a)
      BY <2>1, <3>1, <1>a DEF IndexCommits
    <3>2. CASE EraseCommits(a)
      <4>1. row' = [row EXCEPT ![e].status = Column(row[e].status, loaded.status, "DELETED"),
                              ![e].indexed = Column(row[e].indexed, loaded.indexed, None)]
        BY <3>2 DEF EraseCommits
      <4> QED
        BY <2>1, <4>1, <1>a
    <3> QED
      BY <2>2, <3>1, <3>2
  <2>3. CASE Unidentified(a) \/ Unreadable(a) \/ StoreFails(a)
    BY <2>1, <2>3, <1>a, <1>1 DEF Unidentified, Unreadable, StoreFails, Fails
  <2>4. CASE IndexParses(a) \/ IndexPurges(a) \/ IndexStores(a) \/ Erases(a)
    BY <2>4, <1>1 DEF IndexParses, IndexPurges, IndexStores, Erases
  <2> QED
    BY <1>2, <2>2, <2>3, <2>4 DEF TaskStep
<1>3. ASSUME NEW s \in Scans, ScanStep(s)
      PROVE  FALSE
  <2>1. CASE ScanFails(s) \/ \E e \in Docs : ScanHashes(s, e)
    BY <2>1, <1>1 DEF ScanFails, ScanHashes
  <2>2. CASE ScanStores(s)
    BY <2>2, <1>a DEF ScanStores, Row
  <2>3. CASE ScanSweeps(s)
    BY <2>3, <1>a DEF ScanSweeps, Row
  <2>4. ASSUME NEW e \in Docs, ScanPasses(s, e)
        PROVE  FALSE
    <3>1. row[e] # NoRow => row'[e].deleted = row[e].deleted
      BY <2>4 DEF ScanPasses, Row
    <3>2. e # d => row'[d] = row[d]
      BY <2>4 DEF ScanPasses
    <3> QED
      BY <3>1, <3>2, <1>a
  <2> QED
    BY <1>3, <2>1, <2>2, <2>3, <2>4 DEF ScanStep
<1>4. ASSUME NEW r \in Requests, NEW e \in Docs, Delete(r, e) \/ Retry(r, e)
      PROVE  FALSE
  <2>1. CASE Delete(r, e)
    <3>1. row' = [row EXCEPT ![e].deleted = TRUE, ![e].status = "DELETE_PENDING"]
      BY <2>1 DEF Delete
    <3> QED
      BY <3>1, <1>a DEF Row
  <2>2. CASE Retry(r, e)
    <3>1. row' = [row EXCEPT ![e].status = "PENDING"]
      BY <2>2 DEF Retry
    <3> QED
      BY <3>1, <1>a DEF Row
  <2> QED
    BY <1>4, <2>1, <2>2
<1>5. ASSUME NEW r \in Requests, UploadStores(r)
      PROVE  task[r].pc = "upsert" /\ task[r].doc = d
  BY <1>5, <1>a DEF UploadStores
<1>6. ~(\/ Register \/ Unregister \/ Crash \/ WorkerLoads \/ UNCHANGED vars
        \/ \E s \in Scans : ScanWalks(s)
        \/ \E e \in Docs :
             \/ WorkerTakes(e)
             \/ \E content \in Contents \cup {None} : ChangeDirectly(e, content)
             \/ \E r \in Requests, content \in Contents : Upload(r, e, content))
  BY <1>1 DEF Register, Unregister, Crash, WorkerLoads, ScanWalks, WorkerTakes,
     ChangeDirectly, Upload, vars
<1> QED
  BY <1>2, <1>3, <1>4, <1>5, <1>6 DEF Next

(* A requested deletion is withdrawn only by a new upload of the document,  *)
(* whatever scans, retries and batches loaded its row before.               *)
THEOREM DeletionStays == Spec => DeletionSticks
<1>1. TypeInv /\ [Next]_vars =>
        [\A d \in Docs : row[d].deleted /\ ~row'[d].deleted =>
           \E r \in Requests : task[r].pc = "upsert" /\ task[r].doc = d]_vars
  BY DeletedKept
<1> QED
  BY <1>1, TypeInvAlways, PTL DEF Spec, DeletionSticks

----------------------------------------------------------------------------
(* AgreementInv is inductive.  First the arguments all steps share: what    *)
(* one set of points says, a document the step has nothing to do with, and  *)
(* a document with one actor at work.                                       *)

LEMMA OneVersion ==
  ASSUME NEW d \in Docs, NEW p, points[d] = {p}, p.version = row[d].hash,
         row[d].status # "DELETED"
  PROVE  Agrees(d)
<1>1. Cardinality({p}) = 1
  BY FS_Singleton
<1>2. {q.version : q \in {p}} = {p.version}
  OBVIOUS
<1> QED
  BY <1>1, <1>2 DEF Agrees

LEMMA Untouched ==
  ASSUME NEW d \in Docs, DocInv(d),
         row'[d].hash = row[d].hash, row'[d].deleted = row[d].deleted,
         row'[d].status = row[d].status, row'[d].status = "none" => row'[d] = NoRow,
         points'[d] = points[d], queue'[d] \in {queue[d], NoRow},
         \A a \in Actors : task[a].doc = d /\ task[a].pc \in {"store", "commit", "erased"}
                            => task'[a] = task[a],
         \A a \in Actors : task'[a].doc = d => task'[a] = task[a],
         \A s \in Scans : scan'[s].doc = d => scan[s].doc = d /\ scan'[s].snap = scan[s].snap
  PROVE  DocInv(d)'
<1>1. SoleUser(d)'
  BY DEF DocInv, SoleUser
<1>2. ASSUME NEW a \in Actors, task'[a].doc = d
      PROVE  TaskAgrees(a, d)'
  BY <1>2 DEF DocInv, TaskAgrees, Current
<1>3. ASSUME NEW s \in Scans, scan'[s].doc = d
      PROVE  Current(scan[s].snap, d)' /\ ~row'[d].deleted
  BY <1>3 DEF DocInv, Current
<1>4. queue'[d] # NoRow => Current(queue[d], d)'
  BY DEF DocInv, Current
<1>5. Agrees(d) => Agrees(d)'
  BY DEF Agrees
<1>6. RowAgrees(d)'
  BY <1>5 DEF DocInv, RowAgrees
<1> QED
  BY <1>1, <1>2, <1>3, <1>4, <1>6 DEF DocInv

LEMMA OneUser ==
  ASSUME NEW d \in Docs, NEW a \in Actors,
         \A b \in Actors : b # a => task'[b].doc # d,
         \A s \in Scans : scan'[s].doc # d,
         queue'[d] = NoRow,
         task'[a].doc = d => TaskAgrees(a, d)',
         RowAgrees(d)'
  PROVE  DocInv(d)'
BY DEF DocInv, SoleUser

LEMMA NobodyElse ==
  ASSUME NEW d \in Docs, DocInv(d), NEW a \in Actors, task[a].doc = d
  PROVE  /\ \A b \in Actors : b # a => task[b].doc # d
         /\ \A s \in Scans : scan[s].doc # d
         /\ queue[d] = NoRow
         /\ TaskAgrees(a, d)
BY DEF DocInv, SoleUser

LEMMA NotBusy ==
  ASSUME NEW d \in Docs, DocInv(d), ~Busy(d)
  PROVE  /\ \A b \in Actors : task[b].doc # d
         /\ \A s \in Scans : scan[s].doc # d
         /\ queue[d] = NoRow
         /\ Agrees(d)
BY DEF DocInv, Busy, RowAgrees

LEMMA NotExposed ==
  ASSUME NEW d \in Docs, NEW D, AgreementInv, d \notin exposed',
         exposed' = exposed \/ Expose(D) \/ ExposeIfBusy(D)
  PROVE  /\ DocInv(d)
         /\ Expose(D) => d \notin D
         /\ ExposeIfBusy(D) /\ d \in D => ~Busy(d)
BY DEF AgreementInv, Expose, ExposeIfBusy

(* A task that goes on, or ends, has nothing to do with other documents.    *)
LEMMA OthersUntouched ==
  ASSUME TypeInv, NEW a \in Actors, task[a].pc # "idle", NEW d \in Docs, DocInv(d),
         d # task[a].doc,
         \A b \in Actors : b # a => task'[b] = task[b],
         task'[a].doc \in {task[a].doc, None},
         row'[d] = row[d], points'[d] = points[d], queue'[d] \in {queue[d], NoRow},
         UNCHANGED scan
  PROVE  DocInv(d)'
<1>1. d # None
  BY KnowledgeAssumption
<1>2. row'[d].status = "none" => row'[d] = NoRow
  BY DEF DocInv, RowAgrees
<1> QED
  BY <1>1, <1>2, Untouched

LEMMA TaskReplacements ==
  ASSUME TypeInv, NEW a \in Actors
  PROVE  /\ \A pc \in TaskSteps : Continue(a, pc) =>
              /\ \A b \in Actors : b # a => task'[b] = task[b]
              /\ task'[a] = [task[a] EXCEPT !.pc = pc]
              /\ task'[a].pc = pc /\ task'[a].doc = task[a].doc
              /\ task'[a].snap = task[a].snap /\ task'[a].text = task[a].text
         /\ End(a) =>
              /\ \A b \in Actors : b # a => task'[b] = task[b]
              /\ task'[a].doc = None
         /\ \A pc, d, snap, text : Begin(a, pc, d, snap, text) =>
              /\ \A b \in Actors : b # a => task'[b] = task[b]
              /\ task'[a] = [pc |-> pc, doc |-> d, snap |-> snap, text |-> text]
<1>1. task \in [Actors -> Task] /\ task[a] \in Task
  BY FactsOfTypeInv
<1>2. ASSUME NEW pc \in TaskSteps, Continue(a, pc)
      PROVE  /\ \A b \in Actors : b # a => task'[b] = task[b]
             /\ task'[a] = [task[a] EXCEPT !.pc = pc]
             /\ task'[a].pc = pc /\ task'[a].doc = task[a].doc
             /\ task'[a].snap = task[a].snap /\ task'[a].text = task[a].text
  <2>1. \A b \in Actors : b # a => task'[b] = task[b]
    BY <1>1, <1>2 DEF Continue
  <2>2. task'[a] = [task[a] EXCEPT !.pc = pc]
    BY <1>1, <1>2 DEF Continue
  <2> QED
    BY <1>1, <2>1, <2>2 DEF Task
<1>3. ASSUME End(a)
      PROVE  (\A b \in Actors : b # a => task'[b] = task[b]) /\ task'[a].doc = None
  BY <1>1, <1>3 DEF End, Idle
<1>4. ASSUME NEW pc, NEW d, NEW snap, NEW text, Begin(a, pc, d, snap, text)
      PROVE  /\ \A b \in Actors : b # a => task'[b] = task[b]
             /\ task'[a] = [pc |-> pc, doc |-> d, snap |-> snap, text |-> text]
  BY <1>1, <1>4 DEF Begin
<1> QED
  BY <1>2, <1>3, <1>4

(* A step of one task keeps the invariant if it keeps it for the task's own *)
(* document.                                                                *)
LEMMA OwnDocument ==
  ASSUME TypeInv, AgreementInv, NEW a \in Actors, task[a].pc # "idle",
         NEW d \in Docs, task[a].doc = d,
         exposed \subseteq exposed', UNCHANGED scan,
         \A e \in Docs : queue'[e] \in {queue[e], NoRow},
         \A b \in Actors : b # a => task'[b] = task[b],
         task'[a].doc \in {d, None},
         \A e \in Docs : e # d => row'[e] = row[e] /\ points'[e] = points[e],
         /\ d \notin exposed' /\ TaskAgrees(a, d) /\ RowAgrees(d)
         /\ task[a].pc \notin {"store", "commit", "erased"} => Agrees(d)
         => /\ task'[a].doc = d => TaskAgrees(a, d)'
            /\ RowAgrees(d)'
  PROVE  AgreementInv'
<1> SUFFICES ASSUME NEW e \in Docs \ exposed'
             PROVE  DocInv(e)'
  BY DEF AgreementInv
<1>1. DocInv(e)
  BY DEF AgreementInv
<1>2. CASE e # d
  BY <1>1, <1>2, OthersUntouched
<1>3. CASE e = d
  <2>1. /\ \A b \in Actors : b # a => task[b].doc # d
        /\ \A s \in Scans : scan[s].doc # d
        /\ queue[d] = NoRow
        /\ TaskAgrees(a, d)
    BY <1>1, <1>3, NobodyElse
  <2>2. RowAgrees(d)
    BY <1>1, <1>3 DEF DocInv
  <2>3. queue'[d] = NoRow
    BY <2>1
  <2>4. task[a].pc \notin {"store", "commit", "erased"} => Agrees(d)
    BY <2>1, <2>2 DEF RowAgrees
  <2> QED
    BY <1>3, <2>1, <2>2, <2>3, <2>4, OneUser
<1> QED
  BY <1>2, <1>3

LEMMA IndexingAgrees ==
  ASSUME TypeInv, AgreementInv, NEW a \in Actors, NEW d, NEW snap,
         d = task[a].doc, snap = task[a].snap,
         IndexParses(a) \/ IndexPurges(a) \/ IndexStores(a) \/ IndexCommits(a)
  PROVE  AgreementInv'
<1> USE FactsOfTypeInv
<1>a. task[a] \in Task /\ task[a].pc # "idle" /\ d \in Docs /\ row[d] \in Row /\ d # None
  <2>1. task[a].pc # "idle"
    BY DEF IndexParses, IndexPurges, IndexStores, IndexCommits
  <2> QED
    BY <2>1, KnowledgeAssumption DEF TaskWork
<1>1. CASE IndexParses(a)
  <2>1. /\ \A b \in Actors : b # a => task'[b] = task[b]
        /\ task'[a] = [pc |-> "purge", doc |-> d, snap |-> snap, text |-> file[d]]
    <3>1. Begin(a, "purge", d, snap, file[d])
      BY <1>1 DEF IndexParses
    <3> QED
      BY <3>1, TaskReplacements
  <2>2. exposed \subseteq exposed' /\ task[a].pc = "index"
    BY <1>1 DEF IndexParses, Expose
  <2>3. UNCHANGED <<row, points, queue, scan>>
    BY <1>1 DEF IndexParses
  <2>4. TaskAgrees(a, d) => TaskAgrees(a, d)'
    BY <2>1, <2>2, <2>3 DEF TaskAgrees, Current, Indexing, Erasing
  <2>5. RowAgrees(d) => RowAgrees(d)'
    <3>1. Agrees(d) => Agrees(d)'
      BY <2>3 DEF Agrees
    <3> QED
      BY <2>1, <2>2, <2>3, <3>1 DEF RowAgrees
  <2> QED
    BY <1>a, <2>1, <2>2, <2>3, <2>4, <2>5, OwnDocument
<1>2. CASE IndexPurges(a)
  <2>1. /\ \A b \in Actors : b # a => task'[b] = task[b]
        /\ task'[a].pc = "store" /\ task'[a].doc = d
        /\ task'[a].snap = snap /\ task[a].pc = "purge"
    BY <1>2, TaskReplacements DEF IndexPurges, TaskSteps
  <2>2. /\ points'[d] = {} /\ \A e \in Docs : e # d => points'[e] = points[e]
        /\ UNCHANGED <<row, queue, scan, exposed>>
    BY <1>2, <1>a DEF IndexPurges
  <2>3. TaskAgrees(a, d) => TaskAgrees(a, d)'
    BY <2>1, <2>2 DEF TaskAgrees, Current, Indexing, Erasing
  <2>4. RowAgrees(d) => RowAgrees(d)'
    BY <2>1, <2>2 DEF RowAgrees
  <2> QED
    BY <1>a, <2>1, <2>2, <2>3, <2>4, OwnDocument
<1>3. CASE IndexStores(a)
  <2>1. /\ \A b \in Actors : b # a => task'[b] = task[b]
        /\ task'[a].pc = "commit" /\ task'[a].doc = d
        /\ task'[a].snap = snap /\ task'[a].text = task[a].text /\ task[a].pc = "store"
    BY <1>3, TaskReplacements DEF IndexStores, TaskSteps
  <2>2. /\ points'[d] = {p \in points[d] : p.version # snap.hash}
                          \cup {[version |-> snap.hash, text |-> task[a].text]}
        /\ \A e \in Docs : e # d => points'[e] = points[e]
        /\ UNCHANGED <<row, queue, scan, exposed>>
    BY <1>3, <1>a DEF IndexStores
  <2>3. TaskAgrees(a, d) => TaskAgrees(a, d)'
    <3> SUFFICES ASSUME TaskAgrees(a, d)
                 PROVE  TaskAgrees(a, d)'
      OBVIOUS
    <3>1. points[d] = {} /\ snap.hash = row[d].hash
      BY <2>1 DEF TaskAgrees, Current, Indexing
    <3>2. points'[d] = {[version |-> row[d].hash, text |-> task[a].text]}
      BY <2>2, <3>1
    <3> QED
      BY <2>1, <2>2, <3>2 DEF TaskAgrees, Current, Indexing, Erasing
  <2>4. RowAgrees(d) => RowAgrees(d)'
    BY <2>1, <2>2 DEF RowAgrees
  <2> QED
    BY <1>a, <2>1, <2>2, <2>3, <2>4, OwnDocument
<1>4. CASE IndexCommits(a)
  <2>1. /\ \A b \in Actors : b # a => task'[b] = task[b]
        /\ task'[a].doc = None /\ task[a].pc = "commit"
    BY <1>4, TaskReplacements DEF IndexCommits
  <2>2. /\ \A e \in Docs : e # d => row'[e] = row[e]
        /\ row'[d].hash = row[d].hash /\ row'[d].deleted = row[d].deleted
        /\ row'[d].status = Column(row[d].status, snap.status, "INDEXED")
        /\ UNCHANGED <<points, queue, scan, exposed>>
    <3>1. row'[d] = [row[d] EXCEPT
                      !.status = Column(row[d].status, snap.status, "INDEXED"),
                      !.indexed = Column(row[d].indexed, snap.indexed, snap.hash)]
      BY <1>4, <1>a DEF IndexCommits
    <3>2. \A e \in Docs : e # d => row'[e] = row[e]
      BY <1>4 DEF IndexCommits
    <3> QED
      BY <1>4, <1>a, <3>1, <3>2 DEF IndexCommits, Row
  <2>3. TaskAgrees(a, d) => RowAgrees(d)'
    <3> SUFFICES ASSUME TaskAgrees(a, d)
                 PROVE  RowAgrees(d)'
      OBVIOUS
    <3>1. /\ snap.status = row[d].status /\ ~row[d].deleted
          /\ points[d] = {[version |-> row[d].hash, text |-> task[a].text]}
      BY <2>1 DEF TaskAgrees, Current, Indexing
    <3>2. row'[d].status = "INDEXED" /\ ~row'[d].deleted
      BY <2>2, <3>1 DEF Column
    <3>3. Agrees(d)'
      <4>1. points'[d] = {[version |-> row[d].hash, text |-> task[a].text]}
        BY <2>2, <3>1
      <4>2. Cardinality(points'[d]) = 1
        BY <4>1, FS_Singleton
      <4>3. {p.version : p \in points'[d]} = {row'[d].hash}
        BY <2>2, <4>1
      <4> QED
        BY <3>2, <4>2, <4>3 DEF Agrees
    <3> QED
      BY <3>2, <3>3 DEF RowAgrees
  <2> QED
    BY <1>a, <2>1, <2>2, <2>3, OwnDocument
<1> QED
  BY <1>1, <1>2, <1>3, <1>4

LEMMA ErasingAgrees ==
  ASSUME TypeInv, AgreementInv, NEW a \in Actors, NEW d, NEW snap,
         d = task[a].doc, snap = task[a].snap,
         Erases(a) \/ EraseCommits(a)
  PROVE  AgreementInv'
<1> USE FactsOfTypeInv
<1>a. task[a] \in Task /\ task[a].pc # "idle" /\ d \in Docs /\ row[d] \in Row /\ d # None
  <2>1. task[a].pc # "idle"
    BY DEF Erases, EraseCommits
  <2> QED
    BY <2>1, KnowledgeAssumption DEF TaskWork
<1>1. CASE Erases(a)
  <2>1. /\ \A b \in Actors : b # a => task'[b] = task[b]
        /\ task'[a].pc = "erased" /\ task'[a].doc = d
        /\ task'[a].snap = snap /\ task[a].pc = "erase"
    BY <1>1, TaskReplacements DEF Erases, TaskSteps
  <2>2. /\ points'[d] = {} /\ \A e \in Docs : e # d => points'[e] = points[e]
        /\ UNCHANGED <<row, queue, scan, exposed>>
    BY <1>1, <1>a DEF Erases
  <2>3. TaskAgrees(a, d) => TaskAgrees(a, d)'
    BY <2>1, <2>2 DEF TaskAgrees, Current, Indexing, Erasing
  <2>4. RowAgrees(d) => RowAgrees(d)'
    BY <2>1, <2>2 DEF RowAgrees
  <2> QED
    BY <1>a, <2>1, <2>2, <2>3, <2>4, OwnDocument
<1>2. CASE EraseCommits(a)
  <2> DEFINE loaded == IF a = Worker THEN snap ELSE row[d]
  <2>1. /\ \A b \in Actors : b # a => task'[b] = task[b]
        /\ task'[a].doc = None /\ task[a].pc = "erased"
    BY <1>2, TaskReplacements DEF EraseCommits
  <2>2. /\ \A e \in Docs : e # d => row'[e] = row[e]
        /\ row'[d].hash = row[d].hash /\ row'[d].deleted = row[d].deleted
        /\ row'[d].status = Column(row[d].status, loaded.status, "DELETED")
        /\ UNCHANGED <<points, queue, scan, exposed>>
    <3>1. row'[d] = [row[d] EXCEPT
                      !.status = Column(row[d].status, loaded.status, "DELETED"),
                      !.indexed = Column(row[d].indexed, loaded.indexed, None)]
      BY <1>2, <1>a DEF EraseCommits
    <3>2. \A e \in Docs : e # d => row'[e] = row[e]
      BY <1>2 DEF EraseCommits
    <3> QED
      BY <1>2, <1>a, <3>1, <3>2 DEF EraseCommits, Row
  <2>3. TaskAgrees(a, d) => RowAgrees(d)'
    <3> SUFFICES ASSUME TaskAgrees(a, d)
                 PROVE  RowAgrees(d)'
      OBVIOUS
    <3>1. snap.status = row[d].status /\ row[d].deleted /\ points[d] = {}
      BY <2>1 DEF TaskAgrees, Current, Erasing
    <3>2. row'[d].status = "DELETED" /\ row'[d].deleted /\ points'[d] = {}
      BY <2>2, <3>1 DEF Column
    <3> QED
      BY <3>2 DEF RowAgrees, Agrees
  <2> QED
    BY <1>a, <2>1, <2>2, <2>3, OwnDocument
<1> QED
  BY <1>1, <1>2

(* An attempt that fails leaves the status as it is, or stores one that     *)
(* promises nothing of the points.                                          *)
LEMMA FailingAgrees ==
  ASSUME TypeInv, AgreementInv, NEW a \in Actors, NEW d, NEW snap,
         d = task[a].doc, snap = task[a].snap,
         Unidentified(a) \/ Unreadable(a) \/ StoreFails(a)
  PROVE  AgreementInv'
<1> USE FactsOfTypeInv
<1>a. /\ task[a] \in Task /\ d \in Docs /\ row[d] \in Row /\ d # None
      /\ task[a].pc \in {"index", "erase", "purge", "store"}
      /\ task[a].pc # "idle"
  <2>1. task[a].pc \in {"index", "erase", "purge", "store"} /\ task[a].pc # "idle"
    BY DEF Unidentified, Unreadable, StoreFails
  <2> QED
    BY <2>1, KnowledgeAssumption DEF TaskWork
<1>b. PICK status \in {"PENDING", "FAILED"} : Fails(a, status)
  BY DEF Unidentified, Unreadable, StoreFails
<1>c. /\ \A b \in Actors : b # a => task'[b] = task[b]
      /\ task'[a].doc = None
  BY <1>b, TaskReplacements DEF Fails
<1>d. exposed \subseteq exposed' /\ UNCHANGED scan
      /\ \A e \in Docs : queue'[e] \in {queue[e], NoRow}
  BY DEF Unidentified, Unreadable, StoreFails, Expose
<1>e. \A e \in Docs : e # d => row'[e] = row[e] /\ points'[e] = points[e]
  <2>1. \A e \in Docs : e # d => row'[e] = row[e]
    BY <1>b DEF Fails
  <2>2. \A e \in Docs : e # d => points'[e] = points[e]
    BY DEF Unidentified, Unreadable, StoreFails
  <2> QED
    BY <2>1, <2>2
<1>1. points'[d] \in {points[d], {}} \/ task[a].pc = "store"
  BY <1>a DEF Unidentified, Unreadable, StoreFails
<1>2. /\ task[a].pc \in {"index"} => points'[d] = points[d]
      /\ task[a].pc \in {"purge", "store"} /\ row'[d].status = "INDEXED" => d \in exposed'
  BY <1>a DEF Unidentified, Unreadable, StoreFails, Expose
<1>3. ASSUME d \notin exposed', TaskAgrees(a, d), RowAgrees(d),
             task[a].pc \notin {"store", "commit", "erased"} => Agrees(d)
      PROVE  RowAgrees(d)'
  <2>1. /\ Current(snap, d)
        /\ row[d].deleted <=> task[a].pc = "erase"
    BY <1>3, <1>a DEF TaskAgrees, Indexing, Erasing
  <2>2. CASE row' = row
    <3>1. row[d].status = "INDEXED" => ~row[d].deleted /\ points'[d] = points[d]
      BY <1>3, <1>a, <1>2, <2>1, <2>2 DEF RowAgrees
    <3>2. row[d].status = "DELETED" => task[a].pc = "erase"
      BY <1>3, <2>1 DEF RowAgrees
    <3>3. row[d].status = "INDEXED" => task[a].pc = "index"
      BY <1>3, <1>a, <1>2, <2>1, <2>2 DEF RowAgrees
    <3>4. Agrees(d)'
      BY <1>3, <1>1, <2>2, <3>1, <3>2, <3>3 DEF Agrees
    <3> QED
      BY <1>3, <2>2, <3>4 DEF RowAgrees
  <2>3. CASE row'[d] = [row[d] EXCEPT !.status = Column(row[d].status, snap.status, status)]
    <3>1. row'[d].status = status
      BY <1>a, <2>1, <2>3 DEF Row, Column, Current
    <3> QED
      BY <1>b, <3>1 DEF RowAgrees, Agrees
  <2>4. row' = row \/ row'[d] = [row[d] EXCEPT !.status = Column(row[d].status, snap.status, status)]
    BY <1>a, <1>b DEF Fails
  <2> QED
    BY <2>2, <2>3, <2>4
<1> QED
  BY <1>a, <1>c, <1>d, <1>e, <1>3, OwnDocument

(* A task that starts on a document nobody else works on.                   *)
LEMMA StartAgrees ==
  ASSUME TypeInv, AgreementInv, NEW a \in Actors, task[a].pc = "idle", NEW d \in Docs,
         exposed \subseteq exposed', UNCHANGED <<points, scan>>,
         \A b \in Actors : b # a => task'[b] = task[b],
         task'[a].doc = d,
         \A e \in Docs : e # d => row'[e] = row[e] /\ queue'[e] = queue[e],
         d \notin exposed' =>
           /\ \A b \in Actors : task[b].doc # d
           /\ \A s \in Scans : scan[s].doc # d
           /\ queue'[d] = NoRow
           /\ TaskAgrees(a, d)'
           /\ RowAgrees(d)'
  PROVE  AgreementInv'
<1> SUFFICES ASSUME NEW e \in Docs \ exposed'
             PROVE  DocInv(e)'
  BY DEF AgreementInv
<1>1. DocInv(e)
  BY DEF AgreementInv
<1>2. CASE e # d
  <2>1. row'[e].status = "none" => row'[e] = NoRow
    BY <1>1, <1>2 DEF DocInv, RowAgrees
  <2> QED
    BY <1>1, <1>2, <2>1, Untouched
<1>3. CASE e = d
  BY <1>3, OneUser
<1> QED
  BY <1>2, <1>3

LEMMA RequestAgrees ==
  ASSUME TypeInv, AgreementInv, NEW r \in Requests, NEW d \in Docs,
         \/ Delete(r, d) \/ Retry(r, d)
         \/ \E content \in Contents : Upload(r, d, content)
  PROVE  AgreementInv'
<1> USE FactsOfTypeInv
<1>a. r \in Actors /\ task[r].pc = "idle" /\ row[d] \in Row
  BY DEF Actors, Delete, Retry, Upload
<1>b. /\ exposed \subseteq exposed' /\ UNCHANGED <<points, queue, scan>>
      /\ \A e \in Docs : e # d => row'[e] = row[e]
  BY DEF Delete, Retry, Upload, Expose, ExposeIfBusy
<1>c. d \notin exposed' => DocInv(d) /\ ~Busy(d)
  BY DEF AgreementInv, Delete, Retry, Upload, Expose, ExposeIfBusy
<1>d. d \notin exposed' => /\ \A b \in Actors : task[b].doc # d
                           /\ \A s \in Scans : scan[s].doc # d
                           /\ queue'[d] = NoRow
                           /\ Agrees(d)
  BY <1>b, <1>c, NotBusy
<1>1. CASE Delete(r, d)
  <2>1. /\ \A b \in Actors : b # r => task'[b] = task[b]
        /\ task'[r] = [pc |-> "erase", doc |-> d, snap |-> row'[d], text |-> None]
    BY <1>1, <1>a, TaskReplacements DEF Delete
  <2>2. row'[d].deleted /\ row'[d].status = "DELETE_PENDING"
    <3>1. row' = [row EXCEPT ![d].deleted = TRUE, ![d].status = "DELETE_PENDING"]
      BY <1>1 DEF Delete
    <3> QED
      BY <3>1, <1>a DEF Row
  <2>3. TaskAgrees(r, d)'
    <3>1. task'[r].pc = "erase" /\ task'[r].snap = row'[d]
      BY <2>1
    <3> QED
      BY <2>2, <3>1 DEF TaskAgrees, Current, Indexing, Erasing
  <2>4. RowAgrees(d)'
    BY <2>2 DEF RowAgrees, Agrees
  <2> QED
    BY <1>a, <1>b, <1>d, <2>1, <2>3, <2>4, StartAgrees
<1>2. CASE Retry(r, d)
  <2>1. /\ \A b \in Actors : b # r => task'[b] = task[b]
        /\ task'[r] = [pc |-> "index", doc |-> d, snap |-> row'[d], text |-> None]
    BY <1>2, <1>a, TaskReplacements DEF Retry
  <2>2. row'[d].deleted = row[d].deleted /\ row'[d].status = "PENDING"
    <3>1. row' = [row EXCEPT ![d].status = "PENDING"]
      BY <1>2 DEF Retry
    <3> QED
      BY <3>1, <1>a DEF Row
  <2>3. d \notin exposed' => ~row[d].deleted
    BY <1>2 DEF Retry, Expose
  <2>4. d \notin exposed' => TaskAgrees(r, d)'
    BY <2>1, <2>2, <2>3 DEF TaskAgrees, Current, Indexing, Erasing
  <2>5. RowAgrees(d)'
    BY <2>2 DEF RowAgrees, Agrees
  <2> QED
    BY <1>a, <1>b, <1>d, <2>1, <2>4, <2>5, StartAgrees
<1>3. ASSUME NEW content \in Contents, Upload(r, d, content)
      PROVE  AgreementInv'
  <2>1. /\ \A b \in Actors : b # r => task'[b] = task[b]
        /\ task'[r] = [pc |-> "upsert", doc |-> d, snap |-> NoRow, text |-> content]
        /\ row' = row
    BY <1>3, <1>a, TaskReplacements DEF Upload
  <2>2. TaskAgrees(r, d)'
    BY <2>1 DEF TaskAgrees, Indexing, Erasing
  <2>3. d \notin exposed' => RowAgrees(d)'
    <3>1. Agrees(d) => Agrees(d)'
      BY <1>b, <2>1 DEF Agrees
    <3> QED
      BY <1>c, <1>d, <2>1, <3>1 DEF DocInv, RowAgrees
  <2> QED
    BY <1>a, <1>b, <1>d, <2>1, <2>2, <2>3, StartAgrees
<1> QED
  BY <1>1, <1>2, <1>3

LEMMA UploadStoresAgrees ==
  ASSUME TypeInv, AgreementInv, NEW r \in Requests, NEW d, d = task[r].doc, UploadStores(r)
  PROVE  AgreementInv'
<1> USE FactsOfTypeInv
<1>a. r \in Actors /\ task[r].pc = "upsert" /\ d \in Docs /\ row[d] \in Row /\ d # None
  <2>1. r \in Actors /\ task[r].pc = "upsert"
    BY DEF Actors, UploadStores
  <2> QED
    BY <2>1, KnowledgeAssumption DEF TaskWork
<1>b. UNCHANGED <<points, queue, scan, exposed>>
  BY DEF UploadStores
<1>c. Agrees(d) /\ row'[d].hash = row[d].hash /\ row'[d].status = row[d].status => Agrees(d)'
  BY <1>b DEF Agrees
<1>1. CASE file[d] = None
  <2>1. row' = row /\ End(r)
    BY <1>1 DEF UploadStores
  <2>2. (\A b \in Actors : b # r => task'[b] = task[b]) /\ task'[r].doc = None
    BY <1>a, <2>1, TaskReplacements
  <2>3. RowAgrees(d) /\ Agrees(d) => RowAgrees(d)'
    BY <1>c, <2>1 DEF RowAgrees
  <2> QED
    BY <1>a, <1>b, <2>1, <2>2, <2>3, OwnDocument
<1>2. CASE file[d] # None
  <2>1. Begin(r, "index", d, row'[d], None)
    BY <1>2 DEF UploadStores
  <2>2. /\ \A b \in Actors : b # r => task'[b] = task[b]
        /\ task'[r] = [pc |-> "index", doc |-> d, snap |-> row'[d], text |-> None]
    BY <1>a, <2>1, TaskReplacements
  <2>3. task'[r].pc = "index" /\ task'[r].doc = d /\ task'[r].snap = row'[d]
    BY <2>2
  <2>4. \A e \in Docs : e # d => row'[e] = row[e]
    BY <1>2 DEF UploadStores
  <2>5. \/ row[d] # NoRow /\ ~row[d].deleted /\ row' = [row EXCEPT ![d].seen = file[d]]
        \/ row' = [row EXCEPT ![d] = [hash |-> task[r].text, indexed |-> None,
                       deleted |-> FALSE, status |-> "PENDING", seen |-> file[d]]]
    BY <1>2 DEF UploadStores
  <2>6. CASE row[d] # NoRow /\ ~row[d].deleted /\ row' = [row EXCEPT ![d].seen = file[d]]
    <3>1. /\ row'[d].hash = row[d].hash /\ row'[d].deleted = row[d].deleted
          /\ row'[d].status = row[d].status
      BY <1>a, <2>6 DEF Row
    <3>2. RowAgrees(d) => row'[d].status # "none"
      BY <2>6, <3>1 DEF RowAgrees
    <3>3. RowAgrees(d) => TaskAgrees(r, d)'
      BY <2>3, <2>6, <3>1, <3>2 DEF TaskAgrees, Current, Indexing, Erasing
    <3>4. RowAgrees(d) /\ Agrees(d) => RowAgrees(d)'
      BY <1>c, <3>1, <3>2 DEF RowAgrees
    <3> QED
      BY <1>a, <1>b, <2>2, <2>3, <2>4, <3>3, <3>4, OwnDocument
  <2>7. CASE row' = [row EXCEPT ![d] = [hash |-> task[r].text, indexed |-> None,
                       deleted |-> FALSE, status |-> "PENDING", seen |-> file[d]]]
    <3>1. row'[d].status = "PENDING" /\ ~row'[d].deleted
      BY <1>a, <2>7
    <3>2. TaskAgrees(r, d)'
      BY <2>3, <3>1 DEF TaskAgrees, Current, Indexing, Erasing
    <3>3. RowAgrees(d)'
      BY <3>1 DEF RowAgrees, Agrees
    <3> QED
      BY <1>a, <1>b, <2>2, <2>3, <2>4, <3>2, <3>3, OwnDocument
  <2> QED
    BY <2>5, <2>6, <2>7
<1> QED
  BY <1>1, <1>2

LEMMA WorkerAgrees ==
  ASSUME TypeInv, AgreementInv, WorkerLoads \/ \E d \in Docs : WorkerTakes(d)
  PROVE  AgreementInv'
<1> USE FactsOfTypeInv
<1>1. CASE WorkerLoads
  <2> SUFFICES ASSUME NEW d \in Docs \ exposed'
               PROVE  DocInv(d)'
    BY DEF AgreementInv
  <2>1. UNCHANGED <<row, points, task, scan>> /\ \A e \in Docs : queue[e] = NoRow
    BY <1>1 DEF WorkerLoads
  <2>2. PICK batch \in SUBSET OutstandingDocs :
          /\ queue' = [e \in Docs |-> IF e \in batch THEN row[e] ELSE NoRow]
          /\ ExposeIfBusy(batch)
    BY <1>1 DEF WorkerLoads
  <2>3. DocInv(d)
    BY <2>2 DEF AgreementInv, ExposeIfBusy, Expose
  <2>4. row'[d].status = "none" => row'[d] = NoRow
    BY <2>1, <2>3 DEF DocInv, RowAgrees
  <2>5. CASE d \notin batch
    BY <2>1, <2>2, <2>3, <2>4, <2>5, Untouched
  <2>6. CASE d \in batch
    <3>1. ~Busy(d)
      BY <2>2, <2>6 DEF ExposeIfBusy, Expose
    <3>2. /\ \A b \in Actors : task[b].doc # d
          /\ \A s \in Scans : scan[s].doc # d
          /\ Agrees(d)
      BY <2>3, <3>1, NotBusy
    <3>3. queue'[d] = row[d] /\ row[d].status # "none"
      BY <2>2, <2>6 DEF OutstandingDocs, Outstanding
    <3>4. Current(queue[d], d)'
      BY <2>1, <3>3 DEF Current
    <3>5. Agrees(d)'
      BY <2>1, <3>2 DEF Agrees
    <3>6. RowAgrees(d)'
      BY <2>1, <2>3, <3>5 DEF DocInv, RowAgrees
    <3> QED
      BY <2>1, <3>2, <3>4, <3>6 DEF DocInv, SoleUser
  <2> QED
    BY <2>5, <2>6
<1>2. ASSUME NEW d \in Docs, WorkerTakes(d)
      PROVE  AgreementInv'
  <2>a. Worker \in Actors /\ task[Worker].pc = "idle" /\ queue[d] # NoRow
    BY <1>2 DEF WorkerTakes, Actors
  <2>b. /\ UNCHANGED <<row, points, scan, exposed>>
        /\ queue'[d] = NoRow /\ \A e \in Docs : e # d => queue'[e] = queue[e]
    BY <1>2 DEF WorkerTakes
  <2>c. d \notin exposed =>
          /\ DocInv(d)
          /\ \A b \in Actors : task[b].doc # d
          /\ \A s \in Scans : scan[s].doc # d
          /\ Current(queue[d], d)
          /\ RowAgrees(d) /\ Agrees(d)
    BY <2>a DEF AgreementInv, DocInv, SoleUser, RowAgrees
  <2>d. Agrees(d) => Agrees(d)'
    BY <2>b DEF Agrees
  <2>e. d \notin exposed => RowAgrees(d)'
    BY <2>b, <2>c, <2>d DEF RowAgrees
  <2>1. CASE UNCHANGED task
    <3> SUFFICES ASSUME NEW e \in Docs \ exposed'
                 PROVE  DocInv(e)'
      BY DEF AgreementInv
    <3>1. DocInv(e)
      BY <2>b DEF AgreementInv
    <3>2. row'[e].status = "none" => row'[e] = NoRow
      BY <2>b, <3>1 DEF DocInv, RowAgrees
    <3> QED
      BY <2>1, <2>b, <3>1, <3>2, Untouched
  <2>2. CASE /\ queue[d].deleted \/ queue[d].status = "DELETE_PENDING"
             /\ Begin(Worker, "erase", d, queue[d], None)
    <3>1. /\ \A b \in Actors : b # Worker => task'[b] = task[b]
          /\ task'[Worker] = [pc |-> "erase", doc |-> d, snap |-> queue[d], text |-> None]
      BY <2>2, <2>a, TaskReplacements
    <3>2. /\ task'[Worker].pc = "erase" /\ task'[Worker].doc = d
          /\ task'[Worker].snap = queue[d]
      BY <3>1
    <3>3. d \notin exposed => row[d].deleted
      BY <2>2, <2>c DEF Current, RowAgrees
    <3>4. d \notin exposed => TaskAgrees(Worker, d)'
      BY <2>b, <2>c, <3>2, <3>3 DEF TaskAgrees, Current, Indexing, Erasing
    <3> QED
      BY <2>a, <2>b, <2>c, <2>e, <3>1, <3>2, <3>4, StartAgrees
  <2>3. CASE ~queue[d].deleted /\ Begin(Worker, "index", d, queue[d], None)
    <3>1. /\ \A b \in Actors : b # Worker => task'[b] = task[b]
          /\ task'[Worker] = [pc |-> "index", doc |-> d, snap |-> queue[d], text |-> None]
      BY <2>3, <2>a, TaskReplacements
    <3>2. /\ task'[Worker].pc = "index" /\ task'[Worker].doc = d
          /\ task'[Worker].snap = queue[d]
      BY <3>1
    <3>3. d \notin exposed => TaskAgrees(Worker, d)'
      BY <2>b, <2>c, <2>3, <3>2 DEF TaskAgrees, Current, Indexing, Erasing
    <3> QED
      BY <2>a, <2>b, <2>c, <2>e, <3>1, <3>2, <3>3, StartAgrees
  <2> QED
    BY <1>2, <2>1, <2>2, <2>3 DEF WorkerTakes
<1> QED
  BY <1>1, <1>2

(* A scan touches the rows it hashes or sweeps; the others keep what DocInv *)
(* reads of them.                                                           *)
LEMMA ScanLeaves ==
  ASSUME TypeInv, NEW s \in Scans, NEW d \in Docs, DocInv(d),
         row'[d] = row[d], UNCHANGED <<points, task, queue>>,
         \A t \in Scans : t # s => scan'[t] = scan[t],
         scan'[s].doc = d => scan[s].doc = d /\ scan'[s].snap = scan[s].snap
  PROVE  DocInv(d)'
<1>1. row'[d].status = "none" => row'[d] = NoRow
  BY DEF DocInv, RowAgrees
<1> QED
  BY <1>1, Untouched

LEMMA ScanMovesAgree ==
  ASSUME TypeInv, AgreementInv, NEW s \in Scans, ScanWalks(s) \/ ScanFails(s)
  PROVE  AgreementInv'
<1> USE FactsOfTypeInv
<1>1. /\ scan'[s].doc = None /\ \A t \in Scans : t # s => scan'[t] = scan[t]
      /\ UNCHANGED <<row, points, task, queue, exposed>>
  <2> DEFINE found == {d \in Docs : file[d] # None}
             u == [NoScan EXCEPT !.pc = "walk", !.found = found, !.todo = found]
  <2>1. scan' = [scan EXCEPT ![s] = u] \/ scan' = [scan EXCEPT ![s] = NoScan]
    BY DEF ScanWalks, ScanFails
  <2>2. u.doc = None /\ NoScan.doc = None
    BY DEF NoScan
  <2> HIDE DEF u
  <2>3. scan'[s].doc = None /\ \A t \in Scans : t # s => scan'[t] = scan[t]
    BY <2>1, <2>2
  <2> QED
    BY <2>3 DEF ScanWalks, ScanFails
<1>2. ASSUME NEW d \in Docs \ exposed'
      PROVE  DocInv(d)'
  <2>1. DocInv(d) /\ d # None
    BY <1>1, KnowledgeAssumption DEF AgreementInv
  <2> QED
    BY <1>1, <2>1, ScanLeaves
<1> QED
  BY <1>2 DEF AgreementInv

LEMMA ScanPassesAgrees ==
  ASSUME TypeInv, AgreementInv, NEW s \in Scans, NEW e \in Docs, ScanPasses(s, e)
  PROVE  AgreementInv'
<1> USE FactsOfTypeInv
<1>1. /\ \A t \in Scans : t # s => scan'[t] = scan[t]
      /\ scan'[s].doc = scan[s].doc /\ scan'[s].snap = scan[s].snap
      /\ UNCHANGED <<points, task, queue, exposed>>
  <2>1. scan' = [scan EXCEPT ![s] = [scan[s] EXCEPT !.todo = @ \ {e}]]
    BY DEF ScanPasses
  <2>2. \A t \in Scans : t # s => scan'[t] = scan[t]
    BY <2>1
  <2>3. scan'[s] = [scan[s] EXCEPT !.todo = @ \ {e}] /\ scan[s] \in Scan
    BY <2>1
  <2>4. scan'[s].doc = scan[s].doc /\ scan'[s].snap = scan[s].snap
    BY <2>3 DEF Scan
  <2> QED
    BY <2>2, <2>4 DEF ScanPasses
<1>2. \A d \in Docs : d # e => row'[d] = row[d]
  BY DEF ScanPasses
<1>3. \/ row[e] = NoRow /\ row'[e] = [NoRow EXCEPT !.status = "PENDING", !.seen = file[e]]
      \/ row[e] # NoRow /\ row'[e] = [row[e] EXCEPT !.seen = file[e]]
      \/ row'[e] = row[e]
  BY DEF ScanPasses
<1>4. ASSUME NEW d \in Docs \ exposed'
      PROVE  DocInv(d)'
  <2>1. DocInv(d) /\ row[d] \in Row
    BY <1>1 DEF AgreementInv
  <2>2. CASE row'[d] = row[d]
    BY <1>1, <2>1, <2>2, ScanLeaves
  <2>3. CASE d = e /\ row[e] # NoRow /\ row'[e] = [row[e] EXCEPT !.seen = file[e]]
    <3>1. /\ row'[d].hash = row[d].hash /\ row'[d].deleted = row[d].deleted
          /\ row'[d].status = row[d].status
      BY <2>1, <2>3 DEF Row
    <3>2. row'[d].status # "none"
      BY <2>1, <2>3, <3>1 DEF DocInv, RowAgrees
    <3> QED
      BY <1>1, <2>1, <3>1, <3>2, Untouched
  <2>4. CASE d = e /\ row[e] = NoRow
             /\ row'[e] = [NoRow EXCEPT !.status = "PENDING", !.seen = file[e]]
    <3>1. row[d].status = "none" /\ row'[d].status = "PENDING" /\ ~row'[d].deleted
      BY <2>4 DEF NoRow
    <3>2. \A a \in Actors : task[a].doc = d => task[a].pc \notin Indexing \cup Erasing
      BY <2>1, <3>1 DEF DocInv, TaskAgrees, Current
    <3>3. (\A t \in Scans : scan[t].doc # d) /\ queue[d] = NoRow
      BY <2>1, <3>1 DEF DocInv, Current
    <3>4. \A t \in Scans : scan'[t].doc # d
      BY <1>1, <3>3
    <3>5. \A a \in Actors : task[a].doc = d => TaskAgrees(a, d)'
      BY <1>1, <3>2 DEF TaskAgrees, Indexing, Erasing
    <3>6. RowAgrees(d)'
      BY <3>1 DEF RowAgrees, Agrees
    <3> QED
      BY <1>1, <2>1, <3>3, <3>4, <3>5, <3>6 DEF DocInv, SoleUser
  <2> QED
    BY <1>2, <1>3, <2>2, <2>3, <2>4
<1> QED
  BY <1>4 DEF AgreementInv

LEMMA ScanHashesAgrees ==
  ASSUME TypeInv, AgreementInv, NEW s \in Scans, NEW e \in Docs, ScanHashes(s, e)
  PROVE  AgreementInv'
<1> USE FactsOfTypeInv
<1>1. /\ \A t \in Scans : t # s => scan'[t] = scan[t]
      /\ scan'[s].doc = e /\ scan'[s].snap = row[e]
      /\ UNCHANGED <<row, points, task, queue>>
      /\ row[e] # NoRow /\ ~row[e].deleted
  <2>1. scan' = [scan EXCEPT ![s] = [scan[s] EXCEPT !.pc = "hash", !.todo = @ \ {e},
                                       !.doc = e, !.snap = row[e], !.text = file[e]]]
    BY DEF ScanHashes
  <2> QED
    BY <2>1 DEF ScanHashes, Scan
<1>2. ASSUME NEW d \in Docs \ exposed'
      PROVE  DocInv(d)'
  <2>1. DocInv(d) /\ (d = e => ~Busy(d))
    BY DEF AgreementInv, ScanHashes, ExposeIfBusy, Expose
  <2>2. CASE d # e
    BY <1>1, <2>1, <2>2, ScanLeaves
  <2>3. CASE d = e
    <3>1. /\ \A b \in Actors : task[b].doc # d
          /\ \A t \in Scans : scan[t].doc # d
          /\ queue[d] = NoRow
          /\ Agrees(d)
      BY <2>1, <2>3, NotBusy
    <3>2. row[d].status # "none"
      BY <1>1, <2>1, <2>3 DEF DocInv, RowAgrees
    <3>3. \A t \in Scans : scan'[t].doc = d => t = s
      BY <1>1, <3>1
    <3>4. Current(scan[s].snap, d)' /\ ~row'[d].deleted
      BY <1>1, <2>3, <3>2 DEF Current
    <3>5. Agrees(d)'
      BY <1>1, <3>1 DEF Agrees
    <3>6. RowAgrees(d)'
      BY <1>1, <2>1, <3>5 DEF DocInv, RowAgrees
    <3>7. SoleUser(d)'
      BY <1>1, <3>1, <3>3 DEF SoleUser
    <3> QED
      BY <1>1, <3>1, <3>3, <3>4, <3>6, <3>7 DEF DocInv
  <2> QED
    BY <2>2, <2>3
<1> QED
  BY <1>2 DEF AgreementInv

LEMMA ScanStoresAgrees ==
  ASSUME TypeInv, AgreementInv, NEW s \in Scans, NEW e, NEW snap,
         e = scan[s].doc, snap = scan[s].snap, ScanStores(s)
  PROVE  AgreementInv'
<1> USE FactsOfTypeInv
<1>1. /\ \A t \in Scans : t # s => scan'[t] = scan[t]
      /\ scan'[s].doc = None
      /\ UNCHANGED <<points, task, queue, exposed>>
      /\ e \in Docs /\ e # None /\ row[e] \in Row
  <2>1. scan[s].pc = "hash" /\ ScanResumes(s)
    BY DEF ScanStores
  <2>2. scan' = [scan EXCEPT ![s] = [scan[s] EXCEPT !.pc = "walk", !.doc = None,
                                       !.snap = NoRow, !.text = None]]
    BY <2>1 DEF ScanResumes
  <2>3. e \in Docs
    BY <2>1 DEF ScanWork
  <2> QED
    BY <2>2, <2>3, KnowledgeAssumption DEF ScanStores, Scan
<1>2. \/ row' = row
      \/ row' = [row EXCEPT ![e].hash = scan[s].text,
                            ![e].status = Column(@, snap.status, "PENDING"),
                            ![e].indexed = Column(@, snap.indexed, None)]
  BY DEF ScanStores
<1>3. ASSUME NEW d \in Docs \ exposed'
      PROVE  DocInv(d)'
  <2>1. DocInv(d) /\ d # None
    BY <1>1, KnowledgeAssumption DEF AgreementInv
  <2>2. CASE row'[d] = row[d]
    BY <1>1, <2>1, <2>2, ScanLeaves
  <2>3. CASE d # e
    <3>1. row'[d] = row[d]
      BY <1>2, <2>3
    <3> QED
      BY <2>2, <3>1
  <2>4. CASE d = e /\ row'[e] = [row[e] EXCEPT !.hash = scan[s].text,
                            !.status = Column(@, snap.status, "PENDING"),
                            !.indexed = Column(@, snap.indexed, None)]
    <3>1. snap.status = row[d].status /\ ~row[d].deleted
      BY <2>1, <2>4 DEF DocInv, Current
    <3>2. /\ \A b \in Actors : task[b].doc # d
          /\ \A t \in Scans : t # s => scan[t].doc # d
          /\ queue[d] = NoRow
      BY <2>1, <2>4 DEF DocInv, SoleUser
    <3>3. row'[d].status = "PENDING" /\ ~row'[d].deleted
      <4>1. /\ row'[d].status = Column(row[d].status, snap.status, "PENDING")
            /\ row'[d].deleted = row[d].deleted
        BY <1>1, <2>4 DEF Row
      <4> QED
        BY <3>1, <4>1 DEF Column
    <3>4. RowAgrees(d)'
      BY <3>3 DEF RowAgrees, Agrees
    <3>5. \A t \in Scans : scan'[t].doc # d
      BY <1>1, <2>1, <3>2
    <3> QED
      BY <1>1, <3>2, <3>4, <3>5 DEF DocInv, SoleUser
  <2> QED
    BY <1>1, <1>2, <2>2, <2>3, <2>4
<1> QED
  BY <1>3 DEF AgreementInv

LEMMA ScanSweepsAgrees ==
  ASSUME TypeInv, AgreementInv, NEW s \in Scans, ScanSweeps(s)
  PROVE  AgreementInv'
<1> USE FactsOfTypeInv
<1> DEFINE missing == {d \in Docs \ scan[s].found : row[d] # NoRow /\ ~row[d].deleted}
<1>1. /\ \A t \in Scans : t # s => scan'[t] = scan[t]
      /\ scan'[s].doc = None
      /\ UNCHANGED <<points, task, queue>>
  BY DEF ScanSweeps, NoScan
<1>2. /\ row' = [d \in Docs |->
                  IF d \in missing
                    THEN [row[d] EXCEPT !.deleted = TRUE, !.status = "DELETE_PENDING"]
                    ELSE row[d]]
      /\ ExposeIfBusy(missing)
  BY DEF ScanSweeps
<1> HIDE DEF missing
<1>3. ASSUME NEW d \in Docs \ exposed'
      PROVE  DocInv(d)'
  <2>1. DocInv(d) /\ d # None /\ (d \in missing => ~Busy(d)) /\ row[d] \in Row
    BY <1>2, KnowledgeAssumption DEF AgreementInv, ExposeIfBusy, Expose
  <2>2. CASE d \notin missing
    <3>1. row'[d] = row[d]
      BY <1>2, <2>2
    <3> QED
      BY <1>1, <2>1, <3>1, ScanLeaves
  <2>3. CASE d \in missing
    <3>1. /\ \A b \in Actors : task[b].doc # d
          /\ \A t \in Scans : scan[t].doc # d
          /\ queue[d] = NoRow
      BY <2>1, <2>3, NotBusy
    <3>2. row'[d].deleted /\ row'[d].status = "DELETE_PENDING"
      BY <1>2, <2>1, <2>3 DEF Row
    <3>3. RowAgrees(d)'
      BY <3>2 DEF RowAgrees, Agrees
    <3>4. \A t \in Scans : scan'[t].doc # d
      BY <1>1, <2>1, <3>1
    <3> QED
      BY <1>1, <3>1, <3>3, <3>4 DEF DocInv, SoleUser
  <2> QED
    BY <2>2, <2>3
<1> QED
  BY <1>3 DEF AgreementInv

(* A restart finds every document as its row says, but an indexed one whose *)
(* points were just purged.                                                 *)
LEMMA CrashAgrees ==
  ASSUME TypeInv, AgreementInv, Crash
  PROVE  AgreementInv'
<1>1. ASSUME NEW d \in Docs \ exposed'
      PROVE  DocInv(d)'
  <2>1. DocInv(d) /\ d # None
    BY KnowledgeAssumption DEF Crash, Expose, AgreementInv
  <2>2. /\ \A a \in Actors : task'[a].doc # d
        /\ \A s \in Scans : scan'[s].doc # d
        /\ queue'[d] = NoRow
    BY <2>1 DEF Crash, Idle, NoScan
  <2>3. UNCHANGED <<row, points>>
    BY DEF Crash
  <2>4. Agrees(d)
    <3>1. ASSUME NEW a \in Actors, task[a].doc = d,
                 task[a].pc \in {"store", "commit", "erased"}
          PROVE  Agrees(d)
      <4>1. TaskAgrees(a, d) /\ RowAgrees(d)
        BY <2>1, <3>1 DEF DocInv
      <4>2. CASE task[a].pc = "store"
        <5>1. row[d].status # "INDEXED"
          BY <3>1, <4>2 DEF Crash, Expose
        <5>2. points[d] = {}
          BY <4>1, <4>2 DEF TaskAgrees
        <5> QED
          BY <5>1, <5>2 DEF Agrees
      <4>3. CASE task[a].pc = "commit"
        <5>1. points[d] = {[version |-> row[d].hash, text |-> task[a].text]}
          BY <4>1, <4>3 DEF TaskAgrees
        <5>2. row[d].status # "DELETED"
          BY <4>1, <4>3 DEF TaskAgrees, Indexing, RowAgrees
        <5> QED
          BY <5>1, <5>2, OneVersion
      <4>4. CASE task[a].pc = "erased"
        <5>1. points[d] = {} /\ row[d].status # "INDEXED"
          BY <4>1, <4>4 DEF TaskAgrees, Erasing, RowAgrees
        <5> QED
          BY <5>1 DEF Agrees
      <4> QED
        BY <3>1, <4>2, <4>3, <4>4
    <3> QED
      BY <2>1, <3>1 DEF DocInv, RowAgrees
  <2>5. RowAgrees(d)'
    <3>1. Agrees(d)'
      BY <2>3, <2>4 DEF Agrees
    <3> QED
      BY <2>1, <2>3, <3>1 DEF DocInv, RowAgrees
  <2> QED
    BY <2>2, <2>5 DEF DocInv, SoleUser
<1> QED
  BY <1>1 DEF AgreementInv

LEMMA OutsideAgrees ==
  ASSUME AgreementInv,
         \/ Register \/ Unregister \/ UNCHANGED vars
         \/ \E d \in Docs, content \in Contents \cup {None} : ChangeDirectly(d, content)
  PROVE  AgreementInv'
<1>1. UNCHANGED <<row, points, task, queue, scan, exposed>>
  BY DEF Register, Unregister, ChangeDirectly, vars
<1>2. ASSUME NEW d \in Docs \ exposed'
      PROVE  DocInv(d)'
  <2>1. DocInv(d)
    BY <1>1 DEF AgreementInv
  <2>2. row'[d].status = "none" => row'[d] = NoRow
    BY <1>1, <2>1 DEF DocInv, RowAgrees
  <2> QED
    BY <1>1, <2>1, <2>2, Untouched
<1> QED
  BY <1>2 DEF AgreementInv

LEMMA AgreementInvInit == Init => AgreementInv
<1> SUFFICES ASSUME Init, NEW d \in Docs
             PROVE  DocInv(d)
  BY DEF AgreementInv
<1>1. /\ row[d] = NoRow /\ queue[d] = NoRow
      /\ \A a \in Actors : task[a].doc # d
      /\ \A s \in Scans : scan[s].doc # d
  BY KnowledgeAssumption DEF Init, Idle, NoScan
<1>2. RowAgrees(d)
  BY <1>1 DEF RowAgrees, Agrees, NoRow
<1> QED
  BY <1>1, <1>2 DEF DocInv, SoleUser

LEMMA AgreementInvKept == TypeInv /\ AgreementInv /\ [Next]_vars => AgreementInv'
<1> SUFFICES ASSUME TypeInv, AgreementInv, [Next]_vars
             PROVE  AgreementInv'
  OBVIOUS
<1>1. CASE Register \/ Unregister \/ UNCHANGED vars
  BY <1>1, OutsideAgrees
<1>2. ASSUME NEW d \in Docs, NEW content \in Contents \cup {None}, ChangeDirectly(d, content)
      PROVE  AgreementInv'
  BY <1>2, OutsideAgrees
<1>3. CASE Crash
  BY <1>3, CrashAgrees
<1>4. CASE WorkerLoads \/ \E d \in Docs : WorkerTakes(d)
  BY <1>4, WorkerAgrees
<1>5. ASSUME NEW r \in Requests, NEW d \in Docs, Delete(r, d) \/ Retry(r, d)
      PROVE  AgreementInv'
  BY <1>5, RequestAgrees
<1>6. ASSUME NEW r \in Requests, NEW d \in Docs, NEW content \in Contents,
             Upload(r, d, content)
      PROVE  AgreementInv'
  BY <1>6, RequestAgrees
<1>7. ASSUME NEW r \in Requests, UploadStores(r)
      PROVE  AgreementInv'
  BY <1>7, UploadStoresAgrees
<1>8. ASSUME NEW a \in Actors, TaskStep(a) \/ StoreFails(a)
      PROVE  AgreementInv'
  BY <1>8, IndexingAgrees, ErasingAgrees, FailingAgrees DEF TaskStep
<1>9. ASSUME NEW s \in Scans, ScanWalks(s) \/ ScanStep(s)
      PROVE  AgreementInv'
  BY <1>9, ScanMovesAgree, ScanPassesAgrees, ScanHashesAgrees, ScanStoresAgrees,
     ScanSweepsAgrees DEF ScanStep
<1> QED
  BY <1>1, <1>2, <1>3, <1>4, <1>5, <1>6, <1>7, <1>8, <1>9 DEF Next

(* README.md:119-121, "Updates replace old chunks and deletion removes      *)
(* every matching point": in every state, whatever crashed, failed, was     *)
(* lost or was changed behind the connector's back, a document that nobody  *)
(* works on and that no hazard has hit has in the store exactly what its    *)
(* row says.                                                                *)
THEOREM IndexAgreement == Spec => []IndexAgrees
<1>1. AgreementInv => IndexAgrees
  <2> SUFFICES ASSUME AgreementInv, NEW d \in Docs, ~Busy(d), d \notin exposed
               PROVE  Agrees(d)
    BY DEF IndexAgrees
  <2>1. DocInv(d)
    BY DEF AgreementInv
  <2> QED
    BY <2>1, NotBusy
<1> QED
  BY <1>1, AgreementInvInit, AgreementInvKept, TypeInvAlways, PTL DEF Spec

=============================================================================
