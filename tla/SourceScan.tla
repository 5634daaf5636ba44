------------------------------ MODULE SourceScan ------------------------------
(***************************************************************************)
(* The scans of one filesystem source: application/services/sources.py,    *)
(* the repositories of sources, scans and documents, the filesystem        *)
(* plugin, the endpoints of api/v1/endpoints/sources.py and the source's   *)
(* job in scheduling.py.                                                   *)
(*                                                                         *)
(* A scan passes a guard that the manual and the scheduled scans of the    *)
(* process share, then stores its progress in one commit after another: in *)
(* the source's row, in a row of the scan history, in the documents.  The  *)
(* endpoints that change or delete the source, or check its directory, do  *)
(* not take the guard.                                                     *)
(*                                                                         *)
(* A statement that the database refuses leaves a session that refuses     *)
(* everything until it is rolled back, and only reconcile_for_source rolls *)
(* back: neither the handler of scan nor its finally block gets anything   *)
(* done then, and the guard is not left (SessionBreaks).                   *)
(*                                                                         *)
(* A file is its relative path and a version, a configuration the files    *)
(* its patterns select.  Left out: timestamps, counts, the skipped rows of *)
(* the history, activity events.                                           *)
(***************************************************************************)
EXTENDS Integers, FiniteSets

CONSTANTS
  File,             \* relative paths
  Configuration,    \* configurations of the source
  Picks,            \* the files each configuration selects
  Scanners,         \* the scans that can be asked for at once
  ScanTimer,        \* the one of the scheduler's job (max_instances = 1)
  MaxContents,      \* bound: the changes of each file
  MaxRequests,      \* bound: manual scans, changes and checks of the source
  MaxBreaks         \* bound: failed scans, failed writes, crashes

ASSUME ScanAssumption ==
  /\ Configuration # {}
  /\ Picks \in [Configuration -> SUBSET File]
  /\ ScanTimer \in Scanners
  /\ MaxContents \in [File -> Nat]
  /\ {MaxRequests, MaxBreaks} \subseteq Nat

VARIABLES
  disk,       \* what the directory holds under each path
  row,        \* the source's row
  doc,        \* the document rows of the source
  open,       \* the number of rows of the scan history that say "running"
  guarded,    \* the source is in SourceScanGuard._active
  timer,      \* the scheduler has a job for the source
  scan,       \* each scan
  edit,       \* a PUT of the source: how far it is
  dropping,   \* a DELETE of the source has removed its job
  requests, breaks   \* how much of the bounds is used

scVars == <<disk, row, doc, open, guarded, timer, scan, edit, dropping, requests, breaks>>

----------------------------------------------------------------------------
Version == UNION {0 .. MaxContents[f] : f \in File}

(* A file is changed whenever its version is.                              *)
OnDisk == [ver : Version, is : {"readable", "unreadable", "gone"}]
Health == {"unknown", "healthy", "degraded", "unhealthy"}

Row == [there : BOOLEAN, enabled : BOOLEAN, config : Configuration, busy : BOOLEAN,
        health : Health]

NotRead == -1
Unscanned == [f \in File |-> NotRead]
NoDocuments == [f \in File |-> [ver |-> 0, state |-> "none"]]

(* A scan: the configuration it began with, whether its history row is     *)
(* still to be completed, what it has to read, has read, could not read.   *)
Scan == [pc : {"idle", "entered", "marked", "started", "hashing", "reconciled", "completed",
               "failing", "failed", "ending"},
         config : Configuration, recorded : BOOLEAN, todo : SUBSET File,
         found : [File -> Version \cup {NotRead}], unread : BOOLEAN]

Fresh(c) == [pc |-> "idle", config |-> c, recorded |-> FALSE, todo |-> {}, found |-> Unscanned,
             unread |-> FALSE]
NoScan == Fresh(CHOOSE c \in Configuration : TRUE)

At(p, pc) == scan[p].pc = pc
Active(p) == ~At(p, "idle")

(* Mutant: the foreign keys are not enforced.                              *)
StoresAnyway(p, pc) == At(p, pc)

(* A step of a scan that stores something.                                 *)
Stores(p, pc) == At(p, pc) /\ row.there
Goes(p, pc) == scan' = [scan EXCEPT ![p].pc = pc]
Ends(p) == scan' = [scan EXCEPT ![p] = NoScan]

Asked == requests < MaxRequests /\ requests' = requests + 1
Broken == breaks < MaxBreaks /\ breaks' = breaks + 1

Present(f) == disk[f].is # "gone"
Readable(f) == disk[f].is = "readable"

----------------------------------------------------------------------------
ScanInit ==
  /\ disk = [f \in File |-> [ver |-> 0, is |-> "readable"]]
  /\ row \in [there : {TRUE}, enabled : BOOLEAN, config : Configuration, busy : {FALSE},
              health : {"healthy"}]
  /\ doc = NoDocuments
  /\ open = 0
  /\ guarded = FALSE
  /\ timer = row.enabled
  /\ scan = [p \in Scanners |-> NoScan]
  /\ edit = "none"
  /\ dropping = FALSE
  /\ requests = 0
  /\ breaks = 0

(* The directory: a file gets other contents, goes away or comes back,     *)
(* becomes unreadable or readable again.                                   *)
DiskChanges(f, is) ==
  /\ disk[f].ver < MaxContents[f]
  /\ disk' = [disk EXCEPT ![f] = [ver |-> @.ver + 1, is |-> is]]
  /\ UNCHANGED <<row, doc, open, guarded, timer, scan, edit, dropping, requests, breaks>>

----------------------------------------------------------------------------
(* Mutant: only the manual scans take the guard.                           *)
EnterUnguarded(p) ==
  /\ At(p, "idle")
  /\ IF p = ScanTimer THEN timer /\ UNCHANGED requests ELSE Asked
  /\ row.there
  /\ row.enabled
  /\ p # ScanTimer => ~guarded
  /\ guarded' = TRUE
  /\ scan' = [scan EXCEPT ![p] = [Fresh(row.config) EXCEPT !.pc = "entered"]]
  /\ UNCHANGED <<disk, row, doc, open, timer, edit, dropping, breaks>>

(* scan(): the source must be enabled and the guard free.                  *)
Enter(p) ==
  /\ At(p, "idle")
  /\ IF p = ScanTimer THEN timer /\ UNCHANGED requests ELSE Asked
  /\ row.there
  /\ row.enabled
  /\ ~guarded
  /\ guarded' = TRUE
  /\ scan' = [scan EXCEPT ![p] = [Fresh(row.config) EXCEPT !.pc = "entered"]]
  /\ UNCHANGED <<disk, row, doc, open, timer, edit, dropping, breaks>>

MarkBusy(p) ==
  /\ Stores(p, "entered")
  /\ row' = [row EXCEPT !.busy = TRUE]
  /\ Goes(p, "marked")
  /\ UNCHANGED <<disk, doc, open, guarded, timer, edit, dropping, requests, breaks>>

StartHistory(p) ==
  /\ Stores(p, "marked")
  /\ open' = open + 1
  /\ scan' = [scan EXCEPT ![p].pc = "started", ![p].recorded = TRUE]
  /\ UNCHANGED <<disk, row, doc, guarded, timer, edit, dropping, requests, breaks>>

(* discover_batch: the walk, and one file after the other in a thread; a   *)
(* file that cannot be read (any more) is counted and passed over.         *)
Walk(p) ==
  /\ At(p, "started")
  /\ scan' = [scan EXCEPT ![p].pc = "hashing",
                          ![p].todo = {f \in Picks[scan[p].config] : Present(f)}]
  /\ UNCHANGED <<disk, row, doc, open, guarded, timer, edit, dropping, requests, breaks>>

HashFile(p, f) ==
  /\ At(p, "hashing")
  /\ f \in scan[p].todo
  /\ scan' = [scan EXCEPT ![p].todo = @ \ {f},
                          ![p].found[f] = IF Readable(f) THEN disk[f].ver ELSE NotRead,
                          ![p].unread = (@ \/ ~Readable(f))]
  /\ UNCHANGED <<disk, row, doc, open, guarded, timer, edit, dropping, requests, breaks>>

(* Mutant: documents that were not read keep their state.                  *)
ReconcileFound(p) ==
  /\ Stores(p, "hashing")
  /\ scan[p].todo = {}
  /\ doc' = [f \in File |->
       IF scan[p].found[f] # NotRead THEN [ver |-> scan[p].found[f], state |-> "active"]
       ELSE doc[f]]
  /\ scan' = [scan EXCEPT ![p].pc = "reconciled", ![p].found = Unscanned]
  /\ UNCHANGED <<disk, row, open, guarded, timer, edit, dropping, requests, breaks>>

(* reconcile_for_source: what was read is active, every other row missing. *)
Reconcile(p) ==
  /\ Stores(p, "hashing")
  /\ scan[p].todo = {}
  /\ doc' = [f \in File |->
       IF scan[p].found[f] # NotRead THEN [ver |-> scan[p].found[f], state |-> "active"]
       ELSE IF doc[f].state = "none" THEN doc[f]
       ELSE [doc[f] EXCEPT !.state = "missing"]]
  /\ scan' = [scan EXCEPT ![p].pc = "reconciled", ![p].found = Unscanned]
  /\ UNCHANGED <<disk, row, open, guarded, timer, edit, dropping, requests, breaks>>

(* Mutant: a failed scan completes a row it may not have begun.            *)
CloseHistoryAlways(p) ==
  /\ Stores(p, "reconciled") \/ Stores(p, "failing") \/ Stores(p, "failed")
  /\ open' = open - 1
  /\ scan' = [scan EXCEPT ![p].pc = IF @ = "reconciled" THEN "completed" ELSE "failed",
                          ![p].recorded = FALSE]
  /\ UNCHANGED <<disk, row, doc, guarded, timer, edit, dropping, requests, breaks>>

CloseHistory(p) ==
  /\ Stores(p, "reconciled") \/ Stores(p, "failing")
  /\ open' = IF scan[p].recorded THEN open - 1 ELSE open
  /\ scan' = [scan EXCEPT ![p].pc = IF @ = "reconciled" THEN "completed" ELSE "failed",
                          ![p].recorded = FALSE]
  /\ UNCHANGED <<disk, row, doc, guarded, timer, edit, dropping, requests, breaks>>

ReportHealth(p) ==
  /\ Stores(p, "completed") \/ Stores(p, "failed")
  /\ row' = [row EXCEPT !.health = IF At(p, "failed") THEN "unhealthy"
                                   ELSE IF scan[p].unread THEN "degraded" ELSE "healthy"]
  /\ Goes(p, "ending")
  /\ UNCHANGED <<disk, doc, open, guarded, timer, edit, dropping, requests, breaks>>

(* The finally block.                                                      *)
Leave(p) ==
  /\ Stores(p, "ending")
  /\ row' = [row EXCEPT !.busy = FALSE]
  /\ guarded' = FALSE
  /\ Ends(p)
  /\ UNCHANGED <<disk, doc, open, timer, edit, dropping, requests, breaks>>

(* An exception that leaves the session usable: the directory is gone or   *)
(* unreadable, a commit fails, reconcile_for_source has rolled back.       *)
ScanFails(p) ==
  /\ Broken
  /\ scan[p].pc \in {"entered", "marked", "started", "hashing", "reconciled", "completed"}
  /\ Goes(p, IF scan[p].pc \in {"entered", "marked"} THEN "failed" ELSE "failing")
  /\ UNCHANGED <<disk, row, doc, open, guarded, timer, edit, dropping, requests>>

(* One that does not, in any statement but those of reconcile_for_source.  *)
SessionBreaks(p) ==
  /\ Broken
  /\ Active(p)
  /\ ~At(p, "hashing")
  /\ Ends(p)
  /\ UNCHANGED <<disk, row, doc, open, guarded, timer, edit, dropping, requests>>

(* The source is deleted: whatever the scan is about to store, and the     *)
(* finally block, raises LookupError (or violates the foreign key).        *)
SourceGone(p) ==
  /\ Active(p)
  /\ ~row.there
  /\ Ends(p)
  /\ UNCHANGED <<disk, row, doc, open, guarded, timer, edit, dropping, requests, breaks>>

----------------------------------------------------------------------------
(* PUT: the configuration and whether the source is enabled are committed, *)
(* then its health, then the job is added, replaced or removed.            *)
Update(c, on) ==
  /\ Asked
  /\ edit = "none"
  /\ row.there
  /\ row' = [row EXCEPT !.config = c, !.enabled = on]
  /\ edit' = "stored"
  /\ UNCHANGED <<disk, doc, open, guarded, timer, scan, dropping, breaks>>

UpdateHealth ==
  /\ edit = "stored"
  /\ IF row.there
     THEN row' = [row EXCEPT !.health = "healthy"] /\ edit' = "checked"
     ELSE UNCHANGED row /\ edit' = "none"
  /\ UNCHANGED <<disk, doc, open, guarded, timer, scan, dropping, requests, breaks>>

ReconcileSource ==
  /\ edit = "checked"
  /\ timer' = (row.there /\ row.enabled)
  /\ edit' = "none"
  /\ UNCHANGED <<disk, row, doc, open, guarded, scan, dropping, requests, breaks>>

(* ... or the request breaks off.                                          *)
UpdateBreaks ==
  /\ Broken
  /\ edit # "none"
  /\ edit' = "none"
  /\ UNCHANGED <<disk, row, doc, open, guarded, timer, scan, dropping, requests>>

(* DELETE: the job is removed, then the row with all that belongs to it.   *)
RemoveJob ==
  /\ Asked
  /\ row.there
  /\ timer' = FALSE
  /\ dropping' = TRUE
  /\ UNCHANGED <<disk, row, doc, open, guarded, scan, edit, breaks>>

Delete ==
  /\ dropping
  /\ dropping' = FALSE
  /\ row' = [row EXCEPT !.there = FALSE]
  /\ doc' = NoDocuments
  /\ open' = 0
  /\ UNCHANGED <<disk, guarded, timer, scan, edit, requests, breaks>>

(* POST validate: only the health is stored.                               *)
Validate(health) ==
  /\ Asked
  /\ row.there
  /\ row' = [row EXCEPT !.health = health]
  /\ UNCHANGED <<disk, doc, open, guarded, timer, scan, edit, dropping, breaks>>

(* The process ends and start() rebuilds the jobs.                         *)
Restart ==
  /\ Broken
  /\ guarded' = FALSE
  /\ scan' = [p \in Scanners |-> NoScan]
  /\ row' = [row EXCEPT !.busy = FALSE]
  /\ timer' = (row.there /\ row.enabled)
  /\ edit' = "none"
  /\ dropping' = FALSE
  /\ UNCHANGED <<disk, doc, open, requests>>

----------------------------------------------------------------------------
Advances(p) ==
  \/ MarkBusy(p)
  \/ StartHistory(p)
  \/ Walk(p)
  \/ \E f \in File : HashFile(p, f)
  \/ Reconcile(p)
  \/ CloseHistory(p)
  \/ ReportHealth(p)
  \/ Leave(p)
  \/ SourceGone(p)

ScanNext ==
  \/ \E f \in File, is \in {"readable", "unreadable", "gone"} : DiskChanges(f, is)
  \/ \E p \in Scanners : Enter(p)
  \/ \E p \in Scanners : Advances(p)
  \/ \E p \in Scanners : ScanFails(p)
  \/ \E p \in Scanners : SessionBreaks(p)
  \/ \E c \in Configuration, on \in BOOLEAN : Update(c, on)
  \/ UpdateHealth
  \/ ReconcileSource
  \/ UpdateBreaks
  \/ RemoveJob
  \/ Delete
  \/ \E health \in {"healthy", "unhealthy"} : Validate(health)
  \/ Restart

ScanSpec == ScanInit /\ [][ScanNext]_scVars

----------------------------------------------------------------------------
ScanTypeOK ==
  /\ disk \in [File -> OnDisk]
  /\ row \in Row
  /\ doc \in [File -> [ver : Version, state : {"none", "active", "missing"}]]
  /\ open \in Nat
  /\ guarded \in BOOLEAN
  /\ timer \in BOOLEAN
  /\ scan \in [Scanners -> Scan]
  /\ edit \in {"none", "stored", "checked"}
  /\ dropping \in BOOLEAN
  /\ requests \in 0 .. MaxRequests
  /\ breaks \in 0 .. MaxBreaks

(* Scans of one source never overlap, and its row never says that a scan   *)
(* is in progress while another could begin.                               *)
ScansExclude ==
  /\ \A p, q \in Scanners : Active(p) /\ Active(q) => p = q
  /\ (row.there /\ row.busy) \/ (\E p \in Scanners : Active(p)) => guarded

(* A deleted source leaves no documents and no history behind, though a    *)
(* scan may be about to store its own.                                     *)
DeletedLeavesNothing == ~row.there => doc = NoDocuments /\ open = 0

(* The job runs every interval, and a scan, like a request, proceeds.      *)
ScanFairness ==
  /\ WF_scVars(Enter(ScanTimer))
  /\ \A p \in Scanners : WF_scVars(Advances(p))
  /\ WF_scVars((UpdateHealth \/ ReconcileSource \/ Delete))

ScanFairSpec == ScanSpec /\ ScanFairness

(* The documents and the health are those of the directory.                *)
UpToDate ==
  /\ \A f \in Picks[row.config] :
       Readable(f) => doc[f] = [ver |-> disk[f].ver, state |-> "active"]
  /\ \A f \in File : ~(f \in Picks[row.config] /\ Readable(f)) => doc[f].state # "active"
  /\ row.health = IF \E f \in Picks[row.config] : Present(f) /\ ~Readable(f)
                  THEN "degraded" ELSE "healthy"

(* If the source stays enabled and has its job, and no scan has left the   *)
(* guard behind, the documents catch up with the directory and with the    *)
(* configuration, whatever older scans and updates stored in between.      *)
ScansCatchUp ==
  <>[](row.there /\ row.enabled /\ timer /\ (guarded => \E p \in Scanners : Active(p)))
    => <>[]UpToDate
=============================================================================
