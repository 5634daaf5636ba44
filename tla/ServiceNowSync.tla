---------------------------- MODULE ServiceNowSync ----------------------------
(***************************************************************************)
(* The synchronization of one ServiceNow configuration:                    *)
(* application/services/servicenow.py, its endpoint, and its scheduler job.*)
(*                                                                         *)
(* A sync goes through its stages in order.  For each it reads the         *)
(* stage's cursor, asks ServiceNow for what was updated since the cursor   *)
(* less an overlap, page by page, and stores the rows and the new cursor   *)
(* in one commit.  A scheduled and a manual sync exclude each other        *)
(* nowhere.  The connector's database is SQLite: a session that has        *)
(* flushed a change holds the write lock until it commits, and a commit    *)
(* of another session waits for it.                                        *)
(*                                                                         *)
(* A record is read once in a stage's fetch; that an answer lists it needs *)
(* ServiceNow's pages to be consistent and the 10000 rows of _list to      *)
(* suffice.  A record is its version, as all its columns are overwritten.  *)
(***************************************************************************)
EXTENDS Integers, FiniteSets

CONSTANTS
  Record,           \* what ServiceNow keeps: CIs, incidents, journal entries, ...
  Stages,           \* the stages are 1 .. Stages, in the order of STAGES
  StageOf,          \* the stage that reads each record
  Journal,          \* the stage of the incident journals
  Subject,          \* the incident of each journal entry
  Capability,       \* "ticketing" and "cmdb"
  Needs,            \* the capability each stage belongs to
  Syncers,          \* the syncs that can run at once
  SyncTimer,        \* the one the scheduler starts (max_instances = 1)
  Nobody,           \* no sync
  Overlap,          \* ServiceNowService.overlap
  StageLimit,       \* the longest a stage takes from its cursor to its commit
  Lead,             \* how far the connector's clock is ahead of ServiceNow's
  LastTick,         \* bound: the clock
  MaxVersion,       \* bound: changes of one record
  MaxEvents         \* bound: manual syncs, failures and changes of the setting

ASSUME ServiceNowAssumption ==
  /\ Stages \in Nat
  /\ StageOf \in [Record -> 1 .. Stages]
  /\ Subject \in [{r \in Record : StageOf[r] = Journal} -> Record]
  /\ Needs \in [1 .. Stages -> Capability]
  /\ SyncTimer \in Syncers
  /\ Nobody \notin Syncers
  /\ {Overlap, StageLimit, Lead, MaxVersion, MaxEvents} \subseteq Nat
  /\ LastTick \in Nat \ {0}

(* What the overlap is chosen for: a stage that takes longer than the      *)
(* overlap, or clocks that differ by more, leave a gap behind the cursor.  *)
ASSUME OverlapSuffices == StageLimit + Lead <= Overlap

VARIABLES
  clock,         \* ServiceNow's clock
  source,        \* version and sys_updated_on of each record at ServiceNow
  cached,        \* the version in the cache, 0 if there is no row
  cachedSince,   \* history: when the row was inserted
  cursor,        \* cursor_at of each stage, NoTime, or NoCursor
  selected,      \* the capabilities ServiceNow is the source of
  job,           \* the scheduler has a job for the configuration
  attention,     \* last_sync_error is set
  sync,          \* each running sync
  writer,        \* the sync that holds SQLite's write lock
  events         \* how much of MaxEvents is used

snVars == <<clock, source, cached, cachedSince, cursor, selected, job,
            attention, sync, writer, events>>

----------------------------------------------------------------------------
StageIds == 1 .. Stages
Time == 1 .. LastTick
NoTime == 0
NoCursor == -1
Moment == {NoTime} \cup 1 .. (LastTick + Lead)

(* A sync: the stages still to do, whether one failed, and, in a stage,    *)
(* its cursor as loaded, the time it asks from, when it began, what it has *)
(* not read yet and what it has, with the greatest sys_updated_on.         *)
Sync == [step : {"idle", "open", "read"}, left : SUBSET StageIds,
         failed : BOOLEAN, stage : {0} \cup StageIds, seen : Moment \cup {NoCursor}, since : Moment,
         opened : {NoTime} \cup Time, todo : SUBSET Record,
         got : [Record -> 0 .. MaxVersion], maximum : {NoTime} \cup Time]

Nothing == [r \in Record |-> 0]
Resting == [step |-> "idle", left |-> {}, failed |-> FALSE, stage |-> 0, seen |-> NoTime,
            since |-> NoTime, opened |-> NoTime, todo |-> {}, got |-> Nothing,
            maximum |-> NoTime]

Later(a, b) == IF a > b THEN a ELSE b

(* utcnow of the connector.                                                *)
ConnectorNow == clock + Lead

(* The stages of the capabilities ServiceNow is the source of.             *)
SelectedStages == {k \in StageIds : Needs[k] \in selected}

(* Stages are tried in the order of STAGES.                                *)
IsNext(k, left) == k \in left /\ \A j \in left : k <= j

(* What a stage asks for: the journal is read incident by incident, for    *)
(* the incidents in the cache when the stage starts.                       *)
Listed(k) == {r \in Record : /\ StageOf[r] = k
                             /\ k = Journal => cached[Subject[r]] > 0}

(* Mutant: the cursor without the overlap.                                 *)
AfterExact(c) == IF c <= NoTime THEN NoTime ELSE c

(* cursor.cursor_at less the overlap; without a cursor, everything.        *)
After(c) == IF c <= Overlap THEN NoTime ELSE c - Overlap

Free(p) == writer \in {Nobody, p}

(* The session flushes before it has an answer of ServiceNow: a new cursor *)
(* row is inserted at once, and the query for the cached incidents writes  *)
(* last_attempt_at.                                                        *)
FlushesEarly(k) == cursor[k] = NoCursor \/ k = Journal

(* The cursor a stage's commit leaves: its column is in the UPDATE only if *)
(* it differs from the one loaded.                                         *)
CursorAfter(p) ==
  LET new == IF sync[p].maximum # NoTime THEN sync[p].maximum ELSE ConnectorNow
  IN IF new = sync[p].seen THEN cursor[sync[p].stage] ELSE new

(* The rows of R are inserted or overwritten, whatever they held.          *)
Store(p, R) ==
  /\ cached' = [r \in Record |-> IF r \in R THEN sync[p].got[r] ELSE cached[r]]
  /\ cachedSince' = [r \in Record |-> IF r \in R /\ cached[r] = 0
                                      THEN clock ELSE cachedSince[r]]

(* Mutant: a stage that is over leaves its transaction open.               *)
KeepsLock(p) == writer' = writer

Release(p) == writer' = IF writer = p THEN Nobody ELSE writer

Got(p) == {r \in Record : sync[p].got[r] > 0}

(* A step of the bounded ones.                                             *)
Disturbs == events < MaxEvents /\ events' = events + 1

(* A stage is left, for the next one.                                      *)
StageOver(s, failed) ==
  [Resting EXCEPT !.step = "open", !.left = s.left \ {s.stage}, !.failed = failed]

----------------------------------------------------------------------------
ServiceNowInit ==
  /\ clock = 1
  /\ source = [r \in Record |-> [ver |-> 0, at |-> NoTime]]
  /\ cached = Nothing
  /\ cachedSince = [r \in Record |-> NoTime]
  /\ cursor = [k \in StageIds |-> NoCursor]
  /\ selected \in SUBSET Capability
  /\ job = (selected # {})
  /\ attention = FALSE
  /\ sync = [p \in Syncers |-> Resting]
  /\ writer = Nobody
  /\ events = 0

(* ServiceNow: a record is created or updated; a journal entry is of an    *)
(* incident and is never changed.                                          *)
SourceChanges(r) ==
  /\ source[r].ver < MaxVersion
  /\ StageOf[r] = Journal => source[r].ver = 0 /\ source[Subject[r]].ver > 0
  /\ source' = [source EXCEPT ![r] = [ver |-> @.ver + 1, at |-> clock]]
  /\ UNCHANGED <<clock, cached, cachedSince, cursor, selected, job, attention,
                 sync, writer, events>>

(* Time passes; a stage does not take longer than StageLimit.              *)
Tick ==
  /\ clock < LastTick
  /\ \A p \in Syncers : sync[p].step = "read" => clock < sync[p].opened + StageLimit
  /\ clock' = clock + 1
  /\ UNCHANGED <<source, cached, cachedSince, cursor, selected, job, attention,
                 sync, writer, events>>

(* A capability is selected or deselected, see StreamSelection; enabled    *)
(* follows.                                                                *)
Select(caps) ==
  /\ Disturbs
  /\ caps # selected
  /\ selected' = caps
  /\ UNCHANGED <<clock, source, cached, cachedSince, cursor, job, attention,
                 sync, writer>>

(* Mutant: the job is removed only.                                        *)
RemovesJob ==
  /\ job /\ selected = {}
  /\ job' = FALSE
  /\ UNCHANGED <<clock, source, cached, cachedSince, cursor, selected, attention,
                 sync, writer, events>>

(* reconcile_servicenow adds or removes the job.                           *)
ReconcileJob ==
  /\ job # (selected # {})
  /\ job' = (selected # {})
  /\ UNCHANGED <<clock, source, cached, cachedSince, cursor, selected, attention,
                 sync, writer, events>>

----------------------------------------------------------------------------
(* synchronize, to the choice of the stages; a scheduled run that finds    *)
(* the configuration disabled or not selected records it as its error.     *)
Start(p) ==
  /\ sync[p].step = "idle"
  /\ IF p = SyncTimer THEN job /\ UNCHANGED events ELSE Disturbs
  /\ IF SelectedStages # {}
     THEN /\ sync' = [sync EXCEPT ![p] = [Resting EXCEPT !.step = "open",
                                                      !.left = SelectedStages]]
          /\ UNCHANGED attention
     ELSE /\ p = SyncTimer
          /\ attention' = TRUE
          /\ UNCHANGED sync
  /\ UNCHANGED <<clock, source, cached, cachedSince, cursor, selected, job,
                 writer>>

(* The next stage's cursor is read and the requests begin.                 *)
OpenStage(p, k) ==
  /\ sync[p].step = "open"
  /\ IsNext(k, sync[p].left)
  /\ FlushesEarly(k) => Free(p)
  /\ writer' = IF FlushesEarly(k) THEN p ELSE writer
  /\ sync' = [sync EXCEPT ![p] =
       [@ EXCEPT !.step = "read", !.stage = k, !.seen = cursor[k], !.opened = clock,
                 !.since = After(cursor[k]), !.todo = Listed(k)]]
  /\ UNCHANGED <<clock, source, cached, cachedSince, cursor, selected, job,
                 attention, events>>

(* A page of a table, or the journal of one incident, is answered: of the  *)
(* records it is about, those updated since.                               *)
Answered(p, R) == {r \in R : source[r].ver > 0 /\ source[r].at >= sync[p].since}

PageRead(p, R) ==
  LET hits == Answered(p, R)
  IN /\ sync[p].step = "read"
     /\ R # {}
     /\ R \subseteq sync[p].todo
     /\ sync' = [sync EXCEPT ![p] =
          [sync[p] EXCEPT
            !.todo = @ \ R,
            !.got = [r \in Record |-> IF r \in hits THEN source[r].ver ELSE @[r]],
            !.maximum = CHOOSE m \in {@} \cup {source[r].at : r \in hits} :
                          \A r \in hits : m >= source[r].at /\ m >= @]]
     /\ UNCHANGED <<clock, source, cached, cachedSince, cursor, selected, job,
                    attention, writer, events>>

(* Everything is read: the rows and the cursor are committed.              *)
StageCommits(p) ==
  /\ sync[p].step = "read"
  /\ sync[p].todo = {}
  /\ Free(p)
  /\ Store(p, Got(p))
  /\ cursor' = [cursor EXCEPT ![sync[p].stage] = CursorAfter(p)]
  /\ sync' = [sync EXCEPT ![p] = StageOver(@, @.failed)]
  /\ Release(p)
  /\ UNCHANGED <<clock, source, selected, job, attention, events>>

(* _request gives up: at once when it is denied or answered with nonsense, *)
(* after three attempts when it is answered late or with an error.         *)
RequestFails(p) == Disturbs /\ sync[p].step = "read"

(* What is stored before an error: of a table whose pages were all read,   *)
(* the rows before the one with the invalid timestamp; of the journals,    *)
(* which are stored incident by incident, any.                             *)
StoredBefore(p) ==
  IF sync[p].todo = {} \/ sync[p].stage = Journal THEN SUBSET Got(p) ELSE {{}}

(* A ServiceNowError ends the stage.  The rows stored so far are committed *)
(* with the error; the cursor row is, but not a new cursor.                *)
StageFails(p, R) ==
  /\ RequestFails(p)
  /\ Free(p)
  /\ R \in StoredBefore(p)
  /\ Store(p, R)
  /\ cursor' = [cursor EXCEPT ![sync[p].stage] = IF @ = NoCursor THEN NoTime ELSE @]
  /\ sync' = [sync EXCEPT ![p] = StageOver(@, TRUE)]
  /\ Release(p)
  /\ UNCHANGED <<clock, source, selected, job, attention>>

(* The end of synchronize: the error of its stages, or its success.        *)
Finish(p) ==
  /\ sync[p].step = "open"
  /\ sync[p].left = {}
  /\ Free(p)
  /\ attention' = sync[p].failed
  /\ sync' = [sync EXCEPT ![p] = Resting]
  /\ UNCHANGED <<clock, source, cached, cachedSince, cursor, selected, job, writer, events>>

(* Another exception than ServiceNowError: a connection that breaks, a     *)
(* commit that waited too long for the lock, a row another sync inserted   *)
(* first.  What was not committed is lost; a scheduled run records it.     *)
Aborts(p) ==
  /\ Disturbs
  /\ sync[p].step # "idle"
  /\ sync' = [sync EXCEPT ![p] = Resting]
  /\ attention' = (attention \/ p = SyncTimer)
  /\ Release(p)
  /\ UNCHANGED <<clock, source, cached, cachedSince, cursor, selected, job>>

(* The connector restarts: start() reconciles the jobs.                    *)
Restarts ==
  /\ Disturbs
  /\ sync' = [p \in Syncers |-> Resting]
  /\ writer' = Nobody
  /\ job' = (selected # {})
  /\ UNCHANGED <<clock, source, cached, cachedSince, cursor, selected,
                 attention>>

(* A connection test sets or clears last_sync_error.                       *)
Test ==
  /\ Disturbs
  /\ attention' \in BOOLEAN
  /\ UNCHANGED <<clock, source, cached, cachedSince, cursor, selected, job,
                 sync, writer>>

----------------------------------------------------------------------------
SyncStep(p) ==
  \/ Start(p)
  \/ \E k \in StageIds : OpenStage(p, k)
  \/ \E R \in SUBSET Record : PageRead(p, R)
  \/ StageCommits(p)
  \/ \E R \in SUBSET Record : StageFails(p, R)
  \/ Finish(p)
  \/ Aborts(p)

ServiceNowNext ==
  \/ \E r \in Record : SourceChanges(r)
  \/ Tick
  \/ \E caps \in SUBSET Capability : Select(caps)
  \/ ReconcileJob
  \/ \E p \in Syncers : SyncStep(p)
  \/ Restarts
  \/ Test

ServiceNowSpec == ServiceNowInit /\ [][ServiceNowNext]_snVars

----------------------------------------------------------------------------
ServiceNowTypeOK ==
  /\ clock \in Time
  /\ source \in [Record -> [ver : 0 .. MaxVersion, at : {NoTime} \cup Time]]
  /\ cached \in [Record -> 0 .. MaxVersion]
  /\ cachedSince \in [Record -> {NoTime} \cup Time]
  /\ cursor \in [StageIds -> Moment \cup {NoCursor}]
  /\ selected \subseteq Capability
  /\ job \in BOOLEAN
  /\ attention \in BOOLEAN
  /\ sync \in [Syncers -> Sync]
  /\ writer \in Syncers \cup {Nobody}
  /\ events \in 0 .. MaxEvents

(* SQLite's write lock is with a sync that is in a stage.                  *)
WriterReads == writer # Nobody => sync[writer].step = "read"

(* The record's last change is of before t; a journal entry counts from    *)
(* when its incident is in the cache, an earlier one may never be asked    *)
(* for.                                                                    *)
Due(r, t) ==
  /\ source[r].ver > 0
  /\ source[r].at < t
  /\ StageOf[r] = Journal => cachedSince[Subject[r]] \in 1 .. source[r].at

(* Whatever changed at ServiceNow before the time a stage will ask from is *)
(* in the cache with its last version, however the syncs overlap, fail and *)
(* overwrite each other's rows and cursors: what is behind the cursor is   *)
(* never asked for again.                                                  *)
NothingMissed ==
  \A r \in Record : Due(r, cursor[StageOf[r]] - Overlap) => cached[r] = source[r].ver

(* The scheduler reconciles and starts its job, and a stage that has begun *)
(* ends one way or the other: requests have a timeout and bounded retries. *)
(* Failures are among the bounded events, so they stop.                    *)
Proceeds(p) == \/ \E k \in StageIds : OpenStage(p, k)
               \/ \E R \in SUBSET Record : PageRead(p, R)
               \/ StageCommits(p)
               \/ Finish(p)

ServiceNowFairness ==
  /\ WF_snVars(ReconcileJob)
  /\ WF_snVars(Start(SyncTimer))
  /\ \A p \in Syncers : WF_snVars(Proceeds(p))

ServiceNowFairSpec == ServiceNowSpec /\ ServiceNowFairness

(* While a capability stays selected, every change at ServiceNow reaches   *)
(* the cache in the end and no slower sync takes it away for good.         *)
ServiceNowCatchesUp ==
  \A r \in Record :
    <>[](Needs[StageOf[r]] \in selected)
      => <>[](Due(r, LastTick + 1) => cached[r] = source[r].ver)
=============================================================================
