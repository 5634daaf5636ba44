# PEKA connector: TLA+ models, checks and proofs

The connector (`src/backend/app`) runs at a customer's site next to the
customer's systems. It registers with PEKA SaaS and sends heartbeats, keeps a
local knowledge store of the documents in a managed directory, synchronizes
tickets and CMDB records from ServiceNow and Zammad, and answers an operator's
web interface. It is one FastAPI process: one asyncio event loop, one SQLite
database, one in-memory scheduler (APScheduler), one Qdrant store.

Nothing in it is parallel in the sense of threads sharing memory (a few pure
functions run in a thread pool), yet almost everything interleaves: every
`await` lets another request, job or read run, each of them works on objects
loaded by a database session of its own, and sessions are made with
`expire_on_commit=False`, so a loaded object keeps its old values until it is
explicitly refreshed. An UPDATE writes only the columns whose new value differs
from the loaded one. Most of what can go wrong in this code follows from these
two facts, and they are the backbone of the models (`snap`, the loaded copy, and
`Column`, one column of an UPDATE).

| file | what it is |
|---|---|
| `ConnectorLifecycle.tla` | registration, heartbeats, connection state |
| `MCConnectorLifecycle.tla/.cfg`, `MCConnectorLiveness.cfg`, `MCStaleAcceptance.cfg` | its model-checking instances |
| `KnowledgeIndex.tla` | managed documents and their points in the knowledge store |
| `MCTombstones.cfg`, `MCUnstable.cfg`, `MCSweep.cfg` | its instances for the findings; for the rest see `MCCopies` |
| `StreamSelection.tla` | which integration serves each stream, and the connections and jobs that follow |
| `MCStreamSelection.tla/.cfg`, `MCStreamRuntime.cfg` | its model-checking instances |
| `ServiceNowSync.tla`, `ZammadSync.tla` | the two synchronizations |
| `OperationalTools.tla`, `RequestService.tla` | PEKA's requests of the operational tools, and what it may rely on |
| `MCOperationalTools.tla`, `MCUnselected.cfg` | its selections for TLC; an instance of its own |
| `SourceScan.tla` | the scans of a filesystem source |
| `Inventory.tla` | CMDB imports, Prometheus targets, correlation, manual decisions |
| `Accounts.tla`, `MCLastAdministrator.cfg` | local accounts and the last administrator; an instance of their own |
| `Sessions.tla` | refresh sessions and their revocation |
| `Caches.tla` | the two synchronizations side by side, for the theorems about both |
| `MCCopies.tla/.cfg` | instances of the document index and the two caches, one at a time |
| `MCServices.tla/.cfg` | instances of the tools, scans, inventory, accounts and sessions, one at a time |
| `ConnectorLifecycleProofs.tla`, `KnowledgeIndexProofs.tla`, `StreamSelectionProofs.tla`, `OperationalToolsProofs.tla`, `SourceScanProofs.tla`, `InventoryProofs.tla`, `SyncProofs.tla`, `UserProofs.tla` | theorems |
| `PROJECT.json` | components, runs, mutants, the map from definitions to source lines, findings, hazards, theorems |

Paths below are relative to `src/backend/app` unless they start with `src/`,
`docs/` or `README.md` (the last two are the repository's own).

## 1. Inventory

### Components that keep state

**Connector lifecycle** (`application/services/saas.py`,
`domain/services/connector_status.py`, the product-settings part of
`infrastructure/database/repositories/operations.py`, the endpoints in
`api/v1/endpoints/settings.py`). State: one row `product_settings` (credentials,
connection status, last success, failure count). Operations: register,
re-register, unregister, Retry now, rename, the heartbeat, every read (which
stores the status it derives). Hard: all of these hold copies of the same row
across HTTP calls to PEKA. Correct when: a registered, running connector always
has a next heartbeat; neither a success nor a credential survives the
registration it belongs to; a connector that can reach PEKA is Connected.

**Scheduler** (`infrastructure/scheduling.py`). State: the jobs in memory, one
lock per job, the one-shot heartbeat job. Operations: start, shutdown, the
interval jobs (knowledge worker, document scan, ServiceNow, Zammad, inventory,
health checks), cron-like source scans. Hard: a run that finds its lock held is
dropped; the heartbeat job is renewed by its own run. Correct when: no drop and
no failure ends a chain, and at most one run of each job is active.

**PEKA SaaS client** (`infrastructure/saas/client.py`). No state. Its outcomes
(accepted, authentication failure, other failures, unexpected exceptions) are
what the lifecycle has to survive.

**Managed documents** (`application/services/documents.py`,
`infrastructure/database/models/document.py`,
`api/v1/endpoints/documents.py`). State: the files below a directory anyone may
change, and a row for each. Operations: upload, delete, retry, the
reconciliation scan (walk, stability wait, hash, upsert, sweep), scheduled and
manual. Hard: file and row change separately; a scan compares a walk with rows
read much later. Correct when: uploads and direct copies converge; a deletion
is durable; only missing files are swept; only stable files are taken up.

**Local knowledge store** (`application/services/knowledge.py`). State: the
points of each document in Qdrant, the row's `knowledge_status` and
`indexed_hash`. Operations: `index_document` (parse, purge, upsert, commit),
`delete_document`, `process_pending`, search. Hard: a purge and an upsert are
two HTTP calls, each of which may fail or be done with its answer lost, and two
sessions may index or delete the same document at once. Correct when: the
points are what the row says, and finally what the file says.

**Source scans** (`application/services/sources.py`,
`infrastructure/database/repositories/scans.py`, `plugins/filesystem`). State:
an in-memory guard, a scan-history row, the source's row, its documents.
Operations: manual and scheduled scans, changing, checking and deleting the
source. Hard: each step of a scan is a commit of its own, the source may be
changed or deleted meanwhile, a crash or a refused statement leaves the rest
undone. Correct when: one scan of a source at a time; a deleted source leaves
nothing; documents follow the directory.

**ServiceNow synchronization** (`application/services/servicenow.py`). State: a
cursor per stage, the cached records. Hard: cursors and clocks of two machines,
stages failing separately, a manual and a scheduled run at once. Correct when:
no change is skipped for good and no older record stays over a newer one.

**Zammad synchronization** (`application/services/zammad.py`). State: cursor,
cached tickets, deletion marks. Hard: a full reconciliation marks what it did
not see, tickets are committed one by one, lookups store beside it. Correct
when: open tickets are shown as they are, and only tickets that are gone are
marked.

**Integrations and stream selection** (`application/services/integrations.py`,
`api/v1/endpoints/integrations.py`, the `save` and `delete` of
`application/services/zammad.py` and `servicenow.py`). State: the integrations,
their activation rows (at most one active per stream), and three copies of what
these say: the integration's `enabled`, its connection's `enabled`, its job.
Operations: select, enable, disable, create, save, delete, and the bootstrap that
every read begins with and that corrects the first copy. Hard: check and update
are separate statements without a lock; the copies are written in separate
commits. Correct when: no source loses a stream unasked, and the copies follow.

**Operational tools** (`application/services/operational_tools.py`, the routing
in `ticketing.py` and `cmdb_sources.py`). State: held by PEKA (claims); here
only audit events. Operations: one worker claims, executes, submits, once. Hard:
a tool reads several sources and the selection anew each time; the registration
may change; calls are lost and nothing is retried. Correct when: PEKA gets one
answer for each claim unless a fault happened, with the data of selected sources
and nothing else, for the tenant that asked; and the audit agrees with PEKA.

**Authentication, sessions, users** (`application/services/auth.py`,
`application/services/users.py`,
`infrastructure/database/repositories/sessions.py`). State: users, refresh
sessions. Hard: rotation in three transactions, revocation in the one after the
change it is for; the last-administrator check and the update are separate.
Correct when: one session replaces another, sessions end with the password or the
account they were made with; an active administrator remains.

**Inventory and CMDB** (`application/services/inventory.py`, `cmdb.py`,
`cmdb_sources.py`, the scan in `prometheus.py`). State: dataset versions,
observations with identities, assets, decisions, services, dependencies.
Operations: upload and import a file, scan Prometheus targets, decide by hand.
Hard: assets are matched by whatever identities are linked already, in any order
of imports and scans; an import may be rolled back, or committed as far as it came.
Correct when: nothing refers to an asset that is not there; a version is observed
whole or not at all; a machine is one asset; a manual decision lasts.

### Components without state, or outside the models for good

Prometheus's and Loki's queries (their answers enter `OperationalTools` as sources,
Prometheus's target scan is in `Inventory`), ticketing (its routing is in
`OperationalTools`), Zammad relevance (pure text scoring), the integration catalog
(constants), certificates (file and X.509
handling inside single requests), configuration, preflight and secrets
(environment parsing and encryption at start), audit events and logs
(append-only; those of the operational tools are modelled), the HTTP layer (routing and error
mapping), the migrations (run before the process), the frontend (a client of the
API), and the document delivery worker, which has no caller left
(`deliver_documents_now` runs the knowledge worker instead).

### How components interact

- The scheduler calls the lifecycle (`HeartbeatService.send`), the knowledge
  worker (`process_pending`) and the document scan (`reconcile`); registration
  and unregistration call back into the scheduler (`schedule_heartbeat`,
  `remove_heartbeat`). In `ConnectorLifecycle` both are one module, `job`
  standing between them.
- Documents and knowledge store share the document row and the file: the upload,
  delete and retry endpoints change file and row and then call `index_document`
  or `delete_document` in the same request, while the worker picks up the same
  rows. In `KnowledgeIndex` both are one module.
- The lifecycle decides whether there is a tenant identity; without it the
  knowledge store can neither index nor delete. `KnowledgeIndex` sees of it the
  variable `registered`.

- Stream selection decides which connections are enabled, saving a configuration
  writes the same flags, and the scheduler derives the synchronization jobs from
  them. In `StreamSelection` the three are one module; `ServiceNowSync` sees of it
  the variables `selected` and `job`, `ZammadSync` the variable `enabled`.
- The operational tools read the selection and every cache. `OperationalTools` sees
  of the sources whether they are selected and whether they answer, of the
  lifecycle the variable `registered`.
- The import of a CMDB file and the scan of Prometheus targets meet in the
  inventory: both are in `Inventory`.
- Accounts and sources are used by the web interface only.

What one module keeps as a variable of another's business changes freely there: each
module allows at least the changes the other can make.

Behaviours that are hard to test are listed as "hazards" in `PROJECT.json`, each
at its line, with the properties that watch it or the reason none does yet.

## 2. ConnectorLifecycle

| variable | code |
|---|---|
| `row` | the committed `ProductSettingsModel`: credentials, status, last success, whether failures are counted |
| `job` | the job `"heartbeat"` in the scheduler: none, due soon (0.5 s) or later |
| `hb` | the attempt holding `_heartbeat_lock`: where it is, and its session's copy of the row |
| `req` | each API request: where it is, its copy, the status it remembered |
| `poll` | a `get_settings` about to commit the status it derived |
| `up`, `begun`, `retired`, `faulted`, `disturbances` | whether the process runs; registrations begun (also the name of the credentials); history and bounds |

One action per stretch of code between two awaits that matter.
`HeartbeatService.send` and `_execute_heartbeat` are `JobStarts`, `JobSkipped`,
`AttemptLoads`, `AttemptAccepted`, `AttemptFailed`, `AttemptBroke`,
`AttemptReschedules`, `AttemptEnds`, `AttemptLost`; `RegistrationService` is
`RegisterBegins`, `RegisterAccepted`, `RegisterRefused`, `RegisterSchedules`,
`RegisterReturns`, `UnregisterBegins`, `UnregisterClears`; Retry now (and a
rename, which ends in it) is `RetryChecks`, `RetryRuns`; `get_settings` is
`PollReads`, `PollStores` for reads of their own and `Settled`/`Stored`/`Loaded`
inside other actions. `Derive` is `derive_connection_state` with the age of the
last success in units of 1.5 intervals, the thresholds the code compares with;
`Elapse` lets that much time pass for the row and for every loaded copy.

What is abstracted: the failure count is a Boolean, because no rule tells two
positive counts apart; the backoff between attempts is `"later"`;
`heartbeat_job_enabled`, `next_heartbeat_at`, error texts and audit events are
displayed and decide nothing; a stretch that only talks to the local database is
one step, except where a copy outlives it. The flag of a claimed manual retry
says no more than the lock the retry holds.

Properties:

- `HeartbeatChain`: a running connector with credentials always has a job, an
  attempt that will add one, or a request about to schedule one (or to remove
  the credentials). The heartbeat is one one-shot job that its own run renews;
  losing one loses them all. Stated for histories without a storage fault
  outside the attempt's `try`; with one, the code gives the chain up.
- `NoInheritedSuccess`: a success in the row of a registered connector was
  stored after the registration request that obtained its credentials began.
- `RemovedCredentialsStayRemoved`: no session that loaded an earlier
  registration brings it back.
- `Recovers`, `QuietsDown`, `RegisteringEnds` (liveness): after the disturbances
  a registered connector is Connected again and again; an unregistered one comes
  to rest, though an attempt in flight may add a job after `remove_heartbeat`;
  `registering` is never the last word.
- `ConnectedByOwnCredentials` (violated, see Findings).

## 3. KnowledgeIndex

| variable | code |
|---|---|
| `file` | what the managed directory holds at each path |
| `row` | the committed `DocumentModel`: content hash, indexed hash, deletion request, knowledge status, recorded size and time |
| `points` | the document's points in Qdrant: the version they were stored under and the text they were made of |
| `task` | what each request, and the worker, is doing, with its copy of the row and the text parsed |
| `queue` | the worker's batch: rows loaded and not yet processed |
| `scan` | each reconciliation: found files, those to do, the file being hashed and the copy of its row |
| `registered` | whether there is a tenant identity |
| `exposed` | history: documents one of the four hazards below has hit |
| `edits`, `disturbances` | bounds |

Upload, deletion and retry are `Upload`/`UploadStores`, `Delete`, `Retry`, each
followed by the indexing or erasing of the same request; `process_pending` is
`WorkerLoads`, `WorkerTakes`; `index_document` is `IndexParses`, `IndexPurges`,
`IndexStores`, `IndexCommits`; `delete_document` is `Erases`, `EraseCommits`; what
may fail is `Unidentified`, `Unreadable`, `StoreFails` (a store call that is not
done, or is done and its answer lost); `reconcile` is `ScanWalks`, `ScanPasses`,
`ScanHashes`, `ScanStores`, `ScanSweeps`, `ScanFails`. `Crash` keeps files, rows
and points. `ChangeDirectly` is whoever copies, replaces or removes a file.

What is abstracted: a content is a model value and stands for its own hash; a
document is one point (each content makes one chunk); the tenant identity is
there or not; a batch is any `Limit` outstanding rows, in any order; `seen` is
the recorded size and modification time; the stability window is the choice
between `ScanPasses` (not stable for long enough) and `ScanHashes`; the sweep is
one step. Unsupported files, inspection errors, quotas, a disabled managed source
and the upload's temporary file are left out.

The main property, `IndexAgrees`, is README.md:119-121, "Updates replace old
chunks and deletion removes every matching point": when nobody works on a
document, an INDEXED row has exactly one point, of the row's version, and a
DELETED one has none. The code does not promise it unconditionally. `exposed`
records, at the step where it happens, that a document met one of four hazards,
and `IndexAgrees` speaks of all others:

1. two sessions worked on it at once;
2. its file was no longer the hashed one when it was parsed;
3. a re-index of an INDEXED document broke off after its purge (a request leaves
   the row INDEXED);
4. a failed deletion was retried, which indexes it again.

Crashes, half-done and failed store calls, lost registrations, direct changes and
everything one session does alone are inside the property. The other properties:

- `DeletionSticks` (every step): a requested deletion is withdrawn by a new upload
  of the document only, whatever scans, retries and batches loaded its row
  before. Scans rely on it without checking: it holds because an UPDATE leaves
  alone the columns a session did not change.
- `Converges` (liveness): once files are left alone and the connector stays
  registered, the points are what the files say, unless the document is exposed; a
  file copied over a deleted document stays out.
- `TombstonesEmpty`, `StableBeforeIndexed`, `SweepsOnlyMissing` (violated, see
  Findings).

## 4. StreamSelection

| variable | code |
|---|---|
| `there`, `enabled` | the `connector_integrations` rows and their column `enabled` |
| `rows`, `active` | the `integration_stream_activations` rows, and those that are active (a check constraint keeps `enabled = active`) |
| `conn` | each Zammad or ServiceNow configuration: none, on or off |
| `job` | which of them have a synchronization job |
| `sess` | each request: where it is, what it is about, and the values it has loaded |
| `exposed` | history: a session wrote on outdated reads, or a request broke off after a change |
| `changes`, `disturbances` | bounds |

`select_source` is `SelectBegins`, then bootstrap, `SelectLoads`, `SelectWrites`;
`set_enabled` is `SetEnabledBegins` followed by the same, or by `DisableWrites`;
after either the endpoint lists the integrations (bootstrap again) and reconciles
the jobs (`Reconciles`, `ReconcileStops`). `ZammadService.save` is `ZammadSaves`,
bootstrap, `LinkReads`, `LinkWrites`; `ServiceNowService.save` is `ServiceNowSaves`
with the same two, or `Creates`, `Links` for a new configuration; both end in
`Reconciles`. `Creates` alone is `IntegrationService.create`; deleting a Zammad
configuration is `DeleteBegins`, `DeleteCommits`. `bootstrap_stream_activations` is
`BootLoads`, `BootInserts`, `BootChecks`, `BootFixes`; `Adopts` is the integration
`bootstrap_legacy_integrations` adds for an imported local dataset. `Fails` and
`Restart` may come between any two of these.

The grain is the database's. An action is a run of reads, or a transaction from
its first write to its commit, because SQLite admits no second writer in between
and takes no lock before; a `SELECT ... FOR UPDATE` is a plain read there. The
index `uq_stream_activation_one_active` is the guard `Unique` of `SelectWrites`:
where it is violated the transaction fails. `Follow` and `Set` write a column only
if its new value differs from the loaded one.

What is abstracted: one integration of each type (activation rows are unique per
source key, so a second one could have none); all capabilities offered; consecutive
reads that no property can tell apart are one step, and so is what bootstrap reads with the
insertion it decides on (`BootInserts`); a deleted integration comes back
under the same name, but only when no request remembers it (`Forgotten`), since in the
code it gets another id; the first bootstrap of a new Zammad configuration is in
`ZammadSaves`. `Init` is a connector at rest, with any integrations configured and
any of them selected. Not modelled: changing capabilities, a ServiceNow integration
created through the general endpoint, without a configuration, and the settings of
Prometheus, Loki and Documents, which `_set_connection_enabled` writes likewise.

Properties:

- `DisplacedWhenAsked` (every step): a source loses a stream only by a confirmed
  selection of another one there, or by being disabled or deleted; whatever was read
  before, by whomever. In the shipped catalog a stream has at most two sources, so the
  one displaced is also the one the confirmation named.
- `CopiesAgree`: when no request is in progress, enabled flags, connections and jobs
  are what the activation rows say (docs/streams.md:8-13, "the authoritative routing
  layer"), in histories where no session wrote on reads that had become outdated and
  no request broke off after a commit.
- `Heals` (liveness): with no such exception, the enabled flags come to agree with the
  selection once changes cease, by the corrections of the reads that go on.
- `RuntimeFollowsSelection` (violated, see Findings): the same of the connections.

## 5. ServiceNowSync

| variable | code |
|---|---|
| `clock`, `source` | ServiceNow: its clock, version and `sys_updated_on` of each record |
| `cached`, `cachedSince` | the rows of the cache; history: when each was inserted |
| `cursor` | `cursor_at` of each stage's `ServiceNowSyncCursorModel` |
| `selected`, `job` | the capabilities ServiceNow is the source of; whether the scheduler has its job |
| `attention` | whether `last_sync_error` is set |
| `sync` | each `synchronize` under way: its stages, the cursor it loaded, the time it asks from, what it has read |
| `writer` | the session that holds SQLite's write lock |
| `events` | bound |

`synchronize` is `Start`, then for each stage `OpenStage`, `PageRead`,
`StageCommits` or `StageFails`, then `Finish`; `Aborts` is any other exception.
`reconcile_servicenow` is `ReconcileJob`, `test` is `Test`. `SourceChanges` and
`Tick` are ServiceNow's. A stage asks for what was updated since its cursor less
the overlap (`After`) and stores rows and cursor in one commit (`Store`,
`CursorAfter`); a stage without rows takes the connector's own clock, which may be
`Lead` ahead. `FlushesEarly` names the stages whose session holds the write lock
while it waits for ServiceNow, so that other sessions' commits wait too (`Free`).

Abstracted: a record is its version; relationships and records of one stage are read
in pages of any size; retries inside `_request` are part of one request; the pages
are consistent and within the 10000 rows of `_list`. Time is in units that matter
only relative to the overlap. `OverlapSuffices` (`StageLimit + Lead <= Overlap`) is an
assumption about the installation, not about the code. The shipped overlap is two
minutes; how far the connector's clock is ahead is nobody's business in the code, and
the journal stage makes a request, with its retries and back-offs, for every incident in
the cache (servicenow.py:923), so with many incidents it does take longer. Beyond the
assumption there is a gap behind the cursor that no later sync asks for, and nothing
below is claimed.

- `NothingMissed`: what changed before the time a stage will ask from is in the cache
  as it is at ServiceNow, however syncs overlap. This is what an incremental sync
  rests on: the slower of two syncs may put back an older row only if it also puts
  back an older cursor, or the overlap reaches back to the change. Journal entries
  count from when their incident is cached (`Due`): earlier ones may never be asked
  for, see the hazard at servicenow.py:924.
- `ServiceNowCatchesUp` (liveness): while a capability stays selected, the cache
  comes to have every change.

## 6. ZammadSync

| variable | code |
|---|---|
| `zclock`, `ticket` | Zammad: its clock; version, `updated_at` and standing of each ticket |
| `held` | the cached ticket: version, and whether it is visible and active |
| `zcursor`, `reconciled`, `initial`, `enabled` | `sync_cursor_at`, `last_reconciled_at`, `initial_sync_status`, enabled |
| `run` | each `synchronize` under way: full or not, what it still has to list and to store |
| `lookup` | a live `get_ticket` between its read and its store |
| `occasions` | bound |

`synchronize` is `RunBegins`, `PageListed`, `Upserts` for all tickets but the last,
`RunCompletes`, or `RunFails`; `get_ticket` is `LookupBegins`, `LookupReads`,
`LookupStores` or `LookupFails`, and of the row it loaded first it writes only the
columns that the answer changes (`Merged`).
Tickets are committed one by one, because each `_upsert` begins with a bootstrap
that commits; the marks, the cursor and the last ticket share a commit
(`Reconciled`, `CursorMoved`). The daily reconciliation is that the timer may begin a
full sync at any time. `MarginSuffices` (`RunLimit < Margin`) says that no sync and no
lookup takes as long as the two-minute overlap. The code does not see to that either: a
sync lists up to 5000 tickets and asks for the articles of each. That a list fits the 5000 tickets of `tickets()` is
another, not stated because nothing in the model could violate it.

- `TicketsNotMissed`: an open ticket that the next incremental sync will not ask for is
  shown with its last version, though another sync or a lookup may have stored an
  older one, or marked it deleted because it was not there when the list was made.
- `ZammadCatchesUp` (liveness): while enabled, the cache comes to show the open
  tickets as they are, and no others: full reconciliations repair what lookups and
  overlapping syncs left behind.

## 7. OperationalTools and RequestService

| variable | code |
|---|---|
| `rpc`, `answer` | PEKA: the state of each request, its tool, the registration it was made of; its result |
| `registered` | the registration in `product_settings` |
| `active`, `activeSince` | the selected source of each stream; history: all selected since the claim |
| `worker` | `run_once`: where it is, the registration it loaded, the tool's steps still to do, the result so far |
| `audit` | the audit events of each request |
| `switches`, `faults` | bounds |

`run_once` is `Polls`, `Claims` (or `NothingWaits`, `ClaimFails`), `Starts`, the tool's
steps, `Submits` or `SubmitFails`, `RecordsOutcome`; `Breaks` is a refused write or
the end of the process. `Steps(tool)` is the sequence of reads each tool makes, in the
order of `OperationalToolExecutor.execute` and of the services it calls, with the
errors each caller catches; one action executes each kind of step. `Raises` is the
rule of the two `except` levels: a caught error leaves a part out, any other makes
the result a refusal. Of a result the model keeps whether it succeeded, the sources
its data came from, its label and its tenant.

Some rows bring data of another source with them (`Brought`): an asset of the inventory
the health and scrape times of its stored Prometheus observations, ServiceNow's tickets
of a CI that CI of the ServiceNow CMDB cache. Nobody reads whether that source is
selected. `servicenow_get_status` (`Describe`) describes the configuration and returns
no data of a source.

- `AnswersFromSelected` (violated, see Findings; docs/streams.md:15-17, "Inactive caches
  are not fallback data"): all data of an answer came from a source selected, for some
  stream, at some time since the claim.
- `AnswersThroughSelected`: what the code does keep to. All data of a result came from a
  source selected for its stream at some time since the claim, or with the rows of
  such a source and from the one source these bring. Not at one and the same time: a
  selection may change between two reads, and the label of a result is read last.
- `AnswersStayWithTenant`, `AuditAgrees`, `OnlyFaultsLoseRequests`: what the comments
  in the module say; each relates the connector to PEKA across failures of either.
- `ServesRequests`: the module implements `RequestService`, the contract of
  `domain/ports/saas.py` seen by PEKA: a request is taken once, by the tenant asked,
  while no other answer is owed; then it is answered once, or expired, or hit by a
  fault. The refinement maps `owed` to the worker's request from claim to submission.
- `RequestsAnswered` (liveness): every request of the current registration is claimed or
  expires, and the worker never keeps one.

## 8. SourceScan

| variable | code |
|---|---|
| `disk` | the directory: a version and whether it is readable, for each path |
| `row`, `doc`, `open` | the source's row; its document rows; how many rows of its scan history say `running` |
| `guarded` | whether the source is in `SourceScanGuard._active` |
| `timer` | whether the scheduler has its job |
| `scan` | each scan: where it is, its configuration, what it has hashed |
| `edit`, `dropping` | a PUT or a DELETE of the source between two commits |
| `requests`, `breaks` | bounds |

`scan` is `Enter`, `MarkBusy`, `StartHistory`, `Walk`, `HashFile`, `Reconcile`,
`CloseHistory`, `ReportHealth`, `Leave`, one commit each. `ScanFails` is an exception
that leaves the session usable, `SessionBreaks` one that does not: a statement the
database refused, after which handler and `finally` raise too and the guard stays
until a restart. `SourceGone` is what a scan meets whose source was deleted.
`Update`, `UpdateHealth`, `ReconcileSource`, `UpdateBreaks` are the PUT, `RemoveJob`,
`Delete` the DELETE, `Validate` the check, `Restart` the start of the process.

- `ScansExclude`: scans of one source never overlap, and the row does not say that one
  is in progress while another could begin.
- `DeletedLeavesNothing`: no documents and no history of a deleted source, though a scan
  may be about to store its own: the foreign keys and the repositories' `LookupError`
  are what it rests on.
- `ScansCatchUp` (liveness): documents and health come to be those of the directory, if
  the source stays enabled with its job and no guard was left behind by a broken
  session, whatever older scans and PUTs stored in between.

## 9. Inventory

| variable | code |
|---|---|
| `upload`, `current` | the versions of the dataset and `current_version_id` |
| `assets` | the assets that exist, numbered |
| `observed`, `link` | asset and status of each observation; the asset its identities are linked to |
| `decided` | the last manual decision on it |
| `service`, `depends` | the service row of each target; the dependency rows |
| `importing` | the import that holds the write lock, with the rows it still has to ingest |
| `scraped` | what Prometheus lists |
| `deciding` | a manual decision between its read and its transaction |
| `scrapes`, `decisions`, `failures` | bounds |

An import is `Upload`, `BeginImport`, `Ingest` for each row, and one of three ends.
`CommitImport` is the commit at the end of `import_version`. `ImportFails` is a failed
flush or commit, or the end of the process: the session cannot commit any more and the
transaction is taken back. `ImportBreaksOff` is any other exception, for which a
malformed row stands (`Malformed`: an alias like `web[01`, which `urlparse` refuses):
`import_version` does not roll back, the endpoint catches the exception, and its
`record_event` commits the same session. The version is then imported and current, the
former one superseded, with the rows before the malformed one and the bare observation
of that row; a second import of the version is refused. `Ingest` is `ingest_cmdb_record` with
`_find_asset` (`Matches`, `Clashes`), `CommitImport` begins with
`reconcile_cmdb_relationships` (`HostsOf`, `HostedRows`). `ScanTargets` is
`PrometheusService.scan` with `correlate_prometheus` (`Hits`, `Considered`,
`Contenders`, `Correlated`) and the topology rows. `Decide`, `StoreDecision` are
`manual_decision`. Identities are normalised values; retired and deleted datasets,
descriptive fields and the list of conflicts are left out; there is one dataset.

- `InventoryTypeOK` includes `AssetsExist`: nothing refers to an asset that is not there
  (a decision or a scan must not have picked up what was rolled back).
- `ImportsWhole`: a version that was ever imported has all rows of its file observed, or
  all before the malformed one that broke it off; any other version has none. It
  says how much of an import can be missing, and that a rollback is complete.
- `OneAssetPerIdentity`: as long as no import met ambiguous evidence and nobody decided
  on a row, all rows that share an identity are of one asset, in whatever order
  files and exporters came.
- `DecisionsPrevail` (liveness; docs/inventory.md:37, "Manual decisions persist and take
  precedence on later scans"): a target that stays scraped comes to have what was
  decided, in its observation, identities and service, though the decision raced a
  scan or an import.

## 10. Accounts

| variable | code |
|---|---|
| `account` | the users table: there or deleted, active, role |
| `call` | each request: where it is, who acts on whom, and what it has read |
| `crossed` | history: two requests were past their reads at once |
| `calls` | bound |

A request is `RequireAdministrator` (the dependency that checks who acts), then
`NameFree`, `Create`, or `Load`, `Safeguard`, `SetActive` / `DeleteAccount`;
`SetupRequired`, `Create` is the first-run setup, `BreaksOff` an error or the end of
the process. Each is one statement or transaction. Names are left out, passwords and
sessions are in the next module.

- `AccountsTypeOK` includes that an account about to be disabled or deleted is not the
  actor's own.
- `AdministratorRemains` (violated, see Findings) and `AdministratorRemainsInTurn`: the
  same as long as no request reads the account it is about while another has and
  is not done. Every interleaving with authorization checks, creations and the setup
  remains inside it.

## 11. Sessions

| variable | code |
|---|---|
| `user` | the users table: there, active; history: which `term` of passwords and disablings it is in, and whether a revocation was `missed` |
| `session` | `refresh_tokens`: new, valid or ended, of whom; history: the session it replaces, the term its sign-in read, and whether a revocation fell into a request it goes back to (`late`) |
| `work` | each request: where it is, and what it holds |
| `doubled` | history: sessions that two requests presented at once |

Sign-in is `SignIn`, `CreateSession`; a refresh `Presents`, `LoadsUser`, `Rotates`,
`CreateSession`; logout and expiry `SessionEnds`; a new password or a disabling
`StoresPassword` or `Disables`, then `RevokesAll`; `RequestsEnd` is an error or the end of
the process. Each is one statement or transaction. Who may do it is in `Accounts`.

- `SessionsTypeOK` includes that a session that can be used is of an account that is there.
- `OldSessionsEnd` (docs/security.md:26): a session from before the account's last new
  password or disabling can be used only until the revocation that belongs to it. Two
  exceptions, which the code has: the revocation broke off after the change was
  committed, or it fell between the reads of a sign-in or refresh and its new session.
  The property is about whole chains of refreshes: what such a session is replaced with
  is excepted, what any other is replaced with is not, however the requests overlap.
- `RefreshReplaces` (docs/security.md:24): a session that another replaces is not valid
  any more, and one replaces it unless two requests presented it at once.

## 12. Caches, MCCopies and MCServices

`KnowledgeIndex`, `ServiceNowSync` and `ZammadSync` share no state in these models, and
neither do the five modules after them, so their product would only multiply their
states. `MCCopies` is the sum of the first three and `MCServices` of the other five: the
initial state chooses a `part`, only that component moves, the others stay as they
begin, and every property is checked in all of that component's behaviours. The fairness
of a component is required where it is chosen. Nothing is checked of two of them
together that one alone would not show. `Caches` composes the two synchronizations
without an instance's constants, because theorems are stated about it.
`CachesTypeOK` is the types of both and `WriterReads`: only a sync in the middle of a
stage holds SQLite's write lock, so none is left held when a sync fails or dies.

## 13. Runs

| run | checks | shows |
|---|---|---|
| `lifecycle_safety` | `TypeOK`, `HeartbeatChain`, `NoInheritedSuccess`, `RemovedCredentialsStayRemoved` | two requests, the attempt, a read, a crash or a storage fault, in every order |
| `lifecycle_liveness` | `Recovers`, `QuietsDown`, `RegisteringEnds` | one request beside attempt and reads, two disturbances |
| `stale_acceptance` | `ConnectedByOwnCredentials` | violated without any disturbance |
| `copies` | `TypeOK`, `IndexAgrees`, `DeletionSticks`, `Converges`; `CachesTypeOK`, `NothingMissed`, `TicketsNotMissed`, `ServiceNowCatchesUp`, `ZammadCatchesUp` | one document, two contents, a request, the worker and a scan, two edits, one disturbance; each of the two synchronizations; safety and liveness |
| `deletion_leaves_points` | `TombstonesEmpty` | violated without any disturbance |
| `unstable_indexed` | `StableBeforeIndexed` | violated by one direct copy |
| `sweep_of_new_upload` | `SweepsOnlyMissing` | violated by one upload during a scan |
| `stream_selection` | `TypeOK`, `CopiesAgree`, `DisplacedWhenAsked`, `Heals` | two requests on two ticketing and two CMDB sources; two changes, one of which may be a failure or a restart |
| `stream_runtime` | `RuntimeFollowsSelection` | violated by a save beside a selection |
| `services` | the type invariants and `AnswersThroughSelected`, `AnswersStayWithTenant`, `AuditAgrees`, `OnlyFaultsLoseRequests`, `ScansExclude`, `DeletedLeavesNothing`, `ImportsWhole`, `OneAssetPerIdentity`, `AdministratorRemainsInTurn`, `OldSessionsEnd`, `RefreshReplaces`, `ServesRequests`, `RequestsAnswered`, `ScansCatchUp`, `DecisionsPrevail` | each of the five other service components, safety and liveness |
| `unselected_source` | `AnswersFromSelected` | violated by one request, with nothing selected anew and no fault |
| `last_administrator` | `AdministratorRemains` | violated by two requests about each other's administrator |

Bounds and why they are enough to be interesting. `MaxRegistrations = 2`: a
registration and the re-registration that overlaps it; every property compares
at most two sets of credentials. `MaxDisturbances` bounds crashes, failed
attempts and storage faults together; `MaxEdits` uploads, deletions, retries and
direct changes: two are an upload and the change, deletion or retry after it. One
document suffices for safety because no step reads one
document's state to change another's, except that a batch, a sweep and a crash
affect all; the theorems below are for any number. `Limit = 10` is the code's and
is never reached by one document. `MaxChanges` bounds the requests that change
something and the disturbances together: two are two requests that meet, or one and
what interrupts it. The sources are those of the catalog that compete:
ServiceNow serves both streams, so its enabled flag outlives the loss of one.
Reads are not bounded. The run starts where every integration is configured and every
stream has a source, or where the local dataset is still to be imported
(`Installed`): other starts are reached by a change or differ in a stream nobody serves.

ServiceNow: an incident and one of its journal entries in two stages, two versions of
the incident, a manual beside the scheduled sync, and one more event (a failure, an
abort, a restart, a change of the selection); an overlap of two ticks, a stage of at
most one, a clock one ahead, so that a cursor from the connector's clock is later than
the record it skipped. Zammad: two tickets, one of which may be closed or merged; two
syncs; one manual sync, lookup, failure or setting. These bounds are small because the
run also checks liveness; the safety of both caches is proved for any. In particular a
ticket has one version and one standing after it: that no sync or lookup leaves an older
version over a newer one is shown by `NoTicketIsMissed` alone. `MaxEdits = 2` does not
reach a retry of a deletion that failed; `DeletionStays` covers it. Tools: one request of
any tool, three selections to start with in which every source occurs, one switch of
selection or registration, one fault. Scans: two files changed once, two configurations, a manual
beside the scheduled scan or two requests, one failure or crash. Inventory: a row
hosted on another one, with a second identity that a target shares, and files with a
malformed row; two uploads, a change of targets, a decision and a failure. Accounts: three accounts, two requests at
a time, four in all: the setup, a second administrator, and two about each other.
Sessions: one account with one new password or disabling, two requests at a time and
three sessions, which is one and the two that a doubled refresh makes of it, or a
chain of two refreshes; the theorems are for any number.

Deadlock is checked in the runs of `ConnectorLifecycle` and `StreamSelection`, and in those
of `KnowledgeIndex` alone: `Elapse` and `ScanWalks` are always possible; in
`StreamSelection` a request that is idle can always read, and one in progress can always
go on. In `copies`, `services` and the runs of their parts, clocks and bounded requests
come to an end, after which nothing need happen: `CHECK_DEADLOCK FALSE`; the liveness
properties say what must have happened by then.
Symmetry is used in `lifecycle_safety` only.

Every property of a passing run has a mutant in `PROJECT.json`: a plausible bug
in the code (a column too many saved, a step left out, a guard dropped) that
breaks it. The mutated operators stand in the modules, marked `Mutant`, before
the definitions they replace.

### Fairness

Lifecycle: the supervisor restarts the process (`Start`); a due job fires, or is
skipped; begun steps of the event loop are run; an HTTP call ends within its
timeout. Of the outcomes of an attempt only the good ones are required: the bad
ones draw on `MaxDisturbances`, so the assumption reads "PEKA answers from some
moment on". Nothing forces a request to begin, a poll to start or time to pass.

Knowledge: the worker's and the scheduled scan's interval jobs come round
(`WorkerLoads`, `ScanWalks(Scheduled)`), begun steps are run, and a file nobody
changes is found stable in some pass: strong fairness of `ScanHashes`, because the
stability window is a comparison of clocks that goes on succeeding once it did,
while other passes come in between. Manual scans, uploads and failures are not
required.

Streams: a request in progress runs to its end, and somebody keeps reading the
streams (every page, tool and synchronization does, `WF` on a read by some request).
No request is required to succeed.

Caches and services: the interval jobs come round (`Start(SyncTimer)`, `RunBegins(Timer, TRUE)`,
`Polls`, `Enter(ScanTimer)`, `ScanTargets`), jobs are reconciled (`ReconcileJob`), and
what has begun goes on, since every call has a timeout and bounded retries. The daily
full sync of Zammad needs strong fairness: incremental ones come in between. In
`Inventory` a pending decision is stored and an import goes on (`Ingest`,
`CommitImport`). Failures draw on the bounds, so they stop; manual requests are never
required.

## 14. Proofs

All theorems hold for every value of the constants that satisfies the modules'
`ASSUME`s, which only say that the bounds are numbers, that the special values are
distinct from the others, which integrations are sources of which streams, and, for
the inventory, that a file has each row once and targets declare the kinds of
identities `prometheus.py` extracts. `NothingIsMissed` also rests on
`OverlapSuffices` and `NoTicketIsMissed` on `MarginSuffices`, the assumptions on time of
sections 5 and 6, which bound durations that the code does not bound: outside them the two
theorems say nothing. And `TwoSources` (a stream has at most two sources, as in
`STREAM_SOURCES`) is what makes `CopiesAgree` true.

`ConnectorLifecycleProofs`:

- `TypeCorrect`: `Spec => []TypeOK`.
- `ChainKept`: `Spec => []HeartbeatChain`. Inductive together with the typing:
  wherever a job is consumed, its consumer is at a step that adds the next.
- `SuccessNotInherited`, `CredentialsStayRemoved`. Neither property is
  inductive: a registration in progress may store "no success" as a column it did
  not change. `RegistrationInv` adds what a request in progress remembers: its
  number is unused, and if its copy has no success then any success in the row was
  stored since the request began. `RegistrationInvKept` proves it.

`KnowledgeIndexProofs`:

- `TypeCorrect`: `Spec => []TypeOK`, through `TypeInv`, which adds what a step
  under way has in hand (its document; its text once parsed).
- `DeletionStays`: `Spec => DeletionSticks`, by what each action writes.
- `IndexAgreement`: `Spec => []IndexAgrees`. `IndexAgrees` speaks of documents
  nobody works on and says nothing of how they got there. `AgreementInv` does, for
  each document that is not exposed (`DocInv`): it has at most one user
  (`SoleUser`); what the user loaded is still the row (`Current`); an indexing
  session has a row without a deletion, an erasing one a row with it; between purge
  and commit the points are empty, then exactly the new version (`TaskAgrees`); and
  at all other times row and points agree (`RowAgrees`). The proof has one lemma per
  group of actions; `Untouched` and `OneUser` carry the two arguments all of them
  share, a document the step has nothing to do with and a document with one user.

`StreamSelectionProofs`:

- `TypeCorrect`: `Spec => []TypeOK`.
- `SelectionInvariant`: `Spec => []SelectionInv`. At most one row of a stream is
  active; a request about to write has been confirmed if it loaded another source
  (`Prepared`), and if it loaded its own row as active then it loaded itself as the
  source, which is where uniqueness is needed.
- `NeverDisplacedUnasked`: `Spec => DisplacedWhenAsked`. Of all actions only
  `SelectWrites`, `DisableWrites` and `DeleteCommits` make a row inactive;
  `Prepared` is what `SelectWrites` needs.
- `CopiesAlwaysAgree`: `Spec => []CopiesAgree`. The property speaks of moments without
  requests and says nothing of what happens during one; `CopiesInv` does. While nothing
  was exposed, each flag, connection or job that differs from the selection is owed
  (`Owed`) by a request that has changed something and will still write that copy:
  one before or in bootstrap that has not yet compared the flag (`OwesFlag`), a save or
  a creation that has still to link its connection (`OwesConn`), whoever still has the
  job to reconcile or is about to (`OwesJob`). An integration without its rows is owed
  by the request that added it (`Introduces`), since bootstrap will select it if it finds
  it enabled, and so changes what its connection should be. `Formed` says what a session
  remembers at each step, `Whole` that an integration has all its rows or none yet.
  Each action has a lemma: what it pays, what it begins to owe, and that the debts
  of the others stand (`FlagStays` and its companions, `OthersOwe`); `Correcting` is
  the part that the two writing steps of bootstrap share. Idle requests owe nothing.
  The proof is where `TwoSources` is needed (`SelectWrites` disables one displaced
  source, and a third would keep its flag), and it is why a restart after a committed
  bootstrap of a selection counts as exposed.

`OperationalToolsProofs`:

- `TypeCorrect`, `TenantKept`, `AuditTrue` from one invariant `Inv`: the worker has one
  request or none (`Single`); it is one of the registration the worker loaded, claimed
  or expired while it is executed, recorded as started, and answered with the worker's
  result once sent (`Carried`); the result so far is of that tenant (`Tenanted`).
- `Implements`: `OperationalSpec => ServesRequests`. With `Inv` every action is one of
  `RequestService` or leaves its variables alone: a claim is `Take`, because nothing is
  owed while the worker polls; a lost answer, a refused record and a crash are `Lose`.
- `LossesAreFaults`: the contract's `Lost` requests are finitely many and at most as many
  as the faults (`LostIsBounded`), which bounds those the property counts.
- `ThroughSelected`: `OperationalSpec => []AnswersThroughSelected`. A step that asks a
  service trusts an earlier step that looked at the selection. `SoundSteps` shows of every tool's sequence of steps that each such step
  directly follows the one that vouches for its source; `Sourced` says that of the
  steps still to do, and of the head that its source is in `activeSince`.

`SourceScanProofs`:

- `TypeCorrect`, `ScansNeverOverlap`, `NothingLeft`, from one invariant. The type of
  `open` (it never becomes negative) needs `Counted`: a scan that has yet to complete its
  history row has it counted, unless the source is gone; and that needs `ScansExclude`,
  since two scans could otherwise complete the same one.

`InventoryProofs`:

- `TypeCorrect`, through `Numbered` (versions are uploaded in order, so the next one is
  one of them) and `Locked` (the import that holds the lock has an uploaded version).
- `TypeCorrect` also says `AssetsExist`, which is not inductive, as a failed import takes
  assets back; `RolledBack` adds that nothing but the import's own rows refers to one of
  them, while it lasts.
- `ImportsAreWhole`: `InventorySpec => []ImportsWhole`. `Whole` adds how far the
  import in progress is: its `rest` is the end of its file, and the rows before that are
  observed (`Progressing`); a scan and a decision leave them so (`Decided`), and the
  version an import supersedes had been imported (`Current`).
- `OneAsset`. `Steady` adds that the rows an import does not touch agree by themselves
  (it may end as if it had never begun), and that a row yet to be imported has no
  observation, link or decision.

`SyncProofs`:

- `ServiceNowTypeCorrect`, `CachesTypeCorrect` (of `CachesSpec`, with `WriterReads`). That the greatest `sys_updated_on` or
  `updated_at` of a page exists is a lemma on sets of numbers (`Greatest`).
- `NothingIsMissed`: `ServiceNowSpec => []NothingMissed`. The property speaks of cursors;
  a sync stores a cursor and rows it read some time ago, while others stored theirs.
  `SyncInv` adds what a stage in progress knows (`Reading`): it began at most
  `StageLimit` ago and asks from at least that long before it began (`InTime`, which is
  where the overlap is needed); a record it has read that did not change since it began
  is at its last version (`Fresh`); what it does not ask for is in the cache (`Behind`);
  and what it need not list again it has, or did not ask for (`Complete`). A commit of
  another sync in the meantime may put back an older row, but only of a record that has
  changed since, and so is not before any time somebody asks from.
- `NoTicketIsMissed`: `ZammadSpec => []TicketsNotMissed`. Here the rows are committed one
  by one and the cursor with the last, so `Knows` adds to the same four facts
  (`OnTime`, `Current`, `Accounted`, `Older`) that a ticket already stored is in the
  cache as it was unless it changed within the margin (`Written`), and `LookupKnows`
  says the same of a lookup's answer. Marking as deleted is harmless because what was
  not listed was not there when the list was begun.
- `CachesMissNothing`: both, of the composed module.

`UserProofs`:

- `AccountsTypeCorrect` with `OwnAccountSafe`, `SessionsTypeCorrect` with `SessionsOfUsers`.
- `AdministratorKept`: while no two requests have crossed, a request past its reads is
  the only one, what it has read is still so (`AsRead`), and past the safeguard it
  leaves another administrator (`LeavesAnother`).
- `RevocationsReach`, by `InTerm`: what a request is about to store has the account's
  term, is late or has its revocation outstanding, as a valid session has
  (`WorkInTerm`). `InTermKept` is the argument the steps share that end no term.
- `RotationHolds`, by `Replaced`: a session is ended before its successor is made; and
  one not presented twice at once has one successor, or one request that may still make
  one, and not both.

Only model-checked: the liveness properties, which need fairness, and the seven
violations. Every safety property of a passing run is a theorem.

## 15. Findings

1. `ConnectedByOwnCredentials`: README.md:106, "Only an accepted authenticated
   heartbeat changes the state to Connected". A heartbeat sent with the old
   credentials and accepted during a re-registration is stored after the
   registration loaded a row without a success; `complete_registration` then
   assigns None to a column that is None in its copy, nothing is written, and the
   connector shows Connected for credentials no heartbeat was sent with. The
   weaker `NoInheritedSuccess` does hold.
2. `TombstonesEmpty`: docs/documents.md:51, a deletion "deletes all matching Local
   Knowledge Store chunks". An indexing session that upserts after the deletion's
   erase commits INDEXED on a row with a deletion request; no worker selects it
   again, and its chunks stay searchable.
3. `StableBeforeIndexed`: docs/documents.md:35, direct copies "must retain the same
   size and modification time across checks". The row a scan inserts for a new file
   is PENDING from the start, and the worker indexes the file as it is then.
4. `SweepsOnlyMissing`: docs/architecture.md:74, uploads and direct copies
   "converge". A document uploaded between a scan's walk and its sweep is turned
   into a deletion although its file is there, and later scans pass it over.
5. `RuntimeFollowsSelection`: zammad.py:605, "Connection runtime follows stream
   selection." A save that reads "not selected", and writes it after its integration
   was selected meanwhile, clears the connection's flag; the integration's is unchanged
   in its own copy and stays set. Bootstrap compares only the integration's, so the
   selected source is without a connection and without a job until someone saves or
   selects again.
6. `AdministratorRemains`: docs/security.md:26, "Last-active-administrator safeguards
   prevent lockout". Two requests, each about the other's administrator, both count two
   active administrators before either commits. None is left, and setup stays closed
   because users exist.
7. `AnswersFromSelected`: docs/streams.md:15-17, "Inactive caches are not fallback data. In
   particular, Ticketing returns one logical source and CMDB never combines Local CMDB
   with ServiceNow CMDB." `servicenow_get_ci_tickets` is let through by the ticketing
   selection alone (operational_tools.py:655-671) and returns the CI of the ServiceNow
   CMDB cache (servicenow.py:716-741) while Local CMDB is selected. With Monitoring
   unselected, `get_asset_status` and `assess_infrastructure` break it the same way:
   assets come with stored Prometheus observations (inventory.py:1047-1125).

Met while modelling, and not runs of their own: an import that an exception breaks off is
committed halfway (section 9), which no document rules out; a sign-in or refresh that has read the
account before a new password or a disabling leaves a valid session behind, and so does
a revocation that breaks off (the exceptions of `OldSessionsEnd`); a source scan whose statement the
database refuses leaves its guard set and its history row running
(sources.py:155-165), while docs/database.md:28 says that "scan lifecycle and source
health are committed explicitly so failures remain observable"; and
`get_asset_status` catches a `LokiError` around a check that raises a ValueError
(operational_tools.py:849), so that without a logs source there is no status at all
instead of one without logs. All are in the models (`ImportBreaksOff`; `late`, `missed`; `SessionBreaks`;
`ErrorOf`).

## 16. Not modelled, and what could follow

- Access tokens, which no request ends before they expire; cookies and CSRF values;
  rate limits.
- The document delivery worker (no caller), certificates, configuration, logging, HTTP
  schemas, migrations and the frontend: no state whose interleaving matters.
- Zammad's relevance scores, chunking, embeddings and ranking, Prometheus's and Loki's
  queries, the parsing of CMDB files, the assessments of the tools: computations on
  data, which unit tests cover.
- In `KnowledgeIndex`: a second tenant identity, the order of a batch, two scans at a
  time; in `StreamSelection`: changing capabilities; in `Inventory`: several datasets,
  retiring and deleting them.

Next steps, in this order: `KnowledgeIndex` with two scans; an abstract specification of the
document index (absent, wanted, indexed, deleted) implemented for documents that are
not exposed.
