\* The index: one document, two contents, one request beside the worker and the
\* scan, two edits and one disturbance.  ServiceNow: two versions of the incident;
\* Zammad: one version of each ticket, of which one leaves the filters; one
\* failure, manual sync, lookup or setting.  Safety and liveness, no symmetry.
SPECIFICATION CopiesSpec
CONSTANTS
  Parts = {"index", "servicenow", "zammad"}
  Docs = {d1}
  Contents = {c1, c2}
  Requests = {r1}
  Scans = {s1}
  Scheduled = s1
  Worker = worker
  None = none
  Unhashed = unhashed
  Limit = 10
  MaxEdits = 2
  MaxDisturbances = 1
  incident = incident
  journal = journal
  ticketing = ticketing
  Record = {incident, journal}
  Stages = 2
  StageOf <- TheStageOf
  Journal = 2
  Subject <- TheSubject
  Capability = {ticketing}
  Needs <- TheNeeds
  Syncers = {manual, scheduled}
  SyncTimer = scheduled
  Nobody = nobody
  Overlap = 2
  StageLimit = 1
  Lead = 1
  LastTick = 3
  MaxVersion = 2
  MaxEvents = 1
  t1 = t1
  t2 = t2
  Ticket = {t1, t2}
  Runners = {timer_run, manual_run}
  Timer = timer_run
  NoTicket = no_ticket
  Margin = 2
  RunLimit = 1
  LastTime = 3
  MaxRevision <- TheRevisions
  Leavers = {t2}
  MaxOccasions = 1
INVARIANTS
  TypeOK IndexAgrees
  CachesTypeOK NothingMissed TicketsNotMissed
PROPERTIES
  DeletionSticks Converges
  ServiceNowCatchesUp ZammadCatchesUp
CHECK_DEADLOCK FALSE
