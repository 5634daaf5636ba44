SPECIFICATION FairSpec
CONSTANTS
  Parts = {"operational", "scan", "inventory", "accounts", "sessions"}
  Request = {q1}
  Wanted <- TheWanted
  Initially <- Selections
  MaxIdentity = 2
  MaxSwitches = 1
  MaxFaults = 1
  f1 = f1
  f2 = f2
  all = all
  some = some
  File = {f1, f2}
  Configuration = {all, some}
  Picks <- ThePicks
  Scanners = {timer_scan, manual_scan}
  ScanTimer = timer_scan
  MaxContents <- TheContents
  MaxRequests = 1
  MaxBreaks = 1
  rowA = rowA
  rowB = rowB
  badRow = badRow
  exporter = exporter
  CmdbRow = {rowA, rowB, badRow}
  Malformed = {badRow}
  CmdbFile <- TheFiles
  Declares <- TheDeclares
  HostedOn <- TheHostedOn
  Unhosted = "none"
  Target = {exporter}
  Exposes <- TheExposes
  MaxUploads = 2
  MaxScrapes = 1
  MaxDecisions = 1
  MaxFailures = 1
  Account = {a1, a2, a3}
  Caller = {k1, k2}
  MaxCalls = 4
  User = {v1}
  Session = {s1, s2, s3}
  Client = {w1, w2}
  MaxTerm = 1
INVARIANTS
  OperationalTypeOK  AnswersStayWithTenant AuditAgrees OnlyFaultsLoseRequests
  ScanTypeOK ScansExclude DeletedLeavesNothing
  InventoryTypeOK ImportsWhole OneAssetPerIdentity
  AccountsTypeOK AdministratorRemainsInTurn
  SessionsTypeOK OldSessionsEnd RefreshReplaces
PROPERTIES
  ServesRequests RequestsAnswered ScansCatchUp DecisionsPrevail
CHECK_DEADLOCK FALSE
