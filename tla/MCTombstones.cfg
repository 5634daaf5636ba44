\* A deletion while the document is being indexed.
SPECIFICATION Spec
CONSTANTS
  Docs = {d1}
  Contents = {c1, c2}
  Requests = {r1}
  Scans = {s1}
  Scheduled = s1
  Worker = worker
  None = none
  Unhashed = unhashed
  Limit = 10
  MaxEdits = 3
  MaxDisturbances = 0
INVARIANT TombstonesEmpty
