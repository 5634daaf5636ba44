\* One request; nothing is selected anew and nothing fails.
SPECIFICATION OperationalSpec
CONSTANTS
  Request = {q1}
  Wanted <- TheWanted
  Initially <- LocalBesideServiceNow
  MaxIdentity = 1
  MaxSwitches = 0
  MaxFaults = 0
INVARIANT AnswersFromSelected
CHECK_DEADLOCK FALSE
