SPECIFICATION Spec
CONSTANTS
  Requests = {r1}
  MaxRegistrations = 2
  MaxDisturbances = 0
  StorageFaults = FALSE
INVARIANT ConnectedByOwnCredentials
