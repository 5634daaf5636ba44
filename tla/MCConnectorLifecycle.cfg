SPECIFICATION Spec
CONSTANTS
  Requests = {r1, r2}
  MaxRegistrations = 2
  MaxDisturbances = 1
  StorageFaults = TRUE
SYMMETRY RequestSymmetry
INVARIANTS TypeOK HeartbeatChain NoInheritedSuccess RemovedCredentialsStayRemoved
