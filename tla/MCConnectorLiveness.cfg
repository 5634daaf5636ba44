SPECIFICATION FairSpec
CONSTANTS
  Requests = {r1}
  MaxRegistrations = 2
  MaxDisturbances = 2
  StorageFaults = FALSE
PROPERTIES Recovers QuietsDown RegisteringEnds
