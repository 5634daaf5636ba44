\* The connections' copies are not corrected: a save races with a selection.
SPECIFICATION FairSpec
CONSTANTS
  zammad = zammad
  servicenow = servicenow
  local = local
  ticketing = ticketing
  cmdb = cmdb
  Integrations = {zammad, servicenow}
  Streams <- TheStreams
  Offers <- TwoOffers
  Zammad = {zammad}
  ServiceNow = {servicenow}
  Requests = {r1, r2}
  None = none
  MaxChanges = 2
  MaxDisturbances = 1
PROPERTY RuntimeFollowsSelection
