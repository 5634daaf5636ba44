\* Two requests at once, two changes, one of which may be a disturbance;
\* reads without limit.  Safety and liveness, hence without symmetry.
SPECIFICATION InstalledSpec
CONSTANTS
  zammad = zammad
  servicenow = servicenow
  local = local
  ticketing = ticketing
  cmdb = cmdb
  Integrations <- TheIntegrations
  Streams <- TheStreams
  Offers <- TheOffers
  Zammad = {zammad}
  ServiceNow = {servicenow}
  Requests = {r1, r2}
  None = none
  MaxChanges = 2
  MaxDisturbances = 1
INVARIANTS TypeOK CopiesAgree
PROPERTIES DisplacedWhenAsked Heals
