SPECIFICATION FeedSpec
CONSTANTS
  AlertIds = {a1, a2}
  IncidentIds = {i1}
  Requests = {r1, r2}
  Tasks = {k1}
  NoIncident = NoIncident
  NoResource = NoResource
  AskedOfAlerts = {"new", "resolved"}
  AskedOfIncidents = {}
  MaxAudit = 3
  MaxFeed = 3
  PollLimit = 2
SYMMETRY Symmetry
CHECK_DEADLOCK FALSE
INVARIANTS
  FeedIInv
  CreationIsListedFirst
  PollMissesOnlyOpenTransactions
  NewestRowTellsStatus
