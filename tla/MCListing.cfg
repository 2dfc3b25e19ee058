SPECIFICATION ListSpec
CONSTANTS
  a1 = a1
  a2 = a2
  a3 = a3
  AlertIds <- MCAlertIds
  Rank <- MCRank
  Filters <- MCFilters
  PageLimit = 1
  IncidentIds = {i1, i2}
  Requests = {r1, r2}
  NoIncident = NoIncident
  NoResource = NoResource
  AskedOfAlerts = {"resolved"}
  AskedOfIncidents = {}
  MaxAudit = 4
SYMMETRY Symmetry
CHECK_DEADLOCK FALSE
INVARIANTS
  ListIInv
  PagesMissNothingUndisturbed
  ListingShowsGroupedOnce
