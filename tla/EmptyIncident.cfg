SPECIFICATION Spec
CONSTANTS
  AlertIds = {a1}
  IncidentIds = {i1, i2}
  Requests = {r1, r2}
  NoIncident = NoIncident
  NoResource = NoResource
  AskedOfAlerts = {"new"}
  AskedOfIncidents = {"open"}
  MaxAudit = 3
SYMMETRY Symmetry
CHECK_DEADLOCK FALSE
INVARIANT IncidentGroupsAlerts
