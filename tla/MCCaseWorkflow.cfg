SPECIFICATION Spec
CONSTANTS
  AlertIds = {a1, a2}
  IncidentIds = {i1, i2}
  Requests = {r1, r2}
  NoIncident = NoIncident
  NoResource = NoResource
  AskedOfAlerts = {"new", "investigating"}
  AskedOfIncidents = {"closed"}
  MaxAudit = 5
SYMMETRY Symmetry
CHECK_DEADLOCK FALSE
INVARIANTS
  IInv
  AuditExplainsStatus
  AuditExplainsLinks
  StaleFromOnlyByOverlap
  OnlyOverlapRegroups
PROPERTY TrailSpec
