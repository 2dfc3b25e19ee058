SPECIFICATION PoolFairSpec
CONSTANTS
  Alerts = {a1}
  Jobs = {j1, j2}
  Others = {q1}
  NoAlert = NoAlert
  Summaries = {"s1"}
  Actions = {"a1"}
  Null = Null
  Results <- MCResults
  MaxDisruptions = 2
  PoolSize = 2
CHECK_DEADLOCK FALSE
INVARIANTS
  PoolIInv
  NoStandstill
  NoRunBehindAnError
PROPERTIES
  SpareConnectionFinishesJobs
  RequestsEnd
