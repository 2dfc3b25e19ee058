SPECIFICATION FairSpec
CONSTANTS
  Alerts = {a1}
  Jobs = {j1}
  NoAlert = NoAlert
  Summaries = {s1, s2}
  Actions = {x1, x2, x3}
  Null = Null
  s1 = s1
  s2 = s2
  x1 = x1
  x2 = x2
  x3 = x3
  Results <- MCResults
  MaxDisruptions = 1
CHECK_DEADLOCK FALSE
PROPERTY AlwaysRecorded
