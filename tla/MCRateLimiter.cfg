SPECIFICATION Spec
CONSTANTS
  Clients = {c1, c2}
  Requests = 2
  WindowSeconds = 3
  TicksPerSecond = 2
  MaxTime = 6
  MaxCount = 5
  MaxAdmitted = 5
  MaxRestarts = 1
SYMMETRY Symmetry
CHECK_DEADLOCK FALSE
INVARIANTS
  LimiterIInv
  SlidingBound
  RejectionsAreEarned
  WaitingHelps
