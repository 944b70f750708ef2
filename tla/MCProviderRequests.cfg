SPECIFICATION Spec
CONSTANTS
  Runs = {coordinated}
  Plan <- MCPlan
  Windows <- MCWindows
  Spacing = 1
  HoldFloor = 2
  HoldCeiling = 3
  RetryAfters = {0, 4}
  Deadline = 3
  MaxTime = 5
  MaxFailures = 1
  MaxElsewhere = 2
CHECK_DEADLOCK FALSE
INVARIANTS
  ReservationsAreSound
  HoldsAreHonoured
  RequestsAreAccounted
  ChecksAreSound
