\* One round the calendar may move, through its whole cadence, scheduled and manual runs.
SPECIFICATION Spec
CONSTANTS
  r1 = r1
  r2 = r2
  s1 = s1
  Revisions = {r1, r2}
  None = None
  holder = None
  verifier = None
  Operations = {}
  Sessions = {s1}
  Rounds = {1}
  Anchors = {0, 1}
  WindowChecks = 1
  ConfirmationSlots = {1}
  SettlingSlot = 2
  FinalSlot = 3
  SettlingConfirmations = 2
  MaximumConfirmations = 2
  HistoryCapacity = 2
  MaximumVerifications = 3
  BacklogCapacity = 1
  Triggers = {"scheduled", "manual"}
  OperatorActions = {}
  Served <- MCAnyServed
  Completions = {"complete"}
  MaxElsewhere = 0
  MaxTime = 4
  MaxFence = 3
SYMMETRY MCSymmetry
CHECK_DEADLOCK FALSE
INVARIANTS
  CeilingIsFinal
PROPERTIES
  ReplacementIsCorroborated
  SettlingIsConfirmed
