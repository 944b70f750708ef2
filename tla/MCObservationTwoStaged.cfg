\* Two staged rounds and another season compete for the backlog; two operators dispose, hold, release and clear.
SPECIFICATION MCStagedSpec
CONSTANTS
  r1 = r1
  r2 = r2
  r3 = r3
  o1 = o1
  o2 = o2
  s1 = s1
  Revisions = {r1, r2, r3}
  None = None
  holder = None
  verifier = None
  Operations = {o1, o2}
  Sessions = {s1}
  Rounds = {1, 2}
  Anchors = {0}
  WindowChecks = 1
  ConfirmationSlots = {}
  SettlingSlot = 2
  FinalSlot = 2
  SettlingConfirmations = 2
  MaximumConfirmations = 2
  HistoryCapacity = 2
  MaximumVerifications = 3
  BacklogCapacity = 2
  Triggers = {"scheduled"}
  OperatorActions = {"accept-staged", "hold", "release-hold", "clear-block"}
  Served <- MCNothingServed
  Completions = {"complete", "cancelled"}
  MaxElsewhere = 1
  MaxTime = 2
  MaxFence = 5
SYMMETRY MCSymmetry
CHECK_DEADLOCK FALSE
INVARIANTS
  ReviewBlockHasCause
  BacklogHoldsStaged
  OwedPublicationIsRemembered
