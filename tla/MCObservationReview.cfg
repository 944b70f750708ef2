\* A staged correction one operator has verified, in a season another has held or
\* not: two sessions, which may lose the lease to each other, two more operators.
SPECIFICATION MCVerifiedSpec
CONSTANTS
  r1 = r1
  r2 = r2
  r3 = r3
  o1 = o1
  o2 = o2
  o3 = o3
  o4 = o4
  s1 = s1
  s2 = s2
  holder = o1
  verifier = o2
  Revisions = {r1, r2, r3}
  None = None
  Operations = {o1, o2, o3, o4}
  Sessions = {s1, s2}
  Rounds = {1}
  Anchors = {0}
  WindowChecks = 1
  ConfirmationSlots = {}
  SettlingSlot = 2
  FinalSlot = 2
  SettlingConfirmations = 2
  MaximumConfirmations = 2
  HistoryCapacity = 1
  MaximumVerifications = 2
  BacklogCapacity = 1
  Triggers = {"scheduled"}
  OperatorActions = {"verify", "rotate", "accept-competing", "retain-published"}
  Served <- MCNothingServed
  Completions = {"complete"}
  MaxElsewhere = 0
  MaxTime = 2
  MaxFence = 7
SYMMETRY MCSymmetry
CHECK_DEADLOCK FALSE
INVARIANTS SupersededNeverReturns CompetingIsCorroborated OperationsApplyOnce LiveRunIsNotRefused HolderSeesLedger StoredRecordsDecode
