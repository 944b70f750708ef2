\* A synchronized season, or one fed with batches.
SPECIFICATION CommandsSpec
CONSTANTS
  None = None
  Absent = Absent
  cron = cron
  manual = manual
  i1 = i1
  i2 = i2
  results = results
  profiles = profiles
  Jobs <- MCJobs
  LowPriority = {profiles}
  Interval <- MCInterval
  Policy <- MCPolicy
  Threshold <- MCThreshold
  RepeatedSaturation = 2
  StreakCap = 2
  Runs = {cron, manual}
  Scheduled = {cron}
  MaxHold = 1
  Deployments <- MCDeployments
  EnabledSeason = 1
  CaptureOffset = 1
  CuratedLabels = "current"
  Credit = "current"
  Submissions <- MCSubmissions
  Ingests = {i1, i2}
  MaxClock = 2
  MaxReleases = 2
INVARIANTS
  SuccessIsReal
  BatchesAreReviewed
PROPERTY
  PolledIsAskedAgain
