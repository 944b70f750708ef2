CONSTANTS
  home = home
  driver = driver
  h1 = h1
  h2 = h2
  d1 = d1
  s1 = s1
  s2 = s2
  g1 = g1
  o1 = o1
  o2 = o2
  Docs <- mcDocs
  ResultsDocs <- mcResultsDocs
  Revisions <- mcRevisions
  Manifests <- mcManifests
  Commitments <- mcCommitments
  LegacyIds = {1, 2}
  SeedFingerprints <- mcSeedFingerprints
  GenesisFingerprints <- mcGenesisFingerprints
  Seeds <- mcSeeds
  MaxOperationEpoch = 1
  MaxInstant = 5
  PreparationTtl = 1
  ReleaseOf <- mcReleaseOf
  BaseDocs <- mcBase
  DerivedDocs <- mcBase
  AliasedDocs <- mcAliased
  OtherDocs <- mcOther
  Operators <- mcOperators
  CheckpointOf <- mcCheckpointOf
  GenesisOf = g1
  Readings <- mcReadings
  Publishing <- mcPublishing
  Candidates <- mcManifests
  KvBefore <- mcKvBefore
SPECIFICATION CutoverSpec
SYMMETRY Symmetry
INVARIANTS
  ReleasesStayWhole
  AnswersHold
  SeedingAgrees
PROPERTIES
  HandoverHolds
CHECK_DEADLOCK FALSE
