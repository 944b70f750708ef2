CONSTANTS
  calendar = calendar
  results = results
  r1 = r1
  r2 = r2
  c1 = c1
  c2 = c2
  s1 = s1
  g1 = g1
  Docs <- mcDocs
  ResultsDocs <- mcResultsDocs
  Revisions <- mcRevisions
  Manifests <- mcManifests
  Commitments <- mcCommitments
  LegacyIds = {1, 2}
  SeedFingerprints <- mcSeedFingerprints
  GenesisFingerprints <- mcGenesisFingerprints
  Seeds <- mcSeeds
  MaxOperationEpoch = 3
  MaxInstant = 3
  PreparationTtl = 0
SPECIFICATION Spec
INVARIANTS
  SequencerInv
  DeletableIsGarbage
  RecordsStayReadable
  RepliesDecode
PROPERTIES
  ObservationClockAdvances
  OrdinaryNeverOlder
  ImplementsAuthority
CHECK_DEADLOCK FALSE
