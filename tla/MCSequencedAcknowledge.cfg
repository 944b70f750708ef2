CONSTANTS
  calendar = calendar
  results = results
  c1 = c1
  r1 = r1
  r2 = r2
  s1 = s1
  g1 = g1
  f1 = f1
  f2 = f2
  p1 = p1
  p2 = p2
  Docs <- mcDocs
  ResultsDocs <- mcResultsDocs
  Revisions <- mcRevisions
  Manifests <- oneManifest
  Commitments <- oneCommitment
  LegacyIds = {}
  SeedFingerprints <- mcSeedFingerprints
  GenesisFingerprints <- mcGenesisFingerprints
  Seeds <- none
  MaxOperationEpoch = 2
  MaxInstant = 4
  PreparationTtl = 1
  Publishers <- alone
  Candidates <- one
  Readings <- mcReadings
  Facts <- mcFacts
  FactsOf <- mcFactsOf
  Survivors <- mcSurvivors
  Generations <- mcGenerations
  LegacyReleases <- noLegacyReleases
SPECIFICATION PublicationSpec
PROPERTIES
  AcknowledgedAfterDeletion
CHECK_DEADLOCK FALSE
