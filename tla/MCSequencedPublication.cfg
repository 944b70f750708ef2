CONSTANTS
  calendar = calendar
  results = results
  c1 = c1
  r1 = r1
  r2 = r2
  s1 = s1
  g1 = g1
  f1 = f1
  f2 = f2
  p1 = p1
  p2 = p2
  Docs <- mcDocs
  ResultsDocs <- mcResultsDocs
  Revisions <- mcRevisions
  Manifests <- mcManifests
  Commitments <- mcCommitments
  LegacyIds = {1}
  SeedFingerprints <- mcSeedFingerprints
  GenesisFingerprints <- none
  Seeds <- mcSeeds
  MaxOperationEpoch = 2
  MaxInstant = 4
  PreparationTtl = 1
  Publishers <- mcPublishers
  Candidates <- mcCandidates
  Readings <- mcReadings
  Facts <- mcFacts
  FactsOf <- mcFactsOf
  Survivors <- swept
  Generations <- mcGenerations
  LegacyReleases <- mcLegacyReleases
SPECIFICATION PublicationSpec
SYMMETRY Symmetry
INVARIANTS
  ServedReleases
  AppliedMeansCommitted
PROPERTIES
  ParticipationKept
  PublicationInstantAdvances
CHECK_DEADLOCK FALSE
