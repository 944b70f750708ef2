SPECIFICATION Spec
CONSTANTS
  Season <- MCSeason
  PageLimit <- MCPageLimit
  Seasons <- MCSeasons
  RaceAnswers <- MCRaceAnswers
  TableAnswers <- MCTableAnswers
  Instants <- MCInstants
INVARIANTS
  OneHorizon
  PreflightIsSound
  CurrentSeatIsLatest
  ChronologyHolds
  CandidateIsWhole
