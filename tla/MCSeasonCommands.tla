------------------------- MODULE MCSeasonCommands --------------------------
(***************************************************************************)
(* The two ways the season is kept up to date without the coordinated      *)
(* runtime: synchronized from a provider, or fed with reviewed batches.  A *)
(* behaviour is of one deployment, which is one or the other.              *)
(***************************************************************************)
EXTENDS SeasonSynchronization, SeasonBatchIngest

CONSTANTS cron, manual, i1, i2, results, profiles

\* A provider with one window of each class.  The thresholds are raised to the
\* small limit, so that "high" is met, and "critical" with a request left and with
\* none.  A whole window is at "warning": "normal", on which the runs act alike,
\* is not met.
MCJobs == {results, profiles}
MCInterval == [j \in MCJobs |-> 1]
MCPolicy == [sustained |-> [class |-> "sustained", limit |-> 3, span |-> 1],
             burst     |-> [class |-> "burst", limit |-> 1, span |-> 1]]
MCThreshold == [warning |-> 100, high |-> 67, critical |-> 34]

-----------------------------------------------------------------------------
(* What operators submit: a converter's batches, and batches of which up to *)
(* two parts come from elsewhere.                                           *)

\* The race of round 1 is at 0, that of round 2 at 1.
Source(classified, updatedAt, verdict) ==
  [calendar |-> [r \in {1, 2} |-> r - 1], classified |-> classified,
   updatedAt |-> updatedAt, labels |-> CuratedLabels, verdict |-> verdict]

Sources == {Source({1}, 1, "sound"), Source({1, 2}, 2, "sound"),
            Source({1}, 2, "sound"), Source({1, 2}, 1, "source-inconsistent"),
            Source({1, 2}, 2, "ungenerable"),
            [Source({1, 2}, 2, "sound") EXCEPT !.labels = "old"]}

ArtifactOf(source) ==
  [observedAt |-> source.updatedAt, labels |-> CuratedLabels, source |-> source,
   documents |-> documentsOf(source, source.updatedAt)]

ManifestOf(artifact) ==
  LET rounds == eligibleRounds(artifact.source, artifact.observedAt)
  IN  [observedAt |-> artifact.observedAt, rounds |-> rounds, treeClean |-> TRUE,
       capture |-> captureDigest(artifact.observedAt, rounds),
       artifact |-> artifact, documents |-> artifact.documents,
       summary |-> summaryOf(artifact.source), attribution |-> Credit]

Built == {ArtifactOf(source) : source \in Sources}

\* One part of an artifact, or of a manifest, is not the converter's.
EditedArtifacts(a) ==
  {[a EXCEPT !.observedAt = 3 - @], [a EXCEPT !.labels = "old"]}
    \cup {[a EXCEPT !.source = b.source] : b \in Built}
    \cup {[a EXCEPT !.documents = b.documents] : b \in Built}

EditedManifests(m) ==
  {[m EXCEPT !.treeClean = FALSE], [m EXCEPT !.attribution = "old"],
   [m EXCEPT !.observedAt = 3 - @], [m EXCEPT !.rounds = {}]}
    \cup {[m EXCEPT !.summary = summaryOf(b.source)] : b \in Built}
    \cup {[m EXCEPT !.documents = b.documents] : b \in Built}
    \cup {[m EXCEPT !.artifact = b] : b \in Built}

\* The operator reviewed one manifest and submits it, or another, with an
\* artifact.
Pairs ==
  UNION { {<<ManifestOf(a), ManifestOf(a), b>> : b \in Built \cup EditedArtifacts(a)}
            \cup {<<ManifestOf(a), m, a>> : m \in EditedManifests(ManifestOf(a))}
            \cup {<<m, m, m.artifact>> : m \in EditedManifests(ManifestOf(a))}
            \cup {<<ManifestOf(b), ManifestOf(b), b>> : b \in EditedArtifacts(a)}
          : a \in Built }

MCSubmissions ==
  {[season |-> EnabledSeason, expected |-> e, reviewed |-> p[1],
    manifest |-> p[2], artifact |-> p[3]] : e \in {Absent, 1}, p \in Pairs}
  \cup {[season |-> Absent, expected |-> Absent, reviewed |-> p[1],
         manifest |-> p[2], artifact |-> p[3]] : p \in {<<ManifestOf(a),
           ManifestOf(a), a>> : a \in Built}}

MCDeployments ==
  LET staging == [enabled |-> EnabledSeason, environment |-> "staging", control |-> Absent,
                  coordinated |-> FALSE, sequenced |-> TRUE, credited |-> TRUE]
  IN  {staging, [staging EXCEPT !.environment = "production", !.control = EnabledSeason],
       [staging EXCEPT !.environment = "production"],
       [staging EXCEPT !.coordinated = TRUE], [staging EXCEPT !.enabled = Absent]}

-----------------------------------------------------------------------------
VARIABLE fed  \* whether the season is fed with batches

commandVars == <<fed, synchronizationVars, batchVars>>

CommandsInit ==
  /\ fed \in BOOLEAN
  /\ SynchronizationInit
  /\ BatchInit
  /\ ~ fed => deployment = CHOOSE d \in MCDeployments : d.enabled = Absent

CommandsNext ==
  \/ ~ fed /\ SynchronizationNext /\ UNCHANGED <<fed, batchVars>>
  \/ fed /\ BatchNext /\ UNCHANGED <<fed, synchronizationVars>>

CommandsSpec ==
  CommandsInit /\ [][CommandsNext]_commandVars /\ (~ fed => SynchronizationFairness)

\* SourceIsAskedAgain of a synchronized season.
PolledIsAskedAgain == ~ fed => SourceIsAskedAgain
=============================================================================
