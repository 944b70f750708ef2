------------------------- MODULE SeasonBatchIngest -------------------------
(***************************************************************************)
(* The guarded ingest of a season batch an operator reviewed               *)
(* (src/ingest).  A converter outside the worker captures the provider's   *)
(* answers, builds a source, the documents the generator makes of it at    *)
(* the capture, and a manifest that names both by digest.  The operator    *)
(* reviews the manifest and submits it with the artifact; the worker       *)
(* verifies that the two belong together, regenerates the documents at its *)
(* own clock and publishes them over the release the operator named.       *)
(*                                                                         *)
(* A digest is what it is the digest of.  A source is the rounds of its    *)
(* calendar with the instants of their races, the rounds it classifies and *)
(* what its deep validation says; a document set is the source and the     *)
(* instant it was generated from.  The two-phase publication is external   *)
(* here (SequencedPublication): a prepare that binds the active release,   *)
(* and a finalize that commits over it alone.                              *)
(***************************************************************************)
EXTENDS Integers, Sequences, FiniteSets

CONSTANTS
  Deployments,     \* configurations the worker may run under
  EnabledSeason,   \* the season SEASON_BATCH_INGEST names
  CaptureOffset,   \* BATCH_CAPTURE_OFFSET_MS
  CuratedLabels,   \* curatedSeasonMetadata of the season
  Credit,          \* the bundled attribution of the provider
  Submissions,     \* what an operator may submit
  Ingests,         \* requests that may be under way at once
  MaxClock,        \* bound on the clock
  MaxReleases,     \* bound on the releases
  Absent

\* No release has the identifier that stands for none; a manifest says whether
\* its tree was clean.
ASSUME BatchAssumption ==
  /\ Absent \notin Nat
  /\ MaxClock \in Nat
  /\ \A s \in Submissions : s.manifest.treeClean \in BOOLEAN

VARIABLES
  deployment,   \* the configuration
  clock,
  releases,     \* the releases committed so far, in order, external
  ingests       \* the requests under way

batchVars == <<deployment, clock, releases, ingests>>

\* The release the authority names active: the number of releases so far.
activeVersion == IF releases = <<>> THEN Absent ELSE Len(releases)

-----------------------------------------------------------------------------
(* Verification. *)

\* The rounds a capture at an instant must carry.
eligibleRounds(source, observedAt) ==
  {r \in DOMAIN source.calendar : source.calendar[r] + CaptureOffset <= observedAt}

\* generateSnapshotSet; it throws for a source it cannot hold together.
generates(source) == source.verdict = "sound"
documentsOf(source, at) == [source |-> source, generatedAt |-> at]

\* What the capture digest covers.
captureDigest(observedAt, rounds) == [observedAt |-> observedAt, rounds |-> rounds]

\* What the summary counts.
summaryOf(source) == [rounds |-> DOMAIN source.calendar, classified |-> source.classified]

\* Checks are made in order, and the first that does not hold is answered.
Check(holds, reason) == [holds |-> holds, reason |-> reason]

firstFailure(checks, otherwise) ==
  LET failed == {i \in 1 .. Len(checks) : ~ checks[i].holds}
  IN  IF failed = {} THEN otherwise
      ELSE checks[CHOOSE i \in failed : \A j \in failed : i <= j].reason

verifiedManifest(s) ==
  << Check(s.reviewed = s.manifest, "manifest-digest-mismatch"),
     Check(s.manifest.treeClean, "manifest-tree-dirty"),
     Check(s.manifest.capture = captureDigest(s.manifest.observedAt, s.manifest.rounds),
           "capture-digest-inconsistent") >>

verifiedArtifact(s) ==
  << Check(s.artifact = s.manifest.artifact, "artifact-digest-mismatch"),
     Check(s.artifact.observedAt = s.manifest.observedAt, "artifact-inconsistent") >>

curatedRefusal(artifact) ==
  << Check(artifact.labels = CuratedLabels, "curated-metadata-mismatch") >>

attributionRefusal(manifest) ==
  << Check(manifest.attribution = Credit, "attribution-mismatch") >>

\* The shape, the entities and the relations of a source are its verdict.
sourceRefusal(source) ==
  << Check(source.verdict # "source-malformed", "source-malformed"),
     Check(source.verdict # "source-invalid", "source-invalid"),
     Check(source.verdict # "source-inconsistent", "source-inconsistent") >>

sourceLabelsMatch(artifact) ==
  << Check(/\ artifact.source.labels = artifact.labels
           /\ artifact.source.updatedAt = artifact.observedAt, "artifact-inconsistent") >>

\* The documents submitted are those of the manifest, and what the generator
\* makes of the source.
documentRefusal(s) ==
  << Check(s.artifact.documents = s.manifest.documents, "document-digest-mismatch"),
     Check(s.artifact.documents = documentsOf(s.artifact.source, s.manifest.observedAt),
           "document-source-inconsistent") >>

summaryMatches(s) ==
  << Check(s.manifest.summary = summaryOf(s.artifact.source), "summary-inconsistent") >>

\* The manifest's rounds are those its capture had to carry, and those the
\* documents classify.
verifySeasonBatch(s, now) ==
  LET source == s.artifact.source
      rounds == s.manifest.rounds
  IN  firstFailure(
        verifiedManifest(s) \o verifiedArtifact(s)
          \o << Check(s.manifest.observedAt <= now, "batch-from-future") >>
          \o curatedRefusal(s.artifact) \o attributionRefusal(s.manifest)
          \o sourceRefusal(source) \o sourceLabelsMatch(s.artifact)
          \o << Check(eligibleRounds(source, s.manifest.observedAt) = rounds,
                      "classification-incomplete"),
                Check(generates(source), "document-source-inconsistent"),
                Check(source.classified = rounds, "classification-incomplete") >>
          \o documentRefusal(s) \o summaryMatches(s),
        "ok")

-----------------------------------------------------------------------------
(* Admission and the request. *)

\* SeasonBatchIngest.admit, before the body of the request is read.
admit(d) ==
  firstFailure(
    << Check(d.enabled # Absent, "ingest-disabled"),
       Check(d.enabled = EnabledSeason, "ingest-misconfigured"),
       Check(d.environment # "development", "environment-not-permitted"),
       Check(d.environment = "production" => d.control = d.enabled,
             "genesis-control-required"),
       Check(~ d.coordinated, "provider-mode-coordinated"),
       Check(d.sequenced, "authority-not-sequenced"),
       Check(d.credited, "attribution-not-active") >>,
    "admitted")

\* A request that was answered; which answer it got changes nothing here.
Answered == [pc |-> "answered"]

BatchInit ==
  /\ deployment \in Deployments
  /\ clock = 0
  /\ releases = <<>>
  /\ ingests = [i \in Ingests |-> Answered]

\* A submission is admitted, verified and made a candidate at one reading of
\* the clock; or refused.
SubmitBatch(i) ==
  /\ ingests[i].pc = "answered"
  /\ \E s \in Submissions :
       LET verdict == IF admit(deployment) # "admitted" THEN admit(deployment)
                      ELSE IF s.season # EnabledSeason THEN "season-not-enabled"
                      ELSE verifySeasonBatch(s, clock)
       IN  ingests' = [ingests EXCEPT ![i] =
             IF verdict # "ok" THEN Answered
             ELSE [pc |-> "verified", batch |-> s,
                   candidate |-> documentsOf(s.artifact.source, clock)]]
  /\ UNCHANGED <<deployment, clock, releases>>

\* Faulty expectedActiveVersion: whichever is active when it is published.
whateverIsActive(ingest) == activeVersion

\* The release the operator reviewed the batch against.
expectedActiveVersion(ingest) == ingest.batch.expected

\* publishGuarded reads the authority and the predecessor and refuses a
\* candidate for another release, or one that loses a classified round; what
\* it goes on with is bound to the release it read.
PrepareBatch(i) ==
  LET ingest == ingests[i]
      covered == IF releases = <<>> THEN {}
                 ELSE releases[Len(releases)].documents.source.classified
  IN  /\ ingest.pc = "verified"
      /\ ingests' = [ingests EXCEPT ![i] =
           IF \/ expectedActiveVersion(ingest) # activeVersion
              \/ ~ covered \subseteq ingest.candidate.source.classified
           THEN Answered
           ELSE [pc |-> "prepared", batch |-> ingest.batch,
                 candidate |-> ingest.candidate, over |-> activeVersion]]
      /\ UNCHANGED <<deployment, clock, releases>>

\* The authority commits over the release that was read, never an older
\* source; or refuses, or fails.  The operator may be told which or not.
FinalizeBatch(i) ==
  LET ingest == ingests[i]
      older == /\ releases # <<>>
               /\ ingest.candidate.source.updatedAt
                    < releases[Len(releases)].documents.source.updatedAt
  IN  /\ ingest.pc = "prepared"
      /\ ingests' = [ingests EXCEPT ![i] = Answered]
      /\ \/ /\ ingest.over = activeVersion
            /\ ~ older
            /\ Len(releases) < MaxReleases
            /\ releases' = Append(releases, [documents |-> ingest.candidate,
                                             batch |-> ingest.batch])
         \/ UNCHANGED releases
      /\ UNCHANGED <<deployment, clock>>

TickBatch ==
  /\ clock < MaxClock
  /\ clock' = clock + 1
  /\ UNCHANGED <<deployment, releases, ingests>>

BatchNext ==
  \/ \E i \in Ingests : SubmitBatch(i) \/ PrepareBatch(i) \/ FinalizeBatch(i)
  \/ TickBatch

BatchSpec == BatchInit /\ [][BatchNext]_batchVars

-----------------------------------------------------------------------------
\* What a batch publishes is what its operator reviewed: the source of the
\* artifact the reviewed manifest names, whole for the rounds its capture had
\* to carry, with the documents the generator makes of it, and captured before
\* it was published.  However often it is submitted, answered or not, it
\* becomes one release over the release it was reviewed against, and no
\* release loses a round of the one before it.
BatchesAreReviewed ==
  \A n \in 1 .. Len(releases) :
    LET release == releases[n]
        reviewed == release.batch.reviewed
        source == release.documents.source
    IN  /\ source = reviewed.artifact.source
        /\ reviewed.documents = documentsOf(source, reviewed.observedAt)
        /\ eligibleRounds(source, reviewed.observedAt) = source.classified
        /\ reviewed.observedAt <= release.documents.generatedAt
        /\ release.batch.expected = IF n = 1 THEN Absent ELSE n - 1
        /\ n > 1 => releases[n - 1].documents.source.classified
                      \subseteq source.classified
=============================================================================
