---------------------------- MODULE SequencerCodec ----------------------------
(***************************************************************************)
(* What the sequencer reads back and what its client accepts.              *)
(*                                                                         *)
(* Every durable record passes a reader before the sequencer trusts it: a  *)
(* record no transition could have written is corrupt, and a corrupt       *)
(* record stops the season for good, because nothing repairs it.  Every    *)
(* reply passes a decoder before a publisher acts on it: one that does not *)
(* decode, or does not answer the request that was sent, becomes uncertain *)
(* or state-corrupt at the client, whatever the sequencer decided.         *)
(*                                                                         *)
(* Field shapes (lengths, patterns) are abstracted to the sets of          *)
(* SeasonSequencer; what is kept is every check that relates two fields,   *)
(* two records, or a reply to its request.  Loss in transit is in          *)
(* SequencedPublication.                                                   *)
(***************************************************************************)
EXTENDS SeasonSequencer

-----------------------------------------------------------------------------
(* The readers of the durable records *)

(* A genesis record names a reserved fingerprint and nothing else; a seeded
   or active one names a release and what produced it. *)
readAuthorityRecord(r) ==
  /\ r.cutoverState \in CutoverStates
  /\ r.active \in Versions \union {NoVersion}
  /\ r.previous \in Versions \union {NoVersion}
  /\ r.ordering \in Instants \union {NoInstant}
  /\ r.floor \in Instants \union {NoInstant}
  /\ r.lastEpoch \in Nat
  /\ r.cutoverState = "genesis" =>
       /\ r.fingerprint \in GenesisFingerprints
       /\ r.active = NoVersion
       /\ r.previous = NoVersion
       /\ r.ordering = NoInstant
       /\ r.floor = NoInstant
  /\ r.cutoverState \in {"seeded", "active"} =>
       /\ r.active # NoVersion
       /\ r.fingerprint # NoFingerprint

readCommittedResult(res) ==
  /\ res.active \in Versions
  /\ res.previous \in Versions \union {NoVersion}

(* A committed record can replay its result; no other record has one. *)
readOperationRecord(r) ==
  /\ r.epoch \in Nat \ {0}
  /\ r.kind \in OperationKinds
  /\ r.phase \in {"prepared", "committed", "cancelled"}
  /\ r.prior \in Versions \union {NoVersion}
  /\ r.candidate \in Versions
  /\ r.ordering \in Instants
  /\ r.commitment \in Commitments
  /\ r.deadline \in Instants
  /\ r.phase = "committed" <=> r.result # NoResult
  /\ r.result # NoResult => readCommittedResult(r.result)

readPendingCleanupRecord(r) ==
  /\ r.operationEpoch \in Nat \ {0}
  /\ r.candidateVersion \in Versions

readPerKeyState(rows) ==
  \A d \in Docs : rows[d] # NoRow =>
    /\ rows[d].revision \in Revisions
    /\ rows[d].observedAt \in Instants

-----------------------------------------------------------------------------
(* The replies of the object, and the decoders of the client *)

retiredCleanupOf(epoch, candidate) ==
  [operationEpoch |-> epoch, candidateVersion |-> candidate]
NoHandle == retiredCleanupOf(0, NoVersion)

pendingHandle ==
  retiredCleanupOf(pendingCleanup.epoch, pendingCleanup.candidate)

candidateVersionOwnedBy(version, epoch) ==
  version \in AllocatedVersions /\ version.id = epoch

decodeRetiredCleanupHandle(h) ==
  /\ h.operationEpoch \in Epochs
  /\ candidateVersionOwnedBy(h.candidateVersion, h.operationEpoch)

namedRows(rows) == {d \in Docs : rows[d] # NoRow}

decodePerKeyStateArray(rows) ==
  namedRows(rows) # {} /\ readPerKeyState(rows)

(* The closed reason sets, with the ones a malformed request is refused by. *)
prepareRejectionReasons ==
  {"season-mismatch", "invalid-season", "invalid-operation-kind",
   "invalid-per-key-revisions", "manifest-too-large",
   "invalid-source-ordering-input", "invalid-manifest-commitment",
   "authority-not-active", "operation-in-progress",
   "older-source-ordering-input", "epoch-space-exhausted",
   "timestamp-space-exhausted", "pending-cleanup-required",
   "stale-predecessor", "predecessor-guard-mismatch",
   "invalid-expected-predecessor", "no-committed-release", "state-corrupt"}

finalizeRejectionReasons ==
  {"season-mismatch", "malformed-identity", "unknown-epoch",
   "stale-identity", "no-current-operation", "operation-not-prepared",
   "preparation-expired", "manifest-commitment-mismatch",
   "authority-not-active", "predecessor-changed", "state-corrupt"}

cancelRejectionReasons ==
  {"season-mismatch", "authority-not-active", "malformed-identity",
   "unknown-epoch", "stale-identity", "no-current-operation",
   "operation-committed", "state-corrupt"}

cleanupRefusalReasons ==
  {"season-mismatch", "malformed-request", "no-current-operation",
   "identity-not-current", "operation-not-cancelled",
   "candidate-version-mismatch", "version-is-authoritative",
   "state-corrupt"}

cleanupAckRejectionReasons ==
  {"malformed-request", "season-mismatch", "identity-not-current",
   "state-corrupt"}

cutoverRejectionReasons ==
  {"season-mismatch", "invalid-season", "invalid-cutover-fingerprint",
   "invalid-seed", "invalid-per-key-revisions", "manifest-too-large",
   "conflicting-cutover-seed", "cutover-not-seeded",
   "cutover-fingerprint-mismatch", "state-corrupt"}

genesisRejectionReasons ==
  {"invalid-season", "invalid-genesis-fingerprint", "season-mismatch",
   "sequencer-state-present", "state-corrupt"}

(* prepare: the request's own manifest and predecessor come back. *)
PrepareReply(req, t) ==
  LET answer == PrepareAnswer(req, t) IN
  [outcome |-> IF answer = "prepared" THEN answer ELSE "rejected",
   reason |-> answer,
   operationEpoch |-> authority.lastEpoch + 1,
   candidateVersion |-> candidateVersionForEpoch(authority.lastEpoch + 1),
   assigned |-> assignObservationTimestamps(req.manifest, t),
   deadline |-> t + PreparationTtl,
   priorVersion |-> req.expectedVersion,
   retiredCleanup |->
     IF retiresOrphan(t)
       THEN retiredCleanupOf(operation.epoch, operation.candidate)
       ELSE NoHandle,
   liveOperation |-> retiredCleanupOf(operation.epoch, operation.candidate),
   pendingCleanup |-> pendingHandle]

decodePrepareOutcome(reply) ==
  \/ /\ reply.outcome = "prepared"
     /\ decodeRetiredCleanupHandle(
          retiredCleanupOf(reply.operationEpoch, reply.candidateVersion))
     /\ decodePerKeyStateArray(reply.assigned)
     /\ reply.deadline \in Instants
     /\ reply.priorVersion \in Versions \union {NoVersion}
     /\ reply.retiredCleanup # NoHandle =>
          decodeRetiredCleanupHandle(reply.retiredCleanup)
  \/ /\ reply.outcome = "rejected"
     /\ reply.reason \in prepareRejectionReasons
     /\ reply.reason = "operation-in-progress" =>
          decodeRetiredCleanupHandle(reply.liveOperation)
     /\ reply.reason = "pending-cleanup-required" =>
          decodeRetiredCleanupHandle(reply.pendingCleanup)

prepareAssignmentsMatchRequest(reply, req) ==
  \A d \in Docs : reply.assigned[d].revision = req.manifest[d]

prepareAnswersRequest(reply, req) ==
  reply.outcome = "prepared" =>
    /\ prepareAssignmentsMatchRequest(reply, req)
    /\ reply.priorVersion = req.expectedVersion

(* finalize: a replay answers from the record, a commit from what it writes. *)
FinalizeReply(epoch, token, commitment, t) ==
  LET answer == FinalizeAnswer(epoch, token, commitment, t) IN
  [outcome |-> CASE answer \in {"committed", "replayed"} -> "committed"
                 [] answer = "superseded" -> answer
                 [] OTHER -> "rejected",
   reason |-> answer,
   result |-> IF answer = "replayed" THEN operation.result
              ELSE [active |-> operation.candidate,
                    previous |-> authority.active],
   currentOperationEpoch |-> operation.epoch,
   active |-> authority.active,
   previous |-> authority.previous]

decodeCommittedResult(res) ==
  /\ res.active \in Versions
  /\ res.previous \in Versions \union {NoVersion}

decodeFinalizeOutcome(reply) ==
  \/ reply.outcome = "committed" /\ decodeCommittedResult(reply.result)
  \/ /\ reply.outcome = "superseded"
     /\ reply.currentOperationEpoch \in Epochs
     /\ reply.active \in Versions \union {NoVersion}
     /\ reply.previous \in Versions \union {NoVersion}
  \/ reply.outcome = "rejected" /\ reply.reason \in finalizeRejectionReasons

finalizeAnswersRequest(reply, epoch) ==
  reply.outcome = "committed" =>
    candidateVersionOwnedBy(reply.result.active, epoch)

CancelReply(epoch, token) ==
  LET answer == CancelAnswer(epoch, token) IN
  [outcome |-> IF answer \in {"cancelled", "already-cancelled", "superseded"}
                 THEN answer ELSE "rejected",
   reason |-> answer,
   candidateVersion |-> operation.candidate,
   currentOperationEpoch |-> operation.epoch]

decodeCancelOutcome(reply) ==
  \/ /\ reply.outcome \in {"cancelled", "already-cancelled"}
     /\ reply.candidateVersion \in Versions
  \/ reply.outcome = "superseded" /\ reply.currentOperationEpoch \in Epochs
  \/ reply.outcome = "rejected" /\ reply.reason \in cancelRejectionReasons

cancelAnswersRequest(reply, epoch) ==
  reply.outcome \in {"cancelled", "already-cancelled"} =>
    candidateVersionOwnedBy(reply.candidateVersion, epoch)

(* authorizeCleanup answers with the version of the record it found. *)
CleanupReply(epoch, token, version) ==
  LET answer == AuthorizeCleanupAnswer(epoch, token, version) IN
  [outcome |-> IF answer = "authorized" THEN answer ELSE "refused",
   reason |-> answer,
   candidateVersion |->
     IF namesCurrent(epoch, token) THEN operation.candidate
     ELSE pendingCleanup.candidate]

decodeCleanupAuthorization(reply) ==
  \/ reply.outcome = "authorized" /\ reply.candidateVersion \in Versions
  \/ reply.outcome = "refused" /\ reply.reason \in cleanupRefusalReasons

cleanupAnswersRequest(reply, epoch, version) ==
  reply.outcome = "authorized" =>
    /\ reply.candidateVersion = version
    /\ candidateVersionOwnedBy(version, epoch)

(* Retiring an identity again, or one a later cycle cleared, is acknowledged. *)
AcknowledgeReply(epoch, token, version) ==
  LET answer == AcknowledgeCleanupAnswer(epoch, token, version) IN
  IF answer \in {"clears-pending", "clears-current", "already-cleared"}
    THEN "acknowledged" ELSE answer

decodeCleanupAcknowledgement(answer) ==
  answer \in {"acknowledged"} \union cleanupAckRejectionReasons

(* readAuthority: authoritative exactly in the mutable states. *)
readAuthority ==
  [cutoverState |-> authority.cutoverState,
   authoritative |-> isMutableState,
   active |-> authority.active,
   previous |-> authority.previous,
   fingerprint |-> authority.fingerprint]

decodeSeasonAuthority(reply) ==
  \/ reply.cutoverState = "uninitialized" /\ ~reply.authoritative
  \/ /\ reply.cutoverState = "genesis" /\ reply.authoritative
     /\ reply.active = NoVersion
     /\ reply.previous = NoVersion
     /\ reply.fingerprint \in GenesisFingerprints
  \/ /\ reply.cutoverState \in {"seeded", "active"}
     /\ reply.authoritative <=> reply.cutoverState = "active"
     /\ reply.active \in Versions
     /\ reply.previous \in Versions \union {NoVersion}
     /\ reply.fingerprint # NoFingerprint

(* recoverCutoverSeed rebuilds the committed state as a seed. *)
recoveredSeed ==
  [fingerprint |-> authority.fingerprint,
   active |-> authority.active,
   previous |-> authority.previous,
   ordering |-> authority.ordering,
   floor |-> authority.floor,
   rows |-> committed]

validateCutoverSeed(seed) ==
  /\ seed.fingerprint \notin GenesisFingerprints \union {NoFingerprint}
  /\ seed.active \in Versions
  /\ seed.previous \in Versions \union {NoVersion}
  /\ seed.ordering \in Instants
  /\ seed.floor \in Instants
  /\ decodePerKeyStateArray(seed.rows)

seedFloorCoversPerKeyState(seed) ==
  \A d \in namedRows(seed.rows) : seed.rows[d].observedAt <= seed.floor

RecoverAnswer(fingerprint) ==
  CASE authority.cutoverState = "uninitialized" -> "uninitialized"
    [] /\ authority.cutoverState # "uninitialized"
       /\ \/ authority.cutoverState = "genesis"
          \/ authority.fingerprint # fingerprint -> "conflicting-cutover-seed"
    [] OTHER ->
         IF validateCutoverSeed(recoveredSeed)
              /\ seedFloorCoversPerKeyState(recoveredSeed)
           THEN "committed" ELSE "state-corrupt"

(* The client takes only a complete seed, and only for its own fingerprint. *)
decodeCutoverSeed(seed, fingerprint) ==
  /\ validateCutoverSeed(seed)
  /\ seedFloorCoversPerKeyState(seed)
  /\ seed.fingerprint = fingerprint

seedMatchesCommittedState(seed) == seed = recoveredSeed

SeedCutoverAnswer(seed) ==
  IF authority.cutoverState = "uninitialized" THEN "seeded"
  ELSE IF ~seedMatchesCommittedState(seed) THEN "conflicting-cutover-seed"
  ELSE IF authority.cutoverState = "active" THEN "already-active"
  ELSE "already-seeded"

decodeCutoverSeedOutcome(answer) ==
  answer \in {"seeded", "already-seeded", "already-active"}
               \union cutoverRejectionReasons

ActivateAnswer(fingerprint) ==
  IF authority.cutoverState \in {"uninitialized", "genesis"}
    THEN "cutover-not-seeded"
  ELSE IF authority.fingerprint # fingerprint
    THEN "cutover-fingerprint-mismatch"
  ELSE IF authority.cutoverState = "active" THEN "already-active"
  ELSE "activated"

decodeCutoverActivationOutcome(answer) ==
  answer \in {"activated", "already-active"} \union cutoverRejectionReasons

GenesisAnswer(fingerprint) ==
  IF authority.cutoverState = "uninitialized"
    THEN IF /\ operation = NoOperation
            /\ pendingCleanup = NoPending
            /\ committed = NoRows
            /\ prepared = NoRows
         THEN "created" ELSE "sequencer-state-present"
  ELSE IF authority.fingerprint # fingerprint THEN "sequencer-state-present"
  ELSE IF authority.cutoverState = "genesis" THEN "already-genesis"
  ELSE "already-active"

decodeSeasonGenesisOutcome(answer) ==
  answer \in {"created", "already-genesis", "already-active"}
               \union genesisRejectionReasons

-----------------------------------------------------------------------------
(* Properties *)

(* No reachable history of calls leaves a record the sequencer later reads as
   corrupt, and the records agree with each other: a committed operation can
   always replay its result, a season that published is never without a
   release, and a genesis season holds no floor before its first commit.  One
   such record would refuse every later call of the season
   (store.ts, the readers). *)
StoredRecordsRead ==
  /\ authority.cutoverState # "uninitialized" => readAuthorityRecord(authority)
  /\ operation # NoOperation => readOperationRecord(operation)
  /\ pendingCleanup # NoPending => readPendingCleanupRecord(pendingHandle)
  /\ readPerKeyState(committed)
  /\ readPerKeyState(prepared)

(* The requests a publisher sends: it compared its candidate against the
   release it believes active. *)
SentPrepares ==
  [kind : OperationKinds, manifest : Manifests, ordering : Instants,
   expectedVersion : {authority.active, NoVersion},
   expectedGuard : {[d \in ResultsDocs |-> committed[d].revision]}]

(* Whatever the state and however late, foreign or repeated the request, the
   sequencer's reply is one its client decodes and recognises as the answer to
   that request.  Otherwise a decision already made and stored reaches the
   publisher as uncertain or state-corrupt: a prepared candidate it never
   publishes, a cleanup it can never finish (durable-object.ts, the client). *)
RepliesDecode ==
  /\ decodeSeasonAuthority(readAuthority)
  /\ \A req \in SentPrepares, t \in ClockReadings :
       LET reply == PrepareReply(req, t) IN
       decodePrepareOutcome(reply) /\ prepareAnswersRequest(reply, req)
  /\ \A e \in Epochs, k \in Tokens, c \in Commitments, t \in ClockReadings :
       LET reply == FinalizeReply(e, k, c, t) IN
       decodeFinalizeOutcome(reply) /\ finalizeAnswersRequest(reply, e)
  /\ \A e \in Epochs, k \in Tokens :
       LET reply == CancelReply(e, k) IN
       decodeCancelOutcome(reply) /\ cancelAnswersRequest(reply, e)
  /\ \A e \in Epochs, k \in Tokens \union {0}, v \in Versions :
       LET reply == CleanupReply(e, k, v) IN
       /\ decodeCleanupAuthorization(reply)
       /\ cleanupAnswersRequest(reply, e, v)
       /\ decodeCleanupAcknowledgement(AcknowledgeReply(e, k, v))
  /\ \A seed \in Seeds : decodeCutoverSeedOutcome(SeedCutoverAnswer(seed))
  /\ \A f \in SeedFingerprints :
       decodeCutoverActivationOutcome(ActivateAnswer(f))
  /\ \A f \in GenesisFingerprints :
       decodeSeasonGenesisOutcome(GenesisAnswer(f))

(* A migrated season can always hand its committed state back as a seed that
   passes every check a first seed passes and that seeding answers as already
   committed, however many releases, withdrawals and rollbacks followed:
   recovery never reports state-corrupt.  A season born
   by genesis never hands one back (coordinator.ts, recoverCutoverSeed). *)
SeedRecoverable ==
  \A f \in SeedFingerprints \union GenesisFingerprints :
    /\ f \in SeedFingerprints => RecoverAnswer(f) # "state-corrupt"
    /\ RecoverAnswer(f) = "committed" =>
         /\ ~bornByGenesis
         /\ decodeCutoverSeed(recoveredSeed, f)
         /\ SeedCutoverAnswer(recoveredSeed) \in {"already-seeded", "already-active"}

(* What is stored reads back, and can be handed back as a seed. *)
RecordsStayReadable == StoredRecordsRead /\ SeedRecoverable

-----------------------------------------------------------------------------
(* What SequencerInv does not say and both properties need: no command leaves
   a field behind that its record is not read with. *)

(* A committed operation carries the result it replays, no other one a result. *)
ResultsRecorded ==
  /\ operation.phase = "committed" =>
       operation.result.active = operation.candidate
  /\ operation.phase # "committed" => operation.result = NoResult

(* A candidate that may still commit has a document. *)
PreparedNamed ==
  operation.phase = "prepared" => namedRows(prepared) # {}

(* A genesis season has nothing but its fingerprint; one that holds a release
   has everything a seed must name. *)
AuthorityWhole ==
  /\ authority.cutoverState = "uninitialized" => authority.ordering = NoInstant
  /\ authority.cutoverState = "genesis" =>
       /\ authority.fingerprint \in GenesisFingerprints
       /\ authority.previous = NoVersion
       /\ authority.ordering = NoInstant
       /\ authority.floor = NoInstant
  /\ authority.cutoverState \in {"seeded", "active"} =>
       /\ authority.active # NoVersion
       /\ authority.fingerprint # NoFingerprint
       /\ authority.ordering \in Instants
       /\ authority.floor \in Instants
       /\ namedRows(committed) # {}

CodecInv == ResultsRecorded /\ PreparedNamed /\ AuthorityWhole
=============================================================================
