--------------------------- MODULE SeasonSequencer ---------------------------
(***************************************************************************)
(* The season publication sequencer: one Durable Object per season, whose  *)
(* every decision is one synchronous storage transaction.  It allocates a  *)
(* candidate version (Prepare), makes it the season's active release       *)
(* (Finalize), or gives it up (Cancel) and lets a caller delete it         *)
(* (AuthorizeCleanup, AcknowledgeCleanup).  A season enters the sequencer  *)
(* by a cutover seed or by genesis.                                        *)
(*                                                                         *)
(* The environment is open: any caller may present any well-formed request *)
(* in any order, including stale, duplicated and foreign ones, and the     *)
(* clock may read anything (it is never assumed monotonic).  Publishers,   *)
(* their crashes and Workers KV are in SequencedPublication.               *)
(***************************************************************************)
EXTENDS Integers

CONSTANTS
  Docs,                 \* document names of a release
  ResultsDocs,          \* the grand-prix:{round}:results names among them
  Revisions,            \* content revisions (sha256 of the stable content)
  Manifests,            \* the candidate manifests callers submit
  Commitments,          \* manifest commitments (hashes of a name list)
  LegacyIds,            \* identifiers of releases the legacy publisher made
  SeedFingerprints,     \* migration fingerprints
  GenesisFingerprints,  \* fingerprints carrying the reserved genesis prefix
  Seeds,                \* the cutover seeds a migration may present
  MaxOperationEpoch,    \* the largest epoch a version identifier can encode
  MaxInstant,           \* the last instant with a four-digit-year spelling
  PreparationTtl        \* how long a prepared operation stays finalizable

-----------------------------------------------------------------------------
(* Vocabulary *)

NoRevision == "no-revision"
NoFingerprint == "no-fingerprint"
NoInstant == 0
Instants == 1 .. MaxInstant

\* A clock reading; MaxInstant + 1 is one that has no usable spelling.
ClockReadings == 1 .. MaxInstant + 1

CutoverStates == {"uninitialized", "seeded", "genesis", "active"}
OperationKinds == {"ordinary-publication", "rollback-republication"}

\* Faulty variants of a definition stand before it, named for their fault.

(* A version identifier names its namespace; in pm1 it also names the one
   epoch it was allocated to (the encoding is injective). *)
NoVersion == [namespace |-> "none", id |-> 0]
candidateVersionForEpoch(e) == [namespace |-> "pm1", id |-> e]
AllocatedVersions == [namespace : {"pm1"}, id : 1 .. MaxOperationEpoch]
LegacyVersions == [namespace : {"legacy"}, id : LegacyIds]
Versions == AllocatedVersions \union LegacyVersions

NoRow == [revision |-> NoRevision, observedAt |-> NoInstant]
Rows == [revision : Revisions, observedAt : Instants] \union {NoRow}
NoRows == [d \in Docs |-> NoRow]

(* A manifest gives each document of the release its revision. *)
ManifestType == [Docs -> Revisions \union {NoRevision}]
NoManifest == [d \in Docs |-> NoRevision]

(* The part of a manifest the participation guard is derived from. *)
GuardOf(m) == [d \in ResultsDocs |-> m[d]]

(* Well-formed requests: an empty predecessor names no results document. *)
PrepareRequests ==
  {r \in [kind : OperationKinds, manifest : Manifests, ordering : Instants,
          commitment : Commitments,
          expectedVersion : Versions \union {NoVersion},
          expectedGuard : [ResultsDocs -> Revisions \union {NoRevision}]] :
     r.expectedVersion = NoVersion => r.expectedGuard = GuardOf(NoManifest)}

(* Epoch 0 and token 0 are the absent values: a tokenless cleanup request has
   token 0.  The token of an operation is random, so it is named by its epoch. *)
Epochs == 1 .. MaxOperationEpoch
Tokens == 1 .. MaxOperationEpoch

ASSUME SequencerAssumption ==
  /\ ResultsDocs \subseteq Docs
  /\ NoRevision \notin Revisions
  /\ NoFingerprint \notin SeedFingerprints \union GenesisFingerprints
  /\ SeedFingerprints \intersect GenesisFingerprints = {}
  /\ Manifests \subseteq (ManifestType \ {NoManifest})
  /\ LegacyIds \subseteq Nat
  /\ MaxOperationEpoch \in Nat
  /\ MaxInstant \in Nat
  /\ PreparationTtl \in Nat

(* What a migration builds: its floor is the highest of the timestamps it
   imports, so it covers every row. *)
ASSUME SeedAssumption ==
  Seeds \subseteq
    {s \in [fingerprint : SeedFingerprints, active : LegacyVersions,
            previous : LegacyVersions \union {NoVersion},
            ordering : Instants, floor : Instants, rows : [Docs -> Rows]] :
       /\ s.rows # NoRows
       /\ \A d \in Docs : s.rows[d].observedAt <= s.floor}

-----------------------------------------------------------------------------
VARIABLES
  authority,       \* the per-season authority record
  operation,       \* the one current operation record
  pendingCleanup,  \* the one displaced orphan still to be deleted
  committed,       \* per-document rows of the active release
  prepared,        \* per-document rows of the prepared candidate
  \* History, read by no transition: it only lets properties name the past.
  commitEpochs,    \* epochs whose finalize committed
  acknowledged,    \* epochs whose cleanup was acknowledged
  deletable        \* versions some caller was ever authorized to delete

history == <<commitEpochs, acknowledged, deletable>>
durable == <<authority, operation, pendingCleanup, committed, prepared>>
vars == <<authority, operation, pendingCleanup, committed, prepared,
          commitEpochs, acknowledged, deletable>>

NoResult == [active |-> NoVersion, previous |-> NoVersion]
NoOperation ==
  [epoch |-> 0, token |-> 0, kind |-> "ordinary-publication",
   phase |-> "missing", prior |-> NoVersion, candidate |-> NoVersion,
   ordering |-> NoInstant, commitment |-> {}, deadline |-> NoInstant,
   result |-> NoResult]
NoPending == [epoch |-> 0, candidate |-> NoVersion]

Operations ==
  [epoch : Epochs, token : Tokens, kind : OperationKinds,
   phase : {"prepared", "committed", "cancelled"},
   prior : Versions \union {NoVersion}, candidate : AllocatedVersions,
   ordering : Instants, commitment : Commitments, deadline : Instants,
   result : [active : AllocatedVersions \union {NoVersion},
             previous : Versions \union {NoVersion}]]

TypeOK ==
  /\ authority \in
       [cutoverState : CutoverStates, active : Versions \union {NoVersion},
        previous : Versions \union {NoVersion},
        ordering : 0 .. MaxInstant, floor : 0 .. MaxInstant,
        lastEpoch : 0 .. MaxOperationEpoch,
        fingerprint : SeedFingerprints \union GenesisFingerprints
                        \union {NoFingerprint}]
  /\ operation \in Operations \union {NoOperation}
  /\ pendingCleanup \in [epoch : Epochs, candidate : AllocatedVersions]
                          \union {NoPending}
  /\ committed \in [Docs -> Rows]
  /\ prepared \in [Docs -> Rows]
  /\ commitEpochs \subseteq Epochs
  /\ acknowledged \subseteq Epochs
  /\ deletable \subseteq AllocatedVersions

Init ==
  /\ authority = [cutoverState |-> "uninitialized", active |-> NoVersion,
                  previous |-> NoVersion, ordering |-> NoInstant,
                  floor |-> NoInstant, lastEpoch |-> 0,
                  fingerprint |-> NoFingerprint]
  /\ operation = NoOperation
  /\ pendingCleanup = NoPending
  /\ committed = NoRows
  /\ prepared = NoRows
  /\ commitEpochs = {}
  /\ acknowledged = {}
  /\ deletable = {}

-----------------------------------------------------------------------------
(* The pure rules *)

isMutableState == authority.cutoverState \in {"active", "genesis"}

bornByGenesis == authority.fingerprint \in GenesisFingerprints

isExpired(t) == t \notin Instants \/ t > operation.deadline

committedGuardRowsMatch(guard) ==
  \A d \in ResultsDocs : committed[d].revision = guard[d]

freshInstantFromClock(t) == t

(* max(now, floor + 1 ms): the timestamp of every fresh activation. *)
freshInstant(t) == IF t > authority.floor THEN t ELSE authority.floor + 1

(* An unchanged key keeps its committed timestamp; a changed, new or restored
   one is a fresh activation. *)
assignObservationTimestamps(manifest, t) ==
  [d \in Docs |->
     IF manifest[d] = NoRevision THEN NoRow
     ELSE IF manifest[d] = committed[d].revision THEN committed[d]
     ELSE [revision |-> manifest[d], observedAt |-> freshInstant(t)]]

highestInstant(rows) ==
  CHOOSE i \in {authority.floor} \union {rows[d].observedAt : d \in Docs} :
    \A j \in {authority.floor} \union {rows[d].observedAt : d \in Docs} : j <= i

isAuthoritativeVersion(v) ==
  \/ v = authority.active
  \/ v = authority.previous
  \/ operation.phase \in {"prepared", "committed"} /\ operation.candidate = v

-----------------------------------------------------------------------------
(* prepare: admits a candidate, binds its predecessor, allocates its epoch
   and version and assigns its timestamps, in one transaction. *)

(* The displaced record's candidate may already have documents written. *)
retiresOrphan(t) ==
  /\ \/ operation.phase = "cancelled"
     \/ operation.phase = "prepared" /\ isExpired(t)
  /\ operation.candidate \notin {authority.active, authority.previous}

(* A season born by genesis with no release before its active one. *)
hasNothingToRestore(req) ==
  /\ req.kind = "rollback-republication"
  /\ bornByGenesis
  /\ authority.previous = NoVersion

isStalePredecessor(req) == authority.active # req.expectedVersion

neverOlder(req) == FALSE

isOlder(req) ==
  req.kind = "ordinary-publication" /\ req.ordering < authority.ordering

PrepareAnswer(req, t) ==
  IF ~isMutableState THEN "authority-not-active"
  ELSE IF hasNothingToRestore(req) THEN "no-committed-release"
  ELSE IF isStalePredecessor(req) THEN "stale-predecessor"
  ELSE IF ~committedGuardRowsMatch(req.expectedGuard)
    THEN "predecessor-guard-mismatch"
  ELSE IF t \notin Instants THEN "state-corrupt"
  ELSE IF t + PreparationTtl \notin Instants THEN "timestamp-space-exhausted"
  ELSE IF operation.phase = "prepared" /\ ~isExpired(t)
    THEN "operation-in-progress"
  ELSE IF retiresOrphan(t) /\ pendingCleanup # NoPending
    THEN "pending-cleanup-required"
  ELSE IF isOlder(req) THEN "older-source-ordering-input"
  ELSE IF authority.lastEpoch + 1 \notin Epochs THEN "epoch-space-exhausted"
  ELSE IF freshInstant(t) \notin Instants THEN "timestamp-space-exhausted"
  ELSE "prepared"

Prepare(req, t) ==
  LET epoch == authority.lastEpoch + 1 IN
  /\ PrepareAnswer(req, t) = "prepared"
  /\ prepared' = assignObservationTimestamps(req.manifest, t)
  /\ pendingCleanup' =
       IF retiresOrphan(t)
         THEN [epoch |-> operation.epoch, candidate |-> operation.candidate]
         ELSE pendingCleanup
  /\ operation' =
       [epoch |-> epoch, token |-> epoch, kind |-> req.kind,
        phase |-> "prepared", prior |-> req.expectedVersion,
        candidate |-> candidateVersionForEpoch(epoch),
        ordering |-> req.ordering, commitment |-> req.commitment,
        deadline |-> t + PreparationTtl, result |-> NoResult]
  /\ authority' = [authority EXCEPT !.lastEpoch = epoch]
  /\ UNCHANGED <<committed, history>>

-----------------------------------------------------------------------------
(* finalize: the one authoritative transition.  Everything it commits comes
   from the durable operation record, never from the caller. *)

isNotCommitted == operation.phase # "committed"

isFinalizable == operation.phase = "prepared"

(* The authority record once the prepared candidate is the active release. *)
committedAuthority ==
  [authority EXCEPT
     !.cutoverState = "active",
     !.active = operation.candidate,
     !.previous = authority.active,
     !.ordering = operation.ordering,
     !.floor = highestInstant(prepared)]

FinalizeAnswer(epoch, token, commitment, t) ==
  IF ~isMutableState THEN "authority-not-active"
  ELSE IF operation = NoOperation
    THEN IF epoch > authority.lastEpoch THEN "unknown-epoch"
         ELSE "no-current-operation"
  ELSE IF epoch > operation.epoch THEN "unknown-epoch"
  ELSE IF epoch < operation.epoch THEN "superseded"
  ELSE IF token # operation.token THEN "stale-identity"
  ELSE IF operation.phase = "committed" THEN "replayed"
  ELSE IF ~isFinalizable THEN "operation-not-prepared"
  ELSE IF t \notin Instants THEN "state-corrupt"
  ELSE IF isExpired(t) THEN "preparation-expired"
  ELSE IF commitment # operation.commitment THEN "manifest-commitment-mismatch"
  ELSE IF operation.prior # authority.active THEN "predecessor-changed"
  ELSE "committed"

\* Faulty Finalize: commits without recording the result it would replay.
FinalizeWithoutResult(epoch, token, commitment, t) ==
  /\ FinalizeAnswer(epoch, token, commitment, t) = "committed"
  /\ committed' = prepared
  /\ prepared' = NoRows
  /\ authority' = committedAuthority
  /\ operation' = [operation EXCEPT !.phase = "committed"]
  /\ commitEpochs' = commitEpochs \union {operation.epoch}
  /\ UNCHANGED <<pendingCleanup, acknowledged, deletable>>

Finalize(epoch, token, commitment, t) ==
  /\ FinalizeAnswer(epoch, token, commitment, t) = "committed"
  /\ committed' = prepared
  /\ prepared' = NoRows
  /\ authority' = committedAuthority
  /\ operation' = [operation EXCEPT
       !.phase = "committed",
       !.result = [active |-> operation.candidate,
                   previous |-> authority.active]]
  /\ commitEpochs' = commitEpochs \union {operation.epoch}
  /\ UNCHANGED <<pendingCleanup, acknowledged, deletable>>

-----------------------------------------------------------------------------
(* cancel: makes a prepared epoch, expired or not, terminal. *)

CancelAnswer(epoch, token) ==
  IF ~isMutableState THEN "authority-not-active"
  ELSE IF operation = NoOperation
    THEN IF epoch > authority.lastEpoch THEN "unknown-epoch"
         ELSE "no-current-operation"
  ELSE IF epoch > operation.epoch THEN "unknown-epoch"
  ELSE IF epoch < operation.epoch THEN "superseded"
  ELSE IF token # operation.token THEN "stale-identity"
  ELSE IF operation.phase = "committed" THEN "operation-committed"
  ELSE IF operation.phase = "cancelled" THEN "already-cancelled"
  ELSE "cancelled"

CancelKeepingRows(epoch, token) ==
  /\ CancelAnswer(epoch, token) = "cancelled"
  /\ operation' = [operation EXCEPT !.phase = "cancelled"]
  /\ UNCHANGED <<authority, pendingCleanup, committed, prepared, history>>

Cancel(epoch, token) ==
  /\ CancelAnswer(epoch, token) = "cancelled"
  /\ prepared' = NoRows
  /\ operation' = [operation EXCEPT !.phase = "cancelled"]
  /\ UNCHANGED <<authority, pendingCleanup, committed, history>>

-----------------------------------------------------------------------------
(* Orphan cleanup.  The request names one epoch and its version, and carries
   the token (the current record) or none (token 0, the displaced orphan). *)

namesCurrent(epoch, token) ==
  /\ operation # NoOperation
  /\ operation.epoch = epoch
  /\ operation.token = token

namesPendingEpochOnly(epoch, version) ==
  pendingCleanup # NoPending /\ pendingCleanup.epoch = epoch

namesPending(epoch, version) ==
  /\ pendingCleanup # NoPending
  /\ pendingCleanup = [epoch |-> epoch, candidate |-> version]

AuthorizeCleanupAnswer(epoch, token, version) ==
  IF authority.cutoverState = "uninitialized" THEN "no-current-operation"
  ELSE IF namesCurrent(epoch, token)
    THEN IF operation.phase # "cancelled" THEN "operation-not-cancelled"
         ELSE IF operation.candidate # version THEN "candidate-version-mismatch"
         ELSE IF isAuthoritativeVersion(version) THEN "version-is-authoritative"
         ELSE "authorized"
  ELSE IF namesPending(epoch, version)
    THEN IF isAuthoritativeVersion(version) THEN "version-is-authoritative"
         ELSE "authorized"
  ELSE IF operation = NoOperation /\ pendingCleanup = NoPending
    THEN "no-current-operation"
  ELSE "identity-not-current"

(* It writes nothing: only the history notes that the caller may now delete. *)
AuthorizeCleanup(epoch, token, version) ==
  /\ AuthorizeCleanupAnswer(epoch, token, version) = "authorized"
  /\ deletable' = deletable \union {version}
  /\ UNCHANGED <<durable, commitEpochs, acknowledged>>

AcknowledgeCleanupAnswer(epoch, token, version) ==
  IF authority.cutoverState = "uninitialized" THEN "identity-not-current"
  ELSE IF pendingCleanup # NoPending
    THEN IF namesPending(epoch, version) THEN "clears-pending"
         ELSE IF epoch < pendingCleanup.epoch THEN "already-cleared"
         ELSE "identity-not-current"
  ELSE IF operation = NoOperation THEN "already-cleared"
  ELSE IF /\ namesCurrent(epoch, token)
          /\ operation.candidate = version
          /\ operation.phase = "cancelled"
    THEN "clears-current"
  ELSE IF operation.epoch > epoch THEN "already-cleared"
  ELSE "identity-not-current"

AcknowledgeCleanup(epoch, token, version) ==
  /\ \/ /\ AcknowledgeCleanupAnswer(epoch, token, version) = "clears-pending"
        /\ pendingCleanup' = NoPending
        /\ UNCHANGED operation
     \/ /\ AcknowledgeCleanupAnswer(epoch, token, version) = "clears-current"
        /\ operation' = NoOperation
        /\ UNCHANGED pendingCleanup
  /\ acknowledged' = acknowledged \union {epoch}
  /\ UNCHANGED <<authority, committed, prepared, commitEpochs, deletable>>

-----------------------------------------------------------------------------
(* How a season enters the sequencer *)

SeedCutover(seed) ==
  /\ authority.cutoverState = "uninitialized"
  /\ authority' = [authority EXCEPT
       !.cutoverState = "seeded",
       !.active = seed.active,
       !.previous = seed.previous,
       !.ordering = seed.ordering,
       !.floor = seed.floor,
       !.fingerprint = seed.fingerprint]
  /\ committed' = seed.rows
  /\ prepared' = NoRows
  /\ UNCHANGED <<operation, pendingCleanup, history>>

ActivateCutover(fingerprint) ==
  /\ authority.cutoverState = "seeded"
  /\ authority.fingerprint = fingerprint
  /\ authority' = [authority EXCEPT !.cutoverState = "active"]
  /\ UNCHANGED <<operation, pendingCleanup, committed, prepared, history>>

CommitGenesis(fingerprint) ==
  /\ authority.cutoverState = "uninitialized"
  /\ operation = NoOperation
  /\ pendingCleanup = NoPending
  /\ committed = NoRows
  /\ prepared = NoRows
  /\ authority' = [authority EXCEPT
       !.cutoverState = "genesis",
       !.fingerprint = fingerprint]
  /\ UNCHANGED <<operation, pendingCleanup, committed, prepared, history>>

-----------------------------------------------------------------------------
(* Any caller, any well-formed request; a refused request writes nothing. *)
Next ==
  \/ \E req \in PrepareRequests, t \in ClockReadings : Prepare(req, t)
  \/ \E e \in Epochs, k \in Tokens, c \in Commitments, t \in ClockReadings :
       Finalize(e, k, c, t)
  \/ \E e \in Epochs, k \in Tokens : Cancel(e, k)
  \/ \E e \in Epochs, k \in Tokens \union {0}, v \in Versions :
       AuthorizeCleanup(e, k, v)
  \/ \E e \in Epochs, k \in Tokens \union {0}, v \in Versions :
       AcknowledgeCleanup(e, k, v)
  \/ \E seed \in Seeds : SeedCutover(seed)
  \/ \E f \in SeedFingerprints : ActivateCutover(f)
  \/ \E f \in GenesisFingerprints : CommitGenesis(f)

Spec == Init /\ [][Next]_vars

-----------------------------------------------------------------------------
(* Properties *)

(* A prepared operation is always bound to the release that is active now, so
   finalize can never meet predecessor-changed: what a candidate was compared
   against cannot be replaced under it (coordinator.ts, finalize). *)
PreparedBoundToActive ==
  operation.phase = "prepared" => operation.prior = authority.active

(* A version some caller was ever authorized to delete is not, and never
   becomes, the active or previous release or a candidate that may still
   commit, so a delayed deletion can only remove garbage
   (coordinator.ts, authorizeCleanup). *)
DeletableIsGarbage ==
  \A v \in deletable : ~isAuthoritativeVersion(v)

(* Every epoch ever allocated is accounted for: committed, acknowledged as
   cleaned, current, or in the single pending slot.  A displaced candidate is
   never silently forgotten, though only one slot remembers it
   (coordinator.ts, prepare and acknowledgeCleanup). *)
NoOrphanForgotten ==
  \A e \in 1 .. authority.lastEpoch :
    e \in commitEpochs \union acknowledged
            \union {operation.epoch, pendingCleanup.epoch}

(* The assignment floor is at or above every committed timestamp, so whatever
   prepare assigns above it is later than anything readers have been served
   (rules.ts, assignObservationTimestamps). *)
FloorCoversRows ==
  \A d \in Docs : committed[d].observedAt <= authority.floor

(* A season born by genesis is never rolled back before it has a second
   release to roll back from (coordinator.ts, no-committed-release). *)
GenesisRollbackHasTarget ==
  /\ operation.kind = "rollback-republication"
  /\ bornByGenesis
  => \E e, f \in commitEpochs \ {operation.epoch} : e # f

(* A document's row changes exactly when its revision does, and then to a
   timestamp later than every one the season has committed, also when the
   document was withdrawn in between or the clock has gone back; the floor
   itself never falls. *)
ObservationClockAdvances ==
  [][authority.cutoverState # "uninitialized" =>
      /\ authority'.floor >= authority.floor
      /\ \A d \in Docs :
           committed'[d] # committed[d] =>
             /\ committed'[d].revision # committed[d].revision
             /\ \/ committed'[d] = NoRow
                \/ committed'[d].observedAt > authority.floor]_vars

(* Ordinary publication never replaces a release with one whose source
   ordering input is older, although the check is made at prepare and the
   commit happens later; only a rollback moves it back. *)
OrdinaryNeverOlder ==
  [][/\ authority'.active # authority.active
     /\ authority.cutoverState # "uninitialized"
     /\ operation.kind = "ordinary-publication"
     => authority'.ordering >= authority.ordering]_vars

(* Releases commit in epoch order, each epoch at most once, and each commit
   makes the release it replaces the previous one: no late, duplicated or
   superseded finalize re-activates an older candidate. *)
CommitsInEpochOrder ==
  [][/\ authority'.active # authority.active
     /\ authority.cutoverState # "uninitialized"
     => /\ authority'.previous = authority.active
        /\ \E e \in Epochs :
             /\ authority'.active = candidateVersionForEpoch(e)
             /\ \A f \in commitEpochs : f < e]_vars

(* The sequencer implements the season authority: what is ever deletable was
   discarded, and the committed epochs are its releases. *)
releasedVersions == {candidateVersionForEpoch(e) : e \in commitEpochs}

Authority == INSTANCE SeasonAuthority
  WITH active <- authority.active,
       previous <- authority.previous,
       released <- releasedVersions,
       discarded <- deletable

ImplementsAuthority == Authority!Spec

-----------------------------------------------------------------------------
(* The inductive invariant the proofs rest on, in named parts. *)

(* The operation and pending records name epochs that were allocated, each
   with its own version, never the same one. *)
RecordsAllocated ==
  /\ operation # NoOperation =>
       /\ operation.epoch <= authority.lastEpoch
       /\ operation.candidate = candidateVersionForEpoch(operation.epoch)
  /\ pendingCleanup # NoPending =>
       /\ pendingCleanup.epoch <= authority.lastEpoch
       /\ pendingCleanup.candidate
            = candidateVersionForEpoch(pendingCleanup.epoch)
       /\ pendingCleanup.epoch # operation.epoch

(* An epoch is in commitEpochs exactly when its finalize committed, and the
   current operation is the youngest of them. *)
CommitsAllocated ==
  /\ \A e \in commitEpochs : e <= authority.lastEpoch
  /\ operation.phase = "committed" => operation.epoch \in commitEpochs
  /\ operation.phase \in {"prepared", "cancelled"} =>
       operation.epoch \notin commitEpochs
  /\ operation # NoOperation =>
       \A e \in commitEpochs : e <= operation.epoch
  /\ pendingCleanup # NoPending => pendingCleanup.epoch \notin commitEpochs

(* The release pointers name legacy versions or committed epochs. *)
PointersCommitted ==
  \A v \in {authority.active, authority.previous} :
    v \in AllocatedVersions => v.id \in commitEpochs

(* A version that may be deleted belongs to an epoch that is over and never
   committed. *)
DeletableRetired ==
  \A v \in deletable :
    /\ v.id <= authority.lastEpoch
    /\ v.id \notin commitEpochs
    /\ operation.phase = "prepared" => operation.epoch # v.id

(* Before its first mutable state a season has run no operation. *)
Dormant ==
  /\ authority.cutoverState \in {"uninitialized", "seeded"} =>
       /\ operation = NoOperation
       /\ pendingCleanup = NoPending
       /\ commitEpochs = {}
       /\ deletable = {}
       /\ authority.lastEpoch = 0
       /\ prepared = NoRows
  /\ authority.cutoverState = "uninitialized" =>
       /\ authority.active = NoVersion
       /\ authority.previous = NoVersion
       /\ authority.floor = NoInstant
       /\ committed = NoRows
  /\ authority.cutoverState = "genesis" => authority.active = NoVersion

(* The rows a prepared candidate would commit: each is the committed row, or a
   withdrawal, or a fresh activation; all fresh ones share one instant. *)
PreparedRows ==
  /\ operation.phase # "prepared" => prepared = NoRows
  /\ operation.phase = "prepared" =>
       \A d \in Docs :
         prepared[d] # committed[d] =>
           /\ prepared[d].revision # committed[d].revision
           /\ \/ prepared[d] = NoRow
              \/ prepared[d].observedAt > authority.floor
  /\ \A c, d \in Docs :
       /\ prepared[c].observedAt > authority.floor
       /\ prepared[d].observedAt > authority.floor
       => prepared[c].observedAt = prepared[d].observedAt

PreparedOrdering ==
  /\ operation.phase = "prepared"
  /\ operation.kind = "ordinary-publication"
  => operation.ordering >= authority.ordering

(* A season born by genesis owns every release it ever had. *)
GenesisPointers ==
  bornByGenesis =>
    /\ authority.active \in AllocatedVersions \union {NoVersion}
    /\ authority.previous \in AllocatedVersions \union {NoVersion}
    /\ authority.previous # NoVersion => authority.active # NoVersion
    /\ authority.active # NoVersion => authority.active # authority.previous

(* Everything above, with the properties it implies or needs. *)
SequencerInv ==
  /\ TypeOK
  /\ RecordsAllocated
  /\ CommitsAllocated
  /\ PointersCommitted
  /\ DeletableRetired
  /\ Dormant
  /\ PreparedRows
  /\ PreparedOrdering
  /\ GenesisPointers
  /\ PreparedBoundToActive
  /\ NoOrphanForgotten
  /\ FloorCoversRows
  /\ GenesisRollbackHasTarget
=============================================================================
