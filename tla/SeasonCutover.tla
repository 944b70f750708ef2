---------------------------- MODULE SeasonCutover ----------------------------
(***************************************************************************)
(* How a season leaves the legacy publisher: deployments that close its    *)
(* admission, operators who seed and activate it from an approved          *)
(* checkpoint (publication/cutover/service.ts) or start it by genesis      *)
(* (cutover/genesis.ts), a legacy command that was admitted before the     *)
(* closure and is still running, and the publications that follow.         *)
(*                                                                         *)
(* Every call to the sequencer may be lost before or after it was          *)
(* executed, every KV read may fail, and an operator's request may stop at *)
(* any point and be made again.  The sequencer's state changes only by its *)
(* own actions: CutoverSpec implements Spec (SeasonCutoverProofs).         *)
(***************************************************************************)
EXTENDS SequencedMaintenance

CONSTANTS
  Operators,      \* concurrent cutover requests
  CheckpointOf,   \* the checkpoint each seed fingerprint is the hash of
  GenesisOf,      \* the one genesis fingerprint of the season
  Readings,       \* the clock readings a migration may meet
  Publishing,     \* the clock readings a publication may meet
  Candidates,     \* the manifests the sequenced service may publish
  KvBefore        \* what KV may hold when the cutover begins

ASSUME CutoverAssumption ==
  /\ CheckpointOf \in
       [SeedFingerprints -> [active : LegacyVersions,
                             previous : LegacyVersions \union {NoVersion},
                             bound : 0 .. MaxInstant]]
  /\ GenesisOf \in GenesisFingerprints
  /\ Readings \union Publishing \subseteq ClockReadings
  /\ Candidates \subseteq Manifests
  (* What the legacy publisher left: generated inventories, whole releases. *)
  /\ KvBefore \subseteq KvStates
  /\ \A k \in KvBefore, v \in LegacyVersions :
       /\ k.inventory[v] \in {{}, namesOf(v)}
       /\ v \in {k.active, k.previous} =>
            k.inventory[v] # {} /\ k.inventory[v] \subseteq k.stored[v]
  /\ \A m \in Manifests : {d \in Docs : m[d] # NoRevision} \in Commitments

-----------------------------------------------------------------------------
(* The seed of a checkpoint *)

\* Faulty migratedFloor: only the clock is read.
migratedFloorOfClock(f, imported, t) == t

(* The highest of every imported timestamp, the clock and the audited bound. *)
migratedFloor(f, imported, t) ==
  LET releases == {CheckpointOf[f].active} \union ({imported} \ {NoVersion})
      instants == {t, CheckpointOf[f].bound}
        \union {ReleaseOf[v].rows[d].observedAt : v \in releases, d \in Docs}
  IN CHOOSE i \in instants : \A j \in instants : j <= i

stagedSeed(f, imported, t) ==
  LET active == CheckpointOf[f].active IN
  [fingerprint |-> f, active |-> active, previous |-> imported,
   ordering |-> ReleaseOf[active].ordering, rows |-> ReleaseOf[active].rows,
   floor |-> migratedFloor(f, imported, t)]

ASSUME StagedAssumption ==
  \A f \in SeedFingerprints, t \in Readings \intersect Instants :
    \A imported \in {NoVersion, CheckpointOf[f].previous} :
      stagedSeed(f, imported, t) \in Seeds

-----------------------------------------------------------------------------
(* The cutover *)

VARIABLES
  deployed,   \* the authority mode and the cutover control of the Worker
  approved,   \* the checkpoints the operators approved, by fingerprint
  late,       \* whether a legacy command was running at some approval
  request,    \* each operator's request
  receipt     \* what one has just answered, forgotten by the next step

cutoverVars ==
  <<durable, history, publisherVars, post, deployed, approved, late, request,
    receipt>>

NoSeed ==
  [fingerprint |-> NoFingerprint, active |-> NoVersion, previous |-> NoVersion,
   ordering |-> NoInstant, floor |-> NoInstant, rows |-> NoRows]

(* Where a request waits: the name of the call it makes next. *)
Stages ==
  {"recover", "stage", "present", "settle", "confirm", "activate", "legacy",
   "commit", "reconcile"}

Requests ==
  [pc : {"idle"} \union Stages,
   fingerprint : SeedFingerprints \union {NoFingerprint},
   seed : Seeds \union {NoSeed}, recovered : BOOLEAN,
   expected : {"none", "seeded", "active"},
   active : Versions \union {NoVersion}, previous : Versions \union {NoVersion}]
Resting ==
  [pc |-> "idle", fingerprint |-> NoFingerprint, seed |-> NoSeed,
   recovered |-> FALSE, expected |-> "none", active |-> NoVersion,
   previous |-> NoVersion]

Successes ==
  {"seeded", "already-active", "activated", "created", "already-genesis",
   "reconciled"}
Conflicts == {"conflicting-cutover-seed", "committed-seed-incoherent"}
Receipts ==
  [outcome : {"none"} \union Successes \union Conflicts,
   fingerprint : SeedFingerprints \union {NoFingerprint},
   active : Versions \union {NoVersion}, previous : Versions \union {NoVersion}]
NoReceipt ==
  [outcome |-> "none", fingerprint |-> NoFingerprint, active |-> NoVersion,
   previous |-> NoVersion]

CutoverTypeOK ==
  /\ PublisherTypeOK
  /\ MaintenanceTypeOK
  /\ deployed \in [mode : {"legacy", "sequencer"},
                   control : {"disabled", "seed", "activate", "genesis"}]
  /\ approved \subseteq SeedFingerprints
  /\ late \in BOOLEAN
  /\ request \in [Operators -> Requests]
  /\ receipt \in Receipts

CutoverInit ==
  /\ Init
  /\ PublisherInit(KvBefore)
  /\ MaintenanceInit
  /\ deployed = [mode |-> "legacy", control |-> "disabled"]
  /\ approved = {}
  /\ late = FALSE
  /\ request = [o \in Operators |-> Resting]
  /\ receipt = NoReceipt

Proceed(o, r) ==
  /\ request' = [request EXCEPT ![o] = r]
  /\ receipt' = NoReceipt
Go(o, pc) == Proceed(o, [request[o] EXCEPT !.pc = pc])

(* Refused for any other reason, unanswered, or abandoned. *)
Fail(o) == Proceed(o, Resting)

Finish(o, outcome, active, previous) ==
  /\ request' = [request EXCEPT ![o] = Resting]
  /\ receipt' = [outcome |-> outcome, fingerprint |-> request[o].fingerprint,
                 active |-> active, previous |-> previous]

NoRequestMoves ==
  /\ receipt' = NoReceipt
  /\ UNCHANGED request

-----------------------------------------------------------------------------
(* Deployments.  Operators follow one procedure: the mode never goes back,
   and from the approval of a checkpoint until the season is the sequencer's
   the control stays set. *)

Deploy(next) ==
  /\ next # deployed
  /\ deployed.mode = "sequencer" => next.mode = "sequencer"
  /\ next.control \in {"activate", "genesis"} => next.mode = "sequencer"
  /\ next.control = "disabled" => approved = {} \/ isMutableState
  /\ next.control = "genesis" => approved = {}
  /\ next.control = "activate" => approved # {}
  /\ deployed' = next
  /\ UNCHANGED <<durable, history, approved, late>>
  /\ PublisherIdles /\ MaintenanceIdles /\ NoRequestMoves

(* buildPublicationCommands: a control closes the season's legacy admission,
   and a season that is the sequencer's is not the legacy publisher's. *)
\* Faulty LegacyAdmitted: the control does not close the season.
LegacyAdmittedByState ==
  deployed.mode = "legacy" \/ authority.cutoverState \in {"uninitialized", "seeded"}

LegacyAdmitted ==
  /\ deployed.control = "disabled"
  /\ \/ deployed.mode = "legacy"
     \/ authority.cutoverState \in {"uninitialized", "seeded"}

(* A seed control closes the ordinary entry of the sequenced service and not
   the guarded one, which runs the same protocol. *)
SequencedAdmitted == deployed.mode = "sequencer" /\ isMutableState

(* resolveVersions: the release the season's readers are answered from. *)
resolved ==
  IF deployed.mode = "sequencer" /\ isMutableState THEN authority.active
  ELSE kv.active

(* Two bounds: no cutover request is open while an operator purges, which reads
   nothing a request changes; and a second request opens only when no legacy
   command is in progress. *)
OperatorsRest == \A o \in Operators : request[o].pc = "idle"
MayOpen == OperatorsRest \/ command.pc = "idle"

LegacyCommand ==
  /\ \/ /\ LegacyAdmitted
        /\ \/ \E v \in LegacyVersions : BeginPublish(v)
           \/ \E v \in LegacyVersions \union {kv.previous} : BeginRollback(v)
     \/ OperatorsRest /\ ~isMutableState /\ BeginPurge
     \/ RunCommand
  /\ UNCHANGED <<durable, history, deployed, approved, late>>
  /\ MaintenanceIdles /\ NoRequestMoves

-----------------------------------------------------------------------------
(* The sequenced publication, in two steps: the candidate prepared and its
   documents written, then finalized (SequencedPublication has them all); and
   what it owes afterwards.  One publication at a time, which may give up. *)

manifestNames(m) == {d \in Docs : m[d] # NoRevision}

PrepareCandidate(m, t) ==
  LET v == candidateVersionForEpoch(authority.lastEpoch + 1)
      guard == [d \in ResultsDocs |-> committed[d].revision]
  IN
  /\ SequencedAdmitted
  /\ OweMaintenance(v, authority.active, manifestNames(m))
  /\ Prepare([kind |-> "ordinary-publication", manifest |-> m,
              ordering |-> t, commitment |-> manifestNames(m),
              expectedVersion |-> authority.active, expectedGuard |-> guard], t)
  /\ kv' = [kv EXCEPT !.stored[v] = manifestNames(m),
                      !.inventory[v] = manifestNames(m)]
  /\ answer' = NoAnswer
  /\ UNCHANGED <<command, deployed, approved, late>>
  /\ NoRequestMoves

FinalizeCandidate(t) ==
  /\ SequencedAdmitted
  /\ post.version = operation.candidate
  /\ Finalize(operation.epoch, operation.token, operation.commitment, t)
  /\ CommitBecomesKnown(authority.active)
  /\ UNCHANGED <<deployed, approved, late>>
  /\ PublisherIdles /\ NoRequestMoves

SequencedMaintain ==
  /\ \/ CompleteCommitted
     \/ StopMaintenance
     \/ /\ OperatorsRest
        /\ SequencedAdmitted
        /\ PurgeActiveVersion(authority.active)
  /\ UNCHANGED <<durable, history, command, deployed, approved, late>>
  /\ NoRequestMoves

-----------------------------------------------------------------------------
(* seed *)

(* With admission closed, a checkpoint is approved for the pointers KV shows.
   A legacy command may still be running. *)
ApproveCheckpoint(f) ==
  /\ deployed.control = "seed"
  /\ f \notin approved
  /\ CheckpointOf[f].active = kv.active
  /\ CheckpointOf[f].previous = kv.previous
  /\ approved' = approved \union {f}
  /\ late' = (late \/ command.pc # "idle")
  /\ UNCHANGED <<durable, history, deployed>>
  /\ PublisherIdles /\ MaintenanceIdles /\ NoRequestMoves

gateOpen(phase) ==
  deployed.mode = "sequencer" /\ deployed.control = phase

StartSeed(o, f) ==
  /\ request[o].pc = "idle"
  /\ gateOpen("seed")
  /\ f \in approved
  /\ Proceed(o, [Resting EXCEPT !.pc = "recover", !.fingerprint = f])

committedSeed ==
  [fingerprint |-> authority.fingerprint, active |-> authority.active,
   previous |-> authority.previous, ordering |-> authority.ordering,
   floor |-> authority.floor, rows |-> committed]

(* Of the committed record, only what the checkpoint itself says is compared:
   a previous release may have been omitted, a floor is at least its bound. *)
seedDescribesCheckpoint(f) ==
  /\ authority.active = CheckpointOf[f].active
  /\ authority.previous \in {NoVersion, CheckpointOf[f].previous}
  /\ CheckpointOf[f].bound <= authority.floor

(* A committed seed is read back rather than built again: a second reading of
   the clock would give it another floor.  After a conflicting presentation
   the record must be there. *)
Recover(o) ==
  LET f == request[o].fingerprint
      settling == request[o].pc = "settle"
  IN
  /\ request[o].pc \in {"recover", "settle"}
  /\ \/ Fail(o)
     \/ /\ authority.cutoverState = "uninitialized"
        /\ IF settling THEN Fail(o) ELSE Go(o, "stage")
     \/ /\ authority.cutoverState # "uninitialized"
        /\ authority.fingerprint # f
        /\ Finish(o, "conflicting-cutover-seed", NoVersion, NoVersion)
     \/ /\ authority.cutoverState # "uninitialized"
        /\ authority.fingerprint = f
        /\ IF seedDescribesCheckpoint(f)
             THEN Proceed(o, [request[o] EXCEPT !.pc = "present",
                                !.seed = committedSeed, !.recovered = TRUE])
             ELSE Finish(o, "committed-seed-incoherent", NoVersion, NoVersion)

(* A previous release that cannot be imported whole is omitted, an active one
   ends the request. *)
importRelease(v) == v # NoVersion /\ isWhole(v)

StageFreshSeed(o, t) ==
  LET f == request[o].fingerprint
      previous == CheckpointOf[f].previous
  IN
  /\ request[o].pc = "stage"
  /\ \/ Fail(o)
     \/ /\ t \in Instants
        /\ importRelease(CheckpointOf[f].active)
        /\ \E imported \in {NoVersion}
              \union (IF importRelease(previous) THEN {previous} ELSE {}) :
             Proceed(o, [request[o] EXCEPT !.pc = "present",
                           !.seed = stagedSeed(f, imported, t)])

SeedAnswer(seed) ==
  IF authority.cutoverState = "uninitialized" THEN "seeded"
  ELSE IF seed # committedSeed THEN "conflicting-cutover-seed"
  ELSE IF authority.cutoverState = "active" THEN "already-active"
  ELSE "already-seeded"

(* seedCutover, whose answer may be lost.  A fresh seed that meets another
   committed one settles once. *)
Present(o) ==
  LET seed == request[o].seed
      outcome == SeedAnswer(seed)
      confirming == [request[o] EXCEPT !.pc = "confirm", !.expected =
                       IF outcome = "already-active" THEN "active" ELSE "seeded"]
  IN
  /\ request[o].pc = "present"
  /\ \/ SeedCutover(seed) /\ (Proceed(o, confirming) \/ Fail(o))
     \/ /\ \/ /\ outcome \in {"already-seeded", "already-active"}
              /\ Proceed(o, confirming)
           \/ /\ outcome = "conflicting-cutover-seed"
              /\ IF request[o].recovered
                   THEN Finish(o, outcome, NoVersion, NoVersion)
                 ELSE Proceed(o, [request[o] EXCEPT !.pc = "settle", !.seed = NoSeed])
           \/ Fail(o)
        /\ UNCHANGED <<durable, history>>

confirmSeededAuthority(o) ==
  LET seed == request[o].seed IN
  /\ authority.cutoverState = request[o].expected
  /\ authority.fingerprint = request[o].fingerprint
  /\ authority.active = seed.active
  /\ authority.previous = seed.previous

ConfirmSeed(o) ==
  LET r == request[o] IN
  /\ r.pc = "confirm"
  /\ \/ /\ confirmSeededAuthority(o)
        /\ Finish(o, IF r.expected = "active" THEN "already-active" ELSE "seeded",
                  r.seed.active, r.seed.previous)
     \/ Fail(o)

-----------------------------------------------------------------------------
(* activate: the pointers of the receipt are the ones read before the call. *)

StartActivate(o, f) ==
  /\ request[o].pc = "idle"
  /\ gateOpen("activate")
  /\ f \in approved
  /\ authority.cutoverState \in {"seeded", "active"}
  /\ authority.fingerprint = f
  /\ Proceed(o, [Resting EXCEPT !.pc = "activate", !.fingerprint = f,
       !.active = authority.active, !.previous = authority.previous])

Activate(o) ==
  LET r == request[o] IN
  /\ r.pc = "activate"
  /\ \/ ActivateCutover(r.fingerprint)
        /\ (Finish(o, "activated", r.active, r.previous) \/ Fail(o))
     \/ /\ authority.cutoverState = "active"
        /\ Finish(o, "already-active", r.active, r.previous)
        /\ UNCHANGED <<durable, history>>
     \/ Fail(o) /\ UNCHANGED <<durable, history>>

-----------------------------------------------------------------------------
(* genesis *)

existingGenesis == isMutableState /\ authority.fingerprint = GenesisOf

genesisOutcome ==
  IF authority.cutoverState = "genesis" THEN "already-genesis"
  ELSE "already-active"

StartGenesis(o) ==
  /\ request[o].pc = "idle"
  /\ gateOpen("genesis")
  /\ \/ /\ authority.cutoverState = "uninitialized"
        /\ Proceed(o, [Resting EXCEPT !.pc = "legacy"])
     \/ existingGenesis /\ Finish(o, genesisOutcome, NoVersion, NoVersion)

ReadLegacyRelease(o) ==
  /\ request[o].pc = "legacy"
  /\ \/ kv.active = NoVersion /\ kv.previous = NoVersion /\ Go(o, "commit")
     \/ Fail(o)

CallCommitGenesis(o) ==
  /\ request[o].pc = "commit"
  /\ \/ CommitGenesis(GenesisOf) /\ (Finish(o, "created", NoVersion, NoVersion) \/ Go(o, "reconcile"))
     \/ /\ \/ Go(o, "reconcile")
           \/ existingGenesis /\ Finish(o, genesisOutcome, NoVersion, NoVersion)
           \/ /\ authority.cutoverState # "uninitialized"
              /\ ~existingGenesis
              /\ Fail(o)
        /\ UNCHANGED <<durable, history>>

ReconcileGenesis(o) ==
  /\ request[o].pc = "reconcile"
  /\ \/ existingGenesis /\ Finish(o, "reconciled", NoVersion, NoVersion)
     \/ Fail(o)

-----------------------------------------------------------------------------
(* A request that reads, and one that calls the sequencer. *)
ReadingStep(o) ==
  /\ \/ \E f \in SeedFingerprints : StartSeed(o, f) \/ StartActivate(o, f)
     \/ Recover(o)
     \/ \E t \in Readings : StageFreshSeed(o, t)
     \/ ConfirmSeed(o)
     \/ StartGenesis(o)
     \/ ReadLegacyRelease(o)
     \/ ReconcileGenesis(o)
     \/ request[o].pc # "idle" /\ Fail(o)
  /\ UNCHANGED <<durable, history>>

CutoverNext ==
  \/ \E m \in {"legacy", "sequencer"},
        c \in {"disabled", "seed", "activate", "genesis"} :
       Deploy([mode |-> m, control |-> c])
  \/ \E f \in SeedFingerprints : ApproveCheckpoint(f)
  \/ LegacyCommand
  \/ \E m \in Candidates, t \in Publishing : PrepareCandidate(m, t)
  \/ \E t \in Publishing : FinalizeCandidate(t)
  \/ SequencedMaintain
  \/ \E o \in Operators :
       /\ request[o].pc = "idle" => MayOpen
       /\ ReadingStep(o) \/ Present(o) \/ Activate(o) \/ CallCommitGenesis(o)
       /\ UNCHANGED <<deployed, approved, late>>
       /\ PublisherIdles /\ MaintenanceIdles

CutoverSpec == CutoverInit /\ [][CutoverNext]_cutoverVars
-----------------------------------------------------------------------------
(* Properties *)

(* Whatever the season's readers are answered from, and whatever either
   authority would roll back to, is whole in KV: the pointers move in separate
   calls, a failed or interrupted publication deletes what it wrote, and a
   seed may name a release a legacy command has only just committed
   (publisher.ts, publish; cutover/migration.ts, importRelease). *)
ReleasesWhole ==
  \A v \in {resolved, kv.active, kv.previous, authority.active,
            authority.previous} : v # NoVersion => isWhole(v)

(* A season that was served goes on being served across every deployment,
   seed and activation; only a genesis, which takes the season for one without
   any release, may interrupt it (router.ts, resolveVersions). *)
ServingContinues ==
  [][resolved # NoVersion =>
       \/ resolved' # NoVersion
       \/ authority'.cutoverState = "genesis"]_cutoverVars

(* Activation hands the season over as it is being served: the release the
   sequencer takes over is the one the legacy pointers name, unless a legacy
   command admitted before the closure was still running when a checkpoint
   was approved (cutover/admission.ts). *)
ActivationKeepsRelease ==
  [][/\ authority.cutoverState = "seeded"
     /\ authority'.cutoverState = "active"
     => late \/ authority.active = kv.active]_cutoverVars

(* A seeded season is what its checkpoint says: the release's own rows and
   ordering input, the checkpoint's pointers or no previous one, and a floor
   no imported timestamp and no audited bound exceeds, whoever built the seed
   and however often it was presented (cutover/service.ts, stageFreshSeed). *)
SeedMatchesCheckpoint ==
  /\ authority.fingerprint \in SeedFingerprints
  /\ commitEpochs = {}
  => LET c == CheckpointOf[authority.fingerprint] IN
     /\ authority.active = c.active
     /\ authority.previous \in {NoVersion, c.previous}
     /\ authority.ordering = ReleaseOf[c.active].ordering
     /\ committed = ReleaseOf[c.active].rows
     /\ c.bound <= authority.floor
     /\ \A v \in {authority.active, authority.previous} \ {NoVersion},
           d \in Docs : ReleaseOf[v].rows[d].observedAt <= authority.floor

(* What a request answered is so, also when its calls were lost, repeated or
   overtaken: the season has the fingerprint of the receipt, and an activation
   names the pointers it activated, although it read them before the call
   (cutover/service.ts, seed and activate; cutover/genesis.ts, genesis). *)
ReceiptsHold ==
  /\ receipt.outcome \in Successes =>
       authority.fingerprint =
         IF receipt.fingerprint = NoFingerprint THEN GenesisOf
         ELSE receipt.fingerprint
  /\ receipt.outcome = "activated" =>
       /\ authority.cutoverState = "active"
       /\ receipt.active = authority.active
       /\ receipt.previous = authority.previous

(* Two requests for one checkpoint agree, although each reads its own clock:
   one is refused as conflicting, or as not describing its checkpoint, only
   when the season has another fingerprint or has already published on
   (cutover/service.ts, recoverCommittedSeed). *)
IdenticalSeedsAgree ==
  receipt.outcome \in Conflicts =>
    \/ authority.fingerprint # receipt.fingerprint
    \/ commitEpochs # {}

(* Whatever is served, or would be returned to, is whole and well-typed. *)
ReleasesStayWhole == CutoverTypeOK /\ ReleasesWhole

(* What a command reports is so, of the legacy publisher and of the sequenced
   service: the version it names is active, and nothing of the one it replaced
   is still served from the cache. *)
AnswersHold == AppliedIsActive /\ ReplacedIsPurged

(* A seeded season is what its checkpoint says, what a cutover request reports
   is so, and requests for one checkpoint agree. *)
SeedingAgrees == SeedMatchesCheckpoint /\ ReceiptsHold /\ IdenticalSeedsAgree

(* From the legacy publisher to the sequencer the season goes on being served,
   from the release it was served from, with its way back kept. *)
HandoverHolds == ServingContinues /\ ActivationKeepsRelease /\ RollbackPathKept

-----------------------------------------------------------------------------
(* The inductive invariant the proofs rest on, in named parts. *)

(* A season has an active release from its seed or its first commit on. *)
ReleasedStates ==
  /\ authority.cutoverState \in {"seeded", "active"} <=> authority.active # NoVersion
  /\ authority.active = NoVersion => committed = NoRows
  /\ authority.cutoverState = "uninitialized" =>
       authority.fingerprint = NoFingerprint
  /\ commitEpochs # {} => authority.active \in AllocatedVersions

(* Every seed the requests for one checkpoint may stage. *)
stagedSeeds(f) ==
  {stagedSeed(f, imported, t) :
     imported \in {NoVersion, CheckpointOf[f].previous},
     t \in Readings \intersect Instants}

(* Until its first publication a seeded season is as one of them staged it. *)
CommittedSeedStaged ==
  \A f \in SeedFingerprints :
    authority.fingerprint = f /\ commitEpochs = {} =>
      committedSeed \in stagedSeeds(f)

(* What a request may rely on at each of its calls.  A recovered seed is the
   committed one, and an activation's pointers are the seeded ones, for as long
   as nothing was published. *)
requestCoherent(r) ==
  /\ r.pc = "idle" => r = Resting
  /\ r.pc \in {"recover", "stage", "present", "settle", "confirm", "activate"} =>
       r.fingerprint \in approved
  /\ r.pc \in {"legacy", "commit", "reconcile"} => r.fingerprint = NoFingerprint
  /\ r.pc = "present" => r.seed \in stagedSeeds(r.fingerprint)
  /\ r.recovered => r.pc \in {"present", "confirm"}
  /\ r.pc = "present" /\ r.recovered =>
       /\ authority.fingerprint = r.fingerprint
       /\ commitEpochs = {} => r.seed = committedSeed
  /\ r.pc = "activate" =>
       /\ authority.cutoverState \in {"seeded", "active"}
       /\ authority.fingerprint = r.fingerprint
       /\ authority.cutoverState = "seeded" =>
            r.active = authority.active /\ r.previous = authority.previous

RequestCoherent ==
  \A o \in Operators : \E r \in Requests : request[o] = r /\ requestCoherent(r)

(* The releases the sequencer names, or would name after a commit, stay. *)
AuthoritySettled ==
  /\ \A v \in {authority.active, authority.previous} : v # NoVersion => isSettled(v)
  /\ operation.phase = "prepared" => isSettled(operation.candidate)

(* What an approved checkpoint names stays whole, and stays what the legacy
   pointers name until the season is the sequencer's: the control keeps the
   legacy publisher out, unless a command was already in. *)
ApprovalsHold ==
  /\ authority.fingerprint \in SeedFingerprints => authority.fingerprint \in approved
  /\ \A f \in approved :
       /\ isSettled(CheckpointOf[f].active)
       /\ CheckpointOf[f].previous # NoVersion => isSettled(CheckpointOf[f].previous)
  /\ approved # {} /\ ~isMutableState =>
       /\ deployed.control # "disabled"
       /\ ~late =>
            /\ command.pc = "idle" \/ command.kind = "purge"
            /\ \A f \in approved :
                 /\ CheckpointOf[f].active = kv.active
                 /\ CheckpointOf[f].previous = kv.previous

CutoverInv ==
  /\ CutoverTypeOK
  /\ SequencerInv
  /\ PublisherInv
  /\ DutyCoherent
  /\ ReleasedStates
  /\ CommittedSeedStaged
  /\ RequestCoherent
  /\ AuthoritySettled
  /\ ApprovalsHold
  /\ ReceiptsHold
  /\ IdenticalSeedsAgree
=============================================================================
