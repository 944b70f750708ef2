------------------------ MODULE SequencedPublication ------------------------
(***************************************************************************)
(* Publishers, the season sequencer and Workers KV.                        *)
(*                                                                         *)
(* A publisher runs sequenced/service.ts: it reads the authority, compares *)
(* its candidate with the release that is active, prepares, writes the     *)
(* candidate's documents to KV one by one, and finalizes.  Every step of   *)
(* it is one awaited call; between two of them any other publisher may     *)
(* run, the publisher may crash, and each call to the sequencer may be     *)
(* lost before or after the sequencer executed it.  A KV write may fail    *)
(* with or without having landed, a KV read may miss.                      *)
(*                                                                         *)
(* The sequencer is SeasonSequencer's state and actions, and nothing else  *)
(* changes it: PublicationSpec implements Spec.                            *)
(***************************************************************************)
EXTENDS SeasonSequencer

CONSTANTS
  Publishers,      \* concurrent runs of the publication service
  Candidates,      \* the releases an ordinary publication may carry
  Readings,        \* the clock readings a call to the sequencer may meet
  Generations,     \* the clock readings a publisher may stamp a release with
  Facts,           \* participation facts: a round, a driver, a constructor
  FactsOf,         \* the facts a results document's revision publishes
  LegacyReleases,  \* what KV holds of the releases the legacy publisher made
  Survivors        \* the sets of documents a failing deletion may leave

-----------------------------------------------------------------------------
(* Workers KV: what is stored under each version *)

NoDocument ==
  [revision |-> NoRevision, observedAt |-> NoInstant, generatedAt |-> NoInstant]
Documents ==
  [revision : Revisions, observedAt : Instants, generatedAt : Instants]
    \union {NoDocument}

(* An absent inventory is the empty one (both are refused by every reader),
   an absent sidecar the absent instant. *)
Releases ==
  [docs : [Docs -> Documents], inventory : SUBSET Docs, sidecar : 0 .. MaxInstant]
NoRelease ==
  [docs |-> [d \in Docs |-> NoDocument], inventory |-> {}, sidecar |-> NoInstant]

namesOf(manifest) == {d \in Docs : manifest[d] # NoRevision}
revisionsOf(release) == [d \in Docs |-> release.docs[d].revision]
isReadable(release) ==
  /\ release.inventory # {}
  /\ \A d \in release.inventory : release.docs[d] # NoDocument

ASSUME PublicationAssumption ==
  /\ Candidates \subseteq [manifest : Manifests, ordering : Instants]
  /\ Readings \subseteq ClockReadings
  /\ Generations \subseteq Instants
  /\ Survivors \subseteq SUBSET Docs
  /\ FactsOf \in [Revisions \union {NoRevision} -> SUBSET Facts]
  /\ FactsOf[NoRevision] = {}
  /\ \A m \in Manifests : namesOf(m) \in Commitments
  (* A legacy release's documents carry one source timestamp between them. *)
  /\ LegacyReleases \in
       [LegacyVersions -> [release : Releases, ordering : Instants]]
  /\ \A v \in LegacyVersions :
       LET release == LegacyReleases[v].release IN
       /\ isReadable(release)
       /\ release.sidecar = NoInstant
       /\ revisionsOf(release) \in Manifests
       /\ release.inventory = namesOf(revisionsOf(release))
  (* A cutover seed is built from the documents of the version it names. *)
  /\ \A s \in Seeds :
       \A d \in Docs :
         LET document == LegacyReleases[s.active].release.docs[d] IN
         s.rows[d] = [revision |-> document.revision,
                      observedAt |-> document.observedAt]

-----------------------------------------------------------------------------
VARIABLES
  stored,    \* Workers KV, by version
  pub        \* each publisher's run

pubVars == <<durable, history, stored, pub>>

NoOrphan == [epoch |-> 0, token |-> 0, candidate |-> NoVersion]
Idle ==
  [pc |-> "idle", kind |-> "ordinary-publication", target |-> NoVersion,
   manifest |-> NoManifest, ordering |-> NoInstant, active |-> NoVersion,
   guard |-> GuardOf(NoManifest), generatedAt |-> NoInstant, epoch |-> 0,
   rows |-> NoRows, unwritten |-> {}, retried |-> FALSE, redriven |-> FALSE,
   orphan |-> NoOrphan, after |-> "idle"]

(* Where a run waits: the name of the call it makes next. *)
Stages ==
  {"target", "guard", "prepare", "authorize", "delete", "acknowledge",
   "document", "inventory", "sidecar", "readback", "finalize", "confirm",
   "maintain", "cancel"}

Orphans ==
  [epoch : Epochs, token : {0} \union Tokens, candidate : AllocatedVersions]
Runs ==
  [pc : Stages \union {"idle"}, kind : OperationKinds,
   target : Versions \union {NoVersion},
   manifest : Manifests \union {NoManifest}, ordering : 0 .. MaxInstant,
   active : Versions \union {NoVersion},
   guard : [ResultsDocs -> Revisions \union {NoRevision}],
   generatedAt : 0 .. MaxInstant, epoch : 0 .. MaxOperationEpoch,
   rows : [Docs -> Rows], unwritten : SUBSET Docs,
   retried : BOOLEAN, redriven : BOOLEAN,
   orphan : Orphans \union {NoOrphan},
   after : {"idle", "prepare", "document"}]

PublicationTypeOK ==
  /\ stored \in [Versions -> Releases]
  /\ pub \in [Publishers -> Runs]

PublicationInit ==
  /\ Init
  /\ stored = [v \in Versions |->
       IF v \in LegacyVersions THEN LegacyReleases[v].release ELSE NoRelease]
  /\ pub = [p \in Publishers |-> Idle]

End(p) == pub' = [pub EXCEPT ![p] = Idle]
Await(p, stage) == pub' = [pub EXCEPT ![p].pc = stage]

(* From here on the run needs nothing but its epoch (and the names it wrote):
   what it no longer reads is cleared. *)
AwaitWith(p, stage, manifest) ==
  pub' = [pub EXCEPT ![p] =
    [Idle EXCEPT !.pc = stage, !.epoch = pub[p].epoch, !.manifest = manifest]]
GiveUp(p) == AwaitWith(p, "cancel", NoManifest)
Applied(p) == AwaitWith(p, "maintain", NoManifest)

-----------------------------------------------------------------------------
(* A run starts from one read of the authority.  A season that is not yet the
   sequencer's goes to the legacy publisher instead, and a read that fails
   ends the run having changed nothing. *)

StartPublish(p, c) ==
  /\ pub[p].pc = "idle"
  /\ isMutableState
  /\ pub' = [pub EXCEPT ![p] =
       [Idle EXCEPT !.pc = "guard", !.manifest = c.manifest,
          !.ordering = c.ordering, !.active = authority.active]]
  /\ UNCHANGED <<durable, history, stored>>

(* rollback: the target is the previous release, or any version named. *)
StartRollback(p, target) ==
  /\ pub[p].pc = "idle"
  /\ isMutableState
  /\ authority.active # NoVersion
  /\ bornByGenesis => authority.previous # NoVersion
  /\ target # authority.active
  /\ pub' = [pub EXCEPT ![p] =
       [Idle EXCEPT !.pc = "target", !.kind = "rollback-republication",
          !.target = target, !.active = authority.active]]
  /\ UNCHANGED <<durable, history, stored>>

(* The target's own ordering input: its sidecar, or, for a legacy version
   only, the source timestamp its documents share. *)
sourceOrderingOf(v) ==
  IF stored[v].sidecar # NoInstant THEN stored[v].sidecar
  ELSE IF v \in LegacyVersions THEN LegacyReleases[v].ordering
  ELSE NoInstant

ReadTarget(p) ==
  LET target == pub[p].target IN
  /\ pub[p].pc = "target"
  /\ \/ /\ isReadable(stored[target])
        /\ sourceOrderingOf(target) # NoInstant
        /\ pub' = [pub EXCEPT ![p].pc = "guard",
             ![p].manifest =
               [d \in Docs |-> IF d \in stored[target].inventory
                                 THEN stored[target].docs[d].revision
                                 ELSE NoRevision],
             ![p].target = NoVersion,
             ![p].ordering = sourceOrderingOf(target)]
     \/ End(p)
  /\ UNCHANGED <<durable, history, stored>>

-----------------------------------------------------------------------------
(* The participation guard and the publication instant, both from the
   documents of the exact version the authority named.  An unreadable
   predecessor is never an empty one. *)

predecessorGuard(v) ==
  IF v = NoVersion THEN GuardOf(NoManifest)
  ELSE [d \in ResultsDocs |->
          IF d \in stored[v].inventory THEN stored[v].docs[d].revision
          ELSE NoRevision]

isContainedUnchecked(guard, manifest) == TRUE

(* No predecessor document publishes a fact the candidate's lacks. *)
isContained(guard, manifest) ==
  \A d \in ResultsDocs : FactsOf[guard[d]] \subseteq FactsOf[manifest[d]]

activeInstant(v) ==
  LET instants == {NoInstant} \union
        (IF v = NoVersion THEN {}
         ELSE {stored[v].docs[d].generatedAt : d \in stored[v].inventory})
  IN CHOOSE i \in instants : \A j \in instants : j <= i

publicationInstantFromClock(t, v) == t

(* max(clock, active + 1 ms) *)
publicationInstant(t, v) ==
  IF t > activeInstant(v) THEN t ELSE activeInstant(v) + 1

ReadPredecessor(p, t) ==
  LET v == pub[p].active IN
  /\ pub[p].pc = "guard"
  /\ \/ /\ v # NoVersion => isReadable(stored[v])
        /\ isContained(predecessorGuard(v), pub[p].manifest)
        /\ publicationInstant(t, v) \in Instants
        /\ pub' = [pub EXCEPT ![p].pc = "prepare",
             ![p].guard = predecessorGuard(v),
             ![p].generatedAt = publicationInstant(t, v)]
     \/ End(p)
  /\ UNCHANGED <<durable, history, stored>>

-----------------------------------------------------------------------------
(* prepare.  A lost call, whether it was executed or not, ends the run: no
   second prepare is sent, and nothing is cleaned up without a token. *)

prepareRequest(p) ==
  [kind |-> pub[p].kind, manifest |-> pub[p].manifest,
   ordering |-> pub[p].ordering, commitment |-> namesOf(pub[p].manifest),
   expectedVersion |-> pub[p].active, expectedGuard |-> pub[p].guard]

orphanIn(record) ==
  [epoch |-> record.epoch, token |-> 0, candidate |-> record.candidate]

(* The answer hands over the orphan it retired, which is drained first. *)
Prepared(p, t) ==
  pub' = [pub EXCEPT ![p] = [pub[p] EXCEPT
    !.pc = IF retiresOrphan(t) THEN "authorize" ELSE "document",
    !.after = IF retiresOrphan(t) THEN "document" ELSE "idle",
    !.orphan = IF retiresOrphan(t) THEN orphanIn(operation) ELSE NoOrphan,
    !.active = NoVersion, !.guard = GuardOf(NoManifest),
    !.retried = FALSE, !.epoch = authority.lastEpoch + 1,
    !.rows = assignObservationTimestamps(pub[p].manifest, t),
    !.unwritten = namesOf(pub[p].manifest)]]

DrainAlways(p) ==
  pub' = [pub EXCEPT ![p].pc = "authorize", ![p].after = "prepare",
            ![p].orphan = orphanIn(pendingCleanup)]

(* The slot is occupied: drain it and prepare once more, and once only. *)
DrainFirst(p) ==
  LET run == IF pub[p].retried THEN Idle
             ELSE [pub[p] EXCEPT !.retried = TRUE, !.after = "prepare"]
  IN pub' = [pub EXCEPT ![p] = [run EXCEPT
                !.pc = "authorize", !.orphan = orphanIn(pendingCleanup)]]

CallPrepare(p, t) ==
  /\ pub[p].pc = "prepare"
  /\ \/ Prepare(prepareRequest(p), t) /\ (Prepared(p, t) \/ End(p))
     \/ /\ PrepareAnswer(prepareRequest(p), t) = "pending-cleanup-required"
        /\ DrainFirst(p)
        /\ UNCHANGED <<durable, history>>
     \/ End(p) /\ UNCHANGED <<durable, history>>
  /\ UNCHANGED stored

-----------------------------------------------------------------------------
(* Cleanup of one orphan: authorize, delete, acknowledge.  Every failure on
   the way is swallowed, and the run goes on to where it was. *)

Resume(p) ==
  IF pub[p].after = "idle" THEN End(p)
  ELSE pub' = [pub EXCEPT ![p].pc = pub[p].after, ![p].after = "idle",
                          ![p].orphan = NoOrphan]

CallAuthorizeCleanupIgnored(p) ==
  LET o == pub[p].orphan IN
  /\ pub[p].pc = "authorize"
  /\ \/ AuthorizeCleanup(o.epoch, o.token, o.candidate)
     \/ UNCHANGED <<durable, history>>
  /\ Await(p, "delete")
  /\ UNCHANGED stored

CallAuthorizeCleanup(p) ==
  LET o == pub[p].orphan IN
  /\ pub[p].pc = "authorize"
  /\ \/ AuthorizeCleanup(o.epoch, o.token, o.candidate) /\ Await(p, "delete")
     \/ Resume(p) /\ UNCHANGED <<durable, history>>
  /\ UNCHANGED stored

(* The prefix sweep deletes what its listing shows, and it may fail before,
   on, or after any key; the sidecar is deleted once more by name. *)
sweptOf(release, docs) ==
  [docs |-> [d \in Docs |-> IF d \in docs THEN release.docs[d] ELSE NoDocument],
   inventory |-> {}, sidecar |-> NoInstant]

DeleteCandidate(p) ==
  LET v == pub[p].orphan.candidate IN
  /\ pub[p].pc = "delete"
  /\ \/ \E docs \in Survivors :
          stored' = [stored EXCEPT ![v] = sweptOf(stored[v], docs)]
     \/ UNCHANGED stored
  /\ Await(p, "acknowledge")
  /\ UNCHANGED <<durable, history>>

CallAcknowledgeCleanup(p) ==
  LET o == pub[p].orphan IN
  /\ pub[p].pc = "acknowledge"
  /\ \/ AcknowledgeCleanup(o.epoch, o.token, o.candidate)
     \/ UNCHANGED <<durable, history>>
  /\ Resume(p)
  /\ UNCHANGED stored

-----------------------------------------------------------------------------
(* The candidate's write set: its documents, its inventory, its sidecar, and
   one read of every document.  A write that fails may still have landed. *)

candidateOf(p) == candidateVersionForEpoch(pub[p].epoch)

Put(p, release, next) ==
  LET written == [stored EXCEPT ![candidateOf(p)] = release] IN
  /\ \/ stored' = written /\ pub' = next
     \/ stored' \in {stored, written} /\ GiveUp(p)
  /\ UNCHANGED <<durable, history>>

bakedDocument(p, d) ==
  [revision |-> pub[p].rows[d].revision,
   observedAt |-> pub[p].rows[d].observedAt,
   generatedAt |-> pub[p].generatedAt]

WriteDocument(p) ==
  LET d == CHOOSE d \in pub[p].unwritten : TRUE IN
  /\ pub[p].pc = "document"
  /\ Put(p, [stored[candidateOf(p)] EXCEPT !.docs[d] = bakedDocument(p, d)],
         [pub EXCEPT ![p] = [pub[p] EXCEPT !.unwritten = @ \ {d},
            !.pc = IF pub[p].unwritten = {d} THEN "inventory" ELSE @]])

WriteInventory(p) ==
  /\ pub[p].pc = "inventory"
  /\ Put(p, [stored[candidateOf(p)] EXCEPT !.inventory = namesOf(pub[p].manifest)],
         [pub EXCEPT ![p].pc = "sidecar"])

(* Written once: an existing record must be readable and carry the same
   ordering input. *)
WriteSidecar(p) ==
  LET release == stored[candidateOf(p)] IN
  /\ pub[p].pc = "sidecar"
  /\ \/ /\ release.sidecar \in {NoInstant, pub[p].ordering}
        /\ Put(p, [release EXCEPT !.sidecar = pub[p].ordering],
               [pub EXCEPT ![p].pc = "readback"])
     \/ GiveUp(p) /\ UNCHANGED <<durable, history, stored>>

versionIsComplete(p) ==
  \A d \in namesOf(pub[p].manifest) : stored[candidateOf(p)].docs[d] # NoDocument

ReadBack(p) ==
  /\ pub[p].pc = "readback"
  /\ \/ versionIsComplete(p) /\ AwaitWith(p, "finalize", pub[p].manifest)
     \/ GiveUp(p)
  /\ UNCHANGED <<durable, history, stored>>

-----------------------------------------------------------------------------
(* finalize, driven at most twice; then the authority is read once. *)

Unanswered(p) ==
  IF pub[p].redriven THEN AwaitWith(p, "confirm", NoManifest)
  ELSE pub' = [pub EXCEPT ![p].redriven = TRUE]

CallFinalize(p, t) ==
  LET e == pub[p].epoch
      c == namesOf(pub[p].manifest)
      answer == FinalizeAnswer(e, e, c, t)
  IN
  /\ pub[p].pc = "finalize"
  /\ \/ Finalize(e, e, c, t) /\ (Applied(p) \/ Unanswered(p))
     \/ /\ \/ answer = "replayed" /\ Applied(p)
           \/ answer = "superseded" /\ End(p)
           \/ /\ answer \notin {"committed", "replayed", "superseded"}
              /\ GiveUp(p)
           \/ Unanswered(p)
        /\ UNCHANGED <<durable, history>>
  /\ UNCHANGED stored

seasonIsActive(p) == authority.cutoverState = "active"

candidateIsAuthoritative(p) ==
  /\ authority.cutoverState = "active"
  /\ authority.active = candidateOf(p)

ConfirmCommit(p) ==
  /\ pub[p].pc = "confirm"
  /\ \/ candidateIsAuthoritative(p) /\ Applied(p)
     \/ End(p)
  /\ UNCHANGED <<durable, history, stored>>

(* Global metadata, withdrawn routes and the cache purge: best effort, and
   nothing above reads what they write. *)
CompleteCommitted(p) ==
  /\ pub[p].pc = "maintain"
  /\ End(p)
  /\ UNCHANGED <<durable, history, stored>>

(* A failed write or a refused finalize gives the epoch up, then cleans. *)
CallCancel(p) ==
  LET e == pub[p].epoch IN
  /\ pub[p].pc = "cancel"
  /\ Cancel(e, e) \/ UNCHANGED <<durable, history>>
  /\ pub' = [pub EXCEPT ![p] = [Idle EXCEPT !.pc = "authorize",
       !.orphan = [epoch |-> e, token |-> e, candidate |-> candidateOf(p)]]]
  /\ UNCHANGED stored

-----------------------------------------------------------------------------
(* The process running the publisher stops: nothing of the run is durable. *)
Crash(p) ==
  /\ pub[p].pc # "idle"
  /\ End(p)
  /\ UNCHANGED <<durable, history, stored>>

(* How the season came to the sequencer. *)
Enter ==
  /\ \/ \E seed \in Seeds : SeedCutover(seed)
     \/ \E f \in SeedFingerprints : ActivateCutover(f)
     \/ \E f \in GenesisFingerprints : CommitGenesis(f)
  /\ UNCHANGED <<stored, pub>>

(* The steps a run takes by itself. *)
Run(p) ==
  \/ ReadTarget(p)
  \/ \E t \in Generations : ReadPredecessor(p, t)
  \/ \E t \in Readings : CallPrepare(p, t)
  \/ CallAuthorizeCleanup(p)
  \/ DeleteCandidate(p)
  \/ CallAcknowledgeCleanup(p)
  \/ WriteDocument(p)
  \/ WriteInventory(p)
  \/ WriteSidecar(p)
  \/ ReadBack(p)
  \/ \E t \in Readings : CallFinalize(p, t)
  \/ ConfirmCommit(p)
  \/ CompleteCommitted(p)
  \/ CallCancel(p)

PublicationNext ==
  \/ Enter
  \/ \E p \in Publishers :
       \/ \E c \in Candidates : StartPublish(p, c)
       \/ \E v \in Versions : StartRollback(p, v)
       \/ Run(p)
       \/ Crash(p)

PublicationSpec == PublicationInit /\ [][PublicationNext]_pubVars

(* A run that is not stopped goes on: the runtime resolves or rejects every
   awaited call. *)
FairPublicationSpec ==
  PublicationSpec /\ \A p \in Publishers : WF_pubVars(Run(p))

-----------------------------------------------------------------------------
(* Properties *)

(* Both releases readers and rollbacks rely on are whole in KV: every
   document their inventory names, the inventory and the sidecar.  No
   interleaving of a slow writer, a lost answer and a delayed cleanup leaves
   a committed release with a part missing (service.ts, writeCandidate and
   deleteCandidate). *)
ServedReleasesWhole ==
  \A v \in {authority.active, authority.previous} \ {NoVersion} :
    /\ isReadable(stored[v])
    /\ sourceOrderingOf(v) # NoInstant

(* What KV serves as the active release is what the sequencer committed, row
   by row: the timestamps baked into its documents are the ones prepare
   assigned (service.ts, bakeAssignedTimestamps). *)
ServedMatchesCommitted ==
  authority.active # NoVersion =>
    LET release == stored[authority.active] IN
    /\ release.inventory = {d \in Docs : committed[d] # NoRow}
    /\ \A d \in release.inventory :
         committed[d] = [revision |-> release.docs[d].revision,
                         observedAt |-> release.docs[d].observedAt]

(* What is served is whole and is what was committed. *)
ServedReleases == ServedReleasesWhole /\ ServedMatchesCommitted

(* A run goes on to the post-commit work, and so reports its publication as
   applied, only for an epoch that committed, also when both finalize answers
   were lost (service.ts, candidateIsAuthoritative). *)
AppliedMeansCommitted ==
  \A p \in Publishers :
    pub[p].pc = "maintain" => pub[p].epoch \in commitEpochs

commits ==
  /\ authority.cutoverState # "uninitialized"
  /\ authority'.active # authority.active

(* No release, a rollback included, drops a participation fact that the
   release it replaces published, although the comparison is made on KV reads
   long before the commit (service.ts, guardAgainstPredecessor). *)
ParticipationKept ==
  [][commits =>
      \A d \in ResultsDocs :
        FactsOf[committed[d].revision] \subseteq
          FactsOf[committed'[d].revision]]_pubVars

(* Every document of a release is stamped later than every document of the
   release it replaces, whatever the clocks of the publishers read
   (service.ts, withPublicationInstant). *)
PublicationInstantAdvances ==
  [][commits /\ authority.active # NoVersion =>
      \A c \in stored[authority.active].inventory,
         d \in stored[authority'.active].inventory :
        stored[authority'.active].docs[d].generatedAt
          > stored[authority.active].docs[c].generatedAt]_pubVars

(* Everything publishers do to a season is what its sequencer allows. *)
ImplementsSequencer == Spec

(* Every run ends: the re-driven prepare and finalize are bounded
   (service.ts, prepareWithCleanup and runTwoPhase). *)
PublicationEnds ==
  \A p \in Publishers : pub[p].pc # "idle" ~> pub[p].pc = "idle"

(* A cleanup is acknowledged only once nothing of the version is left in KV
   (model.ts, CleanupAcknowledgement). *)
AcknowledgedAfterDeletion ==
  [][\A e \in acknowledged' \ acknowledged :
       stored[candidateVersionForEpoch(e)] = NoRelease]_pubVars

(* A run that goes on to give its epoch up was refused, and an epoch that was
   refused has not committed: one that did is answered as replayed or
   superseded (ADR 0025 D9). *)
RefusedMeansUncommitted ==
  \A p \in Publishers :
    pub[p].pc = "cancel" => pub[p].epoch \notin commitEpochs
-----------------------------------------------------------------------------
(* The inductive invariant the proofs about publishers rest on, in named
   parts. *)

isPreparing(r) == r.pc \in {"guard", "prepare"} \/ r.after = "prepare"
isWriting(r) ==
  r.pc \in {"document", "inventory", "sidecar", "readback"} \/ r.after = "document"
isDraining(r) == r.pc \in {"authorize", "delete", "acknowledge"}

(* What a run needs for the calls it still has to make. *)
RunReady(r) ==
  /\ r.epoch <= authority.lastEpoch
  /\ r.pc = "target" =>
       r.target \in Versions /\ r.guard = GuardOf(NoManifest)
  /\ isPreparing(r) =>
       /\ r.manifest \in Manifests
       /\ r.ordering \in Instants
       /\ r.active = NoVersion => r.guard = GuardOf(NoManifest)
  /\ isWriting(r) =>
       /\ r.manifest \in Manifests
       /\ r.ordering \in Instants
       /\ \A d \in Docs : r.rows[d].revision = r.manifest[d]
       /\ r.unwritten \subseteq namesOf(r.manifest)
  /\ r.pc = "document" \/ r.after = "document" => r.unwritten # {}
  /\ r.pc = "prepare" \/ r.after = "prepare" \/ isWriting(r) =>
       r.generatedAt \in Instants
  /\ r.pc = "finalize" => r.manifest \in Manifests
  /\ isWriting(r) \/ r.pc \in {"finalize", "confirm", "maintain", "cancel"} =>
       r.epoch # 0
  /\ isDraining(r) => r.orphan # NoOrphan
  /\ ~ isDraining(r) => r.after = "idle"

RunsReady == \A p \in Publishers : RunReady(pub[p])

(* What KV holds under an allocated version is a part of one manifest, the
   one its writer carries. *)
PartOf(e, m) ==
  LET release == stored[candidateVersionForEpoch(e)] IN
  /\ release.inventory \in {{}, namesOf(m)}
  /\ \A d \in Docs :
       release.docs[d] # NoDocument => release.docs[d].revision = m[d]
  /\ \A p \in Publishers :
       isWriting(pub[p]) /\ pub[p].epoch = e => pub[p].manifest = m

OneManifestPerVersion ==
  \A e \in Epochs :
    IF e <= authority.lastEpoch THEN \E m \in Manifests : PartOf(e, m)
    ELSE stored[candidateVersionForEpoch(e)] = NoRelease

(* Nothing writes to the releases the legacy publisher made. *)
LegacyKept ==
  \A v \in LegacyVersions : stored[v] = LegacyReleases[v].release

PublicationInv ==
  /\ PublicationTypeOK
  /\ RunsReady
  /\ OneManifestPerVersion
  /\ LegacyKept
  /\ AppliedMeansCommitted

-----------------------------------------------------------------------------
(* The inductive invariant the proofs about releases rest on, in named
   parts. *)

isPrepared(e) == operation.phase = "prepared" /\ operation.epoch = e

(* A run that may still write its candidate's documents, or commit them. *)
isCarrying(r) == isWriting(r) \/ r.pc = "finalize"

CarriersDiffer ==
  \A p, q \in Publishers :
    p # q /\ isCarrying(pub[p]) /\ isCarrying(pub[q]) =>
      pub[p].epoch # pub[q].epoch

(* Nothing writes to, or deletes, a release that committed. *)
WritersUncommitted ==
  \A p \in Publishers : isWriting(pub[p]) => pub[p].epoch \notin commitEpochs

DeletionsAuthorized ==
  \A p \in Publishers :
    pub[p].pc = "delete" => pub[p].orphan.candidate \in deletable

isCommitted(v) == v \in LegacyVersions \/ v.id \in commitEpochs

(* The instant is later than everything the release publishes. *)
isAfter(i, v) ==
  v # NoVersion =>
    \A d \in stored[v].inventory : stored[v].docs[d].generatedAt < i

(* What a run compared its candidate with is a release nothing rewrites. *)
runCompared(r) ==
  /\ (r.pc = "target" \/ isPreparing(r)) /\ r.active # NoVersion =>
       isCommitted(r.active)
  /\ r.pc = "prepare" \/ r.after = "prepare" =>
       isContained(r.guard, r.manifest) /\ isAfter(r.generatedAt, r.active)

RunsCompared == \A p \in Publishers : \E r \in Runs : pub[p] = r /\ runCompared(r)

(* What KV holds of a candidate once its run is where it is. *)
hasWritten(r, release) ==
  /\ r.pc \in {"inventory", "sidecar", "readback", "finalize"} => r.unwritten = {}
  /\ \A d \in namesOf(r.manifest) \ r.unwritten : release.docs[d] # NoDocument
  /\ r.pc \in {"sidecar", "readback", "finalize"} =>
       release.inventory = namesOf(r.manifest)
  /\ r.pc \in {"readback", "finalize"} => release.sidecar # NoInstant

(* How far a run has written the candidate that is prepared, from the rows it
   was assigned, in the order of its calls. *)
runProgress(r) ==
  /\ \A d \in Docs : prepared[d].revision = r.manifest[d]
  /\ isWriting(r) => r.rows = prepared /\ isAfter(r.generatedAt, authority.active)
  /\ hasWritten(r, stored[candidateVersionForEpoch(r.epoch)])

RunsProgress ==
  \A p \in Publishers : \E r \in Runs :
    /\ pub[p] = r
    /\ isCarrying(r) /\ isPrepared(r.epoch) => runProgress(r)

(* Whatever KV holds of the candidate that is prepared is what the sequencer
   would commit, stamped later than the release it would replace. *)
CandidateMatchesPrepared ==
  \A e \in Epochs : isPrepared(e) =>
    LET release == stored[candidateVersionForEpoch(e)] IN
    \A d \in Docs : release.docs[d] # NoDocument =>
      /\ release.docs[d].revision = prepared[d].revision
      /\ release.docs[d].observedAt = prepared[d].observedAt
      /\ isAfter(release.docs[d].generatedAt, authority.active)

(* It drops no participation fact of the release it would replace. *)
PreparedContained ==
  operation.phase = "prepared" =>
    \A d \in ResultsDocs :
      FactsOf[committed[d].revision] \subseteq FactsOf[prepared[d].revision]

ReleaseInv ==
  /\ CarriersDiffer
  /\ WritersUncommitted
  /\ DeletionsAuthorized
  /\ RunsCompared
  /\ RunsProgress
  /\ CandidateMatchesPrepared
  /\ PreparedContained
  /\ ServedReleases
=============================================================================
