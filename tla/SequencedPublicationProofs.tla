---------------------- MODULE SequencedPublicationProofs ----------------------
(***************************************************************************)
(* Publishers around the season's sequencer, for every number of them,     *)
(* every clock, manifest, loss of a call and failure of a KV write.        *)
(*                                                                         *)
(* First, everything publishers do to a season is a step of its sequencer: *)
(* each theorem of SeasonSequencerProofs also holds under concurrent       *)
(* publishers that crash and retry.  One lemma per step of a publisher.    *)
(* Then, what the season serves.                                           *)
(***************************************************************************)
EXTENDS SequencedPublication, SeasonSequencerProofs

LEMMA IdleFacts ==
  /\ Idle \in Runs
  /\ Idle.pc = "idle"
  /\ Idle.after = "idle"
  /\ Idle.epoch = 0
BY RowFacts, SequencerAssumption
   DEF Idle, Runs, Stages, OperationKinds, NoManifest, NoInstant, GuardOf,
       NoOrphan

LEMMA EpochIsNat == TypeOK => authority.lastEpoch \in Nat
BY SequencerAssumption DEF TypeOK

LEMMA ActiveIsVersion == TypeOK => authority.active \in Versions \union {NoVersion}
BY DEF TypeOK

(* What the sequencer selects is a version, or none. *)
LEMMA ActiveSelected == SequencerInv => authority.active \in Versions \union {NoVersion}
BY ActiveIsVersion DEF SequencerInv

(* The stages and the kinds of an operation, one by one. *)
LEMMA StageFacts ==
  /\ "target" \in Stages /\ "guard" \in Stages /\ "prepare" \in Stages
  /\ "authorize" \in Stages /\ "delete" \in Stages /\ "acknowledge" \in Stages
  /\ "document" \in Stages /\ "inventory" \in Stages /\ "sidecar" \in Stages
  /\ "readback" \in Stages /\ "finalize" \in Stages /\ "confirm" \in Stages
  /\ "maintain" \in Stages /\ "cancel" \in Stages
  /\ "ordinary-publication" \in OperationKinds
  /\ "rollback-republication" \in OperationKinds
BY DEF Stages, OperationKinds

(* A run that gives up keeps its epoch and nothing else. *)
LEMMA CancelFacts ==
  ASSUME NEW e \in 0 .. MaxOperationEpoch
  PROVE  [Idle EXCEPT !.pc = "cancel", !.epoch = e, !.manifest = NoManifest] \in Runs
BY IdleFacts, StageFacts, ZenonT(60) DEF Runs, NoManifest

LEMMA RunChanges ==
  ASSUME PublicationInv, NEW p \in Publishers, NEW r \in Runs,
         pub' = [pub EXCEPT ![p] = r]
  PROVE  /\ pub' \in [Publishers -> Runs]
         /\ \A q \in Publishers \ {p} : pub'[q] = pub[q]
         /\ pub'[p] = r
BY DEF PublicationInv, PublicationTypeOK

LEMMA RunHolds ==
  ASSUME PublicationInv, NEW p \in Publishers
  PROVE  pub[p] \in Runs /\ RunReady(pub[p])
BY DEF PublicationInv, PublicationTypeOK, RunsReady

LEMMA IdleReady == SequencerInv => RunReady(Idle)
BY IdleFacts, EpochIsNat, SMT
   DEF RunReady, isPreparing, isWriting, isDraining, SequencerInv

(* A step of one run that writes nothing to KV and allocates no epoch. *)
LEMMA QuietStep ==
  ASSUME PublicationInv, NEW p \in Publishers,
         stored' = stored,
         authority'.lastEpoch = authority.lastEpoch,
         commitEpochs \subseteq commitEpochs',
         pub' \in [Publishers -> Runs],
         \A q \in Publishers \ {p} : pub'[q] = pub[q],
         RunReady(pub[p])',
         isWriting(pub[p])' =>
           /\ isWriting(pub[p])
           /\ pub'[p].epoch = pub[p].epoch
           /\ pub'[p].manifest = pub[p].manifest,
         pub'[p].pc = "maintain" => pub'[p].epoch \in commitEpochs'
  PROVE  PublicationInv'
<1>1. PublicationTypeOK'
  BY DEF PublicationInv, PublicationTypeOK
<1>2. RunsReady'
  <2> SUFFICES ASSUME NEW q \in Publishers PROVE RunReady(pub[q])'
    BY DEF RunsReady
  <2>1. CASE q = p
    BY <2>1
  <2>2. CASE q # p
    BY <2>2
       DEF PublicationInv, RunsReady, RunReady, isPreparing, isWriting, isDraining
  <2>. QED BY <2>1, <2>2
<1>3. OneManifestPerVersion'
  <2> SUFFICES ASSUME NEW e \in Epochs
               PROVE  IF authority'.lastEpoch >= e
                      THEN \E m \in Manifests : PartOf(e, m)'
                      ELSE stored'[candidateVersionForEpoch(e)] = NoRelease
    BY DEF OneManifestPerVersion
  <2>1. CASE e <= authority.lastEpoch
    <3>1. PICK m \in Manifests : PartOf(e, m)
      BY <2>1 DEF PublicationInv, OneManifestPerVersion
    <3>2. ASSUME NEW q \in Publishers, isWriting(pub[q])', pub'[q].epoch = e
          PROVE  pub'[q].manifest = m
      BY <3>1, <3>2 DEF PartOf, isWriting
    <3>3. PartOf(e, m)'
      BY <3>1, <3>2 DEF PartOf, candidateVersionForEpoch
    <3>. QED BY <2>1, <3>3
  <2>2. CASE ~ (e <= authority.lastEpoch)
    BY <2>2 DEF PublicationInv, OneManifestPerVersion
  <2>. QED BY <2>1, <2>2
<1>4. LegacyKept'
  BY DEF PublicationInv, LegacyKept
<1>5. AppliedMeansCommitted'
  BY DEF PublicationInv, AppliedMeansCommitted
<1>. QED BY <1>1, <1>2, <1>3, <1>4, <1>5 DEF PublicationInv

-----------------------------------------------------------------------------
(* A run that ends needs nothing. *)
LEMMA EndStep ==
  ASSUME SequencerInv, PublicationInv, NEW p \in Publishers,
         stored' = stored,
         authority'.lastEpoch = authority.lastEpoch,
         commitEpochs \subseteq commitEpochs', End(p)
  PROVE  PublicationInv'
<1>1. /\ pub' \in [Publishers -> Runs]
      /\ \A q \in Publishers \ {p} : pub'[q] = pub[q]
      /\ pub'[p] = Idle
  BY IdleFacts DEF PublicationInv, PublicationTypeOK, End
<1>2. RunReady(pub[p])'
  BY <1>1, IdleReady, IdleFacts
     DEF RunReady, isPreparing, isWriting, isDraining
<1>. QED BY <1>1, <1>2, IdleFacts, QuietStep DEF isWriting

(* The steps that call nothing: a run starts, reads, or is stopped. *)
LEMMA StartPublishInv ==
  ASSUME SequencerInv, PublicationInv, NEW p \in Publishers,
         NEW c \in Candidates, StartPublish(p, c)
  PROVE  PublicationInv'
<1>1. c.manifest \in Manifests /\ c.ordering \in Instants
  BY PublicationAssumption
<1> DEFINE r == [Idle EXCEPT !.pc = "guard", !.manifest = c.manifest,
                    !.ordering = c.ordering, !.active = authority.active]
<1>a. r \in Runs
  <2>1. c.ordering \in 0 .. MaxInstant
    BY <1>1 DEF Instants
  <2>. QED
    BY <1>1, <2>1, IdleFacts, StageFacts, ActiveSelected, ZenonT(60) DEF Runs
<1>2. /\ pub' \in [Publishers -> Runs]
      /\ \A q \in Publishers \ {p} : pub'[q] = pub[q]
      /\ pub'[p] = r
  BY <1>a, RunChanges DEF StartPublish
<1>3. RunReady(pub[p])'
  BY <1>1, <1>2, IdleFacts, EpochIsNat, SMT
     DEF RunReady, isPreparing, isWriting, isDraining, Idle, SequencerInv,
         StartPublish, durable
<1>. QED
  BY <1>2, <1>3, IdleFacts, QuietStep
     DEF isWriting, StartPublish, Idle, durable, history

LEMMA StartRollbackInv ==
  ASSUME SequencerInv, PublicationInv, NEW p \in Publishers,
         NEW v \in Versions, StartRollback(p, v)
  PROVE  PublicationInv'
<1> DEFINE r == [Idle EXCEPT !.pc = "target",
                    !.kind = "rollback-republication",
                    !.target = v, !.active = authority.active]
<1>a. r \in Runs
  BY IdleFacts, StageFacts, ActiveSelected, ZenonT(60) DEF Runs
<1>1. /\ pub' \in [Publishers -> Runs]
      /\ \A q \in Publishers \ {p} : pub'[q] = pub[q]
      /\ pub'[p] = r
  BY <1>a, RunChanges DEF StartRollback
<1>2. RunReady(pub[p])'
  BY <1>1, IdleFacts, EpochIsNat, SMT
     DEF RunReady, isPreparing, isWriting, isDraining, Idle, SequencerInv,
         StartRollback, durable
<1>. QED
  BY <1>1, <1>2, QuietStep DEF isWriting, StartRollback, Idle, durable, history

(* A readable release, whoever made it, carries a candidate's manifest. *)
LEMMA ReadableManifest ==
  ASSUME PublicationInv, NEW v \in Versions, isReadable(stored[v])
  PROVE  [d \in Docs |-> IF d \in stored[v].inventory
                          THEN stored[v].docs[d].revision ELSE NoRevision]
           \in Manifests
<1>1. CASE v \in LegacyVersions
  <2>1. stored[v] = LegacyReleases[v].release
    BY <1>1 DEF PublicationInv, LegacyKept
  <2>2. /\ revisionsOf(stored[v]) \in Manifests
        /\ stored[v].inventory = namesOf(revisionsOf(stored[v]))
    BY <1>1, <2>1, PublicationAssumption
  <2>3. [d \in Docs |-> IF d \in stored[v].inventory
                         THEN stored[v].docs[d].revision ELSE NoRevision]
          = revisionsOf(stored[v])
    BY <2>2 DEF namesOf, revisionsOf
  <2>. QED BY <2>2, <2>3
<1>2. CASE v \in AllocatedVersions
  <2>1. PICK e \in Epochs : v = candidateVersionForEpoch(e)
    BY <1>2 DEF AllocatedVersions, candidateVersionForEpoch, Epochs
  <2>2. e <= authority.lastEpoch
    BY <2>1 DEF PublicationInv, OneManifestPerVersion, NoRelease, isReadable
  <2>3. PICK m \in Manifests : PartOf(e, m)
    BY <2>2 DEF PublicationInv, OneManifestPerVersion
  <2>4. /\ stored[v].inventory = namesOf(m)
        /\ \A d \in stored[v].inventory : stored[v].docs[d].revision = m[d]
    BY <2>1, <2>3 DEF PartOf, isReadable, namesOf
  <2>5. m \in ManifestType
    BY SequencerAssumption
  <2>6. [d \in Docs |-> IF d \in stored[v].inventory
                         THEN stored[v].docs[d].revision ELSE NoRevision] = m
    BY <2>4, <2>5 DEF namesOf, ManifestType
  <2>. QED BY <2>6
<1>. QED BY <1>1, <1>2 DEF Versions

LEMMA ReadTargetInv ==
  ASSUME SequencerInv, PublicationInv, NEW p \in Publishers, ReadTarget(p)
  PROVE  PublicationInv'
<1> DEFINE v == pub[p].target
           m == [d \in Docs |-> IF d \in stored[v].inventory
                                THEN stored[v].docs[d].revision ELSE NoRevision]
<1>1. UNCHANGED <<durable, history, stored>>
  BY DEF ReadTarget
<1>2. CASE End(p)
  BY <1>1, <1>2, EndStep DEF durable, history
<1>3. CASE /\ isReadable(stored[v])
           /\ sourceOrderingOf(v) # NoInstant
           /\ pub' = [pub EXCEPT ![p].pc = "guard", ![p].manifest = m,
                        ![p].target = NoVersion,
                        ![p].ordering = sourceOrderingOf(v)]
  <2> DEFINE r == [pub[p] EXCEPT !.pc = "guard", !.manifest = m,
                    !.target = NoVersion, !.ordering = sourceOrderingOf(v)]
  <2>1. pub[p] \in Runs /\ pub[p].pc = "target" /\ RunReady(pub[p])
    BY RunHolds DEF ReadTarget
  <2>2. v \in Versions
    BY <2>1 DEF RunReady
  <2>3. m \in Manifests
    BY <1>3, <2>2, ReadableManifest
  <2>4. /\ sourceOrderingOf(v) \in Instants
        /\ sourceOrderingOf(v) \in 0 .. MaxInstant
    <3>1. stored[v].sidecar \in 0 .. MaxInstant
      BY <2>2 DEF PublicationInv, PublicationTypeOK, Releases
    <3>2. v \in LegacyVersions => LegacyReleases[v].ordering \in Instants
      BY PublicationAssumption
    <3>3. \A i \in 0 .. MaxInstant : i # NoInstant => i \in Instants
      BY SequencerAssumption, SMT DEF Instants, NoInstant
    <3>4. sourceOrderingOf(v) \in Instants
      BY <1>3, <3>1, <3>2, <3>3 DEF sourceOrderingOf
    <3>. QED BY <3>4 DEF Instants
  <2> HIDE DEF m, v
  <2>5. r \in Runs
    BY <2>1, <2>3, <2>4 DEF Runs, Stages
  <2>6. pub' = [pub EXCEPT ![p] = r]
    BY <1>3 DEF PublicationInv, PublicationTypeOK
  <2>7. /\ pub' \in [Publishers -> Runs]
        /\ \A q \in Publishers \ {p} : pub'[q] = pub[q]
        /\ pub'[p] = r
    BY <2>5, <2>6, RunChanges
  <2>8. /\ r.pc = "guard" /\ r.manifest = m /\ r.ordering = sourceOrderingOf(v)
        /\ r.epoch = pub[p].epoch /\ r.after = pub[p].after
        /\ r.active = pub[p].active /\ r.guard = pub[p].guard
    BY <2>1 DEF Runs
  <2>9. RunReady(pub[p])'
    BY <1>1, <2>1, <2>3, <2>4, <2>7, <2>8
       DEF RunReady, isPreparing, isWriting, isDraining, durable
  <2>. QED
    BY <1>1, <2>1, <2>7, <2>8, <2>9, QuietStep
       DEF isWriting, isDraining, RunReady, durable, history
<1>. QED BY <1>2, <1>3, ZenonT(60) DEF ReadTarget

LEMMA ReadPredecessorInv ==
  ASSUME SequencerInv, PublicationInv, NEW p \in Publishers,
         NEW t \in Generations, ReadPredecessor(p, t)
  PROVE  PublicationInv'
<1> DEFINE v == pub[p].active
           g == predecessorGuard(v)
           i == publicationInstant(t, v)
           r == [pub[p] EXCEPT !.pc = "prepare", !.guard = g, !.generatedAt = i]
<1>1. UNCHANGED <<durable, history, stored>>
  BY DEF ReadPredecessor
<1>2. CASE End(p)
  BY <1>1, <1>2, EndStep DEF durable, history
<1>3. CASE /\ i \in Instants
           /\ pub' = [pub EXCEPT ![p].pc = "prepare", ![p].guard = g,
                        ![p].generatedAt = i]
  <2>1. pub[p] \in Runs /\ pub[p].pc = "guard" /\ RunReady(pub[p])
    BY RunHolds DEF ReadPredecessor
  <2>2. v \in Versions \union {NoVersion}
    BY <2>1 DEF Runs
  <2>3. /\ g \in [ResultsDocs -> Revisions \union {NoRevision}]
        /\ v = NoVersion => g = GuardOf(NoManifest)
    <3>1. CASE v = NoVersion
      BY <3>1, SequencerAssumption DEF predecessorGuard, GuardOf, NoManifest
    <3>2. CASE v # NoVersion
      <4>1. stored[v] \in Releases
        BY <2>2, <3>2 DEF PublicationInv, PublicationTypeOK
      <4>2. \A d \in Docs :
              stored[v].docs[d].revision \in Revisions \union {NoRevision}
        BY <4>1 DEF Releases, Documents, NoDocument
      <4>. QED BY <3>2, <4>2, SequencerAssumption DEF predecessorGuard
    <3>. QED BY <3>1, <3>2
  <2>4. i \in 0 .. MaxInstant
    BY <1>3 DEF Instants
  <2> HIDE DEF g, i, v
  <2>5. r \in Runs
    BY <2>1, <2>3, <2>4 DEF Runs, Stages
  <2>6. pub' = [pub EXCEPT ![p] = r]
    BY <1>3 DEF PublicationInv, PublicationTypeOK
  <2>7. /\ pub' \in [Publishers -> Runs]
        /\ \A q \in Publishers \ {p} : pub'[q] = pub[q]
        /\ pub'[p] = r
    BY <2>5, <2>6, RunChanges
  <2>8. /\ r.pc = "prepare" /\ r.manifest = pub[p].manifest
        /\ r.ordering = pub[p].ordering
        /\ r.epoch = pub[p].epoch /\ r.after = pub[p].after
        /\ r.active = v /\ r.guard = g /\ r.generatedAt = i
        /\ i \in Instants
    BY <1>3, <2>1 DEF Runs, v, i
  <2>9. RunReady(pub[p])'
    BY <1>1, <2>1, <2>3, <2>7, <2>8
       DEF RunReady, isPreparing, isWriting, isDraining, durable
  <2>. QED
    BY <1>1, <2>1, <2>7, <2>8, <2>9, QuietStep
       DEF isWriting, isDraining, RunReady, durable, history
<1>. QED BY <1>2, <1>3 DEF ReadPredecessor

-----------------------------------------------------------------------------
(* The calls to the sequencer: each executes one step of it, or none. *)

LEMMA RequestWellFormed ==
  ASSUME PublicationInv, NEW p \in Publishers, pub[p].pc = "prepare"
  PROVE  prepareRequest(p) \in PrepareRequests
<1>1. pub[p] \in Runs /\ RunReady(pub[p])
  BY RunHolds
<1>2. /\ pub[p].manifest \in Manifests /\ pub[p].ordering \in Instants
      /\ pub[p].active = NoVersion => pub[p].guard = GuardOf(NoManifest)
  BY <1>1 DEF RunReady, isPreparing
<1>3. namesOf(pub[p].manifest) \in Commitments
  BY <1>2, PublicationAssumption
<1>. QED BY <1>1, <1>2, <1>3 DEF prepareRequest, PrepareRequests, Runs

LEMMA AssignedRevisions ==
  ASSUME NEW m \in Manifests, NEW t
  PROVE  \A d \in Docs : assignObservationTimestamps(m, t)[d].revision = m[d]
BY DEF assignObservationTimestamps, NoRow

LEMMA CurrentOrphan ==
  ASSUME SequencerInv, operation # NoOperation
  PROVE  orphanIn(operation) \in Orphans /\ orphanIn(operation) # NoOrphan
<1>1. operation \in Operations
  BY DEF SequencerInv, TypeOK
<1>. QED
  BY <1>1, SequencerAssumption
     DEF Operations, orphanIn, Orphans, NoOrphan, Epochs

LEMMA PendingOrphan ==
  ASSUME SequencerInv, pendingCleanup # NoPending
  PROVE  orphanIn(pendingCleanup) \in Orphans
         /\ orphanIn(pendingCleanup) # NoOrphan
<1>1. pendingCleanup \in [epoch : Epochs, candidate : AllocatedVersions]
  BY DEF SequencerInv, TypeOK
<1>. QED BY <1>1, SequencerAssumption DEF orphanIn, Orphans, NoOrphan, Epochs

(* A step that allocates the next epoch: nothing is stored under its version,
   and no other run writes to it. *)
LEMMA AllocatingStep ==
  ASSUME SequencerInv, PublicationInv, NEW p \in Publishers, NEW m \in Manifests,
         stored' = stored,
         authority'.lastEpoch = authority.lastEpoch + 1,
         commitEpochs' = commitEpochs,
         pub' \in [Publishers -> Runs],
         \A q \in Publishers \ {p} : pub'[q] = pub[q],
         RunReady(pub[p])',
         isWriting(pub[p])' =>
           /\ pub'[p].epoch = authority.lastEpoch + 1
           /\ pub'[p].manifest = m,
         pub'[p].pc # "maintain"
  PROVE  PublicationInv'
<1> DEFINE e == authority.lastEpoch + 1
<1> HIDE DEF e
<1>0. authority'.lastEpoch = e
  BY DEF e
<1>1. PublicationTypeOK'
  BY DEF PublicationInv, PublicationTypeOK
<1>2. RunsReady'
  <2> SUFFICES ASSUME NEW q \in Publishers PROVE RunReady(pub[q])'
    BY DEF RunsReady
  <2>1. CASE q # p
    <3>1. pub[q] \in Runs /\ RunReady(pub[q]) /\ pub'[q] = pub[q]
      BY <2>1, RunHolds
    <3>2. pub[q].epoch <= e
      <4>1. pub[q].epoch \in Nat /\ pub[q].epoch <= authority.lastEpoch
        BY <3>1, SequencerAssumption, SMT DEF Runs, RunReady
      <4>2. authority.lastEpoch \in Nat
        BY EpochIsNat DEF SequencerInv
      <4>. QED BY <4>1, <4>2, SMT DEF e
    <3>. QED
      BY <1>0, <3>1, <3>2 DEF RunReady, isPreparing, isWriting, isDraining
  <2>. QED BY <2>1
<1>3. OneManifestPerVersion'
  <2> SUFFICES ASSUME NEW f \in Epochs
               PROVE  IF f <= authority'.lastEpoch
                      THEN \E n \in Manifests : PartOf(f, n)'
                      ELSE stored'[candidateVersionForEpoch(f)] = NoRelease
    BY DEF OneManifestPerVersion, candidateVersionForEpoch
  <2>0. f \in Nat /\ authority.lastEpoch \in Nat /\ e = authority.lastEpoch + 1
    BY SequencerAssumption, EpochIsNat DEF Epochs, SequencerInv, e
  <2>1. ASSUME f <= authority.lastEpoch
        PROVE  \E n \in Manifests : PartOf(f, n)'
    <3>1. PICK n \in Manifests : PartOf(f, n)
      BY <2>1 DEF PublicationInv, OneManifestPerVersion
    <3>2. f # e
      BY <2>0, <2>1, SMT
    <3>3. ASSUME NEW q \in Publishers, isWriting(pub[q])', pub'[q].epoch = f
          PROVE  pub'[q].manifest = n
      BY <3>1, <3>2, <3>3 DEF PartOf, isWriting, e
    <3>. QED BY <3>1, <3>3 DEF PartOf, candidateVersionForEpoch
  <2>2. ASSUME f = e PROVE PartOf(f, m)'
    <3>1. stored[candidateVersionForEpoch(f)] = NoRelease
      <4>1. ~ (f <= authority.lastEpoch)
        BY <2>0, <2>2, SMT
      <4>. QED BY <4>1 DEF PublicationInv, OneManifestPerVersion
    <3>2. ASSUME NEW q \in Publishers, pub'[q].epoch = f
          PROVE  q = p
      <4>1. ASSUME q # p PROVE FALSE
        <5>1. pub[q].epoch = f /\ pub[q] \in Runs /\ RunReady(pub[q])
          BY <3>2, <4>1, RunHolds
        <5>. QED BY <2>0, <2>2, <5>1, SMT DEF RunReady
      <4>. QED BY <4>1
    <3>3. /\ stored'[candidateVersionForEpoch(f)].inventory = {}
          /\ \A d \in Docs :
               stored'[candidateVersionForEpoch(f)].docs[d] = NoDocument
      BY <3>1 DEF NoRelease
    <3>. QED BY <3>2, <3>3 DEF PartOf, candidateVersionForEpoch, isWriting
  <2>3. ASSUME ~ (f <= e)
        PROVE  stored'[candidateVersionForEpoch(f)] = NoRelease
    <3>1. ~ (f <= authority.lastEpoch)
      BY <2>0, <2>3, SMT
    <3>. QED BY <3>1 DEF PublicationInv, OneManifestPerVersion
  <2>4. f <= authority.lastEpoch \/ f = e \/ ~ (f <= e)
    BY <2>0, SMT
  <2>. QED BY <1>0, <2>1, <2>2, <2>3, <2>4
<1>4. LegacyKept' /\ AppliedMeansCommitted'
  BY DEF PublicationInv, LegacyKept, AppliedMeansCommitted
<1>. QED BY <1>1, <1>2, <1>3, <1>4 DEF PublicationInv


(* The run that learns its epoch writes what it asked for. *)
LEMMA PreparedInv ==
  ASSUME SequencerInv, PublicationInv, NEW p \in Publishers,
         NEW t \in Readings, pub[p].pc = "prepare",
         Prepare(prepareRequest(p), t), Prepared(p, t), stored' = stored
  PROVE  PublicationInv'
<1> DEFINE e == authority.lastEpoch + 1
           m == pub[p].manifest
           rows == assignObservationTimestamps(m, t)
           stage == IF retiresOrphan(t) THEN "authorize" ELSE "document"
           next == IF retiresOrphan(t) THEN "document" ELSE "idle"
           orphan == IF retiresOrphan(t) THEN orphanIn(operation) ELSE NoOrphan
           r == [pub[p] EXCEPT !.pc = stage, !.after = next, !.orphan = orphan,
                   !.active = NoVersion, !.guard = GuardOf(NoManifest),
                   !.retried = FALSE, !.epoch = e, !.rows = rows,
                   !.unwritten = namesOf(m)]
<1>1. pub[p] \in Runs /\ RunReady(pub[p])
  BY RunHolds
<1>2. /\ m \in Manifests /\ pub[p].ordering \in Instants
      /\ pub[p].generatedAt \in Instants
  BY <1>1 DEF RunReady, isPreparing
<1>3. /\ e \in Epochs /\ e \in Nat
      /\ e \in 0 .. MaxOperationEpoch
      /\ t \in Instants
      /\ freshInstant(t) \in Instants
  <2>1. PrepareAnswer(prepareRequest(p), t) = "prepared"
    BY DEF Prepare
  <2>2. e \in Epochs /\ t \in Instants /\ freshInstant(t) \in Instants
    BY <2>1, PrepareAdmits
  <2>. QED BY <2>2, SequencerAssumption, SMT DEF Epochs
<1>4. /\ authority' = [authority EXCEPT !.lastEpoch = e]
      /\ authority'.lastEpoch = e
      /\ commitEpochs' = commitEpochs
  BY DEF Prepare, history, SequencerInv, TypeOK
<1>5. rows \in [Docs -> Rows] /\ \A d \in Docs : rows[d].revision = m[d]
  BY <1>2, <1>3, AssignmentFacts, AssignedRevisions DEF SequencerInv
<1>6. orphan \in Orphans \union {NoOrphan}
      /\ (stage = "authorize" => orphan # NoOrphan)
  BY CurrentOrphan, OperationFacts DEF retiresOrphan
<1>7. /\ namesOf(m) \subseteq Docs /\ namesOf(m) # {}
  BY <1>2, SequencerAssumption DEF namesOf, NoManifest, ManifestType
<1>8. GuardOf(NoManifest) \in [ResultsDocs -> Revisions \union {NoRevision}]
  BY SequencerAssumption DEF GuardOf, NoManifest
<1>9. /\ stage \in {"authorize", "document"}
      /\ next \in {"idle", "document"}
      /\ stage = "authorize" <=> next = "document"
  OBVIOUS
<1>10. pub' = [pub EXCEPT ![p] = r]
  BY DEF Prepared
<1> HIDE DEF e, m, rows, stage, next, orphan
<1>11. r \in Runs
  BY <1>1, <1>3, <1>5, <1>6, <1>7, <1>8, <1>9, ZenonT(60) DEF Runs, Stages
<1>12. /\ pub' \in [Publishers -> Runs]
       /\ \A q \in Publishers \ {p} : pub'[q] = pub[q]
       /\ pub'[p] = r
  BY <1>10, <1>11, RunChanges
<1>13. /\ r.pc = stage /\ r.after = next /\ r.orphan = orphan /\ r.epoch = e
       /\ r.rows = rows /\ r.unwritten = namesOf(m) /\ r.manifest = m
       /\ r.ordering = pub[p].ordering /\ r.generatedAt = pub[p].generatedAt
  BY <1>1 DEF Runs, m
<1>14. RunReady(pub[p])'
  BY <1>2, <1>3, <1>4, <1>5, <1>6, <1>7, <1>9, <1>12, <1>13, SMT
     DEF RunReady, isPreparing, isWriting, isDraining, Epochs
<1>15. PICK n \in Manifests : n = m
  BY <1>2
<1>. QED
  BY <1>4, <1>9, <1>12, <1>13, <1>14, <1>15, AllocatingStep, ZenonT(60) DEF e

(* The occupied slot is drained first, and prepare is sent once more. *)
LEMMA DrainFirstInv ==
  ASSUME SequencerInv, PublicationInv, NEW p \in Publishers,
         pub[p].pc = "prepare", pendingCleanup # NoPending, DrainFirst(p),
         UNCHANGED <<durable, history, stored>>
  PROVE  PublicationInv'
<1> DEFINE o == orphanIn(pendingCleanup)
<1>1. pub[p] \in Runs /\ RunReady(pub[p])
  BY RunHolds
<1>2. o \in Orphans /\ o # NoOrphan
  BY PendingOrphan
<1> HIDE DEF o
<1>3. CASE pub[p].retried
  <2> DEFINE r == [Idle EXCEPT !.pc = "authorize", !.orphan = o]
  <2>1. r \in Runs /\ pub' = [pub EXCEPT ![p] = r]
    BY <1>2, <1>3, IdleFacts, StageFacts, ZenonT(60) DEF Runs, DrainFirst, o
  <2>2. /\ pub' \in [Publishers -> Runs]
        /\ \A q \in Publishers \ {p} : pub'[q] = pub[q]
        /\ pub'[p] = r
    BY <2>1, RunChanges
  <2>3. r.pc = "authorize" /\ r.after = "idle" /\ r.epoch = 0 /\ r.orphan = o
    BY IdleFacts DEF Runs
  <2>4. RunReady(pub[p])'
    BY <1>2, <2>2, <2>3, EpochIsNat, SMT
       DEF RunReady, isPreparing, isWriting, isDraining, durable, SequencerInv
  <2>. QED BY <2>2, <2>3, <2>4, QuietStep DEF isWriting, durable, history
<1>4. CASE ~ pub[p].retried
  <2> DEFINE r == [[pub[p] EXCEPT !.retried = TRUE, !.after = "prepare"]
                     EXCEPT !.pc = "authorize", !.orphan = o]
  <2>1. r \in Runs /\ pub' = [pub EXCEPT ![p] = r]
    BY <1>1, <1>2, <1>4, StageFacts, ZenonT(60) DEF Runs, DrainFirst, o
  <2>2. /\ pub' \in [Publishers -> Runs]
        /\ \A q \in Publishers \ {p} : pub'[q] = pub[q]
        /\ pub'[p] = r
    BY <2>1, RunChanges
  <2>3. /\ r.pc = "authorize" /\ r.after = "prepare" /\ r.orphan = o
        /\ r.epoch = pub[p].epoch /\ r.manifest = pub[p].manifest
        /\ r.ordering = pub[p].ordering /\ r.active = pub[p].active
        /\ r.guard = pub[p].guard /\ r.generatedAt = pub[p].generatedAt
    BY <1>1 DEF Runs
  <2>4. RunReady(pub[p])'
    BY <1>1, <1>2, <2>2, <2>3
       DEF RunReady, isPreparing, isWriting, isDraining, durable
  <2>. QED BY <2>2, <2>3, <2>4, QuietStep DEF isWriting, durable, history
<1>. QED BY <1>3, <1>4

LEMMA CallPrepareInv ==
  ASSUME SequencerInv, PublicationInv, NEW p \in Publishers,
         NEW t \in Readings, CallPrepare(p, t)
  PROVE  PublicationInv' /\ [Next]_vars
<1> DEFINE req == prepareRequest(p)
<1>1. pub[p].pc = "prepare" /\ stored' = stored /\ t \in ClockReadings
  BY PublicationAssumption DEF CallPrepare
<1>2. req \in PrepareRequests
  BY <1>1, RequestWellFormed
<1> HIDE DEF req
<1>3. CASE Prepare(req, t) /\ Prepared(p, t)
  BY <1>1, <1>2, <1>3, PreparedInv DEF Next, req
<1>4. CASE Prepare(req, t) /\ End(p)
  <2>1. /\ pub' \in [Publishers -> Runs]
        /\ \A q \in Publishers \ {p} : pub'[q] = pub[q]
        /\ pub'[p] = Idle
    BY <1>4, IdleFacts, RunChanges DEF End
  <2>2. /\ authority'.lastEpoch = authority.lastEpoch + 1
        /\ commitEpochs' = commitEpochs
    BY <1>4 DEF Prepare, history, SequencerInv, TypeOK
  <2>3. RunReady(pub[p])'
    BY <2>1, <2>2, IdleFacts, EpochIsNat, SMT
       DEF RunReady, isPreparing, isWriting, isDraining, SequencerInv
  <2>4. PICK m \in Manifests : m = req.manifest
    BY <1>2 DEF PrepareRequests
  <2>. QED
    BY <1>1, <1>2, <1>4, <2>1, <2>2, <2>3, IdleFacts, AllocatingStep
       DEF Next, isWriting
<1>5. CASE /\ PrepareAnswer(req, t) = "pending-cleanup-required"
           /\ DrainFirst(p)
           /\ UNCHANGED <<durable, history>>
  <2>1. pendingCleanup # NoPending
    BY <1>5 DEF PrepareAnswer
  <2>. QED
    BY <1>1, <1>5, <2>1, DrainFirstInv DEF durable, history, vars
<1>6. CASE End(p) /\ UNCHANGED <<durable, history>>
  BY <1>1, <1>6, EndStep DEF durable, history, vars
<1>. QED BY <1>3, <1>4, <1>5, <1>6 DEF CallPrepare, req

-----------------------------------------------------------------------------
(* Cleanup: every failure on the way is swallowed. *)

LEMMA ResumeInv ==
  ASSUME SequencerInv, PublicationInv, NEW p \in Publishers,
         isDraining(pub[p]), Resume(p), stored' = stored,
         authority'.lastEpoch = authority.lastEpoch, commitEpochs' = commitEpochs
  PROVE  PublicationInv'
<1> DEFINE r == [pub[p] EXCEPT !.pc = pub[p].after, !.after = "idle",
                               !.orphan = NoOrphan]
<1>1. pub[p] \in Runs /\ RunReady(pub[p])
  BY RunHolds
<1>2. CASE pub[p].after = "idle"
  BY <1>2, EndStep DEF Resume
<1>3. CASE pub[p].after # "idle"
  <2>1. pub[p].after \in {"prepare", "document"}
    BY <1>1, <1>3 DEF Runs
  <2>2. r \in Runs
    BY <1>1, <2>1, StageFacts, ZenonT(60) DEF Runs
  <2>3. pub' = [pub EXCEPT ![p] = r]
    BY <1>3 DEF Resume, PublicationInv, PublicationTypeOK
  <2>4. /\ pub' \in [Publishers -> Runs]
        /\ \A q \in Publishers \ {p} : pub'[q] = pub[q]
        /\ pub'[p] = r
    BY <2>2, <2>3, RunChanges
  <2>5. /\ r.pc = pub[p].after /\ r.after = "idle" /\ r.rows = pub[p].rows
        /\ r.epoch = pub[p].epoch /\ r.manifest = pub[p].manifest
        /\ r.ordering = pub[p].ordering /\ r.active = pub[p].active
        /\ r.guard = pub[p].guard /\ r.unwritten = pub[p].unwritten
        /\ r.generatedAt = pub[p].generatedAt
    BY <1>1 DEF Runs
  <2>6. RunReady(pub[p])'
    BY <1>1, <2>1, <2>4, <2>5
       DEF RunReady, isPreparing, isWriting, isDraining
  <2>. QED BY <2>1, <2>4, <2>5, <2>6, QuietStep DEF isWriting
<1>. QED BY <1>2, <1>3

(* Between two calls of a cleanup only the stage changes. *)
LEMMA DrainOn ==
  ASSUME SequencerInv, PublicationInv, NEW p \in Publishers,
         NEW stage \in {"delete", "acknowledge"},
         isDraining(pub[p]), Await(p, stage),
         authority'.lastEpoch = authority.lastEpoch
  PROVE  /\ pub' \in [Publishers -> Runs]
         /\ \A q \in Publishers \ {p} : pub'[q] = pub[q]
         /\ pub'[p] = [pub[p] EXCEPT !.pc = stage]
         /\ RunReady(pub[p])'
         /\ isWriting(pub[p])' =>
              /\ isWriting(pub[p])
              /\ pub'[p].epoch = pub[p].epoch
              /\ pub'[p].manifest = pub[p].manifest
         /\ pub'[p].pc = stage
<1> DEFINE r == [pub[p] EXCEPT !.pc = stage]
<1>1. pub[p] \in Runs /\ RunReady(pub[p])
  BY RunHolds
<1>2. r \in Runs
  BY <1>1 DEF Runs, Stages
<1>3. pub' = [pub EXCEPT ![p] = r]
  BY DEF Await, PublicationInv, PublicationTypeOK
<1>4. /\ pub' \in [Publishers -> Runs]
      /\ \A q \in Publishers \ {p} : pub'[q] = pub[q]
      /\ pub'[p] = r
  BY <1>2, <1>3, RunChanges
<1>5. /\ r.pc = stage /\ r.after = pub[p].after /\ r.rows = pub[p].rows
      /\ r.epoch = pub[p].epoch /\ r.manifest = pub[p].manifest
      /\ r.ordering = pub[p].ordering /\ r.active = pub[p].active
      /\ r.guard = pub[p].guard /\ r.unwritten = pub[p].unwritten
      /\ r.orphan = pub[p].orphan /\ r.generatedAt = pub[p].generatedAt
  BY <1>1 DEF Runs
<1>6. RunReady(pub[p])'
  BY <1>1, <1>4, <1>5
     DEF RunReady, isPreparing, isWriting, isDraining
<1>. QED BY <1>4, <1>5, <1>6 DEF isWriting

LEMMA DrainedOrphan ==
  ASSUME PublicationInv, NEW p \in Publishers, isDraining(pub[p])
  PROVE  pub[p].orphan \in Orphans
BY RunHolds DEF RunReady, Runs

LEMMA CallAuthorizeCleanupInv ==
  ASSUME SequencerInv, PublicationInv, NEW p \in Publishers,
         CallAuthorizeCleanup(p)
  PROVE  PublicationInv' /\ [Next]_vars
<1> DEFINE o == pub[p].orphan
<1>1. stored' = stored /\ pub[p].pc = "authorize" /\ isDraining(pub[p])
  BY DEF CallAuthorizeCleanup, isDraining
<1>2. /\ o.epoch \in Epochs /\ o.token \in Tokens \union {0}
      /\ o.candidate \in Versions
  BY <1>1, DrainedOrphan DEF Orphans, Versions
<1>3. CASE /\ AuthorizeCleanup(o.epoch, o.token, o.candidate)
           /\ Await(p, "delete")
  <2>1. UNCHANGED <<durable, commitEpochs>>
    BY <1>3 DEF AuthorizeCleanup
  <2>2. authority' = authority /\ commitEpochs' = commitEpochs
    BY <2>1 DEF durable
  <2>3. PublicationInv'
    BY <1>1, <1>3, <2>2, DrainOn, QuietStep
  <2>. QED BY <1>2, <1>3, <2>3 DEF Next
<1>4. CASE Resume(p) /\ UNCHANGED <<durable, history>>
  BY <1>1, <1>4, ResumeInv DEF durable, history, vars
<1>. QED BY <1>3, <1>4 DEF CallAuthorizeCleanup

LEMMA CallAcknowledgeCleanupInv ==
  ASSUME SequencerInv, PublicationInv, NEW p \in Publishers,
         CallAcknowledgeCleanup(p)
  PROVE  PublicationInv' /\ [Next]_vars
<1> DEFINE o == pub[p].orphan
<1>1. stored' = stored /\ isDraining(pub[p]) /\ Resume(p)
  BY DEF CallAcknowledgeCleanup, isDraining
<1>2. /\ o.epoch \in Epochs /\ o.token \in Tokens \union {0}
      /\ o.candidate \in Versions
  BY <1>1, DrainedOrphan DEF Orphans, Versions
<1>3. CASE AcknowledgeCleanup(o.epoch, o.token, o.candidate)
  <2>1. authority' = authority /\ commitEpochs' = commitEpochs
    BY <1>3 DEF AcknowledgeCleanup
  <2>. QED BY <1>1, <1>2, <1>3, <2>1, ResumeInv DEF Next
<1>4. CASE UNCHANGED <<durable, history>>
  BY <1>1, <1>4, ResumeInv DEF durable, history, vars
<1>. QED BY <1>3, <1>4 DEF CallAcknowledgeCleanup

-----------------------------------------------------------------------------
(* Workers KV *)

(* A step of one run that stores a part of one version's manifest. *)
LEMMA StoringStep ==
  ASSUME PublicationInv, NEW p \in Publishers, NEW e \in Epochs,
         NEW release \in Releases,
         stored' = [stored EXCEPT ![candidateVersionForEpoch(e)] = release],
         e <= authority.lastEpoch \/ release = NoRelease,
         \A m \in Manifests : PartOf(e, m) =>
           /\ release.inventory \in {{}, namesOf(m)}
           /\ \A d \in Docs :
                release.docs[d] # NoDocument => release.docs[d].revision = m[d],
         UNCHANGED <<durable, history>>,
         pub' \in [Publishers -> Runs],
         \A q \in Publishers \ {p} : pub'[q] = pub[q],
         RunReady(pub[p])',
         isWriting(pub[p])' =>
           /\ isWriting(pub[p])
           /\ pub'[p].epoch = pub[p].epoch
           /\ pub'[p].manifest = pub[p].manifest,
         pub'[p].pc # "maintain"
  PROVE  PublicationInv'
<1>1. PublicationTypeOK'
  BY DEF PublicationInv, PublicationTypeOK
<1>2. RunsReady'
  <2> SUFFICES ASSUME NEW q \in Publishers PROVE RunReady(pub[q])'
    BY DEF RunsReady
  <2>1. CASE q # p
    BY <2>1
       DEF PublicationInv, RunsReady, RunReady, isPreparing, isWriting,
           isDraining, durable
  <2>. QED BY <2>1
<1>3. OneManifestPerVersion'
  <2> SUFFICES ASSUME NEW f \in Epochs
               PROVE  IF f <= authority.lastEpoch
                      THEN \E m \in Manifests : PartOf(f, m)'
                      ELSE stored'[candidateVersionForEpoch(f)] = NoRelease
    BY DEF OneManifestPerVersion, durable, candidateVersionForEpoch
  <2>1. candidateVersionForEpoch(f) \in Versions
    BY VersionFacts DEF Versions
  <2>2. f # e =>
          stored'[candidateVersionForEpoch(f)] = stored[candidateVersionForEpoch(f)]
    BY <2>1, VersionFacts DEF PublicationInv, PublicationTypeOK
  <2>3. stored'[candidateVersionForEpoch(e)] = release
    BY VersionFacts DEF PublicationInv, PublicationTypeOK, Versions
  <2>4. CASE f <= authority.lastEpoch
    <3>1. PICK m \in Manifests : PartOf(f, m)
      BY <2>4 DEF PublicationInv, OneManifestPerVersion
    <3>2. ASSUME NEW q \in Publishers, isWriting(pub[q])', pub'[q].epoch = f
          PROVE  pub'[q].manifest = m
      BY <3>1, <3>2 DEF PartOf, isWriting
    <3>3. /\ stored'[candidateVersionForEpoch(f)].inventory \in {{}, namesOf(m)}
          /\ \A d \in Docs :
               stored'[candidateVersionForEpoch(f)].docs[d] # NoDocument =>
                 stored'[candidateVersionForEpoch(f)].docs[d].revision = m[d]
      <4>1. CASE f = e
        BY <2>3, <3>1, <4>1
      <4>2. CASE f # e
        BY <2>2, <3>1, <4>2 DEF PartOf
      <4>. QED BY <4>1, <4>2
    <3>4. PartOf(f, m)'
      BY <3>2, <3>3 DEF PartOf, candidateVersionForEpoch
    <3>. QED BY <2>4, <3>4
  <2>5. CASE ~ (f <= authority.lastEpoch)
    <3>1. stored[candidateVersionForEpoch(f)] = NoRelease
      BY <2>5 DEF PublicationInv, OneManifestPerVersion
    <3>. QED BY <2>2, <2>3, <2>5, <3>1
  <2>. QED BY <2>4, <2>5
<1>4. LegacyKept'
  <2>1. candidateVersionForEpoch(e) \notin LegacyVersions
    BY VersionFacts
  <2>. QED BY <2>1 DEF PublicationInv, LegacyKept, PublicationTypeOK, Versions
<1>5. AppliedMeansCommitted'
  BY DEF PublicationInv, AppliedMeansCommitted, history
<1>. QED BY <1>1, <1>2, <1>3, <1>4, <1>5 DEF PublicationInv

LEMMA DeleteCandidateInv ==
  ASSUME SequencerInv, PublicationInv, NEW p \in Publishers, DeleteCandidate(p)
  PROVE  PublicationInv' /\ [Next]_vars
<1> DEFINE v == pub[p].orphan.candidate
<1>1. /\ pub[p].pc = "delete" /\ isDraining(pub[p])
      /\ UNCHANGED <<durable, history>> /\ Await(p, "acknowledge")
      /\ authority' = authority /\ commitEpochs' = commitEpochs
  BY DEF DeleteCandidate, isDraining, durable, history
<1>2. [Next]_vars
  BY <1>1 DEF durable, history, vars
<1>3. CASE stored' = stored
  BY <1>1, <1>2, <1>3, DrainOn, QuietStep
<1>4. ASSUME NEW docs \in Survivors,
             stored' = [stored EXCEPT ![v] = sweptOf(stored[v], docs)]
      PROVE  PublicationInv'
  <2>1. v \in AllocatedVersions
    BY <1>1, DrainedOrphan DEF Orphans
  <2>2. PICK e \in Epochs : v = candidateVersionForEpoch(e)
    BY <2>1 DEF AllocatedVersions, candidateVersionForEpoch, Epochs
  <2>3. stored[v] \in Releases
    BY <2>1 DEF PublicationInv, PublicationTypeOK, Versions
  <2> DEFINE release == sweptOf(stored[v], docs)
  <2>4. release \in Releases
    BY <2>3, SequencerAssumption DEF sweptOf, Releases, Documents, NoInstant
  <2>5. e <= authority.lastEpoch \/ release = NoRelease
    BY <2>2, SMTT(60) DEF PublicationInv, OneManifestPerVersion, sweptOf, NoRelease
  <2>6. ASSUME NEW m \in Manifests, PartOf(e, m)
        PROVE  /\ release.inventory \in {{}, namesOf(m)}
               /\ \A d \in Docs : release.docs[d] # NoDocument =>
                    release.docs[d].revision = m[d]
    BY <2>2, <2>6 DEF sweptOf, PartOf
  <2>7. stored' = [stored EXCEPT ![candidateVersionForEpoch(e)] = release]
    BY <1>4, <2>2
  <2> HIDE DEF release, v
  <2>8. /\ pub' \in [Publishers -> Runs]
        /\ \A q \in Publishers \ {p} : pub'[q] = pub[q]
        /\ RunReady(pub[p])'
        /\ isWriting(pub[p])' =>
             /\ isWriting(pub[p])
             /\ pub'[p].epoch = pub[p].epoch
             /\ pub'[p].manifest = pub[p].manifest
        /\ pub'[p].pc # "maintain"
    BY <1>1, DrainOn
  <2>. QED BY <1>1, <2>4, <2>5, <2>6, <2>7, <2>8, StoringStep
<1>. QED BY <1>2, <1>3, <1>4 DEF DeleteCandidate

(* Once its epoch needs nothing but a verdict, a run keeps only that epoch. *)
LEMMA VerdictAwaited ==
  ASSUME SequencerInv, PublicationInv, NEW p \in Publishers,
         NEW stage \in {"finalize", "confirm", "maintain", "cancel"},
         NEW m \in Manifests \union {NoManifest},
         stage = "finalize" => m \in Manifests,
         pub[p].epoch # 0,
         AwaitWith(p, stage, m),
         authority'.lastEpoch = authority.lastEpoch
  PROVE  /\ pub' \in [Publishers -> Runs]
         /\ \A q \in Publishers \ {p} : pub'[q] = pub[q]
         /\ RunReady(pub[p])'
         /\ ~ isWriting(pub[p])'
         /\ pub'[p].pc = stage
         /\ pub'[p].epoch = pub[p].epoch
<1> DEFINE r == [Idle EXCEPT !.pc = stage, !.epoch = pub[p].epoch, !.manifest = m]
<1>1. pub[p] \in Runs /\ RunReady(pub[p])
  BY RunHolds
<1>2. r \in Runs
  <2>1. pub[p].epoch \in 0 .. MaxOperationEpoch
    BY <1>1 DEF Runs
  <2>2. stage \in Stages \union {"idle"}
    BY DEF Stages
  <2>. QED BY <2>1, <2>2, IdleFacts, ZenonT(60) DEF Runs
<1>3. pub' = [pub EXCEPT ![p] = r]
  BY DEF AwaitWith
<1>4. /\ pub' \in [Publishers -> Runs]
      /\ \A q \in Publishers \ {p} : pub'[q] = pub[q]
      /\ pub'[p] = r
  BY <1>2, <1>3, RunChanges
<1>5. /\ r.pc = stage /\ r.after = "idle" /\ r.manifest = m
      /\ r.epoch = pub[p].epoch
  BY IdleFacts DEF Runs
<1>6. RunReady(pub[p])'
  <2>1. pub[p].epoch <= authority'.lastEpoch
    BY <1>1 DEF RunReady
  <2>. QED
    BY <1>4, <1>5, <2>1 DEF RunReady, isPreparing, isWriting, isDraining
<1>. QED BY <1>4, <1>5, <1>6 DEF isWriting

LEMMA WritingFacts ==
  ASSUME PublicationInv, NEW p \in Publishers, isWriting(pub[p])
  PROVE  /\ pub[p].epoch \in Epochs
         /\ pub[p].epoch <= authority.lastEpoch
         /\ pub[p].manifest \in Manifests
         /\ candidateOf(p) = candidateVersionForEpoch(pub[p].epoch)
         /\ candidateOf(p) \in Versions
         /\ stored[candidateOf(p)] \in Releases
         /\ \A m \in Manifests :
              PartOf(pub[p].epoch, m) => m = pub[p].manifest
<1>1. pub[p] \in Runs /\ RunReady(pub[p])
  BY RunHolds
<1>2. pub[p].epoch \in Epochs
  BY <1>1, SequencerAssumption, SMT DEF Runs, RunReady, Epochs
<1>3. candidateOf(p) = candidateVersionForEpoch(pub[p].epoch)
      /\ candidateOf(p) \in Versions
  BY <1>2, VersionFacts DEF candidateOf, Versions
<1>. QED
  BY <1>1, <1>2, <1>3
     DEF RunReady, PublicationInv, PublicationTypeOK, PartOf

(* A write that fails may still have landed. *)
LEMMA PutInv ==
  ASSUME SequencerInv, PublicationInv, NEW p \in Publishers, NEW next,
         isWriting(pub[p]), NEW release \in Releases,
         release.inventory \in {{}, namesOf(pub[p].manifest)},
         \A d \in Docs : release.docs[d] # NoDocument =>
           release.docs[d].revision = pub[p].manifest[d],
         Put(p, release, next),
         pub' = next =>
           /\ pub' \in [Publishers -> Runs]
           /\ \A q \in Publishers \ {p} : pub'[q] = pub[q]
           /\ RunReady(pub[p])'
           /\ pub'[p].epoch = pub[p].epoch
           /\ pub'[p].manifest = pub[p].manifest
           /\ pub'[p].pc # "maintain"
  PROVE  PublicationInv' /\ [Next]_vars
<1> DEFINE e == pub[p].epoch
<1>1. /\ UNCHANGED <<durable, history>>
      /\ authority' = authority /\ commitEpochs' = commitEpochs
  BY DEF Put, durable, history
<1>2. [Next]_vars
  BY <1>1 DEF durable, history, vars
<1>3. /\ e \in Epochs /\ e <= authority.lastEpoch
      /\ candidateOf(p) = candidateVersionForEpoch(e)
      /\ \A m \in Manifests : PartOf(e, m) => m = pub[p].manifest
  BY WritingFacts
<1>4. /\ pub' \in [Publishers -> Runs]
      /\ \A q \in Publishers \ {p} : pub'[q] = pub[q]
      /\ RunReady(pub[p])'
      /\ isWriting(pub[p])' =>
           /\ isWriting(pub[p])
           /\ pub'[p].epoch = pub[p].epoch
           /\ pub'[p].manifest = pub[p].manifest
      /\ pub'[p].pc # "maintain"
  <2>1. CASE pub' = next
    BY <2>1
  <2>2. CASE GiveUp(p)
    <3>1. pub[p].epoch # 0
      BY <1>3, SequencerAssumption, SMT DEF Epochs
    <3>. QED BY <1>1, <2>2, <3>1, VerdictAwaited DEF GiveUp
  <2>. QED BY <2>1, <2>2 DEF Put
<1>5. CASE stored' = stored
  BY <1>1, <1>2, <1>4, <1>5, QuietStep
<1>6. CASE stored' = [stored EXCEPT ![candidateOf(p)] = release]
  <2>1. stored' = [stored EXCEPT ![candidateVersionForEpoch(e)] = release]
    BY <1>3, <1>6
  <2>2. ASSUME NEW m \in Manifests, PartOf(e, m)
        PROVE  /\ release.inventory \in {{}, namesOf(m)}
               /\ \A d \in Docs : release.docs[d] # NoDocument =>
                    release.docs[d].revision = m[d]
    BY <1>3, <2>2
  <2> HIDE DEF e
  <2>. QED BY <1>1, <1>2, <1>3, <1>4, <2>1, <2>2, StoringStep
<1>. QED BY <1>5, <1>6 DEF Put

LEMMA GiveUpInv ==
  ASSUME SequencerInv, PublicationInv, NEW p \in Publishers,
         pub[p].epoch # 0, GiveUp(p), UNCHANGED <<durable, history, stored>>
  PROVE  PublicationInv' /\ [Next]_vars
BY VerdictAwaited, QuietStep DEF GiveUp, durable, history, vars

(* Between two writes of a candidate only the stage changes. *)
LEMMA StageChanges ==
  ASSUME PublicationInv, NEW p \in Publishers,
         NEW stage \in {"sidecar", "readback"},
         pub[p].pc \in {"inventory", "sidecar"},
         pub' = [pub EXCEPT ![p].pc = stage], authority' = authority
  PROVE  /\ pub' \in [Publishers -> Runs]
         /\ \A q \in Publishers \ {p} : pub'[q] = pub[q]
         /\ RunReady(pub[p])'
         /\ pub'[p].epoch = pub[p].epoch
         /\ pub'[p].manifest = pub[p].manifest
         /\ pub'[p].pc # "maintain"
<1> DEFINE r == [pub[p] EXCEPT !.pc = stage]
<1>1. pub[p] \in Runs /\ RunReady(pub[p]) /\ isWriting(pub[p])
  BY RunHolds DEF isWriting
<1>2. r \in Runs
  BY <1>1 DEF Runs, Stages
<1>3. pub' = [pub EXCEPT ![p] = r]
  BY DEF PublicationInv, PublicationTypeOK
<1>4. /\ pub' \in [Publishers -> Runs]
      /\ \A q \in Publishers \ {p} : pub'[q] = pub[q]
      /\ pub'[p] = r
  BY <1>2, <1>3, RunChanges
<1>5. /\ r.pc = stage /\ r.after = pub[p].after /\ r.rows = pub[p].rows
      /\ r.epoch = pub[p].epoch /\ r.manifest = pub[p].manifest
      /\ r.ordering = pub[p].ordering /\ r.active = pub[p].active
      /\ r.guard = pub[p].guard /\ r.unwritten = pub[p].unwritten
      /\ r.generatedAt = pub[p].generatedAt
  BY <1>1 DEF Runs
<1>6. RunReady(pub[p])'
  BY <1>1, <1>4, <1>5 DEF RunReady, isPreparing, isWriting, isDraining
<1>. QED BY <1>4, <1>5, <1>6

LEMMA WriteDocumentInv ==
  ASSUME SequencerInv, PublicationInv, NEW p \in Publishers, WriteDocument(p)
  PROVE  PublicationInv' /\ [Next]_vars
<1> DEFINE d == CHOOSE d \in pub[p].unwritten : TRUE
           old == stored[candidateOf(p)]
           release == [old EXCEPT !.docs[d] = bakedDocument(p, d)]
           r == [pub[p] EXCEPT !.unwritten = @ \ {d},
                   !.pc = IF pub[p].unwritten = {d} THEN "inventory" ELSE @]
           next == [pub EXCEPT ![p] = r]
<1>1. /\ pub[p] \in Runs /\ RunReady(pub[p])
      /\ pub[p].pc = "document" /\ isWriting(pub[p])
  BY RunHolds DEF WriteDocument, isWriting
<1>2. pub[p].unwritten # {} /\ pub[p].unwritten \subseteq namesOf(pub[p].manifest)
  BY <1>1 DEF RunReady
<1>3. /\ d \in pub[p].unwritten /\ d \in Docs
      /\ pub[p].manifest[d] # NoRevision
  BY <1>2 DEF namesOf
<1>4. /\ old \in Releases
      /\ PartOf(pub[p].epoch, pub[p].manifest)
  BY <1>1, WritingFacts DEF PublicationInv, OneManifestPerVersion
<1>5. /\ bakedDocument(p, d).revision = pub[p].manifest[d]
      /\ bakedDocument(p, d) \in Documents
  <2>1. pub[p].rows[d].revision = pub[p].manifest[d]
    BY <1>1, <1>3 DEF RunReady
  <2>2. pub[p].rows[d] \in Rows
    BY <1>1, <1>3 DEF Runs
  <2>3. pub[p].rows[d] \in [revision : Revisions, observedAt : Instants]
    BY <1>3, <2>1, <2>2 DEF Rows, NoRow
  <2>4. pub[p].generatedAt \in Instants
    BY <1>1 DEF RunReady
  <2>. QED BY <2>1, <2>3, <2>4 DEF bakedDocument, Documents
<1>6. /\ release.docs = [old.docs EXCEPT ![d] = bakedDocument(p, d)]
      /\ release.inventory = old.inventory
      /\ release.sidecar = old.sidecar
      /\ old.docs \in [Docs -> Documents]
  BY <1>4 DEF Releases
<1>7. release \in Releases
  BY <1>4, <1>5, <1>6 DEF Releases
<1>8. /\ release.inventory \in {{}, namesOf(pub[p].manifest)}
      /\ \A c \in Docs : release.docs[c] # NoDocument =>
           release.docs[c].revision = pub[p].manifest[c]
  <2>1. /\ old.inventory \in {{}, namesOf(pub[p].manifest)}
        /\ \A c \in Docs : old.docs[c] # NoDocument =>
             old.docs[c].revision = pub[p].manifest[c]
    BY <1>1, <1>4, WritingFacts DEF PartOf
  <2> HIDE DEF d, old, release
  <2>. QED BY <1>5, <1>6, <2>1
<1>9. Put(p, release, next)
  BY DEF WriteDocument
<1>10. pub' = next =>
         /\ pub' \in [Publishers -> Runs]
         /\ \A q \in Publishers \ {p} : pub'[q] = pub[q]
         /\ RunReady(pub[p])'
         /\ pub'[p].epoch = pub[p].epoch
         /\ pub'[p].manifest = pub[p].manifest
         /\ pub'[p].pc # "maintain"
  <2> HIDE DEF d
  <2> DEFINE stage == IF pub[p].unwritten = {d} THEN "inventory" ELSE pub[p].pc
  <2>1. r \in Runs
    BY <1>1, StageFacts, ZenonT(60) DEF Runs
  <2>2. /\ r.pc = stage /\ r.unwritten = pub[p].unwritten \ {d}
        /\ r.after = pub[p].after /\ r.rows = pub[p].rows
        /\ r.epoch = pub[p].epoch /\ r.manifest = pub[p].manifest
        /\ r.ordering = pub[p].ordering /\ r.active = pub[p].active
        /\ r.guard = pub[p].guard /\ r.generatedAt = pub[p].generatedAt
    BY <1>1 DEF Runs
  <2>3. stage \in {"document", "inventory"}
        /\ (stage = "document" => pub[p].unwritten \ {d} # {})
    BY <1>1, <1>3
  <2>4. authority' = authority
    BY DEF WriteDocument, Put, durable
  <2> HIDE DEF r, stage
  <2>5. pub' = next =>
          /\ pub' \in [Publishers -> Runs]
          /\ \A q \in Publishers \ {p} : pub'[q] = pub[q]
          /\ pub'[p] = r
    BY <2>1, RunChanges
  <2>6. pub' = next => RunReady(pub[p])'
    BY <1>1, <2>2, <2>3, <2>4, <2>5
       DEF RunReady, isPreparing, isWriting, isDraining
  <2>. QED BY <2>2, <2>3, <2>5, <2>6
<1>. QED BY <1>1, <1>7, <1>8, <1>9, <1>10, PutInv

LEMMA WriteInventoryInv ==
  ASSUME SequencerInv, PublicationInv, NEW p \in Publishers, WriteInventory(p)
  PROVE  PublicationInv' /\ [Next]_vars
<1> DEFINE old == stored[candidateOf(p)]
           release == [old EXCEPT !.inventory = namesOf(pub[p].manifest)]
           r == [pub[p] EXCEPT !.pc = "sidecar"]
           next == [pub EXCEPT ![p].pc = "sidecar"]
<1>1. /\ pub[p] \in Runs /\ RunReady(pub[p])
      /\ pub[p].pc = "inventory" /\ isWriting(pub[p])
  BY RunHolds DEF WriteInventory, isWriting
<1>2. /\ old \in Releases
      /\ PartOf(pub[p].epoch, pub[p].manifest)
  BY <1>1, WritingFacts DEF PublicationInv, OneManifestPerVersion
<1>3. /\ release.inventory = namesOf(pub[p].manifest)
      /\ release.docs = old.docs /\ release \in Releases
  BY <1>2 DEF Releases, namesOf
<1>4. \A c \in Docs : release.docs[c] # NoDocument =>
        release.docs[c].revision = pub[p].manifest[c]
  BY <1>1, <1>2, <1>3, WritingFacts DEF PartOf
<1>5. Put(p, release, next)
  BY DEF WriteInventory
<1>6. pub' = next =>
        /\ pub' \in [Publishers -> Runs]
        /\ \A q \in Publishers \ {p} : pub'[q] = pub[q]
        /\ RunReady(pub[p])'
        /\ pub'[p].epoch = pub[p].epoch
        /\ pub'[p].manifest = pub[p].manifest
        /\ pub'[p].pc # "maintain"
  BY <1>1, StageChanges DEF WriteInventory, Put, durable
<1> HIDE DEF release, next
<1>. QED BY <1>1, <1>3, <1>4, <1>5, <1>6, PutInv

LEMMA WriteSidecarInv ==
  ASSUME SequencerInv, PublicationInv, NEW p \in Publishers, WriteSidecar(p)
  PROVE  PublicationInv' /\ [Next]_vars
<1> DEFINE old == stored[candidateOf(p)]
           release == [old EXCEPT !.sidecar = pub[p].ordering]
           next == [pub EXCEPT ![p].pc = "readback"]
<1>1. /\ pub[p] \in Runs /\ RunReady(pub[p])
      /\ pub[p].pc = "sidecar" /\ isWriting(pub[p]) /\ pub[p].epoch # 0
  BY RunHolds DEF WriteSidecar, isWriting, RunReady
<1>2. /\ old \in Releases
      /\ PartOf(pub[p].epoch, pub[p].manifest)
  BY <1>1, WritingFacts DEF PublicationInv, OneManifestPerVersion
<1>3. CASE Put(p, release, next)
  <2>1. /\ release.inventory = old.inventory
        /\ release.docs = old.docs /\ release \in Releases
    BY <1>1, <1>2 DEF Releases, Runs
  <2>2. /\ release.inventory \in {{}, namesOf(pub[p].manifest)}
        /\ \A c \in Docs : release.docs[c] # NoDocument =>
             release.docs[c].revision = pub[p].manifest[c]
    BY <1>1, <1>2, <2>1, WritingFacts DEF PartOf
  <2>3. pub' = next =>
          /\ pub' \in [Publishers -> Runs]
          /\ \A q \in Publishers \ {p} : pub'[q] = pub[q]
          /\ RunReady(pub[p])'
          /\ pub'[p].epoch = pub[p].epoch
          /\ pub'[p].manifest = pub[p].manifest
          /\ pub'[p].pc # "maintain"
    BY <1>1, <1>3, StageChanges DEF Put, durable
  <2> HIDE DEF release, next
  <2>. QED BY <1>1, <1>3, <2>1, <2>2, <2>3, PutInv
<1>4. CASE GiveUp(p) /\ UNCHANGED <<durable, history, stored>>
  BY <1>1, <1>4, GiveUpInv
<1>5. \/ Put(p, release, next)
      \/ GiveUp(p) /\ UNCHANGED <<durable, history, stored>>
  BY DEF WriteSidecar
<1>. QED BY <1>3, <1>4, <1>5

LEMMA ReadBackInv ==
  ASSUME SequencerInv, PublicationInv, NEW p \in Publishers, ReadBack(p)
  PROVE  PublicationInv' /\ [Next]_vars
<1>1. /\ pub[p] \in Runs /\ RunReady(pub[p]) /\ pub[p].epoch # 0
      /\ isWriting(pub[p]) /\ pub[p].manifest \in Manifests
      /\ UNCHANGED <<durable, history, stored>>
  BY RunHolds DEF ReadBack, isWriting, RunReady
<1>2. CASE AwaitWith(p, "finalize", pub[p].manifest)
  <2>1. authority' = authority /\ commitEpochs' = commitEpochs /\ [Next]_vars
    BY <1>1 DEF durable, history, vars
  <2>2. /\ pub' \in [Publishers -> Runs]
        /\ \A q \in Publishers \ {p} : pub'[q] = pub[q]
        /\ RunReady(pub[p])' /\ ~ isWriting(pub[p])'
        /\ pub'[p].pc = "finalize"
    BY <1>1, <1>2, <2>1, VerdictAwaited
  <2>. QED BY <1>1, <2>1, <2>2, QuietStep
<1>3. CASE GiveUp(p)
  BY <1>1, <1>3, GiveUpInv
<1>. QED BY <1>2, <1>3 DEF ReadBack

-----------------------------------------------------------------------------
(* finalize and what follows its answer *)

LEMMA AppliedInv ==
  ASSUME SequencerInv, PublicationInv, NEW p \in Publishers,
         pub[p].epoch # 0, Applied(p), pub[p].epoch \in commitEpochs',
         stored' = stored, authority'.lastEpoch = authority.lastEpoch,
         commitEpochs \subseteq commitEpochs'
  PROVE  PublicationInv'
<1>1. /\ pub' \in [Publishers -> Runs]
      /\ \A q \in Publishers \ {p} : pub'[q] = pub[q]
      /\ RunReady(pub[p])' /\ ~ isWriting(pub[p])'
      /\ pub'[p].epoch = pub[p].epoch
  BY VerdictAwaited DEF Applied
<1>. QED BY <1>1, QuietStep

LEMMA UnansweredInv ==
  ASSUME SequencerInv, PublicationInv, NEW p \in Publishers,
         pub[p].pc = "finalize", Unanswered(p),
         stored' = stored, authority'.lastEpoch = authority.lastEpoch,
         commitEpochs \subseteq commitEpochs'
  PROVE  PublicationInv'
<1>1. /\ pub[p] \in Runs /\ RunReady(pub[p]) /\ pub[p].epoch # 0
  BY RunHolds DEF RunReady
<1>2. CASE pub[p].redriven
  <2>1. /\ pub' \in [Publishers -> Runs]
        /\ \A q \in Publishers \ {p} : pub'[q] = pub[q]
        /\ RunReady(pub[p])' /\ ~ isWriting(pub[p])'
        /\ pub'[p].pc = "confirm"
    BY <1>1, <1>2, VerdictAwaited DEF Unanswered
  <2>. QED BY <2>1, QuietStep
<1>3. CASE ~ pub[p].redriven
  <2> DEFINE r == [pub[p] EXCEPT !.redriven = TRUE]
  <2>1. r \in Runs
    BY <1>1 DEF Runs
  <2>2. pub' = [pub EXCEPT ![p] = r]
    BY <1>3 DEF Unanswered, PublicationInv, PublicationTypeOK
  <2>3. /\ pub' \in [Publishers -> Runs]
        /\ \A q \in Publishers \ {p} : pub'[q] = pub[q]
        /\ pub'[p] = r
    BY <2>1, <2>2, RunChanges
  <2>4. /\ r.pc = "finalize" /\ r.after = pub[p].after
        /\ r.epoch = pub[p].epoch /\ r.manifest = pub[p].manifest
    BY <1>1 DEF Runs
  <2>5. pub[p].after = "idle" /\ pub[p].manifest \in Manifests
    BY <1>1 DEF RunReady, isDraining
  <2>6. RunReady(pub[p])' /\ ~ isWriting(pub[p])'
    BY <1>1, <2>3, <2>4, <2>5 DEF RunReady, isPreparing, isWriting, isDraining
  <2>. QED BY <2>3, <2>4, <2>6, QuietStep
<1>. QED BY <1>2, <1>3

LEMMA CallFinalizeInv ==
  ASSUME SequencerInv, PublicationInv, NEW p \in Publishers,
         NEW t \in Readings, CallFinalize(p, t)
  PROVE  PublicationInv' /\ [Next]_vars
<1> DEFINE e == pub[p].epoch
           c == namesOf(pub[p].manifest)
           answer == FinalizeAnswer(e, e, c, t)
<1>1. /\ pub[p] \in Runs /\ RunReady(pub[p]) /\ pub[p].epoch # 0
      /\ pub[p].pc = "finalize" /\ pub[p].manifest \in Manifests
      /\ stored' = stored
  BY RunHolds DEF RunReady, CallFinalize
<1>2. /\ e \in Epochs /\ e \in Tokens
      /\ c \in Commitments /\ t \in ClockReadings
  BY <1>1, PublicationAssumption, SequencerAssumption, SMT
     DEF Runs, Epochs, Tokens
<1>3. CASE Finalize(e, e, c, t) /\ (Applied(p) \/ Unanswered(p))
  <2>1. [Next]_vars
    BY <1>2, <1>3 DEF Next
  <2>2. /\ authority' = committedAuthority
        /\ commitEpochs' = commitEpochs \union {operation.epoch}
        /\ answer = "committed"
    BY <1>3 DEF Finalize
  <2>3. authority'.lastEpoch = authority.lastEpoch
    BY <2>2 DEF committedAuthority, SequencerInv, TypeOK
  <2>4. operation.epoch = e
    <3>1. operation # NoOperation /\ ~ (e > operation.epoch)
          /\ ~ (e < operation.epoch)
      BY <2>2 DEF FinalizeAnswer
    <3>2. operation.epoch \in Nat /\ e \in Nat
      BY <1>2, <3>1, SequencerAssumption
         DEF SequencerInv, TypeOK, Operations, Epochs
    <3>. QED BY <3>1, <3>2, SMT
  <2> HIDE DEF answer
  <2>. QED BY <1>1, <1>3, <2>1, <2>2, <2>3, <2>4, AppliedInv, UnansweredInv
<1>4. CASE UNCHANGED <<durable, history>>
  <2>1. /\ authority' = authority /\ commitEpochs' = commitEpochs /\ [Next]_vars
    BY <1>4 DEF durable, history, vars
  <2>2. CASE answer = "replayed" /\ Applied(p)
    <3>1. operation # NoOperation /\ ~ (e > operation.epoch)
          /\ ~ (e < operation.epoch) /\ operation.phase = "committed"
      BY <2>2 DEF FinalizeAnswer
    <3>2. operation.epoch \in Nat /\ e \in Nat
      BY <1>2, <3>1, SequencerAssumption
         DEF SequencerInv, TypeOK, Operations, Epochs
    <3>3. operation.epoch = e
      BY <3>1, <3>2, SMT
    <3>4. e \in commitEpochs
      BY <3>1, <3>3 DEF SequencerInv, CommitsAllocated
    <3>. QED BY <1>1, <2>1, <2>2, <3>4, AppliedInv
  <2>3. CASE End(p)
    BY <1>1, <2>1, <2>3, EndStep
  <2>4. CASE GiveUp(p)
    BY <1>1, <1>4, <2>4, GiveUpInv
  <2>5. CASE Unanswered(p)
    BY <1>1, <2>1, <2>5, UnansweredInv
  <2>6. \/ answer = "replayed" /\ Applied(p)
        \/ End(p) \/ GiveUp(p) \/ Unanswered(p)
        \/ Finalize(e, e, c, t) /\ (Applied(p) \/ Unanswered(p))
    BY Zenon DEF CallFinalize
  <2>. QED BY <1>3, <2>2, <2>3, <2>4, <2>5, <2>6
<1>. QED BY <1>3, <1>4 DEF CallFinalize

LEMMA ConfirmCommitInv ==
  ASSUME SequencerInv, PublicationInv, NEW p \in Publishers, ConfirmCommit(p)
  PROVE  PublicationInv' /\ [Next]_vars
<1>1. /\ pub[p] \in Runs /\ RunReady(pub[p]) /\ pub[p].epoch # 0
      /\ UNCHANGED <<durable, history, stored>>
  BY RunHolds DEF RunReady, ConfirmCommit
<1>2. /\ authority' = authority /\ commitEpochs' = commitEpochs
      /\ stored' = stored /\ [Next]_vars
  BY <1>1 DEF durable, history, vars
<1>3. CASE candidateIsAuthoritative(p) /\ Applied(p)
  <2>1. pub[p].epoch \in Epochs
    BY <1>1, SequencerAssumption, SMT DEF Runs, Epochs
  <2>2. pub[p].epoch \in commitEpochs
    BY <1>3, <2>1, VersionFacts
       DEF candidateIsAuthoritative, candidateOf, SequencerInv, PointersCommitted
  <2>. QED BY <1>1, <1>2, <1>3, <2>2, AppliedInv
<1>4. CASE End(p)
  BY <1>2, <1>4, EndStep
<1>. QED BY <1>3, <1>4 DEF ConfirmCommit

LEMMA CallCancelInv ==
  ASSUME SequencerInv, PublicationInv, NEW p \in Publishers, CallCancel(p)
  PROVE  PublicationInv' /\ [Next]_vars
<1> DEFINE e == pub[p].epoch
           o == [epoch |-> e, token |-> e, candidate |-> candidateOf(p)]
           r == [Idle EXCEPT !.pc = "authorize", !.orphan = o]
<1>1. /\ pub[p] \in Runs /\ RunReady(pub[p]) /\ e # 0
      /\ stored' = stored
  BY RunHolds DEF RunReady, CallCancel
<1>2. e \in Epochs /\ e \in Tokens
  BY <1>1, SequencerAssumption, SMT DEF Runs, Epochs, Tokens
<1>3. /\ authority' = authority /\ commitEpochs' = commitEpochs /\ [Next]_vars
  <2>1. CASE Cancel(e, e)
    BY <1>2, <2>1 DEF Cancel, history, Next
  <2>2. CASE UNCHANGED <<durable, history>>
    BY <2>2 DEF durable, history, vars
  <2>. QED BY <2>1, <2>2 DEF CallCancel
<1>4. o \in Orphans /\ o # NoOrphan
  <2>1. candidateOf(p) \in AllocatedVersions
    BY <1>2, VersionFacts DEF candidateOf
  <2>. QED BY <1>1, <1>2, <2>1 DEF Orphans, NoOrphan
<1>5. pub' = [pub EXCEPT ![p] = r]
  BY DEF CallCancel
<1> HIDE DEF o
<1>6. r \in Runs
  BY <1>4, IdleFacts, StageFacts, ZenonT(60) DEF Runs
<1>7. /\ pub' \in [Publishers -> Runs]
      /\ \A q \in Publishers \ {p} : pub'[q] = pub[q]
      /\ pub'[p] = r
  BY <1>5, <1>6, RunChanges
<1>8. r.pc = "authorize" /\ r.after = "idle" /\ r.epoch = 0 /\ r.orphan = o
  BY IdleFacts DEF Runs
<1>9. RunReady(pub[p])'
  BY <1>3, <1>4, <1>7, <1>8, EpochIsNat, SMT
     DEF RunReady, isPreparing, isWriting, isDraining, SequencerInv
<1>. QED BY <1>1, <1>3, <1>7, <1>8, <1>9, QuietStep DEF isWriting

-----------------------------------------------------------------------------
(* The specification *)

LEMMA NoRunMoves ==
  ASSUME PublicationInv, stored' = stored, pub' = pub,
         authority'.lastEpoch = authority.lastEpoch, commitEpochs' = commitEpochs
  PROVE  PublicationInv'
<1>1. PublicationTypeOK' /\ LegacyKept' /\ AppliedMeansCommitted'
  BY DEF PublicationInv, PublicationTypeOK, LegacyKept, AppliedMeansCommitted
<1>2. RunsReady'
  BY DEF PublicationInv, RunsReady, RunReady, isPreparing, isWriting, isDraining
<1>3. \A e, m : PartOf(e, m)' <=> PartOf(e, m)
  BY DEF PartOf, isWriting, candidateVersionForEpoch
<1>4. OneManifestPerVersion'
  BY <1>3, Zenon DEF PublicationInv, OneManifestPerVersion, candidateVersionForEpoch
<1>. QED BY <1>1, <1>2, <1>4 DEF PublicationInv

LEMMA EnterInv ==
  ASSUME SequencerInv, PublicationInv, Enter
  PROVE  PublicationInv' /\ [Next]_vars
<1>1. /\ stored' = stored /\ pub' = pub
  BY DEF Enter
<1>2. [Next]_vars
  BY DEF Enter, Next
<1>3. authority'.lastEpoch = authority.lastEpoch /\ commitEpochs' = commitEpochs
  BY ZenonT(60) DEF Enter, SeedCutover, ActivateCutover, CommitGenesis, history,
         SequencerInv, TypeOK
<1>. QED BY <1>1, <1>2, <1>3, NoRunMoves

LEMMA RunInv ==
  ASSUME SequencerInv, PublicationInv, NEW p \in Publishers, Run(p)
  PROVE  PublicationInv' /\ [Next]_vars
<1>1. CASE ReadTarget(p)
  BY <1>1, ReadTargetInv, ZenonT(60) DEF ReadTarget, durable, history, vars
<1>2. CASE \E t \in Generations : ReadPredecessor(p, t)
  BY <1>2, ReadPredecessorInv DEF ReadPredecessor, durable, history, vars
<1>3. CASE CompleteCommitted(p)
  BY <1>3, EndStep DEF CompleteCommitted, durable, history, vars
<1>. QED
  BY <1>1, <1>2, <1>3, CallPrepareInv, CallAuthorizeCleanupInv,
     DeleteCandidateInv, CallAcknowledgeCleanupInv, WriteDocumentInv,
     WriteInventoryInv, WriteSidecarInv, ReadBackInv, CallFinalizeInv,
     ConfirmCommitInv, CallCancelInv
     DEF Run

LEMMA PublicationStep ==
  SequencerInv /\ PublicationInv /\ [PublicationNext]_pubVars
    => PublicationInv' /\ [Next]_vars
<1> SUFFICES ASSUME SequencerInv, PublicationInv, [PublicationNext]_pubVars
             PROVE  PublicationInv' /\ [Next]_vars
    OBVIOUS
<1>1. CASE UNCHANGED pubVars
  <2>1. /\ stored' = stored /\ pub' = pub /\ authority' = authority
        /\ commitEpochs' = commitEpochs /\ UNCHANGED vars
    BY <1>1 DEF pubVars, durable, history, vars
  <2>. QED BY <2>1, NoRunMoves
<1>2. CASE Enter
  BY <1>2, EnterInv
<1>3. ASSUME NEW p \in Publishers, NEW c \in Candidates, StartPublish(p, c)
      PROVE  PublicationInv' /\ [Next]_vars
  BY <1>3, StartPublishInv DEF StartPublish, durable, history, vars
<1>4. ASSUME NEW p \in Publishers, NEW v \in Versions, StartRollback(p, v)
      PROVE  PublicationInv' /\ [Next]_vars
  BY <1>4, StartRollbackInv DEF StartRollback, durable, history, vars
<1>5. ASSUME NEW p \in Publishers, Crash(p)
      PROVE  PublicationInv' /\ [Next]_vars
  BY <1>5, EndStep DEF Crash, durable, history, vars
<1>. QED BY <1>1, <1>2, <1>3, <1>4, <1>5, RunInv DEF PublicationNext

LEMMA PublicationStarts == PublicationInit => SequencerInv /\ PublicationInv
<1> SUFFICES ASSUME PublicationInit PROVE PublicationInv
    BY InitInv DEF PublicationInit
<1>1. SequencerInv /\ authority.lastEpoch = 0
  BY InitInv DEF PublicationInit, Init
<1>2. NoRelease \in Releases
  BY SequencerAssumption DEF NoRelease, Releases, Documents, NoInstant
<1>3. PublicationTypeOK
  BY <1>2, IdleFacts, PublicationAssumption
     DEF PublicationInit, PublicationTypeOK
<1>4. RunsReady
  BY <1>1, IdleReady DEF PublicationInit, RunsReady
<1>5. OneManifestPerVersion
  <2> SUFFICES ASSUME NEW e \in Epochs
               PROVE  /\ ~ (e <= authority.lastEpoch)
                      /\ stored[candidateVersionForEpoch(e)] = NoRelease
    BY DEF OneManifestPerVersion
  <2> DEFINE v == candidateVersionForEpoch(e)
  <2>1. v \in Versions /\ v \notin LegacyVersions
    BY VersionFacts DEF Versions
  <2> HIDE DEF v
  <2>2. stored[v] = NoRelease
    BY <2>1 DEF PublicationInit
  <2>3. ~ (e <= 0)
    BY SequencerAssumption, SMT DEF Epochs
  <2>. QED BY <1>1, <2>2, <2>3 DEF v
<1>6. LegacyKept /\ AppliedMeansCommitted
  BY IdleFacts
     DEF PublicationInit, LegacyKept, AppliedMeansCommitted, Versions
<1>. QED BY <1>3, <1>4, <1>5, <1>6 DEF PublicationInv

(* Publishers that race, crash, lose answers and retry leave the sequencer in
   states it can reach by itself, and their runs in the states they await. *)
THEOREM PublicationSafe == PublicationSpec => [](SequencerInv /\ PublicationInv)
<1>1. SequencerInv /\ [Next]_vars => SequencerInv'
  BY NextInv
<1>. QED BY <1>1, PublicationStarts, PublicationStep, PTL DEF PublicationSpec

(* Whatever any number of publishers do, the season's sequencer sees a run of
   its own: its theorems hold under them. *)
THEOREM PublicationImplementsSequencer == PublicationSpec => ImplementsSequencer
<1>1. PublicationInit => Init
  BY DEF PublicationInit
<1>. QED
  BY <1>1, PublicationSafe, PublicationStep, PTL
     DEF PublicationSpec, ImplementsSequencer, Spec

(* Every record of KV and of a run keeps its type. *)
THEOREM PublicationKeepsTypes == PublicationSpec => []PublicationTypeOK
<1>1. PublicationInv => PublicationTypeOK
  BY DEF PublicationInv
<1>. QED BY <1>1, PublicationSafe, PTL

(* A run that reports its publication as applied committed it, also when both
   finalize answers were lost. *)
THEOREM AppliedIsCommitted == PublicationSpec => []AppliedMeansCommitted
<1>1. PublicationInv => AppliedMeansCommitted
  BY DEF PublicationInv
<1>. QED BY <1>1, PublicationSafe, PTL

-----------------------------------------------------------------------------
(***************************************************************************)
(* What the season serves.  ReleaseInv is inductive: the active release is *)
(* whole, is what its sequencer committed, drops no participation fact of  *)
(* the release it replaced and is stamped later than it.                   *)
(*                                                                         *)
(* The argument: nothing writes to a committed release (its writer has     *)
(* stopped) and nothing deletes it (it is not deletable), so whatever a    *)
(* run compared itself with is still there when it commits.  Almost every  *)
(* step leaves the sequencer's releases and every other run's candidate    *)
(* alone (KeptStep); the two that do not, Prepare and Finalize, are        *)
(* PreparedKept and FinalizedKept.                                         *)
(***************************************************************************)

(* A commit keeps the participation facts of the release it replaces and is
   stamped later than it. *)
KeepsFacts ==
  \A d \in ResultsDocs :
    FactsOf[committed[d].revision] \subseteq FactsOf[committed'[d].revision]
StampedLater ==
  \A c \in stored[authority.active].inventory,
     d \in stored[authority'.active].inventory :
    stored[authority'.active].docs[d].generatedAt
      > stored[authority.active].docs[c].generatedAt
Advances ==
  commits => KeepsFacts /\ (authority.active # NoVersion => StampedLater)

-----------------------------------------------------------------------------
(* What the parts of the invariants say of one version, or of one run. *)

LEMMA CommittedVersions ==
  ASSUME SequencerInv
  PROVE  /\ authority.active # NoVersion => isCommitted(authority.active)
         /\ authority.previous # NoVersion => isCommitted(authority.previous)
BY DEF SequencerInv, TypeOK, PointersCommitted, Versions, isCommitted

(* An allocated version is committed only as its epoch is. *)
LEMMA CommittedEpoch ==
  ASSUME NEW e \in Epochs, isCommitted(candidateVersionForEpoch(e))
  PROVE  e \in commitEpochs
BY VersionFacts DEF isCommitted

LEMMA PreparedOperation ==
  ASSUME SequencerInv, operation.phase = "prepared"
  PROVE  /\ operation \in Operations
         /\ operation.epoch \in Epochs
         /\ operation.epoch \notin commitEpochs
         /\ operation.epoch <= authority.lastEpoch
         /\ operation.candidate = candidateVersionForEpoch(operation.epoch)
BY OperationFacts
   DEF SequencerInv, TypeOK, CommitsAllocated, RecordsAllocated

LEMMA CarryingFacts ==
  ASSUME PublicationInv, NEW p \in Publishers, isCarrying(pub[p])
  PROVE  /\ pub[p] \in Runs /\ RunReady(pub[p])
         /\ pub[p].epoch \in Epochs
         /\ pub[p].epoch <= authority.lastEpoch
         /\ pub[p].manifest \in Manifests
         /\ candidateOf(p) = candidateVersionForEpoch(pub[p].epoch)
         /\ candidateOf(p) \in Versions
<1>1. pub[p] \in Runs /\ RunReady(pub[p])
  BY RunHolds
<1>2. pub[p].epoch \in Epochs
  BY <1>1, SequencerAssumption, SMT DEF Runs, RunReady, Epochs, isCarrying
<1>. QED
  BY <1>1, <1>2, VersionFacts DEF RunReady, isCarrying, candidateOf, Versions

LEMMA ComparedHolds ==
  ASSUME ReleaseInv, NEW p \in Publishers
  PROVE  runCompared(pub[p])
BY DEF ReleaseInv, RunsCompared

LEMMA ProgressHolds ==
  ASSUME ReleaseInv, NEW p \in Publishers, isCarrying(pub[p]),
         isPrepared(pub[p].epoch)
  PROVE  runProgress(pub[p])
BY DEF ReleaseInv, RunsProgress

(* The greatest instant of a release is one, so one more is after it. *)
LEMMA InstantIsAfter ==
  ASSUME PublicationInv, NEW v \in Versions \union {NoVersion},
         NEW t \in Instants
  PROVE  isAfter(publicationInstant(t, v), v)
<1> SUFFICES ASSUME v # NoVersion, NEW d \in stored[v].inventory
             PROVE  stored[v].docs[d].generatedAt < publicationInstant(t, v)
    BY DEF isAfter
<1>1. stored[v] \in Releases
  BY DEF PublicationInv, PublicationTypeOK
<1>2. \A c \in stored[v].inventory :
        stored[v].docs[c].generatedAt \in 0 .. MaxInstant
  BY <1>1, SequencerAssumption
     DEF Releases, Documents, NoDocument, Instants, NoInstant
<1> DEFINE S == {NoInstant} \union
                  {stored[v].docs[c].generatedAt : c \in stored[v].inventory}
<1>3. S \subseteq 0 .. MaxInstant /\ S # {}
  BY <1>2, SequencerAssumption DEF NoInstant
<1>4. activeInstant(v) = CHOOSE i \in S : \A j \in S : j <= i
  BY DEF activeInstant
<1>5. stored[v].docs[d].generatedAt \in S
  OBVIOUS
<1> HIDE DEF S
<1>6. \E i \in S : \A j \in S : j <= i
  BY <1>3, SequencerAssumption, BoundedMaximum
<1>7. activeInstant(v) \in S /\ stored[v].docs[d].generatedAt <= activeInstant(v)
  BY <1>4, <1>5, <1>6
<1>8. /\ activeInstant(v) \in Int /\ t \in Int
      /\ stored[v].docs[d].generatedAt \in Int
  <2>1. \A i \in 0 .. MaxInstant : i \in Int
    OBVIOUS
  <2>2. t \in Int
    BY DEF Instants
  <2>. QED BY <1>2, <1>3, <1>7, <2>1, <2>2
<1>. QED BY <1>7, <1>8 DEF publicationInstant

-----------------------------------------------------------------------------
(* Steps that leave the sequencer's releases, and what it has prepared, as
   they are. *)

SequencerRests ==
  /\ authority'.active = authority.active
  /\ authority'.previous = authority.previous
  /\ committed' = committed
  /\ commitEpochs' = commitEpochs
  /\ deletable \subseteq deletable'
  /\ operation'.phase = "prepared" => operation' = operation /\ prepared' = prepared

LEMMA RestFacts ==
  /\ UNCHANGED <<durable, history>> => SequencerRests
  /\ \A e, k : Cancel(e, k) => SequencerRests
  /\ \A e, k, v : AuthorizeCleanup(e, k, v) => SequencerRests
  /\ \A e, k, v : AcknowledgeCleanup(e, k, v) => SequencerRests
<1>1. UNCHANGED <<durable, history>> => SequencerRests
  BY DEF durable, history, SequencerRests
<1>2. ASSUME NEW e, NEW k, Cancel(e, k) PROVE SequencerRests
  BY <1>2 DEF Cancel, history, SequencerRests
<1>3. ASSUME NEW e, NEW k, NEW v, AuthorizeCleanup(e, k, v) PROVE SequencerRests
  BY <1>3 DEF AuthorizeCleanup, durable, SequencerRests
<1>4. ASSUME NEW e, NEW k, NEW v, AcknowledgeCleanup(e, k, v)
      PROVE  SequencerRests
  BY <1>4, OperationFacts DEF AcknowledgeCleanup, SequencerRests
<1>. QED BY <1>1, <1>2, <1>3, <1>4

(* What is served changes only with the release pointers or with what KV
   holds of a committed release. *)
LEMMA ServedKept ==
  ASSUME SequencerInv, ServedReleases,
         authority'.active = authority.active,
         authority'.previous = authority.previous,
         committed' = committed,
         \A v \in Versions : isCommitted(v) => stored'[v] = stored[v]
  PROVE  ServedReleases'
<1>1. \A v \in {authority.active, authority.previous} \ {NoVersion} :
        v \in Versions /\ stored'[v] = stored[v]
  BY CommittedVersions DEF SequencerInv, TypeOK
<1>2. ServedReleasesWhole'
  BY <1>1 DEF ServedReleases, ServedReleasesWhole, isReadable, sourceOrderingOf
<1>3. ServedMatchesCommitted'
  BY <1>1 DEF ServedReleases, ServedMatchesCommitted
<1>. QED BY <1>2, <1>3 DEF ServedReleases

LEMMA KeptStep ==
  ASSUME SequencerInv, PublicationInv, ReleaseInv, SequencerRests,
         NEW p \in Publishers, NEW r \in Runs, pub' = [pub EXCEPT ![p] = r],
         \A v \in Versions : isCommitted(v) => stored'[v] = stored[v],
         \A q \in Publishers \ {p} :
           isCarrying(pub[q]) /\ isPrepared(pub[q].epoch) =>
             stored'[candidateOf(q)] = stored[candidateOf(q)],
         isCarrying(r) => isCarrying(pub[p]) /\ r.epoch = pub[p].epoch,
         isWriting(r) => isWriting(pub[p]),
         r.pc = "delete" => r.orphan.candidate \in deletable',
         runCompared(r)',
         isCarrying(r) /\ isPrepared(r.epoch)' => runProgress(r)',
         CandidateMatchesPrepared'
  PROVE  ReleaseInv' /\ Advances
<1>0. /\ \A q \in Publishers \ {p} : pub'[q] = pub[q]
      /\ pub'[p] = r
  BY RunChanges
<1>1. CarriersDiffer'
  <2>1. \A q \in Publishers :
          isCarrying(pub[q])' =>
            isCarrying(pub[q]) /\ pub'[q].epoch = pub[q].epoch
    BY <1>0 DEF isCarrying, isWriting
  <2>. QED BY <2>1 DEF ReleaseInv, CarriersDiffer
<1>2. WritersUncommitted'
  <2>1. \A q \in Publishers :
          isWriting(pub[q])' => isWriting(pub[q]) /\ pub'[q].epoch = pub[q].epoch
    BY <1>0 DEF isCarrying, isWriting
  <2>. QED BY <2>1 DEF ReleaseInv, WritersUncommitted, SequencerRests
<1>3. DeletionsAuthorized'
  BY <1>0 DEF ReleaseInv, DeletionsAuthorized, SequencerRests
<1>4. RunsCompared'
  <2> SUFFICES ASSUME NEW q \in Publishers
               PROVE  \E x \in Runs : pub'[q] = x /\ runCompared(x)'
    BY DEF RunsCompared
  <2>1. CASE q # p
    <3>1. pub[q] \in Runs /\ runCompared(pub[q])
      BY RunHolds, ComparedHolds
    <3>2. PICK x \in Runs : x = pub[q]
      BY <3>1
    <3>3. isPreparing(x) /\ x.active # NoVersion =>
            isCommitted(x.active) /\ stored'[x.active] = stored[x.active]
      BY <3>1, <3>2 DEF runCompared, Runs
    <3>4. runCompared(x)'
      BY <3>1, <3>2, <3>3
         DEF runCompared, isCommitted, isAfter, SequencerRests, isPreparing,
             isContained
    <3>. QED BY <1>0, <2>1, <3>2, <3>4
  <2>. QED BY <1>0, <2>1
<1>5. RunsProgress'
  <2> SUFFICES ASSUME NEW q \in Publishers
               PROVE  \E x \in Runs :
                        /\ pub'[q] = x
                        /\ isCarrying(x) /\ isPrepared(x.epoch)' =>
                             runProgress(x)'
    BY DEF RunsProgress, isCarrying, isWriting
  <2>1. CASE q # p
    <3>1. pub[q] \in Runs
      BY RunHolds
    <3>2. PICK x \in Runs : x = pub[q]
      BY <3>1
    <3>3. ASSUME isCarrying(x), isPrepared(x.epoch)'
          PROVE  runProgress(x)'
      <4>1. /\ operation' = operation /\ prepared' = prepared
            /\ authority'.active = authority.active
            /\ isPrepared(x.epoch)
        BY <3>3 DEF isPrepared, SequencerRests
      <4>2. runProgress(x)
        BY <3>2, <3>3, <4>1, ProgressHolds
      <4>3. stored'[candidateVersionForEpoch(x.epoch)]
              = stored[candidateVersionForEpoch(x.epoch)]
        BY <2>1, <3>2, <3>3, <4>1, CarryingFacts
      <4>4. authority.active # NoVersion =>
              stored'[authority.active] = stored[authority.active]
        BY CommittedVersions DEF SequencerInv, TypeOK
      <4>. QED
        BY <4>1, <4>2, <4>3, <4>4
           DEF runProgress, hasWritten, isAfter, candidateVersionForEpoch
    <3>. QED BY <1>0, <2>1, <3>2, <3>3
  <2>. QED BY <1>0, <2>1
<1>6. PreparedContained'
  BY DEF ReleaseInv, PreparedContained, SequencerRests
<1>7. ServedReleases'
  BY ServedKept DEF ReleaseInv, SequencerRests
<1>8. Advances
  BY DEF Advances, commits, SequencerRests
<1>. QED
  BY <1>1, <1>2, <1>3, <1>4, <1>5, <1>6, <1>7, <1>8 DEF ReleaseInv

(* A step that writes nothing to KV. *)
LEMMA QuietKept ==
  ASSUME SequencerInv, PublicationInv, ReleaseInv, SequencerRests,
         NEW p \in Publishers, NEW r \in Runs, pub' = [pub EXCEPT ![p] = r],
         stored' = stored,
         isCarrying(r) => isCarrying(pub[p]) /\ r.epoch = pub[p].epoch,
         isWriting(r) => isWriting(pub[p]),
         r.pc = "delete" => r.orphan.candidate \in deletable',
         runCompared(r),
         isCarrying(r) /\ isPrepared(r.epoch) => runProgress(r)
  PROVE  ReleaseInv' /\ Advances
<1>1. runCompared(r)'
  BY DEF runCompared, isCommitted, isAfter, SequencerRests, isPreparing,
         isContained
<1>2. isPrepared(r.epoch)' =>
        /\ isPrepared(r.epoch)
        /\ prepared' = prepared /\ authority'.active = authority.active
  BY DEF isPrepared, SequencerRests
<1>3. isCarrying(r) /\ isPrepared(r.epoch)' => runProgress(r)'
  BY <1>2 DEF runProgress, hasWritten, isAfter, candidateVersionForEpoch
<1>4. CandidateMatchesPrepared'
  <2> SUFFICES ASSUME NEW e \in Epochs, isPrepared(e)'
               PROVE  LET release == stored[candidateVersionForEpoch(e)] IN
                      \A d \in Docs : release.docs[d] # NoDocument =>
                        /\ release.docs[d].revision = prepared'[d].revision
                        /\ release.docs[d].observedAt = prepared'[d].observedAt
                        /\ isAfter(release.docs[d].generatedAt,
                                   authority.active)
    BY DEF CandidateMatchesPrepared, isAfter, SequencerRests,
           candidateVersionForEpoch
  <2>1. isPrepared(e) /\ prepared' = prepared
    BY DEF isPrepared, SequencerRests
  <2>. QED BY <2>1 DEF ReleaseInv, CandidateMatchesPrepared
<1>. QED BY <1>1, <1>3, <1>4, KeptStep

(* A run that neither compares, writes, deletes nor commits any longer. *)
LEMMA DoneKept ==
  ASSUME SequencerInv, PublicationInv, ReleaseInv, SequencerRests,
         NEW p \in Publishers, NEW r \in Runs, pub' = [pub EXCEPT ![p] = r],
         stored' = stored,
         r.pc \in {"idle", "confirm", "maintain", "cancel", "authorize"},
         r.after = "idle"
  PROVE  ReleaseInv' /\ Advances
<1>1. /\ ~ isCarrying(r) /\ ~ isPreparing(r)
      /\ r.pc \notin {"delete", "target", "prepare"} /\ r.after # "prepare"
  BY DEF isCarrying, isWriting, isPreparing
<1>. QED BY <1>1, QuietKept DEF isCarrying, runCompared

LEMMA EndKept ==
  ASSUME SequencerInv, PublicationInv, ReleaseInv, SequencerRests,
         NEW p \in Publishers, End(p), stored' = stored
  PROVE  ReleaseInv' /\ Advances
BY IdleFacts, DoneKept DEF End

LEMMA VerdictKept ==
  ASSUME SequencerInv, PublicationInv, ReleaseInv, SequencerRests,
         NEW p \in Publishers, NEW stage \in {"confirm", "maintain", "cancel"},
         NEW m \in Manifests \union {NoManifest},
         AwaitWith(p, stage, m), stored' = stored
  PROVE  ReleaseInv' /\ Advances
<1> DEFINE r == [Idle EXCEPT !.pc = stage, !.epoch = pub[p].epoch, !.manifest = m]
<1>1. r \in Runs /\ r.pc = stage /\ r.after = "idle"
  <2>1. pub[p].epoch \in 0 .. MaxOperationEpoch
    BY RunHolds DEF Runs
  <2>2. stage \in Stages \union {"idle"}
    BY DEF Stages
  <2>. QED BY <2>1, <2>2, IdleFacts, ZenonT(60) DEF Runs
<1>2. pub' = [pub EXCEPT ![p] = r]
  BY DEF AwaitWith
<1>. QED BY <1>1, <1>2, DoneKept

-----------------------------------------------------------------------------
(* A run starts, reads the release it replaces, and compares itself. *)

LEMMA StartPublishKept ==
  ASSUME SequencerInv, PublicationInv, ReleaseInv,
         NEW p \in Publishers, NEW c \in Candidates, StartPublish(p, c)
  PROVE  ReleaseInv' /\ Advances
<1> DEFINE r == [Idle EXCEPT !.pc = "guard", !.manifest = c.manifest,
                    !.ordering = c.ordering, !.active = authority.active]
<1>1. SequencerRests /\ stored' = stored /\ pub' = [pub EXCEPT ![p] = r]
  BY RestFacts DEF StartPublish
<1>2. r \in Runs
  <2>1. c.manifest \in Manifests /\ c.ordering \in 0 .. MaxInstant
    BY PublicationAssumption DEF Instants
  <2>. QED
    BY <2>1, IdleFacts, StageFacts, ActiveSelected, ZenonT(60) DEF Runs
<1>3. r.pc = "guard" /\ r.after = "idle" /\ r.active = authority.active
  BY IdleFacts DEF Runs
<1> HIDE DEF r
<1>4. runCompared(r)
  BY <1>3, CommittedVersions DEF runCompared
<1>5. ~ isCarrying(r)
  BY <1>3 DEF isCarrying, isWriting
<1>. QED BY <1>1, <1>2, <1>3, <1>4, <1>5, QuietKept DEF isCarrying

LEMMA StartRollbackKept ==
  ASSUME SequencerInv, PublicationInv, ReleaseInv,
         NEW p \in Publishers, NEW v \in Versions, StartRollback(p, v)
  PROVE  ReleaseInv' /\ Advances
<1> DEFINE r == [Idle EXCEPT !.pc = "target",
                    !.kind = "rollback-republication",
                    !.target = v, !.active = authority.active]
<1>1. SequencerRests /\ stored' = stored /\ pub' = [pub EXCEPT ![p] = r]
  BY RestFacts DEF StartRollback
<1>2. r \in Runs
  BY IdleFacts, StageFacts, ActiveSelected, ZenonT(60) DEF Runs
<1>3. r.pc = "target" /\ r.after = "idle" /\ r.active = authority.active
  BY IdleFacts DEF Runs
<1> HIDE DEF r
<1>4. runCompared(r)
  BY <1>3, CommittedVersions DEF runCompared, isPreparing
<1>5. ~ isCarrying(r)
  BY <1>3 DEF isCarrying, isWriting
<1>. QED BY <1>1, <1>2, <1>3, <1>4, <1>5, QuietKept DEF isCarrying

LEMMA ReadTargetKept ==
  ASSUME SequencerInv, PublicationInv, ReleaseInv, PublicationInv',
         NEW p \in Publishers, ReadTarget(p)
  PROVE  ReleaseInv' /\ Advances
<1> DEFINE v == pub[p].target
           m == [d \in Docs |-> IF d \in stored[v].inventory
                                THEN stored[v].docs[d].revision ELSE NoRevision]
           i == sourceOrderingOf(v)
           r == [pub[p] EXCEPT !.pc = "guard", !.manifest = m,
                    !.target = NoVersion, !.ordering = i]
<1>1. /\ SequencerRests /\ stored' = stored
      /\ pub[p] \in Runs /\ RunReady(pub[p]) /\ pub[p].pc = "target"
  BY RestFacts, RunHolds DEF ReadTarget
<1>2. CASE End(p)
  BY <1>1, <1>2, EndKept
<1>3. CASE pub' = [pub EXCEPT ![p].pc = "guard", ![p].manifest = m,
                     ![p].target = NoVersion, ![p].ordering = i]
  <2> HIDE DEF m, i
  <2>1. pub' = [pub EXCEPT ![p] = r] /\ pub'[p] = r
    BY <1>3 DEF PublicationInv, PublicationTypeOK
  <2>2. r \in Runs
    BY <2>1 DEF PublicationInv, PublicationTypeOK
  <2>3. r.pc = "guard" /\ r.after = "idle" /\ r.active = pub[p].active
    BY <1>1 DEF Runs, RunReady, isDraining
  <2> HIDE DEF r
  <2>4. runCompared(r)
    BY <1>1, <2>3, ComparedHolds DEF runCompared
  <2>5. ~ isCarrying(r)
    BY <2>3 DEF isCarrying, isWriting
  <2>. QED BY <1>1, <2>1, <2>2, <2>3, <2>4, <2>5, QuietKept DEF isCarrying
<1>. QED BY <1>2, <1>3, ZenonT(60) DEF ReadTarget

LEMMA ReadPredecessorKept ==
  ASSUME SequencerInv, PublicationInv, ReleaseInv, PublicationInv',
         NEW p \in Publishers, NEW t \in Generations, ReadPredecessor(p, t)
  PROVE  ReleaseInv' /\ Advances
<1> DEFINE v == pub[p].active
           g == predecessorGuard(v)
           i == publicationInstant(t, v)
           r == [pub[p] EXCEPT !.pc = "prepare", !.guard = g, !.generatedAt = i]
<1>1. /\ SequencerRests /\ stored' = stored
      /\ pub[p] \in Runs /\ RunReady(pub[p]) /\ pub[p].pc = "guard"
  BY RestFacts, RunHolds DEF ReadPredecessor
<1>2. CASE End(p)
  BY <1>1, <1>2, EndKept
<1>3. CASE /\ isContained(g, pub[p].manifest)
           /\ pub' = [pub EXCEPT ![p].pc = "prepare", ![p].guard = g,
                        ![p].generatedAt = i]
  <2>0. isAfter(i, v)
    <3>1. v \in Versions \union {NoVersion} /\ t \in Instants
      BY <1>1, PublicationAssumption DEF Runs
    <3>. QED BY <3>1, InstantIsAfter
  <2> HIDE DEF g, i
  <2>1. pub' = [pub EXCEPT ![p] = r] /\ pub'[p] = r
    BY <1>3 DEF PublicationInv, PublicationTypeOK
  <2>2. r \in Runs
    BY <2>1 DEF PublicationInv, PublicationTypeOK
  <2>3. /\ r.pc = "prepare" /\ r.after = "idle" /\ r.active = v
        /\ r.guard = g /\ r.manifest = pub[p].manifest /\ r.generatedAt = i
    BY <1>1 DEF Runs, RunReady, isDraining
  <2> HIDE DEF r
  <2>4. runCompared(r)
    BY <1>1, <1>3, <2>0, <2>3, ComparedHolds DEF runCompared, isPreparing
  <2>5. ~ isCarrying(r)
    BY <2>3 DEF isCarrying, isWriting
  <2>. QED BY <1>1, <2>1, <2>2, <2>3, <2>4, <2>5, QuietKept DEF isCarrying
<1>. QED BY <1>2, <1>3 DEF ReadPredecessor

-----------------------------------------------------------------------------
(* Cleanup of an orphan *)

LEMMA DrainingKept ==
  ASSUME SequencerInv, PublicationInv, ReleaseInv, SequencerRests,
         NEW p \in Publishers, NEW r \in Runs, pub' = [pub EXCEPT ![p] = r],
         stored' = stored,
         r.epoch = pub[p].epoch, r.manifest = pub[p].manifest,
         r.rows = pub[p].rows, r.unwritten = pub[p].unwritten,
         r.generatedAt = pub[p].generatedAt, r.active = pub[p].active,
         r.guard = pub[p].guard,
         isDraining(r) \/ r.pc \in {"prepare", "document"},
         r.pc = "prepare" \/ r.after = "prepare" =>
           pub[p].pc = "prepare" \/ pub[p].after = "prepare",
         r.pc = "document" \/ r.after = "document" => pub[p].after = "document",
         r.pc = "delete" => r.orphan.candidate \in deletable'
  PROVE  ReleaseInv' /\ Advances
<1>1. /\ isCarrying(r) => isWriting(r)
      /\ isWriting(r) => isWriting(pub[p]) /\ isCarrying(pub[p])
  BY DEF isCarrying, isWriting, isDraining
<1>2. runCompared(r)
  BY ComparedHolds DEF runCompared, isPreparing, isDraining
<1>3. ASSUME isCarrying(r), isPrepared(r.epoch) PROVE runProgress(r)
  <2>1. runProgress(pub[p]) /\ isWriting(pub[p])
    BY <1>1, <1>3, ProgressHolds
  <2>2. r.pc \notin {"inventory", "sidecar", "readback", "finalize"}
    BY DEF isDraining
  <2>. QED BY <2>1, <2>2 DEF runProgress, hasWritten
<1>. QED BY <1>1, <1>2, <1>3, QuietKept

LEMMA DrainFirstKept ==
  ASSUME SequencerInv, PublicationInv, ReleaseInv, PublicationInv',
         SequencerRests, NEW p \in Publishers,
         pub[p].pc = "prepare", DrainFirst(p), stored' = stored
  PROVE  ReleaseInv' /\ Advances
<1> DEFINE o == orphanIn(pendingCleanup)
<1>1. pub[p] \in Runs /\ RunReady(pub[p])
  BY RunHolds
<1>2. CASE pub[p].retried
  <2> DEFINE r == [Idle EXCEPT !.pc = "authorize", !.orphan = o]
  <2> HIDE DEF o
  <2>1. pub' = [pub EXCEPT ![p] = r] /\ pub'[p] = r
    BY <1>2 DEF DrainFirst, o, PublicationInv, PublicationTypeOK
  <2>2. r \in Runs
    BY <2>1 DEF PublicationInv, PublicationTypeOK
  <2>3. r.pc = "authorize" /\ r.after = "idle"
    BY IdleFacts DEF Runs
  <2>. QED BY <2>1, <2>2, <2>3, DoneKept
<1>3. CASE ~ pub[p].retried
  <2> DEFINE r == [[pub[p] EXCEPT !.retried = TRUE, !.after = "prepare"]
                     EXCEPT !.pc = "authorize", !.orphan = o]
  <2> HIDE DEF o
  <2>1. pub' = [pub EXCEPT ![p] = r] /\ pub'[p] = r
    BY <1>3 DEF DrainFirst, o, PublicationInv, PublicationTypeOK
  <2>2. r \in Runs
    BY <2>1 DEF PublicationInv, PublicationTypeOK
  <2>3. /\ r.pc = "authorize" /\ r.after = "prepare"
        /\ r.epoch = pub[p].epoch /\ r.manifest = pub[p].manifest
        /\ r.rows = pub[p].rows /\ r.unwritten = pub[p].unwritten
        /\ r.generatedAt = pub[p].generatedAt /\ r.active = pub[p].active
        /\ r.guard = pub[p].guard
    BY <1>1 DEF Runs
  <2> HIDE DEF r
  <2>. QED BY <2>1, <2>2, <2>3, DrainingKept DEF isDraining
<1>. QED BY <1>2, <1>3

LEMMA ResumeKept ==
  ASSUME SequencerInv, PublicationInv, ReleaseInv, PublicationInv',
         SequencerRests, NEW p \in Publishers,
         isDraining(pub[p]), Resume(p), stored' = stored
  PROVE  ReleaseInv' /\ Advances
<1> DEFINE r == [pub[p] EXCEPT !.pc = pub[p].after, !.after = "idle",
                               !.orphan = NoOrphan]
<1>1. pub[p] \in Runs
  BY RunHolds
<1>2. CASE pub[p].after = "idle"
  BY <1>2, EndKept DEF Resume
<1>3. CASE pub[p].after # "idle"
  <2>1. pub' = [pub EXCEPT ![p] = r] /\ pub'[p] = r
    BY <1>3 DEF Resume, PublicationInv, PublicationTypeOK
  <2>2. r \in Runs
    BY <2>1 DEF PublicationInv, PublicationTypeOK
  <2>3. /\ r.pc = pub[p].after /\ r.after = "idle"
        /\ r.epoch = pub[p].epoch /\ r.manifest = pub[p].manifest
        /\ r.rows = pub[p].rows /\ r.unwritten = pub[p].unwritten
        /\ r.generatedAt = pub[p].generatedAt /\ r.active = pub[p].active
        /\ r.guard = pub[p].guard /\ pub[p].after \in {"prepare", "document"}
    BY <1>1, <1>3 DEF Runs
  <2> HIDE DEF r
  <2>. QED BY <2>1, <2>2, <2>3, DrainingKept
<1>. QED BY <1>2, <1>3

(* The next call of the cleanup, which a deletion is authorized for. *)
LEMMA DrainOnKept ==
  ASSUME SequencerInv, PublicationInv, ReleaseInv, PublicationInv',
         SequencerRests, NEW p \in Publishers,
         NEW stage \in {"delete", "acknowledge"},
         isDraining(pub[p]), Await(p, stage), stored' = stored,
         stage = "delete" => pub[p].orphan.candidate \in deletable'
  PROVE  ReleaseInv' /\ Advances
<1> DEFINE r == [pub[p] EXCEPT !.pc = stage]
<1>1. pub[p] \in Runs
  BY RunHolds
<1>2. pub' = [pub EXCEPT ![p] = r] /\ pub'[p] = r
  BY DEF Await, PublicationInv, PublicationTypeOK
<1>3. r \in Runs
  BY <1>2 DEF PublicationInv, PublicationTypeOK
<1>4. /\ r.pc = stage /\ r.after = pub[p].after
      /\ r.epoch = pub[p].epoch /\ r.manifest = pub[p].manifest
      /\ r.rows = pub[p].rows /\ r.unwritten = pub[p].unwritten
      /\ r.generatedAt = pub[p].generatedAt /\ r.active = pub[p].active
      /\ r.guard = pub[p].guard /\ r.orphan = pub[p].orphan
  BY <1>1 DEF Runs
<1> HIDE DEF r
<1>. QED BY <1>2, <1>3, <1>4, DrainingKept DEF isDraining

LEMMA CallAuthorizeCleanupKept ==
  ASSUME SequencerInv, PublicationInv, ReleaseInv, PublicationInv',
         NEW p \in Publishers, CallAuthorizeCleanup(p)
  PROVE  ReleaseInv' /\ Advances
<1> DEFINE o == pub[p].orphan
<1>1. stored' = stored /\ isDraining(pub[p])
  BY DEF CallAuthorizeCleanup, isDraining
<1>2. CASE AuthorizeCleanup(o.epoch, o.token, o.candidate) /\ Await(p, "delete")
  <2>1. SequencerRests /\ o.candidate \in deletable'
    BY <1>2, RestFacts DEF AuthorizeCleanup
  <2>. QED BY <1>1, <1>2, <2>1, DrainOnKept
<1>3. CASE Resume(p) /\ UNCHANGED <<durable, history>>
  BY <1>1, <1>3, RestFacts, ResumeKept
<1>. QED BY <1>2, <1>3 DEF CallAuthorizeCleanup

LEMMA CallAcknowledgeCleanupKept ==
  ASSUME SequencerInv, PublicationInv, ReleaseInv, PublicationInv',
         NEW p \in Publishers, CallAcknowledgeCleanup(p)
  PROVE  ReleaseInv' /\ Advances
<1>1. stored' = stored /\ isDraining(pub[p]) /\ Resume(p)
  BY DEF CallAcknowledgeCleanup, isDraining
<1>2. SequencerRests
  BY RestFacts DEF CallAcknowledgeCleanup
<1>. QED BY <1>1, <1>2, ResumeKept

-----------------------------------------------------------------------------
(* The calls after the last write *)

LEMMA ReadBackKept ==
  ASSUME SequencerInv, PublicationInv, ReleaseInv, PublicationInv',
         NEW p \in Publishers, ReadBack(p)
  PROVE  ReleaseInv' /\ Advances
<1> DEFINE m == pub[p].manifest
           r == [Idle EXCEPT !.pc = "finalize", !.epoch = pub[p].epoch,
                             !.manifest = m]
<1>1. /\ SequencerRests /\ stored' = stored
      /\ pub[p].pc = "readback" /\ isCarrying(pub[p])
  BY RestFacts DEF ReadBack, isCarrying, isWriting
<1>2. CASE GiveUp(p)
  BY <1>1, <1>2, VerdictKept DEF GiveUp
<1>3. CASE versionIsComplete(p) /\ AwaitWith(p, "finalize", m)
  <2>1. pub' = [pub EXCEPT ![p] = r] /\ pub'[p] = r
    BY <1>3 DEF AwaitWith, PublicationInv, PublicationTypeOK
  <2>2. r \in Runs
    BY <2>1 DEF PublicationInv, PublicationTypeOK
  <2>3. /\ r.pc = "finalize" /\ r.after = "idle" /\ r.manifest = m
        /\ r.epoch = pub[p].epoch /\ r.unwritten = {}
    BY DEF Idle
  <2> HIDE DEF r
  <2>4. ASSUME isPrepared(r.epoch) PROVE runProgress(r)
    <3>1. runProgress(pub[p])
      BY <1>1, <2>3, <2>4, ProgressHolds
    <3>2. candidateOf(p) = candidateVersionForEpoch(r.epoch)
      BY <2>3 DEF candidateOf
    <3>3. \A d \in namesOf(m) :
            stored[candidateVersionForEpoch(r.epoch)].docs[d] # NoDocument
      BY <1>3, <3>2 DEF versionIsComplete
    <3>. QED
      BY <1>1, <2>3, <3>1, <3>3 DEF runProgress, hasWritten, isWriting
  <2>5. runCompared(r) /\ ~ isWriting(r)
    BY <2>3 DEF runCompared, isPreparing, isWriting
  <2>. QED BY <1>1, <2>1, <2>2, <2>3, <2>4, <2>5, QuietKept
<1>. QED BY <1>1, <1>2, <1>3 DEF ReadBack

LEMMA UnansweredKept ==
  ASSUME SequencerInv, PublicationInv, ReleaseInv, PublicationInv',
         SequencerRests, NEW p \in Publishers,
         pub[p].pc = "finalize", Unanswered(p), stored' = stored
  PROVE  ReleaseInv' /\ Advances
<1> DEFINE r == [pub[p] EXCEPT !.redriven = TRUE]
<1>1. pub[p] \in Runs /\ RunReady(pub[p])
  BY RunHolds
<1>2. CASE pub[p].redriven
  BY <1>2, VerdictKept DEF Unanswered
<1>3. CASE ~ pub[p].redriven
  <2>1. pub' = [pub EXCEPT ![p] = r] /\ pub'[p] = r
    BY <1>3 DEF Unanswered, PublicationInv, PublicationTypeOK
  <2>2. r \in Runs
    BY <2>1 DEF PublicationInv, PublicationTypeOK
  <2>3. /\ r.pc = "finalize" /\ r.after = "idle"
        /\ r.epoch = pub[p].epoch /\ r.manifest = pub[p].manifest
        /\ r.unwritten = pub[p].unwritten
    BY <1>1 DEF Runs, RunReady, isDraining
  <2> HIDE DEF r
  <2>4. isCarrying(pub[p]) /\ ~ isWriting(r) /\ runCompared(r)
    BY <2>3 DEF isCarrying, isWriting, runCompared, isPreparing
  <2>5. ASSUME isPrepared(r.epoch) PROVE runProgress(r)
    BY <2>3, <2>4, <2>5, ProgressHolds DEF runProgress, hasWritten
  <2>. QED BY <2>1, <2>2, <2>3, <2>4, <2>5, QuietKept
<1>. QED BY <1>2, <1>3

LEMMA ConfirmCommitKept ==
  ASSUME SequencerInv, PublicationInv, ReleaseInv,
         NEW p \in Publishers, ConfirmCommit(p)
  PROVE  ReleaseInv' /\ Advances
<1>1. SequencerRests /\ stored' = stored
  BY RestFacts DEF ConfirmCommit
<1>. QED BY <1>1, EndKept, VerdictKept DEF ConfirmCommit, Applied

LEMMA CallCancelKept ==
  ASSUME SequencerInv, PublicationInv, ReleaseInv, PublicationInv',
         NEW p \in Publishers, CallCancel(p)
  PROVE  ReleaseInv' /\ Advances
<1> DEFINE e == pub[p].epoch
           o == [epoch |-> e, token |-> e, candidate |-> candidateOf(p)]
           r == [Idle EXCEPT !.pc = "authorize", !.orphan = o]
<1>1. SequencerRests /\ stored' = stored
  BY RestFacts DEF CallCancel
<1> HIDE DEF o
<1>2. pub' = [pub EXCEPT ![p] = r] /\ pub'[p] = r
  BY DEF CallCancel, o, PublicationInv, PublicationTypeOK
<1>3. r \in Runs
  BY <1>2 DEF PublicationInv, PublicationTypeOK
<1>4. r.pc = "authorize" /\ r.after = "idle"
  BY DEF Idle
<1>. QED BY <1>1, <1>2, <1>3, <1>4, DoneKept

-----------------------------------------------------------------------------
(* Writes to KV *)

(* A run writes to a version of its own, which has not committed. *)
LEMMA OwnVersion ==
  ASSUME SequencerInv, PublicationInv, ReleaseInv,
         NEW p \in Publishers, isWriting(pub[p])
  PROVE  /\ isCarrying(pub[p])
         /\ pub[p].epoch \in Epochs
         /\ candidateOf(p) = candidateVersionForEpoch(pub[p].epoch)
         /\ candidateOf(p) \in Versions
         /\ ~ isCommitted(candidateOf(p))
         /\ \A q \in Publishers \ {p} : isCarrying(pub[q]) =>
              candidateOf(q) # candidateOf(p)
         /\ \A e \in Epochs : e # pub[p].epoch =>
              candidateVersionForEpoch(e) # candidateOf(p)
<1>1. isCarrying(pub[p])
  BY DEF isCarrying
<1>2. pub[p].epoch \notin commitEpochs
  BY DEF ReleaseInv, WritersUncommitted
<1>3. \A q \in Publishers \ {p} : isCarrying(pub[q]) =>
        /\ pub[q].epoch # pub[p].epoch /\ pub[q].epoch \in Epochs
        /\ candidateOf(q) = candidateVersionForEpoch(pub[q].epoch)
  BY <1>1, CarryingFacts DEF ReleaseInv, CarriersDiffer
<1>4. /\ pub[p].epoch \in Epochs
      /\ candidateOf(p) = candidateVersionForEpoch(pub[p].epoch)
      /\ candidateOf(p) \in Versions
  BY <1>1, CarryingFacts
<1>5. \A d, e \in Epochs :
        candidateVersionForEpoch(d) = candidateVersionForEpoch(e) => d = e
  BY VersionFacts
<1>6. ~ isCommitted(candidateOf(p))
  BY <1>2, <1>4, CommittedEpoch
<1>. QED BY <1>1, <1>3, <1>4, <1>5, <1>6

LEMMA StoreKept ==
  ASSUME SequencerInv, PublicationInv, ReleaseInv,
         NEW p \in Publishers, isWriting(pub[p]), NEW release,
         NEW r \in Runs, pub' = [pub EXCEPT ![p] = r],
         UNCHANGED <<durable, history>>,
         stored' = [stored EXCEPT ![candidateOf(p)] = release],
         isCarrying(r) => r.epoch = pub[p].epoch,
         r.pc \notin {"target", "guard", "prepare", "delete"},
         r.after # "prepare",
         isPrepared(pub[p].epoch) =>
           \A d \in Docs : release.docs[d] # NoDocument =>
             /\ release.docs[d].revision = prepared[d].revision
             /\ release.docs[d].observedAt = prepared[d].observedAt
             /\ isAfter(release.docs[d].generatedAt, authority.active),
         isCarrying(r) /\ isPrepared(r.epoch) =>
           /\ \A d \in Docs : prepared[d].revision = r.manifest[d]
           /\ isWriting(r) =>
                r.rows = prepared /\ isAfter(r.generatedAt, authority.active)
           /\ hasWritten(r, release)
  PROVE  ReleaseInv' /\ Advances
<1>1. SequencerRests /\ UNCHANGED <<authority, operation, prepared>>
  BY RestFacts DEF durable
<1>2. /\ \A v \in Versions : isCommitted(v) => stored'[v] = stored[v]
      /\ \A q \in Publishers \ {p} : isCarrying(pub[q]) =>
           stored'[candidateOf(q)] = stored[candidateOf(q)]
      /\ \A e \in Epochs : e # pub[p].epoch =>
           stored'[candidateVersionForEpoch(e)] = stored[candidateVersionForEpoch(e)]
      /\ stored'[candidateVersionForEpoch(pub[p].epoch)] = release
  <2>1. stored \in [Versions -> Releases]
    BY DEF PublicationInv, PublicationTypeOK
  <2>2. \A e \in Epochs : candidateVersionForEpoch(e) \in Versions
    BY VersionFacts DEF Versions
  <2>3. \A q \in Publishers : isCarrying(pub[q]) => candidateOf(q) \in Versions
    BY CarryingFacts
  <2>. QED BY <2>1, <2>2, <2>3, OwnVersion
<1>3. authority.active # NoVersion =>
        stored'[authority.active] = stored[authority.active]
  BY <1>2, CommittedVersions DEF SequencerInv, TypeOK
<1>4. isCarrying(r) /\ isPrepared(r.epoch)' => runProgress(r)'
  <2> SUFFICES ASSUME isCarrying(r), isPrepared(r.epoch)' PROVE runProgress(r)'
    OBVIOUS
  <2>1. isPrepared(r.epoch) /\ r.epoch = pub[p].epoch
    BY <1>1 DEF isPrepared
  <2>. QED
    BY <1>1, <1>2, <1>3, <2>1
       DEF runProgress, hasWritten, isAfter, candidateVersionForEpoch
<1>5. CandidateMatchesPrepared'
  <2> SUFFICES ASSUME NEW e \in Epochs, isPrepared(e)'
               PROVE  LET kept == stored'[candidateVersionForEpoch(e)] IN
                      \A d \in Docs : kept.docs[d] # NoDocument =>
                        /\ kept.docs[d].revision = prepared[d].revision
                        /\ kept.docs[d].observedAt = prepared[d].observedAt
                        /\ isAfter(kept.docs[d].generatedAt, authority.active)
    BY <1>1, <1>3
       DEF CandidateMatchesPrepared, isAfter, candidateVersionForEpoch
  <2>1. isPrepared(e)
    BY <1>1 DEF isPrepared
  <2>2. CASE e = pub[p].epoch
    BY <1>2, <2>1, <2>2
  <2>3. CASE e # pub[p].epoch
    BY <1>2, <2>1, <2>3 DEF ReleaseInv, CandidateMatchesPrepared
  <2>. QED BY <2>2, <2>3
<1>6. runCompared(r)'
  BY DEF runCompared, isPreparing
<1>. QED
  BY <1>1, <1>2, <1>4, <1>5, <1>6, OwnVersion, KeptStep

(* A write that fails may still have landed: the run then only gives up. *)
LEMMA PutKept ==
  ASSUME SequencerInv, PublicationInv, ReleaseInv,
         NEW p \in Publishers, isWriting(pub[p]), NEW release, NEW r \in Runs,
         Put(p, release, [pub EXCEPT ![p] = r]),
         r.epoch = pub[p].epoch, r.manifest = pub[p].manifest,
         r.rows = pub[p].rows, r.generatedAt = pub[p].generatedAt,
         r.pc \in {"document", "inventory", "sidecar", "readback"},
         r.after = "idle",
         isPrepared(pub[p].epoch) =>
           /\ \A d \in Docs : release.docs[d] # NoDocument =>
                /\ release.docs[d].revision = prepared[d].revision
                /\ release.docs[d].observedAt = prepared[d].observedAt
                /\ isAfter(release.docs[d].generatedAt, authority.active)
           /\ hasWritten(r, release)
  PROVE  ReleaseInv' /\ Advances
<1>1. UNCHANGED <<durable, history>>
  BY DEF Put
<1>2. isPrepared(pub[p].epoch) => runProgress(pub[p])
  BY OwnVersion, ProgressHolds
<1>3. CASE /\ stored' = [stored EXCEPT ![candidateOf(p)] = release]
           /\ pub' = [pub EXCEPT ![p] = r]
  <2>1. /\ isCarrying(r) => r.epoch = pub[p].epoch
        /\ r.pc \notin {"target", "guard", "prepare", "delete"}
        /\ r.after # "prepare"
    OBVIOUS
  <2>2. isCarrying(r) /\ isPrepared(r.epoch) =>
          /\ \A d \in Docs : prepared[d].revision = r.manifest[d]
          /\ isWriting(r) => r.rows = prepared /\ isAfter(r.generatedAt, authority.active)
          /\ hasWritten(r, release)
    BY <1>2, Zenon DEF runProgress
  <2>. QED BY <1>1, <1>3, <2>1, <2>2, StoreKept, Zenon
<1>4. CASE stored' = stored /\ GiveUp(p)
  BY <1>1, <1>4, RestFacts, VerdictKept DEF GiveUp
<1>5. CASE stored' = [stored EXCEPT ![candidateOf(p)] = release] /\ GiveUp(p)
  <2> DEFINE x == [Idle EXCEPT !.pc = "cancel", !.epoch = pub[p].epoch,
                               !.manifest = NoManifest]
  <2>1. x \in Runs /\ x.pc = "cancel" /\ x.after = "idle"
    <3>1. pub[p].epoch \in 0 .. MaxOperationEpoch
      BY RunHolds DEF Runs
    <3>2. x.pc = "cancel" /\ x.after = "idle"
      BY DEF Idle
    <3>3. x \in Runs
      BY <3>1, CancelFacts, ZenonT(60)
    <3>. QED BY <3>2, <3>3
  <2>2. pub' = [pub EXCEPT ![p] = x]
    BY <1>5 DEF GiveUp, AwaitWith
  <2> HIDE DEF x
  <2>3. ~ isCarrying(x)
    BY <2>1 DEF isCarrying, isWriting
  <2>. QED BY <1>1, <1>5, <2>1, <2>2, <2>3, StoreKept
<1>. QED BY <1>3, <1>4, <1>5 DEF Put

(* What the run has written so far is what was assigned to it. *)
LEMMA WritingProgress ==
  ASSUME SequencerInv, PublicationInv, ReleaseInv,
         NEW p \in Publishers, isWriting(pub[p]), isPrepared(pub[p].epoch)
  PROVE  /\ \A d \in Docs : prepared[d].revision = pub[p].manifest[d]
         /\ pub[p].rows = prepared
         /\ isAfter(pub[p].generatedAt, authority.active)
         /\ hasWritten(pub[p], stored[candidateOf(p)])
         /\ \A d \in Docs : stored[candidateOf(p)].docs[d] # NoDocument =>
              /\ stored[candidateOf(p)].docs[d].revision = prepared[d].revision
              /\ stored[candidateOf(p)].docs[d].observedAt
                   = prepared[d].observedAt
              /\ isAfter(stored[candidateOf(p)].docs[d].generatedAt,
                         authority.active)
<1>1. runProgress(pub[p])
  BY OwnVersion, ProgressHolds
<1>2. /\ pub[p].epoch \in Epochs
      /\ candidateOf(p) = candidateVersionForEpoch(pub[p].epoch)
  BY OwnVersion
<1>. QED
  BY <1>1, <1>2 DEF runProgress, ReleaseInv, CandidateMatchesPrepared

LEMMA WriteDocumentKept ==
  ASSUME SequencerInv, PublicationInv, ReleaseInv,
         NEW p \in Publishers, WriteDocument(p)
  PROVE  ReleaseInv' /\ Advances
<1> DEFINE d == CHOOSE d \in pub[p].unwritten : TRUE
           old == stored[candidateOf(p)]
           release == [old EXCEPT !.docs[d] = bakedDocument(p, d)]
           stage == IF pub[p].unwritten = {d} THEN "inventory" ELSE "document"
           r == [pub[p] EXCEPT !.unwritten = @ \ {d}, !.pc = stage]
<1>1. /\ pub[p] \in Runs /\ RunReady(pub[p])
      /\ pub[p].pc = "document" /\ isWriting(pub[p])
  BY RunHolds DEF WriteDocument, isWriting
<1>2. /\ d \in pub[p].unwritten /\ d \in Docs
      /\ pub[p].manifest[d] # NoRevision
  BY <1>1 DEF RunReady, namesOf
<1>3. /\ release.docs = [old.docs EXCEPT ![d] = bakedDocument(p, d)]
      /\ release.inventory = old.inventory /\ release.sidecar = old.sidecar
      /\ old.docs \in [Docs -> Documents]
  BY <1>1, WritingFacts DEF Releases
<1>4. /\ bakedDocument(p, d).revision = pub[p].rows[d].revision
      /\ bakedDocument(p, d).observedAt = pub[p].rows[d].observedAt
      /\ bakedDocument(p, d).generatedAt = pub[p].generatedAt
      /\ bakedDocument(p, d) # NoDocument
  BY <1>1, <1>2 DEF bakedDocument, NoDocument, RunReady
<1>5. Put(p, release, [pub EXCEPT ![p] = r])
  <2>1. r = [pub[p] EXCEPT !.unwritten = @ \ {d},
               !.pc = IF pub[p].unwritten = {d} THEN "inventory" ELSE @]
    BY <1>1
  <2>. QED BY <2>1 DEF WriteDocument
<1> HIDE DEF d, old, release
<1>6. /\ r.pc = stage /\ r.unwritten = pub[p].unwritten \ {d}
      /\ r.epoch = pub[p].epoch /\ r.manifest = pub[p].manifest
      /\ r.rows = pub[p].rows /\ r.generatedAt = pub[p].generatedAt
      /\ r.after = "idle"
  BY <1>1 DEF Runs, RunReady, isDraining
<1>7. r \in Runs
  BY <1>1, StageFacts, ZenonT(60) DEF Runs
<1> HIDE DEF r
<1>8. /\ stage \in {"document", "inventory"}
      /\ stage = "inventory" => pub[p].unwritten \ {d} = {}
  OBVIOUS
<1> HIDE DEF stage
<1>9. ASSUME isPrepared(pub[p].epoch)
      PROVE  /\ \A c \in Docs : release.docs[c] # NoDocument =>
                  /\ release.docs[c].revision = prepared[c].revision
                  /\ release.docs[c].observedAt = prepared[c].observedAt
                  /\ isAfter(release.docs[c].generatedAt, authority.active)
             /\ hasWritten(r, release)
  <2>1. /\ pub[p].rows = prepared
        /\ isAfter(pub[p].generatedAt, authority.active)
        /\ hasWritten(pub[p], old)
        /\ \A c \in Docs : old.docs[c] # NoDocument =>
             /\ old.docs[c].revision = prepared[c].revision
             /\ old.docs[c].observedAt = prepared[c].observedAt
             /\ isAfter(old.docs[c].generatedAt, authority.active)
    BY <1>1, <1>9, WritingProgress DEF old
  <2>2. ASSUME NEW c \in Docs, release.docs[c] # NoDocument
        PROVE  /\ release.docs[c].revision = prepared[c].revision
               /\ release.docs[c].observedAt = prepared[c].observedAt
               /\ isAfter(release.docs[c].generatedAt, authority.active)
    <3>1. CASE c = d
      BY <1>2, <1>3, <1>4, <2>1, <3>1
    <3>2. CASE c # d
      BY <1>2, <1>3, <2>1, <2>2, <3>2
    <3>. QED BY <3>1, <3>2
  <2>3. \A c \in namesOf(r.manifest) \ r.unwritten : release.docs[c] # NoDocument
    <3> SUFFICES ASSUME NEW c \in namesOf(r.manifest) \ r.unwritten, c # d
                 PROVE  release.docs[c] # NoDocument
      BY <1>2, <1>3, <1>4
    <3>1. c \in namesOf(pub[p].manifest) \ pub[p].unwritten /\ c \in Docs
      BY <1>6 DEF namesOf
    <3>2. old.docs[c] # NoDocument
      BY <2>1, <3>1 DEF hasWritten
    <3>. QED BY <1>2, <1>3, <3>1, <3>2
  <2>4. hasWritten(r, release)
    BY <1>6, <1>8, <2>3 DEF hasWritten
  <2>. QED BY <2>2, <2>4
<1>. QED BY <1>1, <1>5, <1>6, <1>7, <1>8, <1>9, PutKept

LEMMA WriteInventoryKept ==
  ASSUME SequencerInv, PublicationInv, ReleaseInv,
         NEW p \in Publishers, WriteInventory(p)
  PROVE  ReleaseInv' /\ Advances
<1> DEFINE old == stored[candidateOf(p)]
           release == [old EXCEPT !.inventory = namesOf(pub[p].manifest)]
           r == [pub[p] EXCEPT !.pc = "sidecar"]
<1>1. /\ pub[p] \in Runs /\ RunReady(pub[p])
      /\ pub[p].pc = "inventory" /\ isWriting(pub[p])
  BY RunHolds DEF WriteInventory, isWriting
<1>2. /\ release.docs = old.docs
      /\ release.inventory = namesOf(pub[p].manifest)
  BY <1>1, WritingFacts DEF Releases
<1>3. /\ r.pc = "sidecar" /\ r.unwritten = pub[p].unwritten
      /\ r.epoch = pub[p].epoch /\ r.manifest = pub[p].manifest
      /\ r.rows = pub[p].rows /\ r.generatedAt = pub[p].generatedAt
      /\ r.after = "idle" /\ r \in Runs
  BY <1>1 DEF Runs, Stages, RunReady, isDraining
<1>4. Put(p, release, [pub EXCEPT ![p] = r])
  <2>1. [pub EXCEPT ![p].pc = "sidecar"] = [pub EXCEPT ![p] = r]
    BY DEF PublicationInv, PublicationTypeOK
  <2>. QED BY <2>1 DEF WriteInventory
<1> HIDE DEF r, release, old
<1>5. ASSUME isPrepared(pub[p].epoch)
      PROVE  /\ \A c \in Docs : release.docs[c] # NoDocument =>
                  /\ release.docs[c].revision = prepared[c].revision
                  /\ release.docs[c].observedAt = prepared[c].observedAt
                  /\ isAfter(release.docs[c].generatedAt, authority.active)
             /\ hasWritten(r, release)
  BY <1>1, <1>2, <1>3, <1>5, WritingProgress DEF old, hasWritten
<1>. QED BY <1>1, <1>3, <1>4, <1>5, PutKept

LEMMA WriteSidecarKept ==
  ASSUME SequencerInv, PublicationInv, ReleaseInv,
         NEW p \in Publishers, WriteSidecar(p)
  PROVE  ReleaseInv' /\ Advances
<1> DEFINE old == stored[candidateOf(p)]
           release == [old EXCEPT !.sidecar = pub[p].ordering]
           r == [pub[p] EXCEPT !.pc = "readback"]
<1>1. /\ pub[p] \in Runs /\ RunReady(pub[p])
      /\ pub[p].pc = "sidecar" /\ isWriting(pub[p])
  BY RunHolds DEF WriteSidecar, isWriting
<1>2. /\ release.docs = old.docs /\ release.inventory = old.inventory
      /\ release.sidecar # NoInstant
  <2>1. pub[p].ordering \in Instants
    BY <1>1 DEF RunReady
  <2>2. pub[p].ordering # NoInstant
    BY <2>1, SequencerAssumption, SMT DEF Instants, NoInstant
  <2>. QED BY <1>1, <2>2, WritingFacts DEF Releases
<1>3. /\ r.pc = "readback" /\ r.unwritten = pub[p].unwritten
      /\ r.epoch = pub[p].epoch /\ r.manifest = pub[p].manifest
      /\ r.rows = pub[p].rows /\ r.generatedAt = pub[p].generatedAt
      /\ r.after = "idle" /\ r \in Runs
  BY <1>1 DEF Runs, Stages, RunReady, isDraining
<1>4. [pub EXCEPT ![p].pc = "readback"] = [pub EXCEPT ![p] = r]
  BY DEF PublicationInv, PublicationTypeOK
<1> HIDE DEF r, release
<1>5. ASSUME isPrepared(pub[p].epoch)
      PROVE  /\ \A c \in Docs : release.docs[c] # NoDocument =>
                  /\ release.docs[c].revision = prepared[c].revision
                  /\ release.docs[c].observedAt = prepared[c].observedAt
                  /\ isAfter(release.docs[c].generatedAt, authority.active)
             /\ hasWritten(r, release)
  BY <1>1, <1>2, <1>3, <1>5, WritingProgress DEF hasWritten
<1>6. CASE Put(p, release, [pub EXCEPT ![p] = r])
  BY <1>1, <1>3, <1>5, <1>6, PutKept
<1>7. CASE GiveUp(p) /\ UNCHANGED <<durable, history, stored>>
  BY <1>7, RestFacts, VerdictKept DEF GiveUp
<1>8. \/ Put(p, release, [pub EXCEPT ![p] = r])
      \/ GiveUp(p) /\ UNCHANGED <<durable, history, stored>>
  BY <1>4 DEF WriteSidecar, release
<1>. QED BY <1>6, <1>7, <1>8

(* A deletion takes a version that can neither commit nor have committed. *)
LEMMA DeleteCandidateKept ==
  ASSUME SequencerInv, PublicationInv, ReleaseInv, PublicationInv',
         NEW p \in Publishers, DeleteCandidate(p)
  PROVE  ReleaseInv' /\ Advances
<1> DEFINE v == pub[p].orphan.candidate
           next == [pub[p] EXCEPT !.pc = "acknowledge"]
<1>1. /\ SequencerRests /\ UNCHANGED <<durable, history>>
      /\ pub[p].pc = "delete" /\ isDraining(pub[p]) /\ Await(p, "acknowledge")
  BY RestFacts DEF DeleteCandidate, isDraining
<1>2. CASE stored' = stored
  BY <1>1, <1>2, DrainOnKept
<1>3. ASSUME NEW docs \in Survivors,
             stored' = [stored EXCEPT ![v] = sweptOf(stored[v], docs)]
      PROVE  ReleaseInv' /\ Advances
  <2>1. /\ v \in deletable /\ v \in AllocatedVersions
        /\ v.id \in Epochs /\ v = candidateVersionForEpoch(v.id)
        /\ v.id \notin commitEpochs
        /\ operation.phase = "prepared" => operation.epoch # v.id
    BY <1>1, VersionFacts
       DEF ReleaseInv, DeletionsAuthorized, SequencerInv, TypeOK,
           DeletableRetired
  <2>2. \A c \in Versions : isCommitted(c) => stored'[c] = stored[c]
    BY <1>3, <2>1, CommittedEpoch DEF PublicationInv, PublicationTypeOK
  <2>3. /\ pub[p] \in Runs /\ RunReady(pub[p])
        /\ pub' = [pub EXCEPT ![p] = next] /\ pub'[p] = next
    BY <1>1, RunHolds DEF Await, PublicationInv, PublicationTypeOK
  <2>4. PICK r \in Runs : r = next
    BY <2>3 DEF PublicationInv, PublicationTypeOK
  <2>5. /\ r.pc = "acknowledge" /\ r.after = pub[p].after
        /\ r.epoch = pub[p].epoch /\ r.manifest = pub[p].manifest
        /\ r.rows = pub[p].rows /\ r.unwritten = pub[p].unwritten
        /\ r.generatedAt = pub[p].generatedAt /\ r.active = pub[p].active
        /\ r.guard = pub[p].guard
    BY <2>3, <2>4 DEF Runs
  <2> HIDE DEF v, next
  <2>6. \A e \in Epochs : isPrepared(e) =>
          stored'[candidateVersionForEpoch(e)] = stored[candidateVersionForEpoch(e)]
    <3>1. \A e \in Epochs : isPrepared(e) =>
            /\ candidateVersionForEpoch(e) # v
            /\ candidateVersionForEpoch(e) \in Versions
      BY <2>1, VersionFacts DEF isPrepared, Versions
    <3>. QED BY <1>3, <3>1 DEF PublicationInv, PublicationTypeOK
  <2>7. \A q \in Publishers : isCarrying(pub[q]) /\ isPrepared(pub[q].epoch) =>
          stored'[candidateOf(q)] = stored[candidateOf(q)]
    BY <2>6, CarryingFacts
  <2>8. UNCHANGED <<authority, operation, prepared, commitEpochs>>
    BY <1>1 DEF durable, history
  <2>9. authority.active # NoVersion =>
          stored'[authority.active] = stored[authority.active]
    BY <2>2, CommittedVersions DEF SequencerInv, TypeOK
  <2>10. (r.pc = "target" \/ isPreparing(r)) /\ r.active # NoVersion =>
           isCommitted(r.active) /\ stored'[r.active] = stored[r.active]
    BY <2>2, <2>4, <2>5, ComparedHolds DEF runCompared, isPreparing, Runs
  <2>11. runCompared(r)'
    BY <2>5, <2>8, <2>10, ComparedHolds
       DEF runCompared, isPreparing, isCommitted, isAfter, isContained
  <2>12. isCarrying(r) => isWriting(r) /\ isCarrying(pub[p]) /\ isWriting(pub[p])
    BY <2>5 DEF isCarrying, isWriting
  <2>13. isCarrying(r) /\ isPrepared(r.epoch)' => runProgress(r)'
    <3> SUFFICES ASSUME isCarrying(r), isPrepared(r.epoch)' PROVE runProgress(r)'
      OBVIOUS
    <3>1. isPrepared(pub[p].epoch)
      BY <2>5, <2>8 DEF isPrepared
    <3>2. runProgress(pub[p]) /\ candidateOf(p) = candidateVersionForEpoch(r.epoch)
      BY <2>5, <2>12, <3>1, ProgressHolds DEF candidateOf
    <3>3. stored'[candidateVersionForEpoch(r.epoch)]
            = stored[candidateVersionForEpoch(r.epoch)]
      BY <2>7, <2>12, <3>1, <3>2
    <3>4. /\ \A d \in Docs : prepared[d].revision = r.manifest[d]
          /\ r.rows = prepared /\ isAfter(r.generatedAt, authority.active)
          /\ \A d \in namesOf(r.manifest) \ r.unwritten :
               stored[candidateVersionForEpoch(r.epoch)].docs[d] # NoDocument
      BY <2>5, <2>12, <3>2 DEF runProgress, hasWritten
    <3>. QED
      BY <2>5, <2>8, <2>9, <3>3, <3>4
         DEF runProgress, hasWritten, isAfter, candidateVersionForEpoch
  <2>14. CandidateMatchesPrepared'
    <3> SUFFICES ASSUME NEW e \in Epochs, isPrepared(e)'
                 PROVE  LET kept == stored'[candidateVersionForEpoch(e)] IN
                        \A d \in Docs : kept.docs[d] # NoDocument =>
                          /\ kept.docs[d].revision = prepared[d].revision
                          /\ kept.docs[d].observedAt = prepared[d].observedAt
                          /\ isAfter(kept.docs[d].generatedAt, authority.active)
      BY <2>8, <2>9
         DEF CandidateMatchesPrepared, isAfter, candidateVersionForEpoch
    <3>1. isPrepared(e)
      BY <2>8 DEF isPrepared
    <3>. QED BY <2>6, <3>1 DEF ReleaseInv, CandidateMatchesPrepared
  <2>15. r.pc # "delete" /\ (isWriting(r) => isWriting(pub[p]))
    BY <2>5 DEF isWriting
  <2>. QED
    BY <1>1, <2>2, <2>3, <2>4, <2>5, <2>7, <2>11, <2>12, <2>13, <2>14, <2>15,
       KeptStep
<1>. QED BY <1>2, <1>3 DEF DeleteCandidate

-----------------------------------------------------------------------------
(* prepare allocates an epoch no run carries and a version KV holds nothing
   of, for a candidate that was compared with the release it would replace. *)

LEMMA PreparedKept ==
  ASSUME SequencerInv, PublicationInv, ReleaseInv,
         NEW p \in Publishers, NEW t, pub[p].pc = "prepare",
         Prepare(prepareRequest(p), t), stored' = stored,
         NEW r \in Runs, pub' = [pub EXCEPT ![p] = r],
         r.pc \in {"idle", "authorize", "document"},
         r.after \in {"idle", "document"},
         isCarrying(r) =>
           /\ r.epoch = authority.lastEpoch + 1
           /\ r.manifest = pub[p].manifest
           /\ r.rows = assignObservationTimestamps(pub[p].manifest, t)
           /\ r.generatedAt = pub[p].generatedAt
           /\ r.unwritten = namesOf(pub[p].manifest)
  PROVE  ReleaseInv' /\ Advances
<1> DEFINE e == authority.lastEpoch + 1
           m == pub[p].manifest
           rows == assignObservationTimestamps(m, t)
<1>1. /\ pub[p] \in Runs /\ m \in Manifests
      /\ runCompared(pub[p])
  BY RunHolds, ComparedHolds DEF RunReady, isPreparing
<1>2. /\ authority.active = pub[p].active
      /\ e \in Epochs
      /\ \A d \in ResultsDocs : committed[d].revision = pub[p].guard[d]
  <2>1. PrepareAnswer(prepareRequest(p), t) = "prepared"
    BY DEF Prepare
  <2>2. /\ prepareRequest(p).expectedVersion = pub[p].active
        /\ prepareRequest(p).expectedGuard = pub[p].guard
    BY DEF prepareRequest
  <2>3. committedGuardRowsMatch(pub[p].guard)
    BY <2>1, <2>2 DEF PrepareAnswer
  <2>. QED BY <2>1, <2>2, <2>3, PrepareAdmits DEF committedGuardRowsMatch
<1>3. /\ authority'.active = authority.active
      /\ authority'.previous = authority.previous
      /\ UNCHANGED <<committed, commitEpochs, deletable>>
      /\ operation'.phase = "prepared" /\ operation'.epoch = e
      /\ prepared' = rows
  BY DEF Prepare, history, SequencerInv, TypeOK, prepareRequest
<1>4. \A d \in Docs : rows[d].revision = m[d]
  BY <1>1, AssignedRevisions
<1>5. /\ authority.lastEpoch \in Nat /\ e \in Nat
      /\ ~ (e <= authority.lastEpoch)
  BY EpochIsNat, SMT DEF SequencerInv
<1>6. e \notin commitEpochs
  BY <1>5 DEF SequencerInv, CommitsAllocated
<1>7. stored[candidateVersionForEpoch(e)] = NoRelease
  BY <1>2, <1>5 DEF PublicationInv, OneManifestPerVersion
<1> HIDE DEF e, m, rows
<1>8. /\ \A q \in Publishers \ {p} : pub'[q] = pub[q]
      /\ pub'[p] = r
  BY RunChanges
<1>9. \A q \in Publishers : isCarrying(pub[q]) => pub[q].epoch # e
  BY <1>5, CarryingFacts
<1>10. CarriersDiffer'
  <2>1. \A q \in Publishers : isCarrying(pub[q])' =>
          IF q = p THEN pub'[q].epoch = e
          ELSE isCarrying(pub[q]) /\ pub'[q].epoch = pub[q].epoch
    BY <1>8 DEF isCarrying, isWriting, e
  <2>. QED BY <1>9, <2>1 DEF ReleaseInv, CarriersDiffer
<1>11. WritersUncommitted'
  <2> SUFFICES ASSUME NEW q \in Publishers, isWriting(pub[q])'
               PROVE  pub'[q].epoch \notin commitEpochs
    BY <1>3 DEF WritersUncommitted
  <2>1. CASE q = p
    <3>1. isCarrying(r)
      BY <1>8, <2>1 DEF isCarrying, isWriting
    <3>. QED BY <1>6, <1>8, <2>1, <3>1 DEF e
  <2>2. CASE q # p
    BY <1>8, <2>2 DEF ReleaseInv, WritersUncommitted, isWriting
  <2>. QED BY <2>1, <2>2
<1>12. DeletionsAuthorized'
  BY <1>3, <1>8 DEF ReleaseInv, DeletionsAuthorized
<1>13. RunsCompared'
  <2> SUFFICES ASSUME NEW q \in Publishers
               PROVE  \E x \in Runs : pub'[q] = x /\ runCompared(x)'
    BY DEF RunsCompared
  <2>1. CASE q = p
    <3>1. runCompared(r)'
      BY DEF runCompared, isPreparing
    <3>. QED BY <1>8, <2>1, <3>1
  <2>2. CASE q # p
    <3>1. PICK x \in Runs : x = pub[q]
      BY RunHolds
    <3>2. runCompared(x)'
      BY <1>3, <3>1, ComparedHolds
         DEF runCompared, isCommitted, isAfter, isContained, isPreparing
    <3>. QED BY <1>8, <2>2, <3>1, <3>2
  <2>. QED BY <2>1, <2>2
<1>14. RunsProgress'
  <2> SUFFICES ASSUME NEW q \in Publishers
               PROVE  \E x \in Runs :
                        /\ pub'[q] = x
                        /\ isCarrying(x) /\ isPrepared(x.epoch)' =>
                             runProgress(x)'
    BY DEF RunsProgress, isCarrying, isWriting
  <2>1. CASE q = p
    <3>1. ASSUME isCarrying(r) PROVE runProgress(r)'
      <4>1. /\ r.manifest = m /\ r.rows = rows /\ r.unwritten = namesOf(m)
            /\ r.generatedAt = pub[p].generatedAt
        BY <3>1 DEF m, rows
      <4>2. isAfter(r.generatedAt, authority.active)
        BY <1>1, <1>2, <4>1 DEF runCompared
      <4>. QED
        BY <1>3, <1>4, <4>1, <4>2 DEF runProgress, hasWritten, isAfter
    <3>. QED BY <1>8, <2>1, <3>1
  <2>2. CASE q # p
    <3>1. PICK x \in Runs : x = pub[q]
      BY RunHolds
    <3>2. isCarrying(x) => ~ isPrepared(x.epoch)'
      BY <1>3, <1>9, <3>1 DEF isPrepared
    <3>. QED BY <1>8, <2>2, <3>1, <3>2
  <2>. QED BY <2>1, <2>2
<1>15. CandidateMatchesPrepared'
  <2> SUFFICES ASSUME NEW f \in Epochs, isPrepared(f)'
               PROVE  \A d \in Docs :
                        stored[candidateVersionForEpoch(f)].docs[d] = NoDocument
    BY DEF CandidateMatchesPrepared, candidateVersionForEpoch
  <2>1. f = e
    BY <1>3 DEF isPrepared
  <2>. QED BY <1>7, <2>1 DEF NoRelease
<1>16. PreparedContained'
  <2> SUFFICES ASSUME NEW d \in ResultsDocs
               PROVE  FactsOf[committed[d].revision] \subseteq
                        FactsOf[rows[d].revision]
    BY <1>3 DEF PreparedContained
  <2>1. isContained(pub[p].guard, m)
    BY <1>1 DEF runCompared, m
  <2>2. rows[d].revision = m[d]
    BY <1>4, SequencerAssumption
  <2>. QED BY <1>2, <2>1, <2>2 DEF isContained
<1>17. ServedReleases'
  BY <1>3, ServedKept DEF ReleaseInv
<1>18. Advances
  BY <1>3 DEF Advances, commits
<1>. QED
  BY <1>10, <1>11, <1>12, <1>13, <1>14, <1>15, <1>16, <1>17, <1>18
     DEF ReleaseInv

LEMMA CallPrepareKept ==
  ASSUME SequencerInv, PublicationInv, ReleaseInv, PublicationInv',
         NEW p \in Publishers, NEW t \in Readings, CallPrepare(p, t)
  PROVE  ReleaseInv' /\ Advances
<1>1. pub[p].pc = "prepare" /\ stored' = stored /\ pub[p] \in Runs
  BY RunHolds DEF CallPrepare
<1>2. CASE Prepare(prepareRequest(p), t) /\ Prepared(p, t)
  <2> DEFINE stage == IF retiresOrphan(t) THEN "authorize" ELSE "document"
             after == IF retiresOrphan(t) THEN "document" ELSE "idle"
             orphan == IF retiresOrphan(t) THEN orphanIn(operation) ELSE NoOrphan
             e == authority.lastEpoch + 1
             rows == assignObservationTimestamps(pub[p].manifest, t)
             unwritten == namesOf(pub[p].manifest)
             next == [pub[p] EXCEPT !.pc = stage, !.after = after,
                       !.orphan = orphan, !.active = NoVersion,
                       !.guard = GuardOf(NoManifest), !.retried = FALSE,
                       !.epoch = e, !.rows = rows, !.unwritten = unwritten]
  <2>1. stage \in {"authorize", "document"} /\ after \in {"idle", "document"}
    OBVIOUS
  <2>2. pub' = [pub EXCEPT ![p] = next]
    BY <1>2 DEF Prepared
  <2>3. e = authority.lastEpoch + 1 /\ unwritten = namesOf(pub[p].manifest)
        /\ rows = assignObservationTimestamps(pub[p].manifest, t)
    OBVIOUS
  <2> HIDE DEF stage, after, orphan, e, rows, unwritten
  <2>4. pub'[p] = next
    BY <2>2 DEF PublicationInv, PublicationTypeOK
  <2>5. PICK r \in Runs : r = next
    <3>1. pub'[p] \in Runs
      BY DEF PublicationInv, PublicationTypeOK
    <3> HIDE DEF next
    <3>. QED BY <2>4, <3>1
  <2>6. /\ r.pc = stage /\ r.after = after /\ r.epoch = e
        /\ r.manifest = pub[p].manifest /\ r.rows = rows
        /\ r.generatedAt = pub[p].generatedAt /\ r.unwritten = unwritten
    <3>1. r.pc = stage /\ r.after = after
      BY <1>1, <2>5, ZenonT(60) DEF Runs
    <3>2. r.epoch = e /\ r.rows = rows /\ r.unwritten = unwritten
      BY <1>1, <2>5, ZenonT(60) DEF Runs
    <3>3. r.manifest = pub[p].manifest
      BY <1>1, <2>5, Zenon DEF Runs
    <3>4. r.generatedAt = pub[p].generatedAt
      BY <1>1, <2>5, Zenon DEF Runs
    <3>. QED BY <3>1, <3>2, <3>3, <3>4
  <2> HIDE DEF next
  <2>7. pub' = [pub EXCEPT ![p] = r]
    BY <2>2, <2>5
  <2>8. /\ r.pc \in {"idle", "authorize", "document"}
        /\ r.after \in {"idle", "document"}
        /\ r.epoch = authority.lastEpoch + 1
        /\ r.manifest = pub[p].manifest
        /\ r.rows = assignObservationTimestamps(pub[p].manifest, t)
        /\ r.generatedAt = pub[p].generatedAt
        /\ r.unwritten = namesOf(pub[p].manifest)
    BY <2>1, <2>3, <2>6
  <2>. QED BY <1>1, <1>2, <2>7, <2>8, PreparedKept
<1>3. CASE Prepare(prepareRequest(p), t) /\ End(p)
  <2>1. Idle \in Runs /\ ~ isCarrying(Idle)
    BY IdleFacts DEF isCarrying, isWriting
  <2>. QED BY <1>1, <1>3, <2>1, IdleFacts, PreparedKept DEF End
<1>4. CASE DrainFirst(p) /\ UNCHANGED <<durable, history>>
  BY <1>1, <1>4, RestFacts, DrainFirstKept
<1>5. CASE End(p) /\ UNCHANGED <<durable, history>>
  BY <1>1, <1>5, RestFacts, EndKept
<1>. QED BY <1>2, <1>3, <1>4, <1>5 DEF CallPrepare

-----------------------------------------------------------------------------
(* finalize makes the candidate the active release: it is whole, it is what
   was prepared, and it is later than the release it replaces. *)

LEMMA FinalizedKept ==
  ASSUME SequencerInv, PublicationInv, ReleaseInv,
         NEW p \in Publishers, NEW c, NEW t, pub[p].pc = "finalize",
         Finalize(pub[p].epoch, pub[p].epoch, c, t), stored' = stored,
         NEW r \in Runs, pub' = [pub EXCEPT ![p] = r],
         r.pc \in {"finalize", "confirm", "maintain"}, r.after = "idle",
         r.epoch = pub[p].epoch
  PROVE  ReleaseInv' /\ Advances
<1> DEFINE e == pub[p].epoch
           v == candidateVersionForEpoch(e)
           m == pub[p].manifest
<1>1. /\ isCarrying(pub[p]) /\ e \in Epochs /\ m \in Manifests
      /\ pub[p] \in Runs
  <2>1. isCarrying(pub[p])
    BY DEF isCarrying
  <2>. QED BY <2>1, CarryingFacts
<1>2. /\ operation.phase = "prepared" /\ operation # NoOperation
      /\ operation.epoch = e /\ operation.candidate = v
  <2>1. FinalizeAnswer(e, e, c, t) = "committed"
    BY DEF Finalize
  <2>2. /\ operation # NoOperation /\ operation.phase = "prepared"
        /\ ~ (e > operation.epoch) /\ ~ (e < operation.epoch)
    BY <2>1 DEF FinalizeAnswer, isFinalizable
  <2>3. /\ operation.epoch \in Epochs
        /\ operation.candidate = candidateVersionForEpoch(operation.epoch)
    BY <2>2, PreparedOperation
  <2>4. operation.epoch = e
    BY <1>1, <2>2, <2>3, SMT DEF Epochs
  <2>. QED BY <2>2, <2>3, <2>4
<1>3. /\ authority'.active = v /\ authority'.previous = authority.active
      /\ committed' = prepared
      /\ commitEpochs' = commitEpochs \union {e}
      /\ deletable' = deletable
      /\ operation'.phase = "committed"
  <2>1. /\ authority' = committedAuthority /\ committed' = prepared
        /\ commitEpochs' = commitEpochs \union {operation.epoch}
        /\ deletable' = deletable
        /\ operation' = [operation EXCEPT
             !.phase = "committed",
             !.result = [active |-> operation.candidate,
                         previous |-> authority.active]]
    BY DEF Finalize
  <2>2. operation \in Operations
    BY <1>2, PreparedOperation
  <2>3. operation'.phase = "committed"
    BY <2>1, <2>2 DEF Operations
  <2>4. /\ authority'.active = operation.candidate
        /\ authority'.previous = authority.active
    BY <2>1 DEF committedAuthority, SequencerInv, TypeOK
  <2>. QED BY <1>2, <2>1, <2>3, <2>4
<1>4. /\ runProgress(pub[p]) /\ isPrepared(e)
  BY <1>1, <1>2, ProgressHolds DEF isPrepared
<1>5. /\ \A d \in Docs : prepared[d].revision = m[d]
      /\ \A d \in namesOf(m) : stored[v].docs[d] # NoDocument
      /\ stored[v].inventory = namesOf(m)
      /\ stored[v].sidecar # NoInstant
  BY <1>4 DEF runProgress, hasWritten
<1>6. \A d \in Docs : stored[v].docs[d] # NoDocument =>
        /\ stored[v].docs[d].revision = prepared[d].revision
        /\ stored[v].docs[d].observedAt = prepared[d].observedAt
        /\ isAfter(stored[v].docs[d].generatedAt, authority.active)
  BY <1>1, <1>4 DEF ReleaseInv, CandidateMatchesPrepared
<1>7. \A d \in Docs :
        /\ prepared[d] \in Rows
        /\ prepared[d] = NoRow <=> m[d] = NoRevision
  BY <1>5, RowFacts DEF SequencerInv, TypeOK
<1>8. namesOf(m) \subseteq Docs /\ namesOf(m) # {}
  BY <1>1, SequencerAssumption DEF namesOf, NoManifest, ManifestType
<1> HIDE DEF e, v, m
<1>9. /\ \A q \in Publishers \ {p} : pub'[q] = pub[q]
      /\ pub'[p] = r
  BY RunChanges
<1>10. CarriersDiffer'
  <2>1. \A q \in Publishers : isCarrying(pub[q])' =>
          isCarrying(pub[q]) /\ pub'[q].epoch = pub[q].epoch
    BY <1>1, <1>9 DEF isCarrying, isWriting
  <2>. QED BY <2>1 DEF ReleaseInv, CarriersDiffer
<1>11. WritersUncommitted'
  <2> SUFFICES ASSUME NEW q \in Publishers, isWriting(pub[q])'
               PROVE  pub'[q].epoch \notin commitEpochs \union {e}
    BY <1>3 DEF WritersUncommitted
  <2>1. q # p
    BY <1>9 DEF isWriting
  <2>2. isWriting(pub[q]) /\ isCarrying(pub[q]) /\ pub'[q].epoch = pub[q].epoch
    BY <1>9, <2>1 DEF isWriting, isCarrying
  <2>3. pub[q].epoch # e
    BY <1>1, <2>1, <2>2 DEF ReleaseInv, CarriersDiffer, e
  <2>. QED BY <2>2, <2>3 DEF ReleaseInv, WritersUncommitted
<1>12. DeletionsAuthorized'
  BY <1>3, <1>9 DEF ReleaseInv, DeletionsAuthorized
<1>13. RunsCompared'
  <2> SUFFICES ASSUME NEW q \in Publishers
               PROVE  \E x \in Runs : pub'[q] = x /\ runCompared(x)'
    BY DEF RunsCompared
  <2>1. CASE q = p
    <3>1. runCompared(r)'
      BY DEF runCompared, isPreparing
    <3>. QED BY <1>9, <2>1, <3>1
  <2>2. CASE q # p
    <3>1. PICK x \in Runs : x = pub[q]
      BY RunHolds
    <3>2. runCompared(x)'
      BY <1>3, <3>1, ComparedHolds
         DEF runCompared, isCommitted, isAfter, isContained, isPreparing
    <3>. QED BY <1>9, <2>2, <3>1, <3>2
  <2>. QED BY <2>1, <2>2
<1>14. \A f \in Epochs \union {0} : ~ isPrepared(f)'
  BY <1>3 DEF isPrepared
<1>15. RunsProgress'
  <2> SUFFICES ASSUME NEW q \in Publishers
               PROVE  \E x \in Runs : pub'[q] = x /\ ~ isPrepared(x.epoch)'
    BY DEF RunsProgress, isCarrying, isWriting
  <2>1. PICK x \in Runs : pub'[q] = x
    BY <1>9, RunHolds
  <2>. QED BY <1>3, <2>1 DEF isPrepared
<1>16. CandidateMatchesPrepared' /\ PreparedContained'
  BY <1>3 DEF CandidateMatchesPrepared, PreparedContained, isPrepared
<1>17. ServedReleases'
  <2>1. isReadable(stored[v]) /\ sourceOrderingOf(v) # NoInstant
    BY <1>5, <1>8 DEF isReadable, sourceOrderingOf
  <2>2. authority.active # NoVersion =>
          /\ isReadable(stored[authority.active])
          /\ sourceOrderingOf(authority.active) # NoInstant
    BY DEF ReleaseInv, ServedReleases, ServedReleasesWhole
  <2>3. ServedReleasesWhole'
    BY <1>3, <2>1, <2>2
       DEF ServedReleasesWhole, isReadable, sourceOrderingOf
  <2>4. stored[v].inventory = {d \in Docs : prepared[d] # NoRow}
    BY <1>5, <1>7 DEF namesOf
  <2>5. \A d \in stored[v].inventory :
          prepared[d] = [revision |-> stored[v].docs[d].revision,
                         observedAt |-> stored[v].docs[d].observedAt]
    <3> SUFFICES ASSUME NEW d \in stored[v].inventory
                 PROVE  prepared[d] = [revision |-> stored[v].docs[d].revision,
                                       observedAt |-> stored[v].docs[d].observedAt]
      OBVIOUS
    <3>1. /\ d \in Docs /\ stored[v].docs[d] # NoDocument
      BY <1>5, <1>8
    <3>2. prepared[d] = [revision |-> prepared[d].revision,
                         observedAt |-> prepared[d].observedAt]
      BY <1>7, <3>1 DEF Rows, NoRow
    <3>. QED BY <1>6, <3>1, <3>2
  <2>6. ServedMatchesCommitted'
    BY <1>3, <2>4, <2>5 DEF ServedMatchesCommitted
  <2>. QED BY <2>3, <2>6 DEF ServedReleases
<1>18. KeepsFacts
  BY <1>2, <1>3 DEF KeepsFacts, ReleaseInv, PreparedContained
<1>19. authority.active # NoVersion => StampedLater
  <2> SUFFICES ASSUME authority.active # NoVersion,
                      NEW a \in stored[authority.active].inventory,
                      NEW d \in stored[v].inventory
               PROVE  stored[v].docs[d].generatedAt
                        > stored[authority.active].docs[a].generatedAt
    BY <1>3 DEF StampedLater
  <2>1. d \in Docs /\ stored[v].docs[d] # NoDocument
    BY <1>5, <1>8
  <2>2. stored[authority.active].docs[a].generatedAt < stored[v].docs[d].generatedAt
    BY <1>6, <2>1 DEF isAfter
  <2>. QED BY <2>2
<1>20. Advances
  BY <1>18, <1>19 DEF Advances
<1>. QED
  BY <1>10, <1>11, <1>12, <1>13, <1>15, <1>16, <1>17, <1>20 DEF ReleaseInv

LEMMA CallFinalizeKept ==
  ASSUME SequencerInv, PublicationInv, ReleaseInv, PublicationInv',
         NEW p \in Publishers, NEW t \in Readings, CallFinalize(p, t)
  PROVE  ReleaseInv' /\ Advances
<1> DEFINE e == pub[p].epoch
           c == namesOf(pub[p].manifest)
           answer == FinalizeAnswer(e, e, c, t)
<1>1. /\ pub[p] \in Runs /\ RunReady(pub[p]) /\ pub[p].pc = "finalize"
      /\ stored' = stored
  BY RunHolds DEF CallFinalize
<1>2. CASE Finalize(e, e, c, t) /\ (Applied(p) \/ Unanswered(p))
  <2> DEFINE done(stage) == [Idle EXCEPT !.pc = stage, !.epoch = e,
                                         !.manifest = NoManifest]
             again == [pub[p] EXCEPT !.redriven = TRUE]
  <2>1. CASE \E stage \in {"maintain", "confirm"} : AwaitWith(p, stage, NoManifest)
    <3>1. PICK stage \in {"maintain", "confirm"} : AwaitWith(p, stage, NoManifest)
      BY <2>1
    <3>2. pub' = [pub EXCEPT ![p] = done(stage)] /\ pub'[p] = done(stage)
      BY <3>1 DEF AwaitWith, PublicationInv, PublicationTypeOK
    <3>3. done(stage).pc = stage /\ done(stage).after = "idle"
          /\ done(stage).epoch = e
      BY DEF Idle
    <3> HIDE DEF done
    <3>4. PICK r \in Runs : r = done(stage)
      BY <3>2 DEF PublicationInv, PublicationTypeOK
    <3>5. pub' = [pub EXCEPT ![p] = r] /\ r.epoch = pub[p].epoch
          /\ r.pc \in {"finalize", "confirm", "maintain"} /\ r.after = "idle"
      BY <3>2, <3>3, <3>4
    <3>. QED BY <1>1, <1>2, <3>5, FinalizedKept
  <2>2. CASE pub' = [pub EXCEPT ![p].redriven = TRUE]
    <3>1. pub' = [pub EXCEPT ![p] = again] /\ pub'[p] = again
      BY <2>2 DEF PublicationInv, PublicationTypeOK
    <3>2. again.pc = "finalize" /\ again.after = "idle" /\ again.epoch = e
      BY <1>1 DEF Runs, RunReady, isDraining
    <3> HIDE DEF again
    <3>3. PICK r \in Runs : r = again
      BY <3>1 DEF PublicationInv, PublicationTypeOK
    <3>4. pub' = [pub EXCEPT ![p] = r] /\ r.epoch = pub[p].epoch
          /\ r.pc \in {"finalize", "confirm", "maintain"} /\ r.after = "idle"
      BY <3>1, <3>2, <3>3
    <3>. QED BY <1>1, <1>2, <3>4, FinalizedKept
  <2>. QED BY <1>2, <2>1, <2>2 DEF Applied, Unanswered
<1>3. CASE UNCHANGED <<durable, history>>
  <2>1. SequencerRests
    BY <1>3, RestFacts
  <2>2. CASE Applied(p)
    BY <1>1, <2>1, <2>2, VerdictKept DEF Applied
  <2>3. CASE End(p)
    BY <1>1, <2>1, <2>3, EndKept
  <2>4. CASE GiveUp(p)
    BY <1>1, <2>1, <2>4, VerdictKept DEF GiveUp
  <2>5. CASE Unanswered(p)
    BY <1>1, <2>1, <2>5, UnansweredKept
  <2>6. Applied(p) \/ End(p) \/ GiveUp(p) \/ Unanswered(p)
    BY Zenon DEF CallFinalize
  <2>. QED BY <2>2, <2>3, <2>4, <2>5, <2>6
<1>. QED BY <1>2, <1>3 DEF CallFinalize

-----------------------------------------------------------------------------
(* The specification *)

(* A step that no run takes, and that KV does not see. *)
LEMMA StillKept ==
  ASSUME SequencerInv, PublicationInv, ReleaseInv,
         stored' = stored, pub' = pub,
         operation' = operation, prepared' = prepared,
         UNCHANGED <<commitEpochs, deletable>>,
         \/ authority'.active = authority.active /\ committed' = committed
         \/ operation.phase # "prepared",
         ServedReleases'
  PROVE  ReleaseInv'
<1>1. CarriersDiffer' /\ WritersUncommitted' /\ DeletionsAuthorized'
  BY DEF ReleaseInv, CarriersDiffer, WritersUncommitted, DeletionsAuthorized,
         isCarrying, isWriting
<1>2. RunsCompared'
  <2> SUFFICES ASSUME NEW q \in Publishers
               PROVE  \E x \in Runs : pub[q] = x /\ runCompared(x)'
    BY DEF RunsCompared
  <2>1. PICK x \in Runs : x = pub[q] /\ runCompared(x)
    BY DEF ReleaseInv, RunsCompared
  <2>2. runCompared(x)'
    BY <2>1 DEF runCompared, isCommitted, isAfter, isContained, isPreparing
  <2>. QED BY <2>1, <2>2
<1>3. RunsProgress'
  <2> SUFFICES ASSUME NEW q \in Publishers
               PROVE  \E x \in Runs :
                        /\ pub[q] = x
                        /\ isCarrying(x) /\ isPrepared(x.epoch)' =>
                             runProgress(x)'
    BY DEF RunsProgress, isCarrying, isWriting
  <2>1. PICK x \in Runs :
          /\ x = pub[q]
          /\ isCarrying(x) /\ isPrepared(x.epoch) => runProgress(x)
    BY DEF ReleaseInv, RunsProgress
  <2>2. ASSUME isCarrying(x), isPrepared(x.epoch)' PROVE runProgress(x)'
    <3>1. isPrepared(x.epoch) /\ authority'.active = authority.active
      BY <2>2 DEF isPrepared
    <3>2. runProgress(x)
      BY <2>1, <2>2, <3>1
    <3>. QED
      BY <3>1, <3>2
         DEF runProgress, hasWritten, isAfter, candidateVersionForEpoch
  <2>. QED BY <2>1, <2>2
<1>4. CandidateMatchesPrepared'
  <2> SUFFICES ASSUME operation.phase = "prepared"
               PROVE  CandidateMatchesPrepared'
    BY DEF CandidateMatchesPrepared, isPrepared
  <2>. QED
    BY DEF ReleaseInv, CandidateMatchesPrepared, isPrepared, isAfter,
           candidateVersionForEpoch
<1>5. PreparedContained'
  BY DEF ReleaseInv, PreparedContained
<1>. QED BY <1>1, <1>2, <1>3, <1>4, <1>5 DEF ReleaseInv

(* A cutover seed names releases the legacy publisher made whole, and its rows
   are those of the documents of the one it makes active. *)
LEMMA SeedServed ==
  ASSUME SequencerInv, PublicationInv, NEW seed \in Seeds, SeedCutover(seed),
         stored' = stored
  PROVE  ServedReleases'
<1>1. /\ authority'.active = seed.active /\ authority'.previous = seed.previous
      /\ committed' = seed.rows
  BY DEF SeedCutover, SequencerInv, TypeOK
<1>2. /\ seed.active \in LegacyVersions
      /\ seed.previous \in LegacyVersions \union {NoVersion}
      /\ seed.rows \in [Docs -> Rows]
  BY SeedAssumption
<1>3. \A v \in LegacyVersions :
        /\ isReadable(stored[v])
        /\ stored[v] = LegacyReleases[v].release
        /\ LegacyReleases[v].ordering # NoInstant
        /\ stored[v].sidecar = NoInstant
        /\ stored[v].inventory = namesOf(revisionsOf(stored[v]))
  <2>1. \A i \in Instants : i # NoInstant
    BY SequencerAssumption, SMT DEF Instants, NoInstant
  <2>. QED BY <2>1, PublicationAssumption DEF PublicationInv, LegacyKept
<1>4. ServedReleasesWhole'
  <2>1. \A v \in {seed.active, seed.previous} \ {NoVersion} : v \in LegacyVersions
    BY <1>2
  <2>. QED
    BY <1>1, <1>3, <2>1 DEF ServedReleasesWhole, isReadable, sourceOrderingOf
<1>5. ServedMatchesCommitted'
  <2> DEFINE release == stored[seed.active]
  <2>1. \A d \in Docs : seed.rows[d] = [revision |-> release.docs[d].revision,
                                       observedAt |-> release.docs[d].observedAt]
    BY <1>2, <1>3, PublicationAssumption
  <2>2. release.inventory = {d \in Docs : release.docs[d].revision # NoRevision}
    BY <1>2, <1>3 DEF namesOf, revisionsOf
  <2>3. \A d \in Docs : seed.rows[d] # NoRow <=>
                         release.docs[d].revision # NoRevision
    <3> SUFFICES ASSUME NEW d \in Docs
                 PROVE  seed.rows[d] # NoRow <=>
                          release.docs[d].revision # NoRevision
      OBVIOUS
    <3> HIDE DEF release
    <3>1. seed.rows[d] \in Rows
      BY <1>2
    <3>2. seed.rows[d].revision = release.docs[d].revision
      <4> DEFINE revision == release.docs[d].revision
                 observedAt == release.docs[d].observedAt
      <4>1. seed.rows[d] = [revision |-> revision, observedAt |-> observedAt]
        BY <2>1
      <4> HIDE DEF revision, observedAt
      <4>2. seed.rows[d].revision = revision
        BY <4>1
      <4>. QED BY <4>2 DEF revision
    <3>. QED BY <3>1, <3>2, RowFacts
  <2>4. /\ release.inventory = {d \in Docs : seed.rows[d] # NoRow}
        /\ \A d \in release.inventory :
             seed.rows[d] = [revision |-> release.docs[d].revision,
                             observedAt |-> release.docs[d].observedAt]
    BY <2>1, <2>2, <2>3
  <2>. QED BY <1>1, <2>4 DEF ServedMatchesCommitted
<1>. QED BY <1>4, <1>5 DEF ServedReleases

LEMMA EnterKept ==
  ASSUME SequencerInv, PublicationInv, ReleaseInv, Enter
  PROVE  ReleaseInv' /\ Advances
<1>1. stored' = stored /\ pub' = pub
  BY DEF Enter
<1>2. ASSUME NEW seed \in Seeds, SeedCutover(seed)
      PROVE  ReleaseInv' /\ Advances
  <2>1. /\ authority.cutoverState = "uninitialized"
        /\ operation' = operation /\ UNCHANGED <<commitEpochs, deletable>>
        /\ prepared' = NoRows
    BY <1>2 DEF SeedCutover, history
  <2>2. operation.phase # "prepared" /\ prepared' = prepared
    BY <2>1, OperationFacts DEF SequencerInv, Dormant
  <2>3. ServedReleases'
    BY <1>1, <1>2, SeedServed
  <2>4. Advances
    BY <2>1 DEF Advances, commits
  <2>. QED BY <1>1, <2>1, <2>2, <2>3, <2>4, StillKept
<1>3. ASSUME \/ \E f \in SeedFingerprints : ActivateCutover(f)
             \/ \E f \in GenesisFingerprints : CommitGenesis(f)
      PROVE  ReleaseInv' /\ Advances
  <2>1. /\ authority'.active = authority.active
        /\ authority'.previous = authority.previous
        /\ UNCHANGED <<operation, prepared, committed, commitEpochs, deletable>>
    BY <1>3 DEF ActivateCutover, CommitGenesis, history, SequencerInv, TypeOK
  <2>2. ServedReleases'
    BY <1>1, <2>1, ServedKept DEF ReleaseInv
  <2>3. Advances
    BY <2>1 DEF Advances, commits
  <2>. QED BY <1>1, <2>1, <2>2, <2>3, StillKept
<1>. QED BY <1>2, <1>3 DEF Enter

LEMMA ReleaseStep ==
  SequencerInv /\ PublicationInv /\ ReleaseInv /\ [PublicationNext]_pubVars
    => ReleaseInv' /\ Advances
<1> SUFFICES ASSUME SequencerInv, PublicationInv, ReleaseInv,
                    [PublicationNext]_pubVars
             PROVE  ReleaseInv' /\ Advances
    OBVIOUS
<1>0. PublicationInv'
  BY PublicationStep
<1>1. CASE UNCHANGED pubVars
  <2>1. /\ stored' = stored /\ pub' = pub /\ operation' = operation
        /\ authority' = authority /\ prepared' = prepared
        /\ committed' = committed /\ UNCHANGED <<commitEpochs, deletable>>
    BY <1>1 DEF pubVars, durable, history
  <2>2. ServedReleases'
    BY <2>1, ServedKept DEF ReleaseInv
  <2>3. Advances
    BY <2>1 DEF Advances, commits
  <2>. QED BY <2>1, <2>2, <2>3, StillKept
<1>2. CASE Enter
  BY <1>2, EnterKept
<1>3. ASSUME NEW p \in Publishers, NEW c \in Candidates, StartPublish(p, c)
      PROVE  ReleaseInv' /\ Advances
  BY <1>3, StartPublishKept
<1>4. ASSUME NEW p \in Publishers, NEW v \in Versions, StartRollback(p, v)
      PROVE  ReleaseInv' /\ Advances
  BY <1>4, StartRollbackKept
<1>5. ASSUME NEW p \in Publishers, Crash(p) \/ CompleteCommitted(p)
      PROVE  ReleaseInv' /\ Advances
  BY <1>5, RestFacts, EndKept DEF Crash, CompleteCommitted
<1>6. ASSUME NEW p \in Publishers, Run(p)
      PROVE  ReleaseInv' /\ Advances
  BY <1>0, <1>5, <1>6, ReadTargetKept, ReadPredecessorKept, CallPrepareKept,
     CallAuthorizeCleanupKept, DeleteCandidateKept, CallAcknowledgeCleanupKept,
     WriteDocumentKept, WriteInventoryKept, WriteSidecarKept, ReadBackKept,
     CallFinalizeKept, ConfirmCommitKept, CallCancelKept
     DEF Run
<1>. QED BY <1>1, <1>2, <1>3, <1>4, <1>5, <1>6 DEF PublicationNext

LEMMA ReleaseStarts == PublicationInit => ReleaseInv
<1> SUFFICES ASSUME PublicationInit PROVE ReleaseInv
    OBVIOUS
<1>1. /\ \A p \in Publishers : pub[p] = Idle
      /\ operation.phase # "prepared"
      /\ authority.active = NoVersion /\ authority.previous = NoVersion
  BY OperationFacts DEF PublicationInit, Init
<1>2. /\ Idle \in Runs /\ ~ isCarrying(Idle) /\ ~ isWriting(Idle)
      /\ Idle.pc # "delete" /\ runCompared(Idle)
  BY IdleFacts DEF isCarrying, isWriting, runCompared, isPreparing
<1>3. /\ CarriersDiffer /\ WritersUncommitted /\ DeletionsAuthorized
      /\ RunsCompared /\ RunsProgress
  BY <1>1, <1>2
     DEF CarriersDiffer, WritersUncommitted, DeletionsAuthorized, RunsCompared,
         RunsProgress
<1>4. CandidateMatchesPrepared /\ PreparedContained
  BY <1>1 DEF CandidateMatchesPrepared, PreparedContained, isPrepared
<1>5. ServedReleases
  BY <1>1 DEF ServedReleases, ServedReleasesWhole, ServedMatchesCommitted
<1>. QED BY <1>3, <1>4, <1>5 DEF ReleaseInv

(* Releases are written, committed and cleaned up under the invariant. *)
THEOREM ReleasesSafe == PublicationSpec => []ReleaseInv
BY ReleaseStarts, ReleaseStep, PublicationSafe, PTL DEF PublicationSpec

(* What readers are served is whole in KV and is, row by row, what the
   sequencer committed, whatever publishers race, crash or fail to write. *)
THEOREM ReleasesServed == PublicationSpec => []ServedReleases
<1>1. ReleaseInv => ServedReleases
  BY DEF ReleaseInv
<1>. QED BY <1>1, ReleasesSafe, PTL

(* No release drops a participation fact of the release it replaces. *)
THEOREM ParticipationIsKept == PublicationSpec => ParticipationKept
<1>1. ASSUME Advances
      PROVE  [commits =>
                \A d \in ResultsDocs :
                  FactsOf[committed[d].revision] \subseteq
                    FactsOf[committed'[d].revision]]_pubVars
  BY <1>1 DEF Advances, KeepsFacts
<1>. QED
  BY <1>1, ReleaseStep, ReleasesSafe, PublicationSafe, PTL
     DEF PublicationSpec, ParticipationKept

(* Each release is stamped later than the release it replaces. *)
THEOREM InstantsAdvance == PublicationSpec => PublicationInstantAdvances
<1>1. ASSUME Advances
      PROVE  [commits /\ authority.active # NoVersion =>
                \A c \in stored[authority.active].inventory,
                   d \in stored[authority'.active].inventory :
                  stored[authority'.active].docs[d].generatedAt
                    > stored[authority.active].docs[c].generatedAt]_pubVars
  BY <1>1 DEF Advances, StampedLater
<1>. QED
  BY <1>1, ReleaseStep, ReleasesSafe, PublicationSafe, PTL
     DEF PublicationSpec, PublicationInstantAdvances
=============================================================================
