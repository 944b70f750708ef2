------------------------ MODULE SeasonSequencerProofs ------------------------
(***************************************************************************)
(* SequencerInv is inductive, for every season size, epoch bound, clock    *)
(* and set of requests; the properties of SeasonSequencer follow from it.  *)
(* One lemma per operation, each split along the parts of the invariant.   *)
(***************************************************************************)
EXTENDS SequencerCodec, FiniteSetTheorems, TLAPS

(* What an admitted prepare was admitted on. *)
LEMMA PrepareAdmits ==
  ASSUME NEW req, NEW t, PrepareAnswer(req, t) = "prepared"
  PROVE  /\ isMutableState
         /\ authority.active = req.expectedVersion
         /\ req.kind = "rollback-republication" /\ bornByGenesis
              => authority.previous # NoVersion
         /\ t \in Instants /\ t + PreparationTtl \in Instants
         /\ operation.phase = "prepared" => isExpired(t)
         /\ retiresOrphan(t) => pendingCleanup = NoPending
         /\ req.kind = "ordinary-publication"
              => ~(req.ordering < authority.ordering)
         /\ authority.lastEpoch + 1 \in Epochs
         /\ freshInstant(t) \in Instants
BY DEF PrepareAnswer, hasNothingToRestore, isStalePredecessor, isOlder

(* What a committing finalize committed on. *)
LEMMA FinalizeAdmits ==
  ASSUME NEW epoch, NEW token, NEW c, NEW t,
         FinalizeAnswer(epoch, token, c, t) = "committed"
  PROVE  /\ isMutableState
         /\ operation # NoOperation
         /\ operation.phase = "prepared"
         /\ operation.prior = authority.active
BY DEF FinalizeAnswer, isFinalizable

LEMMA CancelAdmits ==
  ASSUME NEW epoch, NEW token, CancelAnswer(epoch, token) = "cancelled"
  PROVE  /\ operation # NoOperation
         /\ operation.phase \notin {"committed", "cancelled"}
BY DEF CancelAnswer

(* The two places a cleanup may be authorized from. *)
LEMMA AuthorizeAdmits ==
  ASSUME NEW epoch, NEW token, NEW v,
         AuthorizeCleanupAnswer(epoch, token, v) = "authorized"
  PROVE  /\ authority.cutoverState # "uninitialized"
         /\ ~isAuthoritativeVersion(v)
         /\ \/ /\ operation # NoOperation
               /\ operation.phase = "cancelled"
               /\ operation.candidate = v
            \/ /\ pendingCleanup # NoPending
               /\ pendingCleanup.candidate = v
BY DEF AuthorizeCleanupAnswer, namesCurrent, namesPending

LEMMA AcknowledgeAdmits ==
  ASSUME NEW epoch, NEW token, NEW v
  PROVE  /\ AcknowledgeCleanupAnswer(epoch, token, v) = "clears-pending"
              => /\ pendingCleanup # NoPending
                 /\ pendingCleanup.epoch = epoch
         /\ AcknowledgeCleanupAnswer(epoch, token, v) = "clears-current"
              => /\ pendingCleanup = NoPending
                 /\ operation # NoOperation
                 /\ operation.epoch = epoch
                 /\ operation.phase = "cancelled"
BY DEF AcknowledgeCleanupAnswer, namesCurrent, namesPending

(* A set of natural numbers with a bound has a greatest element: the one with
   the fewest above it. *)
LEMMA BoundedMaximum ==
  ASSUME NEW n \in Nat, NEW S \in SUBSET (0 .. n), S # {}
  PROVE  \E i \in S : \A j \in S : j <= i
<1> DEFINE above(i) == {j \in S : j > i}
           T == {above(i) : i \in S}
<1>1. IsFiniteSet(0 .. n)
  BY FS_Interval
<1>2. FiniteSubsetsOf(0 .. n) = SUBSET (0 .. n)
  BY <1>1, FS_FiniteSubsetsOfFinite
<1>3. IsWellFoundedOn(StrictSubsetOrdering(0 .. n), SUBSET (0 .. n))
  BY <1>2, FS_StrictSubsetOrderingWellFounded
<1>4. T \subseteq SUBSET (0 .. n) /\ T # {}
  OBVIOUS
<1>5. PICK X \in T : \A Y \in T : ~ (<<Y, X>> \in StrictSubsetOrdering(0 .. n))
  <2> HIDE DEF T
  <2>. QED BY <1>3, <1>4, WFMin
<1>6. PICK i \in S : X = above(i)
  BY <1>5
<1>7. ASSUME NEW j \in S PROVE j <= i
  <2> SUFFICES ASSUME ~(j <= i) PROVE FALSE
    OBVIOUS
  <2>1. i \in Int /\ j \in Int /\ j > i
    BY <1>6, <1>7
  <2>2. j \in above(i) /\ j \notin above(j)
    BY <1>6, <1>7, <2>1
  <2>3. above(j) \subseteq above(i)
    <3>1. \A k \in S : k > j => k > i
      BY <2>1
    <3>. QED BY <3>1
  <2>4. above(j) \in SUBSET (0 .. n) /\ above(i) \in SUBSET (0 .. n)
    OBVIOUS
  <2>5. above(j) \in T
    BY <1>7
  <2> HIDE DEF above, T
  <2>6. <<above(j), above(i)>> \in StrictSubsetOrdering(0 .. n)
    BY <2>2, <2>3, <2>4 DEF StrictSubsetOrdering
  <2>. QED BY <1>5, <1>6, <2>5, <2>6
<1>. QED BY <1>7

(* Epoch records and allocated versions, unfolded once. *)
LEMMA VersionFacts ==
  /\ NoVersion \notin Versions
  /\ LegacyVersions \intersect AllocatedVersions = {}
  /\ \A e \in Epochs : /\ candidateVersionForEpoch(e) \in AllocatedVersions
                       /\ candidateVersionForEpoch(e).id = e
  /\ \A v \in AllocatedVersions : v.id \in Epochs
                                  /\ v = candidateVersionForEpoch(v.id)
BY SMT DEF NoVersion, Versions, LegacyVersions, AllocatedVersions,
           candidateVersionForEpoch, Epochs

LEMMA RowFacts ==
  /\ NoRow \in Rows
  /\ NoRows \in [Docs -> Rows]
  /\ \A r \in Rows : /\ r.observedAt \in 0 .. MaxInstant
                     /\ r.revision \in Revisions \union {NoRevision}
                     /\ r # NoRow => /\ r.revision \in Revisions
                                     /\ r.revision # NoRevision
                                     /\ r.observedAt \in Instants
  /\ \A d \in Docs : NoRows[d] = NoRow
  /\ NoRow.observedAt = 0 /\ NoRow.revision = NoRevision
BY SMT, SequencerAssumption
   DEF NoRow, Rows, NoRows, NoInstant, Instants, SequencerAssumption

LEMMA OperationFacts ==
  /\ NoOperation.epoch = 0
  /\ NoOperation.phase = "missing"
  /\ NoOperation.kind = "ordinary-publication"
  /\ NoPending.epoch = 0
  /\ NoOperation \notin Operations
  /\ \A o \in Operations :
       /\ o.epoch \in Epochs
       /\ o.phase \in {"prepared", "committed", "cancelled"}
       /\ o.kind \in OperationKinds
       /\ o.ordering \in Instants
       /\ o.candidate \in AllocatedVersions
BY SMT DEF NoOperation, NoPending, Operations, Epochs

-----------------------------------------------------------------------------
LEMMA InitInv == Init => SequencerInv
<1> SUFFICES ASSUME Init PROVE SequencerInv
    OBVIOUS
<1>1. TypeOK
  BY SMT, RowFacts, SequencerAssumption
     DEF Init, TypeOK, CutoverStates, NoInstant, SequencerAssumption
<1>2. RecordsAllocated /\ CommitsAllocated /\ DeletableRetired
  BY OperationFacts DEF Init, RecordsAllocated, CommitsAllocated, DeletableRetired
<1>3. PointersCommitted
  BY VersionFacts DEF Init, PointersCommitted, Versions
<1>4. Dormant /\ PreparedOrdering /\ GenesisPointers
  BY OperationFacts
     DEF Init, Dormant, PreparedOrdering, GenesisPointers, bornByGenesis
<1>0. /\ authority.floor = 0
      /\ \A d \in Docs : prepared[d].observedAt = 0 /\ committed[d].observedAt = 0
  BY RowFacts DEF Init, NoInstant
<1>5. PreparedRows
  BY <1>0, OperationFacts, SMT DEF Init, PreparedRows
<1>6. PreparedBoundToActive /\ GenesisRollbackHasTarget
  BY OperationFacts DEF Init, PreparedBoundToActive, GenesisRollbackHasTarget
<1>7. NoOrphanForgotten
  BY SMT DEF Init, NoOrphanForgotten
<1>8. FloorCoversRows
  <2> SUFFICES ASSUME NEW d \in Docs
               PROVE  committed[d].observedAt <= authority.floor
    BY DEF FloorCoversRows
  <2>1. committed[d].observedAt = 0 /\ authority.floor = 0
    BY <1>0
  <2>. QED BY <2>1, SMT
<1>. QED BY <1>1, <1>2, <1>3, <1>4, <1>5, <1>6, <1>7, <1>8 DEF SequencerInv

-----------------------------------------------------------------------------
(* Orphan cleanup *)

LEMMA AuthorizeInv ==
  ASSUME SequencerInv, NEW epoch \in Epochs, NEW token \in Tokens \union {0},
         NEW v \in Versions, AuthorizeCleanup(epoch, token, v)
  PROVE  SequencerInv'
<1>1. /\ authority.cutoverState # "uninitialized"
      /\ ~isAuthoritativeVersion(v)
      /\ \/ /\ operation # NoOperation
            /\ operation.phase = "cancelled"
            /\ operation.candidate = v
         \/ /\ pendingCleanup # NoPending
            /\ pendingCleanup.candidate = v
  BY AuthorizeAdmits DEF AuthorizeCleanup
<1>2. deletable' = deletable \union {v}
  BY DEF AuthorizeCleanup
<1>3. /\ v \in AllocatedVersions
      /\ v.id <= authority.lastEpoch
      /\ v.id \notin commitEpochs
      /\ operation.phase = "prepared" => operation.epoch # v.id
  <2>1. CASE operation # NoOperation /\ operation.phase = "cancelled"
             /\ operation.candidate = v
    BY <2>1, OperationFacts, VersionFacts
       DEF SequencerInv, TypeOK, RecordsAllocated, CommitsAllocated
  <2>2. CASE pendingCleanup # NoPending /\ pendingCleanup.candidate = v
    BY <2>2, OperationFacts, VersionFacts
       DEF SequencerInv, TypeOK, RecordsAllocated, CommitsAllocated
  <2>. QED BY <1>1, <2>1, <2>2
<1>4. UNCHANGED <<durable, commitEpochs, acknowledged>>
  BY DEF AuthorizeCleanup
<1>5. TypeOK'
  BY <1>2, <1>3, <1>4 DEF SequencerInv, TypeOK, durable
<1>6. DeletableRetired'
  BY <1>2, <1>3, <1>4 DEF SequencerInv, DeletableRetired, durable
<1>7. Dormant'
  BY <1>1, <1>2, <1>3, <1>4, OperationFacts
     DEF SequencerInv, Dormant, durable
<1>. QED
  BY <1>4, <1>5, <1>6, <1>7
     DEF SequencerInv, durable, RecordsAllocated, CommitsAllocated,
         PointersCommitted, PreparedRows, PreparedOrdering, GenesisPointers,
         bornByGenesis, PreparedBoundToActive, NoOrphanForgotten,
         FloorCoversRows, GenesisRollbackHasTarget

LEMMA AcknowledgeInv ==
  ASSUME SequencerInv, NEW epoch \in Epochs, NEW token \in Tokens \union {0},
         NEW v \in Versions, AcknowledgeCleanup(epoch, token, v)
  PROVE  SequencerInv'
<1>1. /\ UNCHANGED <<authority, committed, prepared, commitEpochs, deletable>>
      /\ acknowledged' = acknowledged \union {epoch}
      /\ \/ /\ pendingCleanup # NoPending
            /\ pendingCleanup.epoch = epoch
            /\ pendingCleanup' = NoPending
            /\ operation' = operation
         \/ /\ pendingCleanup = NoPending
            /\ operation # NoOperation
            /\ operation.epoch = epoch
            /\ operation.phase = "cancelled"
            /\ operation' = NoOperation
            /\ pendingCleanup' = pendingCleanup
  BY AcknowledgeAdmits DEF AcknowledgeCleanup
<1>2. TypeOK'
  BY <1>1 DEF SequencerInv, TypeOK
<1>3. RecordsAllocated' /\ CommitsAllocated' /\ DeletableRetired'
  BY <1>1, OperationFacts
     DEF SequencerInv, RecordsAllocated, CommitsAllocated, DeletableRetired
<1>4. Dormant'
  BY <1>1, OperationFacts DEF SequencerInv, Dormant
<1>5. PreparedRows' /\ PreparedOrdering' /\ PreparedBoundToActive'
  BY <1>1, OperationFacts
     DEF SequencerInv, PreparedRows, PreparedOrdering, PreparedBoundToActive
<1>6. NoOrphanForgotten'
  BY <1>1, OperationFacts, SMT DEF SequencerInv, NoOrphanForgotten
<1>7. GenesisRollbackHasTarget'
  BY <1>1, OperationFacts
     DEF SequencerInv, GenesisRollbackHasTarget, bornByGenesis
<1>. QED
  BY <1>1, <1>2, <1>3, <1>4, <1>5, <1>6, <1>7
     DEF SequencerInv, PointersCommitted, GenesisPointers, bornByGenesis,
         FloorCoversRows

-----------------------------------------------------------------------------
(* Cancel *)

LEMMA CancelInv ==
  ASSUME SequencerInv, NEW epoch \in Epochs, NEW token \in Tokens,
         Cancel(epoch, token)
  PROVE  SequencerInv'
<1>1. /\ operation # NoOperation
      /\ operation.phase = "prepared"
      /\ prepared' = NoRows
      /\ operation' = [operation EXCEPT !.phase = "cancelled"]
      /\ UNCHANGED <<authority, pendingCleanup, committed, history>>
  BY CancelAdmits, OperationFacts DEF Cancel, SequencerInv, TypeOK
<1>2. /\ operation \in Operations
      /\ operation' \in Operations
      /\ operation'.phase = "cancelled"
      /\ operation'.epoch = operation.epoch
      /\ operation'.candidate = operation.candidate
      /\ operation'.kind = operation.kind
  BY <1>1 DEF SequencerInv, TypeOK, Operations
<1>3. TypeOK'
  BY <1>1, <1>2, RowFacts DEF SequencerInv, TypeOK, history
<1>4. RecordsAllocated' /\ CommitsAllocated' /\ DeletableRetired'
  BY <1>1, <1>2, OperationFacts
     DEF SequencerInv, RecordsAllocated, CommitsAllocated, DeletableRetired,
         history
<1>5. Dormant'
  BY <1>1 DEF SequencerInv, Dormant, history
<1>6. PreparedRows'
  <2>1. \A d \in Docs : prepared'[d].observedAt = 0
    BY <1>1, RowFacts
  <2>2. authority'.floor \in Nat
    BY <1>1 DEF SequencerInv, TypeOK
  <2>3. \A d \in Docs : ~(prepared'[d].observedAt > authority'.floor)
    BY <2>1, <2>2, SMT
  <2>. QED BY <1>1, <1>2, <2>3 DEF PreparedRows
<1>7. /\ PreparedOrdering' /\ PreparedBoundToActive'
      /\ NoOrphanForgotten' /\ GenesisRollbackHasTarget'
  BY <1>1, <1>2
     DEF SequencerInv, PreparedOrdering, PreparedBoundToActive, history,
         NoOrphanForgotten, GenesisRollbackHasTarget, bornByGenesis
<1>. QED
  BY <1>1, <1>3, <1>4, <1>5, <1>6, <1>7
     DEF SequencerInv, PointersCommitted, GenesisPointers, bornByGenesis,
         FloorCoversRows, history

-----------------------------------------------------------------------------
(* Finalize *)

(* The CHOOSE of highestInstant has a witness: the candidate's fresh rows
   share one instant, and the others are covered by the floor. *)
LEMMA HighestInstantFacts ==
  ASSUME TypeOK, PreparedRows
  PROVE  /\ highestInstant(prepared) \in 0 .. MaxInstant
         /\ authority.floor <= highestInstant(prepared)
         /\ \A d \in Docs : prepared[d].observedAt <= highestInstant(prepared)
<1> DEFINE S == {authority.floor} \union {prepared[d].observedAt : d \in Docs}
<1>1. S \subseteq 0 .. MaxInstant
  BY RowFacts DEF TypeOK
<1>2. \E i \in S : \A j \in S : j <= i
  <2>1. CASE \E c \in Docs : prepared[c].observedAt > authority.floor
    <3>1. PICK c \in Docs : prepared[c].observedAt > authority.floor
      BY <2>1
    <3>2. ASSUME NEW d \in Docs
          PROVE  prepared[d].observedAt <= prepared[c].observedAt
      <4>1. /\ prepared[c].observedAt \in Nat /\ prepared[d].observedAt \in Nat
            /\ authority.floor \in Nat
        BY RowFacts DEF TypeOK
      <4>2. prepared[d].observedAt > authority.floor
              => prepared[c].observedAt = prepared[d].observedAt
        BY <3>1 DEF PreparedRows
      <4>. QED BY <3>1, <4>1, <4>2, SMT
    <3>. QED BY <1>1, <3>1, <3>2, SMT
  <2>2. CASE ~ \E c \in Docs : prepared[c].observedAt > authority.floor
    BY <1>1, <2>2, SMT
  <2>. QED BY <2>1, <2>2
<1> HIDE DEF S
<1>3. /\ highestInstant(prepared) \in S
      /\ \A j \in S : j <= highestInstant(prepared)
  BY <1>2 DEF highestInstant, S
<1>. QED BY <1>1, <1>3 DEF S

LEMMA FinalizeInv ==
  ASSUME SequencerInv, NEW epoch \in Epochs, NEW token \in Tokens,
         NEW c \in Commitments, NEW t \in ClockReadings,
         Finalize(epoch, token, c, t)
  PROVE  SequencerInv'
<1>1. /\ isMutableState
      /\ operation # NoOperation
      /\ operation \in Operations
      /\ operation.phase = "prepared"
      /\ operation.prior = authority.active
  BY FinalizeAdmits DEF Finalize, committedAuthority, SequencerInv, TypeOK
<1>2. /\ operation.epoch \in Epochs
      /\ operation.epoch <= authority.lastEpoch
      /\ operation.candidate = candidateVersionForEpoch(operation.epoch)
      /\ operation.candidate \in AllocatedVersions
      /\ operation.candidate.id = operation.epoch
      /\ operation.epoch \notin commitEpochs
  BY <1>1, OperationFacts, VersionFacts
     DEF SequencerInv, RecordsAllocated, CommitsAllocated
<1>3. /\ committed' = prepared
      /\ prepared' = NoRows
      /\ pendingCleanup' = pendingCleanup
      /\ acknowledged' = acknowledged
      /\ deletable' = deletable
      /\ commitEpochs' = commitEpochs \union {operation.epoch}
  BY DEF Finalize, committedAuthority
<1>4. /\ authority' = [authority EXCEPT
            !.cutoverState = "active",
            !.active = operation.candidate,
            !.previous = authority.active,
            !.ordering = operation.ordering,
            !.floor = highestInstant(prepared)]
      /\ authority'.cutoverState = "active"
      /\ authority'.active = operation.candidate
      /\ authority'.previous = authority.active
      /\ authority'.ordering = operation.ordering
      /\ authority'.floor = highestInstant(prepared)
      /\ authority'.lastEpoch = authority.lastEpoch
      /\ authority'.fingerprint = authority.fingerprint
  BY DEF Finalize, committedAuthority, SequencerInv, TypeOK
<1>5. /\ operation' \in Operations
      /\ operation'.phase = "committed"
      /\ operation'.epoch = operation.epoch
      /\ operation'.candidate = operation.candidate
      /\ operation'.kind = operation.kind
  BY <1>1, <1>2 DEF Finalize, committedAuthority, SequencerInv, TypeOK, Operations
<1>6. /\ highestInstant(prepared) \in 0 .. MaxInstant
      /\ \A d \in Docs : prepared[d].observedAt <= highestInstant(prepared)
  BY HighestInstantFacts DEF SequencerInv
<1>7. TypeOK'
  <2>1. authority' \in
          [cutoverState : CutoverStates, active : Versions \union {NoVersion},
           previous : Versions \union {NoVersion},
           ordering : 0 .. MaxInstant, floor : 0 .. MaxInstant,
           lastEpoch : 0 .. MaxOperationEpoch,
           fingerprint : SeedFingerprints \union GenesisFingerprints
                           \union {NoFingerprint}]
    <3>1. /\ "active" \in CutoverStates
          /\ operation.candidate \in Versions
          /\ operation.ordering \in 0 .. MaxInstant
          /\ authority.active \in Versions \union {NoVersion}
      BY <1>1, <1>2, OperationFacts
         DEF SequencerInv, TypeOK, CutoverStates, Versions, Instants
    <3>. QED BY <1>4, <1>6, <3>1 DEF SequencerInv, TypeOK
  <2>2. /\ operation' \in Operations \union {NoOperation}
        /\ pendingCleanup' \in [epoch : Epochs, candidate : AllocatedVersions]
                                 \union {NoPending}
        /\ committed' \in [Docs -> Rows]
        /\ prepared' \in [Docs -> Rows]
        /\ commitEpochs' \subseteq Epochs
        /\ acknowledged' \subseteq Epochs
        /\ deletable' \subseteq AllocatedVersions
    BY <1>2, <1>3, <1>5, RowFacts DEF SequencerInv, TypeOK
  <2>. QED BY <2>1, <2>2 DEF TypeOK
<1>8. RecordsAllocated'
  BY <1>2, <1>3, <1>4, <1>5, <1>1 DEF SequencerInv, RecordsAllocated
<1>9. CommitsAllocated'
  <2>1. /\ \A e \in commitEpochs' : e <= authority'.lastEpoch
        /\ \A e \in commitEpochs' : e <= operation'.epoch
    BY <1>1, <1>2, <1>3, <1>4, <1>5, SMT
       DEF SequencerInv, CommitsAllocated, Epochs
  <2>. QED
    BY <1>1, <1>2, <1>3, <1>5, <2>1
       DEF SequencerInv, CommitsAllocated, RecordsAllocated
<1>10. PointersCommitted'
  BY <1>2, <1>3, <1>4 DEF SequencerInv, PointersCommitted
<1>11. DeletableRetired'
  BY <1>1, <1>3, <1>4, <1>5 DEF SequencerInv, DeletableRetired
<1>12. Dormant'
  BY <1>4 DEF Dormant
<1>13. PreparedRows'
  <2>1. \A d \in Docs : prepared'[d].observedAt = 0
    BY <1>3, RowFacts
  <2>2. authority'.floor \in Nat
    BY <1>4, <1>6
  <2>3. \A d \in Docs : ~(prepared'[d].observedAt > authority'.floor)
    BY <2>1, <2>2, SMT
  <2>. QED BY <1>3, <1>5, <2>3 DEF PreparedRows
<1>14. PreparedOrdering' /\ PreparedBoundToActive'
  BY <1>5 DEF PreparedOrdering, PreparedBoundToActive
<1>15. GenesisPointers'
  <2>1. authority.active # operation.candidate
    BY <1>2 DEF SequencerInv, PointersCommitted
  <2>2. operation.candidate # NoVersion
    BY <1>2, VersionFacts DEF Versions
  <2>. QED
    BY <1>2, <1>4, <2>1, <2>2 DEF SequencerInv, GenesisPointers, bornByGenesis
<1>16. NoOrphanForgotten'
  BY <1>3, <1>4, <1>5 DEF SequencerInv, NoOrphanForgotten
<1>17. FloorCoversRows'
  BY <1>3, <1>4, <1>6 DEF FloorCoversRows
<1>18. GenesisRollbackHasTarget'
  BY <1>3, <1>4, <1>5
     DEF SequencerInv, GenesisRollbackHasTarget, bornByGenesis
<1>. QED
  BY <1>7, <1>8, <1>9, <1>10, <1>11, <1>12, <1>13, <1>14, <1>15, <1>16,
     <1>17, <1>18 DEF SequencerInv

-----------------------------------------------------------------------------
(* Prepare *)

(* The assignment rule: a row is kept, withdrawn, or freshly activated above
   the floor. *)
LEMMA AssignmentFacts ==
  ASSUME TypeOK, FloorCoversRows, NEW m \in Manifests, NEW t \in Instants,
         freshInstant(t) \in Instants
  PROVE  /\ assignObservationTimestamps(m, t) \in [Docs -> Rows]
         /\ freshInstant(t) > authority.floor
         /\ \A d \in Docs :
              /\ assignObservationTimestamps(m, t)[d] # committed[d] =>
                   /\ assignObservationTimestamps(m, t)[d].revision
                        # committed[d].revision
                   /\ \/ assignObservationTimestamps(m, t)[d] = NoRow
                      \/ assignObservationTimestamps(m, t)[d].observedAt
                           = freshInstant(t)
              /\ assignObservationTimestamps(m, t)[d].observedAt
                   > authority.floor =>
                   assignObservationTimestamps(m, t)[d].observedAt
                     = freshInstant(t)
<1> DEFINE A == assignObservationTimestamps(m, t)
<1>1. /\ authority.floor \in Nat
      /\ freshInstant(t) \in Nat
      /\ freshInstant(t) > authority.floor
  BY SMT DEF TypeOK, Instants, freshInstant
<1>2. ASSUME NEW d \in Docs
      PROVE  /\ A[d] \in Rows
             /\ A[d] # committed[d] =>
                  /\ A[d].revision # committed[d].revision
                  /\ A[d] = NoRow \/ A[d].observedAt = freshInstant(t)
             /\ A[d].observedAt > authority.floor =>
                  A[d].observedAt = freshInstant(t)
  <2>1. /\ committed[d] \in Rows
        /\ committed[d].observedAt <= authority.floor
        /\ m[d] \in Revisions \union {NoRevision}
    BY SequencerAssumption
       DEF TypeOK, FloorCoversRows, SequencerAssumption, ManifestType
  <2>2. CASE m[d] = NoRevision
    <3>1. A[d] = NoRow
      BY <2>2 DEF assignObservationTimestamps
    <3>2. ~(A[d].observedAt > authority.floor)
      BY <3>1, <1>1, RowFacts, SMT
    <3>. QED BY <2>1, <3>1, <3>2, RowFacts
  <2>3. CASE m[d] # NoRevision /\ m[d] = committed[d].revision
    <3>1. A[d] = committed[d]
      BY <2>3 DEF assignObservationTimestamps
    <3>2. ~(A[d].observedAt > authority.floor)
      BY <3>1, <2>1, <1>1, RowFacts, SMT
    <3>. QED BY <2>1, <3>1, <3>2
  <2>4. CASE m[d] # NoRevision /\ m[d] # committed[d].revision
    <3>1. A[d] = [revision |-> m[d], observedAt |-> freshInstant(t)]
      BY <2>4 DEF assignObservationTimestamps
    <3>2. A[d] \in Rows
      BY <2>1, <2>4, <3>1 DEF Rows
    <3>. QED BY <2>4, <3>1, <3>2
  <2>. QED BY <2>2, <2>3, <2>4
<1>3. A \in [Docs -> Rows]
  BY <1>2 DEF assignObservationTimestamps
<1>. QED BY <1>1, <1>2, <1>3

LEMMA PrepareInv ==
  ASSUME SequencerInv, NEW req \in PrepareRequests, NEW t \in ClockReadings,
         Prepare(req, t)
  PROVE  SequencerInv'
<1> DEFINE epoch == authority.lastEpoch + 1
<1>1. /\ isMutableState
      /\ authority.active = req.expectedVersion
      /\ req.kind = "rollback-republication" /\ bornByGenesis
           => authority.previous # NoVersion
      /\ t \in Instants /\ t + PreparationTtl \in Instants
      /\ operation.phase = "prepared" => isExpired(t)
      /\ retiresOrphan(t) => pendingCleanup = NoPending
      /\ req.kind = "ordinary-publication"
           => ~(req.ordering < authority.ordering)
      /\ epoch \in Epochs
      /\ freshInstant(t) \in Instants
  BY PrepareAdmits DEF Prepare
<1>2. /\ prepared' = assignObservationTimestamps(req.manifest, t)
      /\ pendingCleanup' =
           IF retiresOrphan(t)
             THEN [epoch |-> operation.epoch, candidate |-> operation.candidate]
             ELSE pendingCleanup
      /\ operation' =
           [epoch |-> epoch, token |-> epoch, kind |-> req.kind,
            phase |-> "prepared", prior |-> req.expectedVersion,
            candidate |-> candidateVersionForEpoch(epoch),
            ordering |-> req.ordering, commitment |-> req.commitment,
            deadline |-> t + PreparationTtl, result |-> NoResult]
      /\ authority' = [authority EXCEPT !.lastEpoch = epoch]
      /\ committed' = committed
      /\ commitEpochs' = commitEpochs
      /\ acknowledged' = acknowledged
      /\ deletable' = deletable
  BY DEF Prepare, history
<1>3. /\ req.kind \in OperationKinds
      /\ req.manifest \in Manifests
      /\ req.ordering \in Instants
      /\ req.commitment \in Commitments
      /\ req.expectedVersion \in Versions \union {NoVersion}
  BY DEF PrepareRequests
<1>4. /\ operation'.epoch = epoch
      /\ operation'.phase = "prepared"
      /\ operation'.kind = req.kind
      /\ operation'.prior = authority.active
      /\ operation'.ordering = req.ordering
      /\ operation'.candidate = candidateVersionForEpoch(epoch)
      /\ operation' \in Operations
  <2>1. NoResult \in [active : AllocatedVersions \union {NoVersion},
                      previous : Versions \union {NoVersion}]
    BY DEF NoResult
  <2>. QED
    BY <1>1, <1>2, <1>3, <2>1, VersionFacts DEF Operations, Tokens, Epochs
<1>5. /\ authority'.lastEpoch = epoch
      /\ authority'.active = authority.active
      /\ authority'.previous = authority.previous
      /\ authority'.floor = authority.floor
      /\ authority'.ordering = authority.ordering
      /\ authority'.cutoverState = authority.cutoverState
      /\ authority'.fingerprint = authority.fingerprint
  BY <1>2 DEF SequencerInv, TypeOK
<1>6. /\ authority.lastEpoch \in Nat /\ epoch \in Nat
      /\ \A e \in commitEpochs : e \in Nat /\ e < epoch
      /\ epoch \notin commitEpochs
      /\ authority.lastEpoch < epoch
  BY SMT DEF SequencerInv, TypeOK, CommitsAllocated, Epochs
<1>7. /\ pendingCleanup' # NoPending =>
           /\ pendingCleanup' \in [epoch : Epochs, candidate : AllocatedVersions]
           /\ pendingCleanup'.epoch <= authority.lastEpoch
           /\ pendingCleanup'.candidate
                = candidateVersionForEpoch(pendingCleanup'.epoch)
           /\ pendingCleanup'.epoch \notin commitEpochs
      /\ {operation.epoch, pendingCleanup.epoch}
           \subseteq commitEpochs \union {pendingCleanup'.epoch, 0}
  <2>1. CASE retiresOrphan(t)
    <3>1. /\ operation \in Operations
          /\ operation # NoOperation
          /\ pendingCleanup = NoPending
          /\ operation.phase \in {"prepared", "cancelled"}
      BY <1>1, <2>1, OperationFacts DEF retiresOrphan, SequencerInv, TypeOK
    <3>2. pendingCleanup' = [epoch |-> operation.epoch,
                             candidate |-> operation.candidate]
      BY <1>2, <2>1
    <3>3. /\ operation.epoch \in Epochs
          /\ operation.epoch <= authority.lastEpoch
          /\ operation.candidate = candidateVersionForEpoch(operation.epoch)
          /\ operation.candidate \in AllocatedVersions
          /\ operation.epoch \notin commitEpochs
      BY <3>1, OperationFacts DEF SequencerInv, RecordsAllocated, CommitsAllocated
    <3>. QED BY <3>1, <3>2, <3>3, OperationFacts
  <2>2. CASE ~retiresOrphan(t)
    <3>1. pendingCleanup' = pendingCleanup
      BY <1>2, <2>2
    <3>2. operation.epoch \in commitEpochs \union {0}
      <4>1. CASE operation = NoOperation
        BY <4>1, OperationFacts
      <4>2. CASE operation.phase = "committed"
        BY <4>2 DEF SequencerInv, CommitsAllocated
      <4>3. CASE operation # NoOperation /\ operation.phase # "committed"
        <5>1. /\ operation \in Operations
              /\ operation.phase \in {"prepared", "cancelled"}
          BY <4>3, OperationFacts DEF SequencerInv, TypeOK
        <5>2. operation.candidate \in {authority.active, authority.previous}
          BY <1>1, <2>2, <5>1 DEF retiresOrphan
        <5>3. /\ operation.candidate = candidateVersionForEpoch(operation.epoch)
              /\ operation.epoch \in Epochs
          BY <4>3, <5>1, OperationFacts DEF SequencerInv, RecordsAllocated
        <5>. QED
          BY <5>2, <5>3, VersionFacts DEF SequencerInv, PointersCommitted
      <4>. QED BY <4>1, <4>2, <4>3
    <3>3. pendingCleanup # NoPending =>
            pendingCleanup \in [epoch : Epochs, candidate : AllocatedVersions]
      BY DEF SequencerInv, TypeOK
    <3>. QED
      BY <3>1, <3>2, <3>3 DEF SequencerInv, RecordsAllocated, CommitsAllocated
  <2>. QED BY <2>1, <2>2
<1>8. /\ prepared' \in [Docs -> Rows]
      /\ freshInstant(t) > authority.floor
      /\ \A d \in Docs :
           /\ prepared'[d] # committed[d] =>
                /\ prepared'[d].revision # committed[d].revision
                /\ \/ prepared'[d] = NoRow
                   \/ prepared'[d].observedAt = freshInstant(t)
           /\ prepared'[d].observedAt > authority.floor =>
                prepared'[d].observedAt = freshInstant(t)
  BY <1>1, <1>2, <1>3, AssignmentFacts DEF SequencerInv
<1> HIDE DEF epoch
<1>9. TypeOK'
  <2>1. authority' \in
          [cutoverState : CutoverStates, active : Versions \union {NoVersion},
           previous : Versions \union {NoVersion},
           ordering : 0 .. MaxInstant, floor : 0 .. MaxInstant,
           lastEpoch : 0 .. MaxOperationEpoch,
           fingerprint : SeedFingerprints \union GenesisFingerprints
                           \union {NoFingerprint}]
    <3>1. epoch \in 0 .. MaxOperationEpoch
      BY <1>1 DEF Epochs
    <3>. QED BY <1>2, <3>1 DEF SequencerInv, TypeOK
  <2>. QED
    BY <1>2, <1>4, <1>7, <1>8, <2>1 DEF SequencerInv, TypeOK
<1>10. RecordsAllocated'
  <2>1. pendingCleanup' # NoPending =>
          /\ pendingCleanup'.epoch <= epoch
          /\ pendingCleanup'.epoch # epoch
    <3>1. pendingCleanup' # NoPending => pendingCleanup'.epoch \in Nat
      BY <1>7 DEF Epochs
    <3>. QED BY <1>6, <1>7, <3>1, SMT
  <2>2. operation'.epoch <= authority'.lastEpoch
    BY <1>1, <1>4, <1>5, SMT DEF Epochs
  <2>. QED BY <1>4, <1>5, <1>7, <2>1, <2>2 DEF RecordsAllocated
<1>11. CommitsAllocated'
  <2>1. \A e \in commitEpochs : e <= epoch
    BY <1>1, <1>6, SMT DEF Epochs
  <2>. QED BY <1>2, <1>4, <1>5, <1>6, <1>7, <2>1 DEF CommitsAllocated
<1>12. PointersCommitted'
  BY <1>2, <1>5 DEF SequencerInv, PointersCommitted
<1>13. DeletableRetired'
  <2>1. \A v \in deletable : v.id <= epoch /\ v.id # epoch
    <3>1. \A v \in deletable : v.id \in Nat /\ v.id <= authority.lastEpoch
      BY VersionFacts DEF SequencerInv, TypeOK, DeletableRetired, Epochs
    <3>. QED BY <1>6, <3>1, SMT
  <2>. QED
    BY <1>2, <1>4, <1>5, <2>1 DEF SequencerInv, DeletableRetired
<1>14. Dormant'
  BY <1>1, <1>2, <1>5 DEF SequencerInv, Dormant, isMutableState
<1>15. PreparedRows'
  BY <1>2, <1>4, <1>5, <1>8 DEF PreparedRows
<1>16. PreparedOrdering' /\ PreparedBoundToActive'
  <2>1. req.kind = "ordinary-publication"
          => req.ordering >= authority.ordering
    BY <1>1, <1>3, SMT DEF SequencerInv, TypeOK, Instants
  <2>. QED BY <1>4, <1>5, <2>1 DEF PreparedOrdering, PreparedBoundToActive
<1>17. GenesisPointers'
  BY <1>5 DEF SequencerInv, GenesisPointers, bornByGenesis
<1>18. NoOrphanForgotten'
  <2>1. ASSUME NEW e \in 1 .. epoch
        PROVE  e \in commitEpochs \union acknowledged
                       \union {epoch, pendingCleanup'.epoch}
    <3>1. CASE e = epoch
      BY <3>1
    <3>2. CASE e # epoch
      <4>1. e \in 1 .. authority.lastEpoch /\ e # 0
        BY <1>6, <3>2, SMT DEF epoch
      <4>2. e \in commitEpochs \union acknowledged
                    \union {operation.epoch, pendingCleanup.epoch}
        BY <4>1 DEF SequencerInv, NoOrphanForgotten
      <4>. QED BY <1>7, <4>1, <4>2
    <3>. QED BY <3>1, <3>2
  <2>. QED BY <1>2, <1>4, <1>5, <2>1 DEF NoOrphanForgotten
<1>19. FloorCoversRows'
  BY <1>2, <1>5 DEF SequencerInv, FloorCoversRows
<1>20. GenesisRollbackHasTarget'
  <2>1. ASSUME req.kind = "rollback-republication", bornByGenesis
        PROVE  \E e, f \in commitEpochs \ {epoch} : e # f
    <3>1. /\ authority.previous # NoVersion
          /\ authority.active # NoVersion
          /\ authority.active # authority.previous
          /\ authority.active \in AllocatedVersions
          /\ authority.previous \in AllocatedVersions
      BY <1>1, <2>1 DEF SequencerInv, GenesisPointers
    <3>2. /\ authority.active.id \in commitEpochs
          /\ authority.previous.id \in commitEpochs
          /\ authority.active.id # authority.previous.id
      BY <3>1, VersionFacts DEF SequencerInv, PointersCommitted
    <3>. QED BY <1>6, <3>2
  <2>. QED
    BY <1>2, <1>4, <1>5, <2>1 DEF GenesisRollbackHasTarget, bornByGenesis
<1>. QED
  BY <1>9, <1>10, <1>11, <1>12, <1>13, <1>14, <1>15, <1>16, <1>17, <1>18,
     <1>19, <1>20 DEF SequencerInv

-----------------------------------------------------------------------------
(* How a season enters the sequencer *)

LEMMA SeedInv ==
  ASSUME SequencerInv, NEW seed \in Seeds, SeedCutover(seed)
  PROVE  SequencerInv'
<1>1. /\ seed.fingerprint \in SeedFingerprints
      /\ seed.active \in LegacyVersions
      /\ seed.previous \in LegacyVersions \union {NoVersion}
      /\ seed.ordering \in Instants /\ seed.floor \in Instants
      /\ seed.rows \in [Docs -> Rows]
      /\ \A d \in Docs : seed.rows[d].observedAt <= seed.floor
  BY SeedAssumption DEF SeedAssumption
<1>2. /\ authority' = [authority EXCEPT
           !.cutoverState = "seeded",
           !.active = seed.active,
           !.previous = seed.previous,
           !.ordering = seed.ordering,
           !.floor = seed.floor,
           !.fingerprint = seed.fingerprint]
      /\ committed' = seed.rows
      /\ prepared' = NoRows
      /\ UNCHANGED <<operation, pendingCleanup, history>>
  BY DEF SeedCutover
<1>3. /\ operation = NoOperation
      /\ pendingCleanup = NoPending
      /\ commitEpochs = {} /\ deletable = {}
      /\ authority.lastEpoch = 0
  BY DEF SeedCutover, SequencerInv, Dormant
<1>4. /\ authority'.cutoverState = "seeded"
      /\ authority'.active = seed.active
      /\ authority'.previous = seed.previous
      /\ authority'.floor = seed.floor
      /\ authority'.lastEpoch = 0
      /\ authority'.fingerprint = seed.fingerprint
  BY <1>2, <1>3 DEF SequencerInv, TypeOK
<1>5. TypeOK'
  <2>1. /\ "seeded" \in CutoverStates
        /\ seed.active \in Versions
        /\ seed.previous \in Versions \union {NoVersion}
        /\ seed.ordering \in 0 .. MaxInstant
        /\ seed.floor \in 0 .. MaxInstant
    BY <1>1 DEF CutoverStates, Versions, Instants
  <2>. QED
    BY <1>1, <1>2, <2>1, RowFacts DEF SequencerInv, TypeOK, history
<1>6. RecordsAllocated' /\ CommitsAllocated' /\ DeletableRetired'
  BY <1>2, <1>3, <1>4, OperationFacts
     DEF RecordsAllocated, CommitsAllocated, DeletableRetired, history
<1>7. PointersCommitted'
  BY <1>1, <1>4, VersionFacts DEF PointersCommitted, Versions
<1>8. Dormant'
  BY <1>2, <1>3, <1>4 DEF Dormant, history
<1>9. PreparedRows'
  <2>1. \A d \in Docs : prepared'[d].observedAt = 0
    BY <1>2, RowFacts
  <2>2. authority'.floor \in Nat
    BY <1>1, <1>4 DEF Instants
  <2>3. \A d \in Docs : ~(prepared'[d].observedAt > authority'.floor)
    BY <2>1, <2>2, SMT
  <2>. QED BY <1>2, <1>3, <2>3, OperationFacts DEF PreparedRows
<1>10. /\ PreparedOrdering' /\ PreparedBoundToActive'
       /\ GenesisRollbackHasTarget'
  BY <1>2, <1>3, OperationFacts
     DEF PreparedOrdering, PreparedBoundToActive, GenesisRollbackHasTarget
<1>11. GenesisPointers'
  BY <1>1, <1>4, SequencerAssumption
     DEF GenesisPointers, bornByGenesis, SequencerAssumption
<1>12. NoOrphanForgotten'
  BY <1>4, SMT DEF NoOrphanForgotten
<1>13. FloorCoversRows'
  BY <1>1, <1>2, <1>4 DEF FloorCoversRows
<1>. QED
  BY <1>5, <1>6, <1>7, <1>8, <1>9, <1>10, <1>11, <1>12, <1>13 DEF SequencerInv

LEMMA ActivateInv ==
  ASSUME SequencerInv, NEW f \in SeedFingerprints, ActivateCutover(f)
  PROVE  SequencerInv'
<1>1. /\ authority' = [authority EXCEPT !.cutoverState = "active"]
      /\ UNCHANGED <<operation, pendingCleanup, committed, prepared, history>>
  BY DEF ActivateCutover
<1>2. /\ authority'.cutoverState = "active"
      /\ authority'.active = authority.active
      /\ authority'.previous = authority.previous
      /\ authority'.ordering = authority.ordering
      /\ authority'.floor = authority.floor
      /\ authority'.lastEpoch = authority.lastEpoch
      /\ authority'.fingerprint = authority.fingerprint
  BY <1>1 DEF SequencerInv, TypeOK
<1>3. TypeOK'
  BY <1>1 DEF SequencerInv, TypeOK, CutoverStates, history
<1>4. Dormant'
  BY <1>2 DEF Dormant
<1>. QED
  BY <1>1, <1>2, <1>3, <1>4
     DEF SequencerInv, RecordsAllocated, CommitsAllocated, PointersCommitted,
         DeletableRetired, PreparedRows, PreparedOrdering, GenesisPointers,
         bornByGenesis, PreparedBoundToActive, NoOrphanForgotten,
         FloorCoversRows, GenesisRollbackHasTarget, history

LEMMA GenesisInv ==
  ASSUME SequencerInv, NEW f \in GenesisFingerprints, CommitGenesis(f)
  PROVE  SequencerInv'
<1>1. /\ authority' = [authority EXCEPT !.cutoverState = "genesis",
                                        !.fingerprint = f]
      /\ UNCHANGED <<operation, pendingCleanup, committed, prepared, history>>
      /\ operation = NoOperation
      /\ authority.active = NoVersion /\ authority.previous = NoVersion
  BY DEF CommitGenesis, SequencerInv, Dormant
<1>2. /\ authority'.cutoverState = "genesis"
      /\ authority'.active = NoVersion
      /\ authority'.previous = NoVersion
      /\ authority'.ordering = authority.ordering
      /\ authority'.floor = authority.floor
      /\ authority'.lastEpoch = authority.lastEpoch
  BY <1>1 DEF SequencerInv, TypeOK
<1>3. TypeOK'
  BY <1>1 DEF SequencerInv, TypeOK, CutoverStates, history
<1>4. Dormant' /\ GenesisPointers'
  BY <1>2 DEF Dormant, GenesisPointers
<1>5. PreparedBoundToActive' /\ GenesisRollbackHasTarget'
  BY <1>1, OperationFacts DEF PreparedBoundToActive, GenesisRollbackHasTarget
<1>. QED
  BY <1>1, <1>2, <1>3, <1>4, <1>5
     DEF SequencerInv, RecordsAllocated, CommitsAllocated, PointersCommitted,
         DeletableRetired, PreparedRows, PreparedOrdering,
         NoOrphanForgotten, FloorCoversRows, history

-----------------------------------------------------------------------------
(* The invariant and what follows from it *)

LEMMA NextInv == SequencerInv /\ [Next]_vars => SequencerInv'
<1> SUFFICES ASSUME SequencerInv, [Next]_vars PROVE SequencerInv'
    OBVIOUS
<1>1. CASE UNCHANGED vars
  BY <1>1
     DEF vars, SequencerInv, TypeOK, RecordsAllocated, CommitsAllocated,
         PointersCommitted, DeletableRetired, Dormant, PreparedRows,
         PreparedOrdering, GenesisPointers, bornByGenesis,
         PreparedBoundToActive, NoOrphanForgotten, FloorCoversRows,
         GenesisRollbackHasTarget
<1>2. CASE Next
  BY <1>2, PrepareInv, FinalizeInv, CancelInv, AuthorizeInv, AcknowledgeInv,
     SeedInv, ActivateInv, GenesisInv DEF Next
<1>. QED BY <1>1, <1>2

LEMMA InvDeletable == SequencerInv => DeletableIsGarbage
<1> SUFFICES ASSUME SequencerInv, NEW v \in deletable,
                    isAuthoritativeVersion(v)
             PROVE  FALSE
    BY DEF DeletableIsGarbage
<1>1. /\ v \in AllocatedVersions
      /\ v.id \notin commitEpochs
      /\ operation.phase = "prepared" => operation.epoch # v.id
  BY DEF SequencerInv, TypeOK, DeletableRetired
<1>2. v \notin {authority.active, authority.previous}
  BY <1>1 DEF SequencerInv, PointersCommitted
<1>3. /\ operation.phase \in {"prepared", "committed"}
      /\ operation.candidate = v
  BY <1>2 DEF isAuthoritativeVersion
<1>4. operation.epoch = v.id
  BY <1>3, OperationFacts, VersionFacts
     DEF SequencerInv, TypeOK, RecordsAllocated
<1>. QED BY <1>1, <1>3, <1>4 DEF SequencerInv, CommitsAllocated

(* Every reachable state of the sequencer satisfies its inductive invariant,
   and so its type, the predecessor binding, the floor, the accounting of
   every epoch and the genesis rule, for every size of season. *)
THEOREM SequencerSafe == Spec => []SequencerInv
<1>1. Init => SequencerInv
  BY InitInv
<1>2. SequencerInv /\ [Next]_vars => SequencerInv'
  BY NextInv
<1>. QED BY <1>1, <1>2, PTL DEF Spec

(* The type invariant holds of the specification. *)
THEOREM SequencerTypeOK == Spec => []TypeOK
<1>1. SequencerInv => TypeOK
  BY DEF SequencerInv
<1>. QED BY <1>1, SequencerSafe, PTL

(* finalize never meets predecessor-changed: a prepared operation stays bound
   to the release that is active. *)
THEOREM PredecessorNeverChanges == Spec => []PreparedBoundToActive
<1>1. SequencerInv => PreparedBoundToActive
  BY DEF SequencerInv
<1>. QED BY <1>1, SequencerSafe, PTL

(* A version whose deletion was ever authorized never becomes authoritative,
   however late the deletion arrives. *)
THEOREM DelayedDeletionSafe == Spec => []DeletableIsGarbage
BY InvDeletable, SequencerSafe, PTL

(* No allocated epoch is lost track of by the single pending-cleanup slot. *)
THEOREM EveryEpochAccounted == Spec => []NoOrphanForgotten
<1>1. SequencerInv => NoOrphanForgotten
  BY DEF SequencerInv
<1>. QED BY <1>1, SequencerSafe, PTL

-----------------------------------------------------------------------------
(* Action properties *)

(* Once a season has entered the sequencer, only a finalize moves its release
   pointers, its committed rows or its floor. *)
LEMMA OnlyFinalizeCommits ==
  ASSUME SequencerInv, [Next]_vars, authority.cutoverState # "uninitialized"
  PROVE  \/ \E e \in Epochs, k \in Tokens, c \in Commitments, t \in ClockReadings :
              Finalize(e, k, c, t)
         \/ /\ authority'.active = authority.active
            /\ authority'.floor = authority.floor
            /\ authority'.ordering = authority.ordering
            /\ committed' = committed
<1>1. CASE UNCHANGED vars
  BY <1>1 DEF vars
<1>2. ASSUME NEW req \in PrepareRequests, NEW t \in ClockReadings, Prepare(req, t)
      PROVE  /\ authority' = [authority EXCEPT !.lastEpoch = authority.lastEpoch + 1]
             /\ committed' = committed
  BY <1>2 DEF Prepare
<1>3. ASSUME NEW f \in SeedFingerprints, ActivateCutover(f)
      PROVE  /\ authority' = [authority EXCEPT !.cutoverState = "active"]
             /\ committed' = committed
  BY <1>3 DEF ActivateCutover
<1>4. CASE Next
  BY <1>2, <1>3, <1>4
     DEF Next, Cancel, AuthorizeCleanup, AcknowledgeCleanup, SeedCutover,
         CommitGenesis, durable, SequencerInv, TypeOK
<1>. QED BY <1>1, <1>4

(* What a commit does to the pointers, the ordering and the rows. *)
LEMMA FinalizeEffect ==
  ASSUME SequencerInv, NEW e \in Epochs, NEW k \in Tokens,
         NEW c \in Commitments, NEW t \in ClockReadings, Finalize(e, k, c, t)
  PROVE  /\ operation.phase = "prepared"
         /\ operation.epoch \in Epochs
         /\ authority'.active = candidateVersionForEpoch(operation.epoch)
         /\ authority'.previous = authority.active
         /\ authority'.ordering = operation.ordering
         /\ authority'.floor >= authority.floor
         /\ committed' = prepared
         /\ \A f \in commitEpochs : f < operation.epoch
<1>1. /\ operation \in Operations /\ operation # NoOperation
      /\ operation.phase = "prepared"
  BY FinalizeAdmits DEF Finalize, committedAuthority, SequencerInv, TypeOK
<1>2. /\ operation.epoch \in Epochs
      /\ operation.candidate = candidateVersionForEpoch(operation.epoch)
      /\ operation.epoch \notin commitEpochs
      /\ \A f \in commitEpochs : f \in Epochs /\ f <= operation.epoch
  BY <1>1, OperationFacts
     DEF SequencerInv, TypeOK, RecordsAllocated, CommitsAllocated
<1>3. /\ authority'.active = operation.candidate
      /\ authority'.previous = authority.active
      /\ authority'.ordering = operation.ordering
      /\ authority'.floor = highestInstant(prepared)
      /\ committed' = prepared
  BY DEF Finalize, committedAuthority, SequencerInv, TypeOK
<1>4. authority'.floor >= authority.floor
  <2>1. authority.floor \in Nat /\ highestInstant(prepared) \in Nat
    BY HighestInstantFacts DEF SequencerInv, TypeOK
  <2>. QED BY <1>3, <2>1, HighestInstantFacts, SMT DEF SequencerInv
<1>5. \A f \in commitEpochs : f < operation.epoch
  BY <1>2, SMT DEF Epochs
<1>. QED BY <1>1, <1>2, <1>3, <1>4, <1>5

(* A document's timestamp moves only with its revision, and then beyond every
   timestamp ever committed, whatever the clock reads. *)
THEOREM ObservationsAdvance == Spec => ObservationClockAdvances
<1> DEFINE A == authority.cutoverState # "uninitialized" =>
      /\ authority'.floor >= authority.floor
      /\ \A d \in Docs :
           committed'[d] # committed[d] =>
             /\ committed'[d].revision # committed[d].revision
             /\ \/ committed'[d] = NoRow
                \/ committed'[d].observedAt > authority.floor
<1>1. ASSUME SequencerInv, [Next]_vars PROVE A
  <2> SUFFICES ASSUME authority.cutoverState # "uninitialized"
               PROVE  /\ authority'.floor >= authority.floor
                      /\ \A d \in Docs :
                           committed'[d] # committed[d] =>
                             /\ committed'[d].revision # committed[d].revision
                             /\ \/ committed'[d] = NoRow
                                \/ committed'[d].observedAt > authority.floor
    OBVIOUS
  <2>1. CASE \E e \in Epochs, k \in Tokens, c \in Commitments, t \in ClockReadings :
               Finalize(e, k, c, t)
    BY <1>1, <2>1, FinalizeEffect DEF SequencerInv, PreparedRows
  <2>2. CASE authority'.floor = authority.floor /\ committed' = committed
    <3>1. authority.floor \in Nat
      BY <1>1 DEF SequencerInv, TypeOK
    <3>2. authority'.floor >= authority.floor
      BY <2>2, <3>1, SMT
    <3>. QED BY <2>2, <3>2
  <2>. QED BY <1>1, <2>1, <2>2, OnlyFinalizeCommits
<1>2. SequencerInv /\ [Next]_vars => [A]_vars
  BY <1>1
<1>. QED
  BY <1>2, SequencerSafe, PTL DEF Spec, ObservationClockAdvances

(* An ordinary publication never replaces a release by an older one. *)
THEOREM OrdinaryNeverGoesBack == Spec => OrdinaryNeverOlder
<1> DEFINE A == /\ authority'.active # authority.active
                /\ authority.cutoverState # "uninitialized"
                /\ operation.kind = "ordinary-publication"
                => authority'.ordering >= authority.ordering
<1>1. ASSUME SequencerInv, [Next]_vars PROVE A
  BY <1>1, FinalizeEffect, OnlyFinalizeCommits
     DEF SequencerInv, PreparedOrdering
<1>2. SequencerInv /\ [Next]_vars => [A]_vars
  BY <1>1
<1>. QED BY <1>2, SequencerSafe, PTL DEF Spec, OrdinaryNeverOlder

(* Releases commit in the order of their epochs, once each. *)
THEOREM EpochOrder == Spec => CommitsInEpochOrder
<1> DEFINE A == /\ authority'.active # authority.active
                /\ authority.cutoverState # "uninitialized"
                => /\ authority'.previous = authority.active
                   /\ \E e \in Epochs :
                        /\ authority'.active = candidateVersionForEpoch(e)
                        /\ \A f \in commitEpochs : f < e
<1>1. ASSUME SequencerInv, [Next]_vars PROVE A
  BY <1>1, FinalizeEffect, OnlyFinalizeCommits
<1>2. SequencerInv /\ [Next]_vars => [A]_vars
  BY <1>1
<1>. QED BY <1>2, SequencerSafe, PTL DEF Spec, CommitsInEpochOrder
(* A season born by genesis is never asked to roll back to a release that
   does not exist. *)
THEOREM GenesisRollbackSafe == Spec => []GenesisRollbackHasTarget
<1>1. SequencerInv => GenesisRollbackHasTarget
  BY DEF SequencerInv
<1>. QED BY <1>1, SequencerSafe, PTL

-----------------------------------------------------------------------------
(* Refinement *)

(* The sequencer implements the abstract season authority: every step adopts,
   commits or discards there, or changes nothing it shows. *)
THEOREM SequencerImplementsAuthority == Spec => ImplementsAuthority
<1>1. Init => Authority!Init
  BY DEF Init, Authority!Init, releasedVersions
<1>2. ASSUME SequencerInv, [Next]_vars
      PROVE  [Authority!Next]_(Authority!authorityVars)
  <2>1. ASSUME NEW e \in Epochs, NEW k \in Tokens, NEW c \in Commitments,
               NEW t \in ClockReadings, Finalize(e, k, c, t)
        PROVE  Authority!Next
    <3>1. /\ operation.phase = "prepared"
          /\ operation \in Operations
          /\ operation.epoch \in Epochs
          /\ operation.epoch \notin commitEpochs
          /\ commitEpochs \subseteq Epochs
      BY <1>2, <2>1, FinalizeEffect, OperationFacts
         DEF SequencerInv, TypeOK, CommitsAllocated
    <3> DEFINE v == candidateVersionForEpoch(operation.epoch)
    <3>2. /\ v \in AllocatedVersions /\ v.id = operation.epoch
          /\ v \in Versions
      BY <3>1, VersionFacts DEF Versions
    <3>3. v \notin releasedVersions
      BY <3>1, <3>2, VersionFacts DEF releasedVersions
    <3>4. v \notin deletable
      BY <1>2, <3>1, <3>2 DEF SequencerInv, DeletableRetired
    <3>5. v \notin {authority.active, authority.previous}
      BY <1>2, <3>1, <3>2 DEF SequencerInv, PointersCommitted
    <3>6. /\ authority'.active = v
          /\ authority'.previous = authority.active
          /\ releasedVersions' = releasedVersions \union {v}
          /\ deletable' = deletable
      BY <1>2, <2>1, FinalizeEffect DEF Finalize, committedAuthority, releasedVersions
    <3>7. Authority!Commit(v)
      BY <3>3, <3>4, <3>5, <3>6 DEF Authority!Commit
    <3>. QED BY <3>2, <3>7 DEF Authority!Next
  <2>2. ASSUME NEW e \in Epochs, NEW k \in Tokens \union {0}, NEW v \in Versions,
               AuthorizeCleanup(e, k, v)
        PROVE  Authority!Next
    <3>1. v \notin {authority.active, authority.previous}
      BY <2>2, AuthorizeAdmits DEF AuthorizeCleanup, isAuthoritativeVersion
    <3>2. v \in AllocatedVersions /\ v.id \notin commitEpochs
      BY <1>2, <2>2, AuthorizeAdmits, OperationFacts, VersionFacts
         DEF AuthorizeCleanup, SequencerInv, TypeOK, RecordsAllocated,
             CommitsAllocated
    <3>3. v \notin releasedVersions
      BY <1>2, <3>2, VersionFacts DEF releasedVersions, SequencerInv, TypeOK
    <3>4. Authority!Discard(v)
      BY <2>2, <3>1, <3>3
         DEF AuthorizeCleanup, durable, releasedVersions, Authority!Discard
    <3>. QED BY <3>4 DEF Authority!Next
  <2>3. ASSUME NEW seed \in Seeds, SeedCutover(seed)
        PROVE  Authority!Next
    <3>1. /\ authority.active = NoVersion
          /\ releasedVersions = {}
      BY <1>2, <2>3 DEF SeedCutover, SequencerInv, Dormant, releasedVersions
    <3>2. /\ seed.active \in Versions
          /\ seed.previous \in Versions \union {NoVersion}
      BY SeedAssumption DEF SeedAssumption, Versions
    <3>3. /\ authority'.active = seed.active
          /\ authority'.previous = seed.previous
      BY <1>2, <2>3 DEF SeedCutover, SequencerInv, TypeOK
    <3>4. Authority!Adopt(seed.active, seed.previous)
      BY <2>3, <3>1, <3>3
         DEF SeedCutover, history, releasedVersions, Authority!Adopt
    <3>. QED BY <3>2, <3>4 DEF Authority!Next
  <2>4. CASE \/ \E req \in PrepareRequests, t \in ClockReadings : Prepare(req, t)
             \/ \E e \in Epochs, k \in Tokens : Cancel(e, k)
             \/ \E e \in Epochs, k \in Tokens \union {0}, v \in Versions :
                  AcknowledgeCleanup(e, k, v)
             \/ \E f \in SeedFingerprints : ActivateCutover(f)
             \/ \E f \in GenesisFingerprints : CommitGenesis(f)
             \/ UNCHANGED vars
    <3>1. /\ authority'.active = authority.active
          /\ authority'.previous = authority.previous
          /\ commitEpochs' = commitEpochs
          /\ deletable' = deletable
      BY <1>2, <2>4
         DEF Prepare, Cancel, AcknowledgeCleanup, ActivateCutover,
             CommitGenesis, vars, history, SequencerInv, TypeOK
    <3>. QED BY <3>1 DEF Authority!authorityVars, releasedVersions
  <2>. QED BY <1>2, <2>1, <2>2, <2>3, <2>4 DEF Next
<1>. QED
  BY <1>1, <1>2, SequencerSafe, PTL
     DEF Spec, ImplementsAuthority, Authority!Spec
-----------------------------------------------------------------------------
(* What the readers of the records rest on *)

(* A row set names a document exactly when it is not the empty one. *)
LEMMA NamedFacts ==
  /\ namedRows(NoRows) = {}
  /\ \A rows \in [Docs -> Rows] : rows # NoRows => namedRows(rows) # {}
<1>1. namedRows(NoRows) = {}
  BY RowFacts DEF namedRows
<1>2. ASSUME NEW rows \in [Docs -> Rows], namedRows(rows) = {}
      PROVE  rows = NoRows
  <2>1. \A d \in Docs : rows[d] = NoRow
    BY <1>2 DEF namedRows
  <2>. QED BY <2>1 DEF NoRows
<1>. QED BY <1>1, <1>2

LEMMA CodecInit == Init => CodecInv
<1> SUFFICES ASSUME Init PROVE CodecInv
    OBVIOUS
<1>1. ResultsRecorded /\ PreparedNamed
  BY OperationFacts DEF Init, ResultsRecorded, PreparedNamed, NoOperation
<1>2. AuthorityWhole
  BY DEF Init, AuthorityWhole
<1>. QED BY <1>1, <1>2 DEF CodecInv

LEMMA CodecPrepare ==
  ASSUME SequencerInv, CodecInv, NEW req \in PrepareRequests,
         NEW t \in ClockReadings, Prepare(req, t)
  PROVE  CodecInv'
<1>1. /\ req.manifest \in Manifests
      /\ req.manifest \in ManifestType
      /\ req.manifest # NoManifest
  BY SequencerAssumption DEF PrepareRequests, SequencerAssumption
<1>2. /\ prepared' = assignObservationTimestamps(req.manifest, t)
      /\ authority' = [authority EXCEPT !.lastEpoch = authority.lastEpoch + 1]
      /\ committed' = committed
      /\ operation'.phase = "prepared"
      /\ operation'.result = NoResult
  BY DEF Prepare
<1>3. /\ authority'.cutoverState = authority.cutoverState
      /\ authority'.active = authority.active
      /\ authority'.previous = authority.previous
      /\ authority'.ordering = authority.ordering
      /\ authority'.floor = authority.floor
      /\ authority'.fingerprint = authority.fingerprint
  BY <1>2 DEF SequencerInv, TypeOK
<1>4. PICK d \in Docs : req.manifest[d] # NoRevision
  BY <1>1 DEF ManifestType, NoManifest
<1>5. prepared'[d] # NoRow
  <2>1. CASE req.manifest[d] = committed[d].revision
    <3>1. prepared'[d] = committed[d]
      BY <1>2, <1>4, <2>1 DEF assignObservationTimestamps
    <3>. QED BY <3>1, <2>1, <1>4, RowFacts
  <2>2. CASE req.manifest[d] # committed[d].revision
    <3>1. prepared'[d] = [revision |-> req.manifest[d],
                          observedAt |-> freshInstant(t)]
      BY <1>2, <1>4, <2>2 DEF assignObservationTimestamps
    <3>2. prepared'[d].revision = req.manifest[d]
      BY <3>1
    <3>. QED BY <3>2, <1>4, RowFacts
  <2>. QED BY <2>1, <2>2
<1>6. PreparedNamed'
  BY <1>5 DEF PreparedNamed, namedRows
<1>7. ResultsRecorded'
  BY <1>2 DEF ResultsRecorded
<1>8. AuthorityWhole'
  BY <1>2, <1>3 DEF CodecInv, AuthorityWhole, namedRows
<1>. QED BY <1>6, <1>7, <1>8 DEF CodecInv

LEMMA CodecFinalize ==
  ASSUME SequencerInv, CodecInv, NEW epoch \in Epochs, NEW token \in Tokens,
         NEW c \in Commitments, NEW t \in ClockReadings,
         Finalize(epoch, token, c, t)
  PROVE  CodecInv'
<1>1. /\ isMutableState
      /\ operation # NoOperation
      /\ operation \in Operations
      /\ operation.phase = "prepared"
  BY FinalizeAdmits DEF Finalize, SequencerInv, TypeOK
<1>2. /\ operation.candidate \in AllocatedVersions
      /\ operation.ordering \in Instants
  BY <1>1, OperationFacts
<1>3. /\ authority' = committedAuthority
      /\ committed' = prepared
      /\ operation' = [operation EXCEPT
            !.phase = "committed",
            !.result = [active |-> operation.candidate,
                        previous |-> authority.active]]
  BY DEF Finalize
<1>4. /\ operation'.phase = "committed"
      /\ operation'.candidate = operation.candidate
      /\ operation'.result = [active |-> operation.candidate,
                              previous |-> authority.active]
  BY <1>1, <1>3 DEF Operations
<1>5. operation'.result.active = operation.candidate
  BY <1>4
<1>6. /\ authority'.cutoverState = "active"
      /\ authority'.active = operation.candidate
      /\ authority'.ordering = operation.ordering
      /\ authority'.floor = highestInstant(prepared)
      /\ authority'.fingerprint = authority.fingerprint
  BY <1>3 DEF committedAuthority, SequencerInv, TypeOK
<1>7. authority.fingerprint # NoFingerprint
  <2>1. CASE authority.cutoverState = "genesis"
    BY <2>1, SequencerAssumption
       DEF CodecInv, AuthorityWhole, SequencerAssumption
  <2>2. CASE authority.cutoverState = "active"
    BY <2>2 DEF CodecInv, AuthorityWhole
  <2>. QED BY <1>1, <2>1, <2>2 DEF isMutableState
<1>8. namedRows(prepared) # {}
  BY <1>1 DEF CodecInv, PreparedNamed
<1>9. highestInstant(prepared) \in Instants
  <2>1. PICK d \in Docs : prepared[d] # NoRow
    BY <1>8 DEF namedRows
  <2>2. prepared[d].observedAt \in Instants
    BY <2>1, RowFacts DEF SequencerInv, TypeOK
  <2>3. /\ highestInstant(prepared) \in 0 .. MaxInstant
        /\ prepared[d].observedAt <= highestInstant(prepared)
    BY HighestInstantFacts DEF SequencerInv
  <2>. QED BY <2>2, <2>3, SequencerAssumption, SMT
           DEF Instants, SequencerAssumption
<1>10. ResultsRecorded' /\ PreparedNamed'
  BY <1>4, <1>5 DEF ResultsRecorded, PreparedNamed
<1>11. operation.candidate # NoVersion
  BY <1>2, VersionFacts DEF Versions
<1>12. AuthorityWhole'
  BY <1>2, <1>3, <1>6, <1>7, <1>8, <1>9, <1>11 DEF AuthorityWhole, namedRows
<1>. QED BY <1>10, <1>12 DEF CodecInv

LEMMA CodecCancel ==
  ASSUME SequencerInv, CodecInv, NEW epoch \in Epochs, NEW token \in Tokens,
         Cancel(epoch, token)
  PROVE  CodecInv'
<1>1. /\ operation # NoOperation
      /\ operation.phase = "prepared"
      /\ operation' = [operation EXCEPT !.phase = "cancelled"]
      /\ UNCHANGED <<authority, committed>>
  BY CancelAdmits, OperationFacts DEF Cancel, SequencerInv, TypeOK
<1>2. /\ operation'.phase = "cancelled"
      /\ operation'.result = operation.result
  BY <1>1 DEF SequencerInv, TypeOK, Operations
<1>3. ResultsRecorded' /\ PreparedNamed'
  BY <1>1, <1>2 DEF CodecInv, ResultsRecorded, PreparedNamed
<1>. QED BY <1>1, <1>3 DEF CodecInv, AuthorityWhole, namedRows

LEMMA CodecAcknowledge ==
  ASSUME SequencerInv, CodecInv, NEW epoch \in Epochs,
         NEW token \in Tokens \union {0}, NEW v \in Versions,
         AcknowledgeCleanup(epoch, token, v)
  PROVE  CodecInv'
<1>1. /\ UNCHANGED <<authority, committed, prepared>>
      /\ operation' = operation \/ operation' = NoOperation
  BY DEF AcknowledgeCleanup
<1>2. ResultsRecorded' /\ PreparedNamed'
  BY <1>1, OperationFacts
     DEF CodecInv, ResultsRecorded, PreparedNamed, NoOperation, namedRows
<1>. QED BY <1>1, <1>2 DEF CodecInv, AuthorityWhole, namedRows

LEMMA CodecSeed ==
  ASSUME SequencerInv, CodecInv, NEW seed \in Seeds, SeedCutover(seed)
  PROVE  CodecInv'
<1>1. /\ seed.fingerprint \in SeedFingerprints
      /\ seed.active \in LegacyVersions
      /\ seed.ordering \in Instants
      /\ seed.floor \in Instants
      /\ seed.rows \in [Docs -> Rows]
      /\ seed.rows # NoRows
  BY SeedAssumption DEF SeedAssumption
<1>2. /\ authority' = [authority EXCEPT
           !.cutoverState = "seeded",
           !.active = seed.active,
           !.previous = seed.previous,
           !.ordering = seed.ordering,
           !.floor = seed.floor,
           !.fingerprint = seed.fingerprint]
      /\ committed' = seed.rows
      /\ UNCHANGED operation
      /\ operation = NoOperation
  BY DEF SeedCutover, SequencerInv, Dormant
<1>3. /\ authority'.cutoverState = "seeded"
      /\ authority'.active = seed.active
      /\ authority'.ordering = seed.ordering
      /\ authority'.floor = seed.floor
      /\ authority'.fingerprint = seed.fingerprint
  BY <1>2 DEF SequencerInv, TypeOK
<1>4. namedRows(committed') # {}
  BY <1>1, <1>2, NamedFacts
<1>5. seed.active # NoVersion /\ seed.fingerprint # NoFingerprint
  BY <1>1, VersionFacts, SequencerAssumption
     DEF Versions, SequencerAssumption
<1>6. AuthorityWhole'
  BY <1>1, <1>3, <1>4, <1>5 DEF AuthorityWhole, namedRows
<1>7. ResultsRecorded' /\ PreparedNamed'
  BY <1>2, OperationFacts DEF ResultsRecorded, PreparedNamed, NoOperation
<1>. QED BY <1>6, <1>7 DEF CodecInv

LEMMA CodecActivate ==
  ASSUME SequencerInv, CodecInv, NEW f \in SeedFingerprints, ActivateCutover(f)
  PROVE  CodecInv'
<1>1. /\ authority.cutoverState = "seeded"
      /\ authority' = [authority EXCEPT !.cutoverState = "active"]
      /\ UNCHANGED <<operation, committed, prepared>>
  BY DEF ActivateCutover
<1>2. /\ authority'.cutoverState = "active"
      /\ authority'.active = authority.active
      /\ authority'.ordering = authority.ordering
      /\ authority'.floor = authority.floor
      /\ authority'.fingerprint = authority.fingerprint
  BY <1>1 DEF SequencerInv, TypeOK
<1>. QED
  BY <1>1, <1>2
     DEF CodecInv, AuthorityWhole, ResultsRecorded, PreparedNamed, namedRows

LEMMA CodecGenesis ==
  ASSUME SequencerInv, CodecInv, NEW f \in GenesisFingerprints,
         CommitGenesis(f)
  PROVE  CodecInv'
<1>1. /\ authority.cutoverState = "uninitialized"
      /\ authority.previous = NoVersion
      /\ authority.floor = NoInstant
      /\ authority' = [authority EXCEPT !.cutoverState = "genesis",
                                        !.fingerprint = f]
      /\ UNCHANGED <<operation, committed, prepared>>
  BY DEF CommitGenesis, SequencerInv, Dormant
<1>2. /\ authority'.cutoverState = "genesis"
      /\ authority'.previous = authority.previous
      /\ authority'.ordering = authority.ordering
      /\ authority'.floor = authority.floor
      /\ authority'.fingerprint = f
  BY <1>1 DEF SequencerInv, TypeOK
<1>. QED
  BY <1>1, <1>2
     DEF CodecInv, AuthorityWhole, ResultsRecorded, PreparedNamed, namedRows

LEMMA CodecNext == SequencerInv /\ CodecInv /\ [Next]_vars => CodecInv'
<1> SUFFICES ASSUME SequencerInv, CodecInv, [Next]_vars PROVE CodecInv'
    OBVIOUS
<1>1. CASE UNCHANGED vars
  BY <1>1 DEF vars, CodecInv, AuthorityWhole, ResultsRecorded, PreparedNamed,
              namedRows
<1>2. ASSUME NEW epoch \in Epochs, NEW token \in Tokens \union {0},
             NEW v \in Versions, AuthorizeCleanup(epoch, token, v)
      PROVE  CodecInv'
  BY <1>2 DEF AuthorizeCleanup, durable, CodecInv, AuthorityWhole,
              ResultsRecorded, PreparedNamed, namedRows
<1>3. CASE Next
  BY <1>2, <1>3, CodecPrepare, CodecFinalize, CodecCancel, CodecAcknowledge,
     CodecSeed, CodecActivate, CodecGenesis DEF Next
<1>. QED BY <1>1, <1>3

(* Every reachable state of the sequencer also satisfies CodecInv: no command
   leaves a field behind that its record is not read with. *)
THEOREM CodecSafe == Spec => [](SequencerInv /\ CodecInv)
<1>1. Init => SequencerInv /\ CodecInv
  BY InitInv, CodecInit
<1>2. SequencerInv /\ CodecInv /\ [Next]_vars => (SequencerInv /\ CodecInv)'
  BY NextInv, CodecNext
<1>. QED BY <1>1, <1>2, PTL DEF Spec

(* The fields of a record in its type, each a fact of its own. *)
LEMMA AuthorityFieldFacts ==
  ASSUME TypeOK
  PROVE  /\ authority.cutoverState \in CutoverStates
         /\ authority.active \in Versions \union {NoVersion}
         /\ authority.previous \in Versions \union {NoVersion}
         /\ authority.ordering \in Instants \union {NoInstant}
         /\ authority.floor \in Instants \union {NoInstant}
         /\ authority.lastEpoch \in 0 .. MaxOperationEpoch
         /\ authority.fingerprint \in SeedFingerprints
              \union GenesisFingerprints \union {NoFingerprint}
<1>1. 0 .. MaxInstant = Instants \union {NoInstant}
  BY SequencerAssumption, SMT DEF Instants, NoInstant, SequencerAssumption
<1>. QED BY <1>1 DEF TypeOK

LEMMA ResultFacts ==
  ASSUME SequencerInv, CodecInv, operation # NoOperation
  PROVE  /\ operation \in Operations
         /\ operation.epoch \in Epochs
         /\ operation.candidate = candidateVersionForEpoch(operation.epoch)
         /\ operation.candidate \in AllocatedVersions
         /\ operation.phase = "committed" <=> operation.result # NoResult
         /\ operation.phase = "committed" =>
              /\ operation.result.active = operation.candidate
              /\ operation.result.previous \in Versions \union {NoVersion}
<1>1. operation \in Operations
  BY DEF SequencerInv, TypeOK
<1>2. /\ operation.epoch \in Epochs
      /\ operation.candidate = candidateVersionForEpoch(operation.epoch)
      /\ operation.candidate \in AllocatedVersions
  BY <1>1, OperationFacts, VersionFacts DEF SequencerInv, RecordsAllocated
<1>3. operation.result.previous \in Versions \union {NoVersion}
  BY <1>1 DEF Operations
<1>4. operation.candidate # NoVersion
  BY <1>2, VersionFacts DEF Versions
<1>5. operation.phase = "committed" <=> operation.result # NoResult
  <2>1. NoResult.active = NoVersion
    BY DEF NoResult
  <2>. QED BY <2>1, <1>4 DEF CodecInv, ResultsRecorded
<1>. QED BY <1>1, <1>2, <1>3, <1>5 DEF CodecInv, ResultsRecorded

LEMMA PendingFacts ==
  ASSUME SequencerInv, pendingCleanup # NoPending
  PROVE  /\ pendingCleanup.epoch \in Epochs
         /\ pendingCleanup.candidate \in AllocatedVersions
         /\ pendingCleanup.candidate.id = pendingCleanup.epoch
<1>1. /\ pendingCleanup.epoch \in Epochs
      /\ pendingCleanup.candidate \in AllocatedVersions
  BY DEF SequencerInv, TypeOK
<1>. QED BY <1>1, VersionFacts DEF SequencerInv, RecordsAllocated

-----------------------------------------------------------------------------
(* The records *)

LEMMA RecordsRead ==
  ASSUME SequencerInv, CodecInv
  PROVE  StoredRecordsRead
<1>1. TypeOK
  BY DEF SequencerInv
<1>2. ASSUME authority.cutoverState # "uninitialized"
      PROVE  readAuthorityRecord(authority)
  <2>1. authority.cutoverState = "genesis" => authority.active = NoVersion
    BY DEF SequencerInv, Dormant
  <2>2. authority.lastEpoch \in Nat
    BY AuthorityFieldFacts, <1>1, SequencerAssumption, SMT DEF SequencerAssumption
  <2>. QED
    BY <1>1, <2>1, <2>2, AuthorityFieldFacts
       DEF readAuthorityRecord, CodecInv, AuthorityWhole
<1>3. ASSUME operation # NoOperation
      PROVE  readOperationRecord(operation)
  <2>1. /\ operation.kind \in OperationKinds
        /\ operation.phase \in {"prepared", "committed", "cancelled"}
        /\ operation.prior \in Versions \union {NoVersion}
        /\ operation.ordering \in Instants
        /\ operation.commitment \in Commitments
        /\ operation.deadline \in Instants
    BY <1>3, ResultFacts DEF Operations
  <2>2. operation.epoch \in Nat \ {0} /\ operation.candidate \in Versions
    BY <1>3, ResultFacts DEF Epochs, Versions
  <2>3. operation.result # NoResult => readCommittedResult(operation.result)
    BY <1>3, <2>2, ResultFacts DEF readCommittedResult
  <2>4. operation.phase = "committed" <=> operation.result # NoResult
    BY <1>3, ResultFacts
  <2>. QED BY <2>1, <2>2, <2>3, <2>4 DEF readOperationRecord
<1>4. ASSUME pendingCleanup # NoPending
      PROVE  readPendingCleanupRecord(pendingHandle)
  BY <1>4, PendingFacts
     DEF readPendingCleanupRecord, pendingHandle, retiredCleanupOf, Epochs,
         Versions
<1>5. readPerKeyState(committed) /\ readPerKeyState(prepared)
  BY <1>1, RowFacts DEF TypeOK, readPerKeyState
<1>. QED BY <1>2, <1>3, <1>4, <1>5 DEF StoredRecordsRead

LEMMA SeedComplete ==
  ASSUME SequencerInv, CodecInv,
         authority.cutoverState \in {"seeded", "active"},
         authority.fingerprint \in SeedFingerprints
  PROVE  validateCutoverSeed(recoveredSeed)
           /\ seedFloorCoversPerKeyState(recoveredSeed)
<1>1. /\ recoveredSeed.fingerprint = authority.fingerprint
      /\ recoveredSeed.active = authority.active
      /\ recoveredSeed.previous = authority.previous
      /\ recoveredSeed.ordering = authority.ordering
      /\ recoveredSeed.floor = authority.floor
      /\ recoveredSeed.rows = committed
  BY DEF recoveredSeed
<1>2. authority.fingerprint \notin GenesisFingerprints \union {NoFingerprint}
  BY SequencerAssumption DEF SequencerAssumption
<1>3. /\ authority.active \in Versions
      /\ authority.previous \in Versions \union {NoVersion}
      /\ authority.ordering \in Instants
      /\ authority.floor \in Instants
      /\ namedRows(committed) # {}
  BY AuthorityFieldFacts DEF SequencerInv, CodecInv, AuthorityWhole
<1>4. readPerKeyState(committed)
  BY RowFacts DEF SequencerInv, TypeOK, readPerKeyState
<1>5. validateCutoverSeed(recoveredSeed)
  BY <1>1, <1>2, <1>3, <1>4 DEF validateCutoverSeed, decodePerKeyStateArray
<1>6. seedFloorCoversPerKeyState(recoveredSeed)
  BY <1>1 DEF SequencerInv, FloorCoversRows, seedFloorCoversPerKeyState,
              namedRows
<1>. QED BY <1>5, <1>6

LEMMA RecoveryWhole ==
  ASSUME SequencerInv, CodecInv
  PROVE  SeedRecoverable
<1>1. ASSUME NEW f \in SeedFingerprints \union GenesisFingerprints,
             authority.cutoverState \in {"seeded", "active"},
             authority.fingerprint = f
      PROVE  RecoverAnswer(f) = IF validateCutoverSeed(recoveredSeed)
                  /\ seedFloorCoversPerKeyState(recoveredSeed)
                THEN "committed" ELSE "state-corrupt"
  BY <1>1 DEF RecoverAnswer
<1>2. ASSUME NEW f \in SeedFingerprints \union GenesisFingerprints,
             ~ (/\ authority.cutoverState \in {"seeded", "active"}
                /\ authority.fingerprint = f)
      PROVE  RecoverAnswer(f) \in {"uninitialized", "conflicting-cutover-seed"}
  <2>1. authority.cutoverState \in CutoverStates
    BY DEF SequencerInv, TypeOK
  <2>. QED BY <1>2, <2>1 DEF RecoverAnswer, CutoverStates
<1>3. ASSUME NEW f \in SeedFingerprints
      PROVE  RecoverAnswer(f) # "state-corrupt"
  <2>1. CASE /\ authority.cutoverState \in {"seeded", "active"}
             /\ authority.fingerprint = f
    BY <1>1, <1>3, <2>1, SeedComplete
  <2>. QED BY <1>2, <1>3, <2>1
<1>4. ASSUME NEW f \in SeedFingerprints \union GenesisFingerprints,
             RecoverAnswer(f) = "committed"
      PROVE  /\ ~ bornByGenesis
             /\ decodeCutoverSeed(recoveredSeed, f)
             /\ SeedCutoverAnswer(recoveredSeed)
                  \in {"already-seeded", "already-active"}
  <2>1. /\ authority.cutoverState \in {"seeded", "active"}
        /\ authority.fingerprint = f
    BY <1>2, <1>4
  <2>2. /\ validateCutoverSeed(recoveredSeed)
        /\ seedFloorCoversPerKeyState(recoveredSeed)
    BY <1>1, <1>4, <2>1
  <2>3. recoveredSeed.fingerprint = authority.fingerprint
    BY DEF recoveredSeed
  <2>4. authority.fingerprint \notin GenesisFingerprints
    BY <2>2, <2>3 DEF validateCutoverSeed
  <2>5. SeedCutoverAnswer(recoveredSeed)
          \in {"already-seeded", "already-active"}
    BY <2>1 DEF SeedCutoverAnswer, seedMatchesCommittedState
  <2>. QED BY <2>1, <2>2, <2>3, <2>4, <2>5 DEF bornByGenesis, decodeCutoverSeed
<1>. QED BY <1>3, <1>4 DEF SeedRecoverable

(* Whatever was called, and however often, no record the sequencer wrote is
   one its readers refuse, and a migrated season can hand its committed state
   back as a complete seed (store.ts; coordinator.ts, recoverCutoverSeed). *)
THEOREM RecordsReadable == Spec => []RecordsStayReadable
<1>1. SequencerInv /\ CodecInv => RecordsStayReadable
  BY RecordsRead, RecoveryWhole DEF RecordsStayReadable
<1>. QED BY <1>1, CodecSafe, PTL

-----------------------------------------------------------------------------
(* The replies *)

LEMMA OwnedFacts ==
  /\ \A e \in Epochs : /\ candidateVersionOwnedBy(candidateVersionForEpoch(e), e)
                       /\ candidateVersionForEpoch(e) \in Versions
  /\ \A e \in Epochs : decodeRetiredCleanupHandle(
                         retiredCleanupOf(e, candidateVersionForEpoch(e)))
BY VersionFacts
   DEF candidateVersionOwnedBy, decodeRetiredCleanupHandle, retiredCleanupOf,
       Versions

(* The answers that name a record find it there. *)
LEMMA PrepareAnswerFacts ==
  ASSUME NEW req, NEW t
  PROVE  /\ PrepareAnswer(req, t) \in prepareRejectionReasons \union {"prepared"}
         /\ PrepareAnswer(req, t) = "operation-in-progress" =>
              operation.phase = "prepared"
         /\ PrepareAnswer(req, t) = "pending-cleanup-required" =>
              pendingCleanup # NoPending
BY DEF PrepareAnswer, prepareRejectionReasons

LEMMA PrepareDecodes ==
  ASSUME SequencerInv, CodecInv, NEW req \in SentPrepares,
         NEW t \in ClockReadings
  PROVE  /\ decodePrepareOutcome(PrepareReply(req, t))
         /\ prepareAnswersRequest(PrepareReply(req, t), req)
<1> DEFINE reply == PrepareReply(req, t)
<1>1. /\ reply.outcome = IF PrepareAnswer(req, t) = "prepared"
                           THEN PrepareAnswer(req, t) ELSE "rejected"
      /\ reply.reason = PrepareAnswer(req, t)
      /\ reply.operationEpoch = authority.lastEpoch + 1
      /\ reply.candidateVersion
           = candidateVersionForEpoch(authority.lastEpoch + 1)
      /\ reply.assigned = assignObservationTimestamps(req.manifest, t)
      /\ reply.deadline = t + PreparationTtl
      /\ reply.priorVersion = req.expectedVersion
      /\ reply.retiredCleanup =
           IF retiresOrphan(t)
             THEN retiredCleanupOf(operation.epoch, operation.candidate)
             ELSE NoHandle
      /\ reply.liveOperation
           = retiredCleanupOf(operation.epoch, operation.candidate)
      /\ reply.pendingCleanup = pendingHandle
  BY DEF PrepareReply
<1> HIDE DEF reply
<1>2. operation # NoOperation =>
        decodeRetiredCleanupHandle(
          retiredCleanupOf(operation.epoch, operation.candidate))
  BY ResultFacts, OwnedFacts
<1>3. pendingCleanup # NoPending => decodeRetiredCleanupHandle(pendingHandle)
  BY PendingFacts
     DEF pendingHandle, retiredCleanupOf, decodeRetiredCleanupHandle,
         candidateVersionOwnedBy
<1>4. CASE PrepareAnswer(req, t) # "prepared"
  <2>1. reply.reason \in prepareRejectionReasons
    BY <1>1, <1>4, PrepareAnswerFacts
  <2>2. reply.reason = "operation-in-progress" =>
          decodeRetiredCleanupHandle(reply.liveOperation)
    BY <1>1, <1>2, PrepareAnswerFacts, OperationFacts, ZenonT(60)
  <2>3. reply.reason = "pending-cleanup-required" =>
          decodeRetiredCleanupHandle(reply.pendingCleanup)
    BY <1>1, <1>3, PrepareAnswerFacts
  <2>4. decodePrepareOutcome(reply)
    BY <1>1, <1>4, <2>1, <2>2, <2>3 DEF decodePrepareOutcome
  <2>5. prepareAnswersRequest(reply, req)
    BY <1>1, <1>4 DEF prepareAnswersRequest
  <2>. QED BY <2>4, <2>5 DEF reply
<1>5. CASE PrepareAnswer(req, t) = "prepared"
  <2>1. /\ t \in Instants /\ t + PreparationTtl \in Instants
        /\ authority.lastEpoch + 1 \in Epochs
        /\ freshInstant(t) \in Instants
    BY <1>5, PrepareAdmits
  <2>2. /\ req.manifest \in Manifests
        /\ req.manifest \in ManifestType
        /\ req.manifest # NoManifest
        /\ req.expectedVersion \in {authority.active, NoVersion}
    BY SequencerAssumption DEF SentPrepares, SequencerAssumption
  <2>3. \A d \in Docs : reply.assigned[d].revision = req.manifest[d]
    <3> SUFFICES ASSUME NEW d \in Docs
                 PROVE  reply.assigned[d].revision = req.manifest[d]
      OBVIOUS
    <3>1. CASE req.manifest[d] = NoRevision
      BY <1>1, <3>1, RowFacts DEF assignObservationTimestamps
    <3>2. CASE /\ req.manifest[d] # NoRevision
               /\ req.manifest[d] = committed[d].revision
      BY <1>1, <3>2 DEF assignObservationTimestamps
    <3>3. CASE /\ req.manifest[d] # NoRevision
               /\ req.manifest[d] # committed[d].revision
      <4>1. reply.assigned[d] = [revision |-> req.manifest[d],
                                 observedAt |-> freshInstant(t)]
        BY <1>1, <3>3 DEF assignObservationTimestamps
      <4>. QED BY <4>1
    <3>. QED BY <3>1, <3>2, <3>3
  <2>4. PICK d \in Docs : req.manifest[d] # NoRevision
    BY <2>2 DEF ManifestType, NoManifest
  <2>5. namedRows(reply.assigned) # {}
    BY <2>3, <2>4, RowFacts DEF namedRows
  <2>6. reply.assigned \in [Docs -> Rows]
    BY <1>1, <2>1, <2>2, AssignmentFacts DEF SequencerInv
  <2>7. decodePerKeyStateArray(reply.assigned)
    BY <2>5, <2>6, RowFacts DEF decodePerKeyStateArray, readPerKeyState
  <2>8. reply.priorVersion \in Versions \union {NoVersion}
    BY <1>1, <2>2, AuthorityFieldFacts DEF SequencerInv
  <2>9. reply.retiredCleanup # NoHandle =>
          decodeRetiredCleanupHandle(reply.retiredCleanup)
    <3>1. retiresOrphan(t) => operation # NoOperation
      BY OperationFacts DEF retiresOrphan
    <3>. QED BY <1>1, <1>2, <3>1
  <2>10. decodeRetiredCleanupHandle(
           retiredCleanupOf(reply.operationEpoch, reply.candidateVersion))
    BY <1>1, <2>1, OwnedFacts
  <2>11. decodePrepareOutcome(reply)
    BY <1>1, <1>5, <2>1, <2>7, <2>8, <2>9, <2>10 DEF decodePrepareOutcome
  <2>12. prepareAnswersRequest(reply, req)
    BY <1>1, <2>3 DEF prepareAnswersRequest, prepareAssignmentsMatchRequest
  <2>. QED BY <2>11, <2>12 DEF reply
<1>. QED BY <1>4, <1>5

LEMMA FinalizeAnswerFacts ==
  ASSUME NEW e \in Epochs, NEW k, NEW c, NEW t, operation.epoch \in Int
  PROVE  /\ FinalizeAnswer(e, k, c, t) \in finalizeRejectionReasons
              \union {"committed", "replayed", "superseded"}
         /\ FinalizeAnswer(e, k, c, t) \in {"committed", "replayed"} =>
              operation # NoOperation /\ operation.epoch = e
         /\ FinalizeAnswer(e, k, c, t) = "superseded" =>
              operation # NoOperation
         /\ FinalizeAnswer(e, k, c, t) = "replayed" =>
              operation.phase = "committed"
<1>1. e \in Int
  BY DEF Epochs
<1>. QED BY <1>1, SMT DEF FinalizeAnswer, finalizeRejectionReasons, isFinalizable

LEMMA FinalizeDecodes ==
  ASSUME SequencerInv, CodecInv, NEW e \in Epochs, NEW k \in Tokens,
         NEW c \in Commitments, NEW t \in ClockReadings
  PROVE  /\ decodeFinalizeOutcome(FinalizeReply(e, k, c, t))
         /\ finalizeAnswersRequest(FinalizeReply(e, k, c, t), e)
<1> DEFINE reply == FinalizeReply(e, k, c, t)
           answer == FinalizeAnswer(e, k, c, t)
<1>1. /\ reply.outcome = CASE answer \in {"committed", "replayed"} -> "committed"
                           [] answer = "superseded" -> answer
                           [] OTHER -> "rejected"
      /\ reply.reason = answer
      /\ reply.result = IF answer = "replayed" THEN operation.result
                        ELSE [active |-> operation.candidate,
                              previous |-> authority.active]
      /\ reply.currentOperationEpoch = operation.epoch
      /\ reply.active = authority.active
      /\ reply.previous = authority.previous
  BY DEF FinalizeReply
<1> HIDE DEF reply
<1>0. operation.epoch \in Int
  BY OperationFacts DEF SequencerInv, TypeOK, Epochs
<1>2. /\ answer \in finalizeRejectionReasons
              \union {"committed", "replayed", "superseded"}
      /\ answer \in {"committed", "replayed"} =>
           operation # NoOperation /\ operation.epoch = e
      /\ answer = "superseded" => operation # NoOperation
      /\ answer = "replayed" => operation.phase = "committed"
  BY <1>0, FinalizeAnswerFacts
<1> HIDE DEF answer
<1>3. CASE answer \in {"committed", "replayed"}
  <2>1. reply.outcome = "committed"
    BY <1>1, <1>3
  <2>2. /\ operation.candidate = candidateVersionForEpoch(e)
        /\ answer = "replayed" =>
             /\ operation.result.active = operation.candidate
             /\ operation.result.previous \in Versions \union {NoVersion}
    BY <1>2, <1>3, ResultFacts
  <2>3. /\ reply.result.active = candidateVersionForEpoch(e)
        /\ reply.result.previous \in Versions \union {NoVersion}
    <3>1. CASE answer = "replayed"
      BY <1>1, <2>2, <3>1
    <3>2. CASE answer # "replayed"
      <4>1. reply.result = [active |-> operation.candidate,
                            previous |-> authority.active]
        BY <1>1, <3>2
      <4>2. /\ reply.result.active = operation.candidate
            /\ reply.result.previous = authority.active
        BY <4>1
      <4>. QED BY <2>2, <4>2, AuthorityFieldFacts DEF SequencerInv
    <3>. QED BY <3>1, <3>2
  <2>4. decodeFinalizeOutcome(reply)
    BY <2>1, <2>3, OwnedFacts DEF decodeFinalizeOutcome, decodeCommittedResult
  <2>5. finalizeAnswersRequest(reply, e)
    BY <2>3, OwnedFacts DEF finalizeAnswersRequest
  <2>. QED BY <2>4, <2>5 DEF reply
<1>4. CASE answer = "superseded"
  <2>1. reply.outcome = "superseded"
    BY <1>1, <1>4
  <2>2. reply.currentOperationEpoch \in Epochs
    BY <1>1, <1>2, <1>4, ResultFacts
  <2>3. /\ reply.active \in Versions \union {NoVersion}
        /\ reply.previous \in Versions \union {NoVersion}
    BY <1>1, AuthorityFieldFacts DEF SequencerInv
  <2>. QED BY <2>1, <2>2, <2>3
           DEF reply, decodeFinalizeOutcome, finalizeAnswersRequest
<1>5. CASE answer \notin {"committed", "replayed", "superseded"}
  <2>1. reply.outcome = "rejected" /\ reply.reason \in finalizeRejectionReasons
    BY <1>1, <1>2, <1>5
  <2>. QED BY <2>1 DEF reply, decodeFinalizeOutcome, finalizeAnswersRequest
<1>. QED BY <1>3, <1>4, <1>5

LEMMA CancelDecodes ==
  ASSUME SequencerInv, CodecInv, NEW e \in Epochs, NEW k \in Tokens
  PROVE  /\ decodeCancelOutcome(CancelReply(e, k))
         /\ cancelAnswersRequest(CancelReply(e, k), e)
<1> DEFINE reply == CancelReply(e, k)
           answer == CancelAnswer(e, k)
<1>0. operation.epoch \in Int /\ e \in Int
  BY OperationFacts DEF SequencerInv, TypeOK, Epochs
<1>1. /\ reply.outcome =
           IF answer \in {"cancelled", "already-cancelled", "superseded"}
             THEN answer ELSE "rejected"
      /\ reply.reason = answer
      /\ reply.candidateVersion = operation.candidate
      /\ reply.currentOperationEpoch = operation.epoch
  BY DEF CancelReply
<1>2. /\ answer \in cancelRejectionReasons
              \union {"cancelled", "already-cancelled", "superseded"}
      /\ answer \in {"cancelled", "already-cancelled"} =>
           operation # NoOperation /\ operation.epoch = e
      /\ answer = "superseded" => operation # NoOperation
  BY <1>0, SMT DEF CancelAnswer, cancelRejectionReasons
<1>3. operation # NoOperation =>
        /\ operation.epoch \in Epochs
        /\ operation.candidate = candidateVersionForEpoch(operation.epoch)
  BY ResultFacts
<1> HIDE DEF reply, answer
<1>4. decodeCancelOutcome(reply)
  BY <1>1, <1>2, <1>3, OwnedFacts DEF decodeCancelOutcome
<1>5. cancelAnswersRequest(reply, e)
  BY <1>1, <1>2, <1>3, OwnedFacts DEF cancelAnswersRequest
<1>. QED BY <1>4, <1>5 DEF reply

LEMMA CleanupDecodes ==
  ASSUME SequencerInv, CodecInv, NEW e \in Epochs,
         NEW k \in Tokens \union {0}, NEW v \in Versions
  PROVE  /\ decodeCleanupAuthorization(CleanupReply(e, k, v))
         /\ cleanupAnswersRequest(CleanupReply(e, k, v), e, v)
         /\ decodeCleanupAcknowledgement(AcknowledgeReply(e, k, v))
<1> DEFINE reply == CleanupReply(e, k, v)
           answer == AuthorizeCleanupAnswer(e, k, v)
<1>1. /\ reply.outcome = IF answer = "authorized" THEN answer ELSE "refused"
      /\ reply.reason = answer
      /\ reply.candidateVersion = IF namesCurrent(e, k) THEN operation.candidate
                                  ELSE pendingCleanup.candidate
  BY DEF CleanupReply
<1>2. answer \in cleanupRefusalReasons \union {"authorized"}
  BY DEF AuthorizeCleanupAnswer, cleanupRefusalReasons
<1>3. answer = "authorized" =>
        IF namesCurrent(e, k) THEN operation.candidate = v
        ELSE pendingCleanup # NoPending
               /\ pendingCleanup = [epoch |-> e, candidate |-> v]
  BY DEF AuthorizeCleanupAnswer, namesPending
<1>4. namesCurrent(e, k) => operation # NoOperation /\ operation.epoch = e
  BY DEF namesCurrent
<1> HIDE DEF reply, answer
<1>5. ASSUME answer = "authorized"
      PROVE  reply.candidateVersion = v /\ candidateVersionOwnedBy(v, e)
  <2>1. CASE namesCurrent(e, k)
    BY <1>1, <1>3, <1>4, <1>5, <2>1, ResultFacts, OwnedFacts
  <2>2. CASE ~ namesCurrent(e, k)
    <3>1. /\ pendingCleanup # NoPending
          /\ pendingCleanup = [epoch |-> e, candidate |-> v]
      BY <1>3, <1>5, <2>2
    <3>2. pendingCleanup.epoch = e /\ pendingCleanup.candidate = v
      BY <3>1
    <3>. QED BY <1>1, <2>2, <3>1, <3>2, PendingFacts
             DEF candidateVersionOwnedBy
  <2>. QED BY <2>1, <2>2
<1>6. decodeCleanupAuthorization(reply) /\ cleanupAnswersRequest(reply, e, v)
  BY <1>1, <1>2, <1>5 DEF decodeCleanupAuthorization, cleanupAnswersRequest
<1>7. decodeCleanupAcknowledgement(AcknowledgeReply(e, k, v))
  BY DEF AcknowledgeReply, AcknowledgeCleanupAnswer,
         decodeCleanupAcknowledgement, cleanupAckRejectionReasons
<1>. QED BY <1>6, <1>7 DEF reply

LEMMA AuthorityDecodes ==
  ASSUME SequencerInv, CodecInv
  PROVE  decodeSeasonAuthority(readAuthority)
<1>1. /\ readAuthority.cutoverState = authority.cutoverState
      /\ readAuthority.authoritative = isMutableState
      /\ readAuthority.active = authority.active
      /\ readAuthority.previous = authority.previous
      /\ readAuthority.fingerprint = authority.fingerprint
  BY DEF readAuthority
<1>2. authority.cutoverState = "genesis" => authority.active = NoVersion
  BY DEF SequencerInv, Dormant
<1>3. TypeOK
  BY DEF SequencerInv
<1>4. CASE authority.cutoverState = "uninitialized"
  BY <1>1, <1>4 DEF decodeSeasonAuthority, isMutableState
<1>5. CASE authority.cutoverState = "genesis"
  BY <1>1, <1>2, <1>5
     DEF decodeSeasonAuthority, isMutableState, CodecInv, AuthorityWhole
<1>6. CASE authority.cutoverState \in {"seeded", "active"}
  BY <1>1, <1>3, <1>6, AuthorityFieldFacts
     DEF decodeSeasonAuthority, isMutableState, CodecInv, AuthorityWhole
<1>. QED BY <1>3, <1>4, <1>5, <1>6 DEF TypeOK, CutoverStates

(* Whatever the state and the request, the reply is one the client decodes and
   recognises as the answer to it: no decision of the sequencer is lost in its
   own encoding (durable-object.ts, wire-decoders.ts). *)
THEOREM EveryReplyDecodes == Spec => []RepliesDecode
<1>1. SequencerInv /\ CodecInv => RepliesDecode
  <2> SUFFICES ASSUME SequencerInv, CodecInv PROVE RepliesDecode
      OBVIOUS
  <2>1. \A seed \in Seeds : decodeCutoverSeedOutcome(SeedCutoverAnswer(seed))
    BY DEF SeedCutoverAnswer, decodeCutoverSeedOutcome, cutoverRejectionReasons
  <2>2. \A f \in SeedFingerprints :
          decodeCutoverActivationOutcome(ActivateAnswer(f))
    BY DEF ActivateAnswer, decodeCutoverActivationOutcome,
           cutoverRejectionReasons
  <2>3. \A f \in GenesisFingerprints :
          decodeSeasonGenesisOutcome(GenesisAnswer(f))
    BY DEF GenesisAnswer, decodeSeasonGenesisOutcome, genesisRejectionReasons
  <2>. QED
    BY <2>1, <2>2, <2>3, PrepareDecodes, FinalizeDecodes, CancelDecodes,
       CleanupDecodes, AuthorityDecodes DEF RepliesDecode
<1>. QED BY <1>1, CodecSafe, PTL
=============================================================================
