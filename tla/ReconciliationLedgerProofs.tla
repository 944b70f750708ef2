----------------------- MODULE ReconciliationLedgerProofs -----------------------
(***************************************************************************)
(* Lemmas about the ledger and the policy it stores the decisions of: what *)
(* one check, one verification, one rotation and one disposition make of a *)
(* record that is sound, and what the store's operations make of a ledger. *)
(*                                                                         *)
(* A check of the cadence is followed through observe (the transitions)    *)
(* and advanceCadence (the slot it consumes): each changes few fields, so  *)
(* what a lemma says first is which, and then that the record stays sound. *)
(***************************************************************************)
EXTENDS LedgerRecords, FiniteSetTheorems, SequenceTheorems, TLAPS

LEMMA NullIsNoRevision == None \notin Revisions /\ None \notin Operations
BY PolicyAssumption

LEMMA BoundsAreNaturals ==
  /\ FinalSlot \in Nat /\ WindowChecks \in Nat /\ SettlingSlot \in Nat
  /\ FinalSlot > 1 /\ WindowChecks > 0
  /\ MaximumConfirmations \in Nat /\ MaximumConfirmations >= 2
  /\ SettlingConfirmations \in Nat /\ SettlingConfirmations >= 1
  /\ SettlingConfirmations <= MaximumConfirmations
  /\ HistoryCapacity \in Nat
  /\ MaximumVerifications \in Nat /\ MaximumVerifications >= 1
BY PolicyAssumption

-----------------------------------------------------------------------------
(* Superseded histories *)

LEMMA HistoryIsFinite ==
  ASSUME NEW s \in Seq(Revisions)
  PROVE  /\ IsFiniteSet(ToSet(s)) /\ Cardinality(ToSet(s)) \in Nat
         /\ ToSet(s) \subseteq Revisions
<1>1. s \in [1 .. Len(s) -> Revisions] /\ Len(s) \in Nat /\ DOMAIN s = 1 .. Len(s)
  BY LenProperties
<1>2. IsFiniteSet(1 .. Len(s))
  BY <1>1, FS_Interval
<1>3. s \in Surjection(1 .. Len(s), ToSet(s))
  BY <1>1 DEF Surjection, ToSet
<1>4. IsFiniteSet(ToSet(s))
  BY <1>2, <1>3, FS_Surjection
<1>. QED BY <1>1, <1>4, FS_CardinalityType DEF ToSet

(* A displaced revision lengthens the history and forgets nothing. *)
LEMMA HistoryGrows ==
  ASSUME NEW s \in Seq(Revisions), NEW e \in Revisions
  PROVE  /\ Append(s, e) \in Seq(Revisions)
         /\ Len(Append(s, e)) = Len(s) + 1
         /\ ToSet(Append(s, e)) = ToSet(s) \union {e}
         /\ IsPrefix(s, Append(s, e))
         /\ Cardinality(ToSet(s)) = Len(s) /\ e \notin ToSet(s) =>
              Cardinality(ToSet(Append(s, e))) = Len(s) + 1
<1> DEFINE t == Append(s, e)
<1>1. /\ t \in Seq(Revisions) /\ Len(t) = Len(s) + 1
      /\ \A i \in 1 .. Len(s) : t[i] = s[i]
      /\ t[Len(s) + 1] = e
  BY AppendProperties
<1>2. /\ Len(s) \in Nat /\ DOMAIN s = 1 .. Len(s) /\ s \in [1 .. Len(s) -> Revisions]
      /\ DOMAIN t = 1 .. Len(s) + 1
  BY <1>1, LenProperties
<1> HIDE DEF t
<1>3. ToSet(t) = ToSet(s) \union {e}
  <2>1. ASSUME NEW x \in ToSet(t) PROVE x \in ToSet(s) \union {e}
    <3>1. PICK i \in 1 .. Len(s) + 1 : x = t[i]
      BY <1>2 DEF ToSet
    <3>2. CASE i = Len(s) + 1
      BY <3>1, <3>2, <1>1
    <3>3. CASE i # Len(s) + 1
      <4>1. i \in 1 .. Len(s)
        BY <3>3, <1>2
      <4>. QED BY <4>1, <3>1, <1>1, <1>2 DEF ToSet
    <3>. QED BY <3>2, <3>3
  <2>2. ASSUME NEW x \in ToSet(s) PROVE x \in ToSet(t)
    <3>1. PICK i \in 1 .. Len(s) : x = s[i]
      BY <1>2 DEF ToSet
    <3>2. i \in 1 .. Len(s) + 1 /\ t[i] = x
      BY <3>1, <1>1, <1>2
    <3>. QED BY <3>2, <1>2 DEF ToSet
  <2>3. e \in ToSet(t)
    <3>1. Len(s) + 1 \in 1 .. Len(s) + 1
      BY <1>2
    <3>. QED BY <3>1, <1>1, <1>2 DEF ToSet
  <2>. QED BY <2>1, <2>2, <2>3
<1>4. IsPrefix(s, t)
  <2>1. SubSeq(s, 1, Len(s)) = s
    BY SubSeqFull
  <2>2. /\ SubSeq(t, 1, Len(s)) \in Seq(Revisions)
        /\ Len(SubSeq(t, 1, Len(s))) = Len(s)
        /\ \A i \in 1 .. Len(s) : SubSeq(t, 1, Len(s))[i] = t[i]
    <3>1. \A i \in 1 .. Len(s) : t[i] \in Revisions
      BY <1>1, <1>2
    <3>2. /\ SubSeq(t, 1, Len(s)) \in Seq(Revisions)
          /\ Len(SubSeq(t, 1, Len(s))) = IF 1 <= Len(s) THEN Len(s) - 1 + 1 ELSE 0
          /\ \A i \in 1 .. Len(s) - 1 + 1 : SubSeq(t, 1, Len(s))[i] = t[1 + i - 1]
      BY <3>1, <1>2, SubSeqProperties
    <3>. QED BY <3>2, <1>2
  <2>3. SubSeq(t, 1, Len(s)) = s
    BY <2>2, <1>1, <1>2, SeqEqual
  <2>. QED BY <2>1, <2>3, <1>1, <1>2 DEF IsPrefix
<1>5. ASSUME Cardinality(ToSet(s)) = Len(s), e \notin ToSet(s)
      PROVE  Cardinality(ToSet(t)) = Len(s) + 1
  BY <1>3, <1>5, HistoryIsFinite, FS_AddElement
<1>. QED BY <1>1, <1>3, <1>4, <1>5 DEF t

LEMMA PrefixIsTransitive ==
  ASSUME NEW s \in Seq(Revisions), NEW t \in Seq(Revisions),
         NEW u \in Seq(Revisions), IsPrefix(s, t), IsPrefix(t, u)
  PROVE  IsPrefix(s, u)
<1>1. /\ Len(s) \in Nat /\ Len(t) \in Nat /\ Len(u) \in Nat
      /\ Len(s) <= Len(t) /\ Len(t) <= Len(u)
      /\ s \in [1 .. Len(s) -> Revisions] /\ t \in [1 .. Len(t) -> Revisions]
      /\ u \in [1 .. Len(u) -> Revisions]
  BY LenProperties DEF IsPrefix
<1>2. ASSUME NEW a \in Seq(Revisions), NEW n \in 0 .. Len(a), Len(a) \in Nat
      PROVE  /\ SubSeq(a, 1, n) \in Seq(Revisions) /\ Len(SubSeq(a, 1, n)) = n
             /\ \A i \in 1 .. n : SubSeq(a, 1, n)[i] = a[i]
  <2>1. n \in Int /\ \A i \in 1 .. n : a[i] \in Revisions
    BY <1>2, LenProperties
  <2>2. /\ SubSeq(a, 1, n) \in Seq(Revisions)
        /\ Len(SubSeq(a, 1, n)) = IF 1 <= n THEN n - 1 + 1 ELSE 0
        /\ \A i \in 1 .. n - 1 + 1 : SubSeq(a, 1, n)[i] = a[1 + i - 1]
    BY <2>1, SubSeqProperties
  <2>. QED BY <1>2, <2>2
<1>3. \A i \in 1 .. Len(s) : s[i] = t[i]
  <2>1. Len(s) \in 0 .. Len(s) /\ Len(s) \in 0 .. Len(t)
    BY <1>1
  <2>. QED BY <1>1, <1>2, <2>1 DEF IsPrefix
<1>4. \A i \in 1 .. Len(t) : t[i] = u[i]
  <2>1. Len(t) \in 0 .. Len(t) /\ Len(t) \in 0 .. Len(u)
    BY <1>1
  <2>. QED BY <1>1, <1>2, <2>1 DEF IsPrefix
<1>5. \A i \in 1 .. Len(s) : s[i] = u[i]
  BY <1>1, <1>3, <1>4
<1>6. /\ Len(s) \in 0 .. Len(s) /\ Len(s) \in 0 .. Len(u)
  BY <1>1
<1>7. SubSeq(s, 1, Len(s)) = SubSeq(u, 1, Len(s))
  BY <1>1, <1>2, <1>5, <1>6, SeqEqual
<1>. QED BY <1>1, <1>7 DEF IsPrefix

(* A verification lengthens the generation's history by one identifier. *)
LEMMA VerificationsGrow ==
  ASSUME NEW h \in Histories, Len(h) < MaximumVerifications, NEW v \in Verification
  PROVE  /\ Append(h, v) \in Histories
         /\ Len(h) \in Nat /\ DOMAIN h = 1 .. Len(h)
         /\ Len(Append(h, v)) = Len(h) + 1
         /\ DOMAIN Append(h, v) = 1 .. Len(h) + 1
         /\ \A i \in 1 .. Len(h) : Append(h, v)[i] = h[i]
         /\ Append(h, v)[Len(h) + 1] = v
<1>1. h \in Seq(Verification)
  BY SeqDef DEF Histories
<1>2. /\ Append(h, v) \in Seq(Verification)
      /\ Len(Append(h, v)) = Len(h) + 1
      /\ \A i \in 1 .. Len(h) : Append(h, v)[i] = h[i]
      /\ Append(h, v)[Len(h) + 1] = v
  BY <1>1, AppendProperties
<1>3. /\ Len(h) \in Nat /\ DOMAIN h = 1 .. Len(h)
      /\ Append(h, v) \in [1 .. Len(h) + 1 -> Verification]
      /\ DOMAIN Append(h, v) = 1 .. Len(h) + 1
  BY <1>1, <1>2, LenProperties
<1>4. Len(h) + 1 \in 0 .. MaximumVerifications
  BY <1>3, BoundsAreNaturals
<1>. QED BY <1>2, <1>3, <1>4 DEF Histories

LEMMA HistoriesAreBounded ==
  ASSUME NEW h \in Histories
  PROVE  /\ Len(h) \in Nat /\ Len(h) <= MaximumVerifications
         /\ DOMAIN h = 1 .. Len(h)
         /\ \A i \in DOMAIN h : h[i] \in Verification
<1>1. h \in Seq(Verification)
  BY SeqDef DEF Histories
<1>2. PICK n \in 0 .. MaximumVerifications : h \in [1 .. n -> Verification]
  BY DEF Histories
<1>3. Len(h) = n
  BY <1>1, <1>2, LenProperties, BoundsAreNaturals
<1>. QED BY <1>1, <1>2, <1>3, LenProperties, BoundsAreNaturals

LEMMA EmptyHistory == <<>> \in Histories /\ Len(<<>>) = 0 /\ DOMAIN <<>> = {}
<1>1. <<>> \in [1 .. 0 -> Verification] /\ DOMAIN <<>> = {}
  OBVIOUS
<1>2. 0 \in 0 .. MaximumVerifications
  BY BoundsAreNaturals
<1>. QED BY <1>1, <1>2 DEF Histories

-----------------------------------------------------------------------------
(* What decoding a record says beyond its type. *)

ReceiptsAgree(rec) ==
  /\ decodeVerifications(rec.verifications)
  /\ decodeVerificationReset(rec.reset)
  /\ isCoherentGeneration(rec)

LEMMA DecodedRecord ==
  ASSUME NEW rec \in Record
  PROVE  decodeClassificationRecord(rec) <=>
           decodeSupersededRevisions(rec.superseded) /\ ReceiptsAgree(rec)
BY BoundsAreNaturals
   DEF Record, decodeClassificationRecord, decodeCorrection, ReceiptsAgree,
       RevisionOrNone

(* Nothing of what operators see of a round but its revisions. *)
SameReview(old, new) ==
  /\ new.version = old.version /\ new.published = old.published
  /\ new.competing = old.competing /\ new.disposition = old.disposition
  /\ new.verifications = old.verifications
  /\ new.generation = old.generation /\ new.reset = old.reset

LEMMA SameReceiptsAgree ==
  ASSUME NEW old, NEW new, SameReview(old, new), ReceiptsAgree(old)
  PROVE  ReceiptsAgree(new)
BY DEF SameReview, ReceiptsAgree, isCoherentGeneration

(* What a transition leaves of the history: the one before, or one revision
   longer, within its bound and without repetition. *)
KeepsHistoryOf(old, new) ==
  /\ IsPrefix(old.superseded, new.superseded)
  /\ supersededOf(old) \subseteq supersededOf(new)
  /\ decodeSupersededRevisions(new.superseded)

LEMMA SameHistoryIsKept ==
  ASSUME NEW old \in Record, decodeSupersededRevisions(old.superseded),
         NEW new, new.superseded = old.superseded
  PROVE  KeepsHistoryOf(old, new)
<1>1. IsPrefix(old.superseded, old.superseded)
  <2>1. old.superseded \in Seq(Revisions)
    BY DEF Record
  <2>. QED BY <2>1, LenProperties DEF IsPrefix
<1>. QED BY <1>1 DEF KeepsHistoryOf, supersededOf

(* A record before a check observes it, and one after. *)
Observable(rec) ==
  /\ rec \in Record
  /\ KeepsRevisionsApart(rec)
  /\ decodeSupersededRevisions(rec.superseded)

FollowsObservation(old, new) ==
  /\ Observable(new)
  /\ SameReview(old, new) /\ KeepsHistoryOf(old, new)
  /\ new.anchor = old.anchor /\ new.checkIndex = old.checkIndex
  /\ old.content # None => new.content # None

LEMMA SightedFollows ==
  ASSUME NEW rec, Observable(rec), NEW revision \in Revisions,
         rec.staged = None, revision # rec.content,
         revision \notin supersededOf(rec)
  PROVE  FollowsObservation(rec, sighted(rec, revision))
<1> DEFINE new == sighted(rec, revision)
<1>1. new \in Record /\ new.superseded = rec.superseded
  <2>1. revision \in RevisionOrNone /\ 0 \in 0 .. MaximumConfirmations
    BY BoundsAreNaturals DEF RevisionOrNone
  <2>. QED BY <2>1 DEF Observable, Record, sighted
<1>2. /\ SameReview(rec, new)
      /\ new.anchor = rec.anchor /\ new.checkIndex = rec.checkIndex
      /\ new.content = rec.content /\ new.staged = rec.staged
      /\ new.terminal = rec.terminal
      /\ new.candidate = revision /\ new.confirmations = 0
  BY DEF Observable, Record, sighted, SameReview
<1>3. KeepsHistoryOf(rec, new)
  BY <1>1, SameHistoryIsKept DEF Observable
<1> HIDE DEF new
<1>4. KeepsRevisionsApart(new)
  BY <1>1, <1>2, NullIsNoRevision DEF Observable, KeepsRevisionsApart, supersededOf, SameReview
<1>. QED BY <1>1, <1>2, <1>3, <1>4 DEF FollowsObservation, Observable, new

LEMMA FirstWriteFollows ==
  ASSUME NEW rec, Observable(rec), NEW revision \in Revisions,
         rec.content = None, rec.staged = None, NEW count \in {0, 1}
  PROVE  /\ FollowsObservation(rec, firstWrite(rec, revision, count))
         /\ firstWrite(rec, revision, count).content = revision
<1> DEFINE new == firstWrite(rec, revision, count)
<1>1. new \in Record /\ new.superseded = rec.superseded
  <2>1. /\ revision \in RevisionOrNone /\ None \in RevisionOrNone
        /\ count \in 0 .. MaximumConfirmations
        /\ "settled-on-deadline" \in Terminals
    BY BoundsAreNaturals DEF RevisionOrNone, Terminals
  <2>. QED BY <2>1 DEF Observable, Record, firstWrite
<1>2. /\ SameReview(rec, new)
      /\ new.anchor = rec.anchor /\ new.checkIndex = rec.checkIndex
      /\ new.content = revision /\ new.staged = rec.staged
      /\ new.candidate = None /\ new.confirmations = count
  BY DEF Observable, Record, firstWrite, SameReview
<1>3. KeepsHistoryOf(rec, new)
  BY <1>1, SameHistoryIsKept DEF Observable
<1> HIDE DEF new
<1>4. KeepsRevisionsApart(new)
  BY <1>1, <1>2, NullIsNoRevision DEF Observable, KeepsRevisionsApart, supersededOf, SameReview
<1>. QED BY <1>1, <1>2, <1>3, <1>4, NullIsNoRevision
      DEF FollowsObservation, Observable, new

LEMMA CorroborateFollows ==
  ASSUME NEW rec, Observable(rec), rec.staged = None,
         rec.content # None, rec.candidate # None
  PROVE  FollowsObservation(rec, corroborateUnsettled(rec))
<1> DEFINE new == corroborateUnsettled(rec)
<1>1. CASE Len(rec.superseded) >= HistoryCapacity
  <2>1. new = rec
    BY <1>1 DEF corroborateUnsettled
  <2>. QED BY <2>1, SameHistoryIsKept
        DEF FollowsObservation, Observable, SameReview
<1>2. CASE ~(Len(rec.superseded) >= HistoryCapacity)
  <2> DEFINE longer == Append(rec.superseded, rec.content)
  <2>1. /\ rec.content \in Revisions /\ rec.candidate \in Revisions
        /\ rec.content \notin supersededOf(rec)
        /\ rec.candidate \notin supersededOf(rec)
        /\ rec.superseded \in Seq(Revisions)
        /\ Cardinality(ToSet(rec.superseded)) = Len(rec.superseded)
    BY DEF Observable, KeepsRevisionsApart, Record, RevisionOrNone,
           decodeSupersededRevisions
  <2>2. /\ longer \in Seq(Revisions)
        /\ Len(longer) = Len(rec.superseded) + 1
        /\ ToSet(longer) = ToSet(rec.superseded) \union {rec.content}
        /\ IsPrefix(rec.superseded, longer)
        /\ Cardinality(ToSet(longer)) = Len(rec.superseded) + 1
    BY <2>1, HistoryGrows DEF supersededOf
  <2> HIDE DEF longer
  <2>3. new = [rec EXCEPT !.superseded = longer, !.content = rec.candidate,
                 !.confirmations = 2, !.candidate = None]
    BY <1>2 DEF corroborateUnsettled, longer, Observable, Record
  <2>4. new \in Record
    <3>1. /\ rec.candidate \in RevisionOrNone /\ None \in RevisionOrNone
          /\ 2 \in 0 .. MaximumConfirmations
      BY <2>1, BoundsAreNaturals DEF RevisionOrNone
    <3> HIDE DEF new
    <3>. QED BY <2>2, <2>3, <3>1 DEF Observable, Record
  <2>5. /\ SameReview(rec, new)
        /\ new.anchor = rec.anchor /\ new.checkIndex = rec.checkIndex
        /\ new.content = rec.candidate /\ new.staged = rec.staged
        /\ new.candidate = None /\ new.superseded = longer
    <3> HIDE DEF new
    <3>. QED BY <2>3 DEF Observable, Record, SameReview
  <2>6. Len(rec.superseded) \in Nat
    BY <2>1, LenProperties
  <2>7. decodeSupersededRevisions(longer)
    BY <2>2, <2>6, <1>2, BoundsAreNaturals DEF decodeSupersededRevisions
  <2> HIDE DEF new
  <2>8. KeepsHistoryOf(rec, new)
    BY <2>2, <2>5, <2>7 DEF KeepsHistoryOf, supersededOf
  <2>9. /\ rec.competing = None /\ rec.candidate # rec.content
        /\ None \notin supersededOf(rec)
    BY DEF Observable, KeepsRevisionsApart
  <2>10. new.competing = None
    BY <2>5, <2>9 DEF SameReview
  <2>11. KeepsRevisionsApart(new)
    BY <2>1, <2>2, <2>5, <2>9, <2>10, NullIsNoRevision
       DEF KeepsRevisionsApart, supersededOf
  <2>. QED BY <2>1, <2>4, <2>5, <2>7, <2>8, <2>11, NullIsNoRevision
        DEF FollowsObservation, Observable, new
<1>. QED BY <1>1, <1>2

LEMMA StageFollows ==
  ASSUME NEW rec, Observable(rec), rec.staged = None, NEW room \in BOOLEAN,
         rec.content # None, rec.terminal # "open"
  PROVE  FollowsObservation(rec, stage(rec, room))
<1> DEFINE new == stage(rec, room)
<1>1. CASE room
  <2>1. new = [rec EXCEPT !.staged = rec.candidate, !.candidate = None]
    BY <1>1 DEF stage
  <2>2. new \in Record /\ new.superseded = rec.superseded
    <3>1. None \in RevisionOrNone
      BY DEF RevisionOrNone
    <3> HIDE DEF new
    <3>. QED BY <2>1, <3>1 DEF Observable, Record
  <2>3. /\ SameReview(rec, new)
        /\ new.anchor = rec.anchor /\ new.checkIndex = rec.checkIndex
        /\ new.content = rec.content /\ new.staged = rec.candidate
        /\ new.candidate = None /\ new.terminal = rec.terminal
        /\ new.confirmations = rec.confirmations
    <3> HIDE DEF new
    <3>. QED BY <2>1 DEF Observable, Record, SameReview
  <2> HIDE DEF new
  <2>4. KeepsHistoryOf(rec, new)
    BY <2>2, SameHistoryIsKept DEF Observable
  <2>5. None \notin supersededOf(rec)
    BY NullIsNoRevision, HistoryIsFinite DEF Observable, Record, supersededOf
  <2>6. KeepsRevisionsApart(new)
    BY <2>2, <2>3, <2>5 DEF Observable, KeepsRevisionsApart, supersededOf, SameReview
  <2>. QED BY <2>2, <2>3, <2>4, <2>6 DEF FollowsObservation, Observable, new
<1>2. CASE ~room
  <2>1. new = rec
    BY <1>2 DEF stage
  <2>. QED BY <2>1, SameHistoryIsKept
        DEF FollowsObservation, Observable, SameReview
<1>. QED BY <1>1, <1>2

LEMMA ConfirmedFollows ==
  ASSUME NEW rec, Observable(rec), rec.staged = None, rec.content # None
  PROVE  FollowsObservation(rec, confirmed(rec)) /\ FollowsObservation(rec, rejected(rec))
<1> DEFINE count == IF rec.confirmations < MaximumConfirmations
                    THEN rec.confirmations + 1 ELSE rec.confirmations
<1>1. ASSUME NEW n \in 0 .. MaximumConfirmations,
             NEW new, new = [rec EXCEPT !.candidate = None, !.confirmations = n]
      PROVE  FollowsObservation(rec, new)
  <2>1. new \in Record /\ new.superseded = rec.superseded
    <3>1. None \in RevisionOrNone
      BY DEF RevisionOrNone
    <3>. QED BY <1>1, <3>1 DEF Observable, Record
  <2>2. /\ SameReview(rec, new)
        /\ new.anchor = rec.anchor /\ new.checkIndex = rec.checkIndex
        /\ new.content = rec.content /\ new.staged = rec.staged
        /\ new.candidate = None /\ new.terminal = rec.terminal
    BY <1>1 DEF Observable, Record, SameReview
  <2>3. KeepsHistoryOf(rec, new)
    BY <2>1, SameHistoryIsKept DEF Observable
  <2>4. None \notin supersededOf(rec)
    BY NullIsNoRevision, HistoryIsFinite DEF Observable, Record, supersededOf
  <2>5. KeepsRevisionsApart(new)
    BY <2>1, <2>2, <2>4 DEF Observable, KeepsRevisionsApart, supersededOf, SameReview
  <2>. QED BY <2>1, <2>2, <2>3, <2>5 DEF FollowsObservation, Observable
<1>2. count \in 0 .. MaximumConfirmations /\ 0 \in 0 .. MaximumConfirmations
  BY BoundsAreNaturals DEF Observable, Record
<1>3. confirmed(rec) = [rec EXCEPT !.candidate = None, !.confirmations = count]
  BY DEF confirmed, Observable, Record
<1>4. rejected(rec) = [rec EXCEPT !.candidate = None, !.confirmations = 0]
  BY DEF rejected
<1> HIDE DEF count
<1>. QED BY <1>1, <1>2, <1>3, <1>4

LEMMA ObserveFirstFollows ==
  ASSUME NEW rec, Observable(rec), NEW check, NEW revision \in Revisions,
         rec.content = None, rec.staged = None
  PROVE  FollowsObservation(rec, observeFirst(rec, check, revision))
<1>1. revision # rec.content /\ revision \notin supersededOf(rec)
  BY NullIsNoRevision DEF Observable, KeepsRevisionsApart
<1>2. CASE observeFirst(rec, check, revision) = firstWrite(rec, revision, 0)
  BY <1>2, FirstWriteFollows
<1>3. CASE observeFirst(rec, check, revision) = firstWrite(rec, revision, 1)
  BY <1>3, FirstWriteFollows
<1>4. CASE observeFirst(rec, check, revision) = sighted(rec, revision)
  BY <1>1, <1>4, SightedFollows
<1>. QED BY <1>2, <1>3, <1>4 DEF observeFirst

LEMMA ObserveAcceptedFollows ==
  ASSUME NEW rec, Observable(rec), NEW revision \in Revisions, NEW room \in BOOLEAN,
         rec.content # None, rec.staged = None
  PROVE  FollowsObservation(rec, observeAccepted(rec, revision, room))
<1> DEFINE new == observeAccepted(rec, revision, room)
<1>1. CASE revision \in supersededOf(rec)
  BY <1>1, ConfirmedFollows DEF observeAccepted
<1>2. CASE revision \notin supersededOf(rec) /\ revision = rec.content
  BY <1>2, ConfirmedFollows DEF observeAccepted
<1>3. CASE /\ revision \notin supersededOf(rec) /\ revision # rec.content
           /\ revision # rec.candidate
  BY <1>3, SightedFollows DEF observeAccepted
<1>4. CASE /\ revision \notin supersededOf(rec) /\ revision # rec.content
           /\ revision = rec.candidate /\ isSettled(rec)
  <2>1. new = stage(rec, room) /\ rec.terminal # "open"
    BY <1>4 DEF observeAccepted, isSettled
  <2>. QED BY <2>1, StageFollows
<1>5. CASE /\ revision \notin supersededOf(rec) /\ revision # rec.content
           /\ revision = rec.candidate /\ ~isSettled(rec)
  <2>1. new = corroborateUnsettled(rec) /\ rec.candidate # None
    BY <1>5, NullIsNoRevision DEF observeAccepted
  <2>. QED BY <2>1, CorroborateFollows
<1>. QED BY <1>1, <1>2, <1>3, <1>4, <1>5

LEMMA UnobservedFollows ==
  ASSUME NEW rec, Observable(rec)
  PROVE  FollowsObservation(rec, rec)
BY SameHistoryIsKept DEF FollowsObservation, Observable, SameReview

LEMMA ObserveFollows ==
  ASSUME NEW rec, Observable(rec), NEW check, NEW revision \in Revisions,
         NEW room \in BOOLEAN
  PROVE  /\ FollowsObservation(rec, observe(rec, check, revision, room))
         /\ isInOperatorBacklog(rec) => observe(rec, check, revision, room) = rec
<1>1. CASE isInOperatorBacklog(rec)
  BY <1>1, UnobservedFollows DEF observe
<1>2. CASE ~isInOperatorBacklog(rec)
  <2>1. rec.staged = None
    BY <1>2 DEF isInOperatorBacklog
  <2>2. CASE rec.content = None
    BY <1>2, <2>1, <2>2, ObserveFirstFollows DEF observe
  <2>3. CASE rec.content # None
    BY <1>2, <2>1, <2>3, ObserveAcceptedFollows, UnobservedFollows DEF observe
  <2>. QED BY <1>2, <2>2, <2>3
<1>. QED BY <1>1, <1>2

-----------------------------------------------------------------------------
(* The slot a check consumes *)

(* Observing moves neither the anchor nor the slot of a race, and gives a race
   that was abandoned its result. *)
LEMMA ObserveKeepsCadence ==
  ASSUME NEW rec, Observable(rec), NEW check, NEW revision \in Revisions,
         NEW room \in BOOLEAN, NEW at \in Nat, KeepsCadence(rec, at)
  PROVE  /\ KeepsCadence(observe(rec, check, revision, room), at)
         /\ observe(rec, check, revision, room).terminal \in
              {rec.terminal, "settled-on-deadline"}
         /\ (observe(rec, check, revision, room).terminal = "open") <=>
              (rec.terminal = "open")
<1> DEFINE new == observe(rec, check, revision, room)
<1>1. /\ FollowsObservation(rec, new)
      /\ rec \in Record /\ new \in Record
      /\ new.anchor = rec.anchor /\ new.checkIndex = rec.checkIndex
  BY ObserveFollows DEF FollowsObservation, Observable
<1>2. CASE rec.content = None /\ new # rec
  <2>1. /\ \/ new = sighted(rec, revision)
           \/ \E count \in {0, 1} : new = firstWrite(rec, revision, count)
    BY <1>2 DEF observe, observeFirst
  <2>2. CASE new = sighted(rec, revision)
    <3>1. new.terminal = rec.terminal /\ new.content = rec.content
      BY <2>2, <1>1 DEF sighted, Record
    <3> HIDE DEF new
    <3>. QED BY <3>1, <1>1 DEF KeepsCadence, new
  <2>3. ASSUME NEW count \in {0, 1}, new = firstWrite(rec, revision, count)
        PROVE  /\ new.content = revision
               /\ new.terminal = IF rec.terminal = "never-reconciled"
                                 THEN "settled-on-deadline" ELSE rec.terminal
    <3> HIDE DEF new
    <3>. QED BY <2>3, <1>1 DEF firstWrite, Record
  <2>4. CASE /\ new.content = revision
             /\ new.terminal = IF rec.terminal = "never-reconciled"
                               THEN "settled-on-deadline" ELSE rec.terminal
    <3> HIDE DEF new
    <3>1. new.content # None
      BY <2>4, NullIsNoRevision
    <3>. QED BY <2>4, <3>1, <1>1, <1>2 DEF KeepsCadence, new
  <2> HIDE DEF new
  <2>. QED BY <2>1, <2>2, <2>3, <2>4
<1>3. CASE rec.content # None
  <2>1. \/ new = rec \/ new = rejected(rec) \/ new = confirmed(rec)
        \/ new = sighted(rec, revision) \/ new = stage(rec, room)
        \/ new = corroborateUnsettled(rec)
    BY <1>3 DEF observe, observeAccepted
  <2>2. new.terminal = rec.terminal
    <3> HIDE DEF new
    <3>. QED BY <2>1, <1>1 DEF rejected, confirmed, sighted, stage,
                               corroborateUnsettled, Record
  <2>3. new.content # None
    BY <1>1, <1>3 DEF FollowsObservation
  <2> HIDE DEF new
  <2>. QED BY <2>2, <2>3, <1>1, <1>3 DEF KeepsCadence, new
<1>4. CASE new = rec
  BY <1>4
<1>. QED BY <1>2, <1>3, <1>4

(* A record after its check: sound, and for review what it was before. *)
FollowsCheck(old, new, at) ==
  /\ Observable(new) /\ KeepsCadence(new, at)
  /\ SameReview(old, new) /\ KeepsHistoryOf(old, new)
  /\ new.anchor = old.anchor
  /\ old.content # None => new.content # None
  /\ old.staged # None => new.staged = old.staged /\ new.candidate = old.candidate

(* The slot is consumed, and the round may end. *)
ConsumesSlot(old, new, slot, end) ==
  /\ Observable(new) /\ SameReview(old, new) /\ KeepsHistoryOf(old, new)
  /\ new.anchor = old.anchor /\ new.checkIndex = slot /\ new.terminal = end
  /\ new.content = old.content /\ new.candidate = old.candidate
  /\ new.staged = old.staged /\ new.confirmations = old.confirmations

LEMMA ConsumedFollows ==
  ASSUME NEW rec, Observable(rec),
         NEW slot \in 1 .. FinalSlot, NEW end \in Terminals,
         rec.staged # None => end # "open"
  PROVE  ConsumesSlot(rec, [rec EXCEPT !.checkIndex = slot, !.terminal = end], slot, end)
<1> DEFINE new == [rec EXCEPT !.checkIndex = slot, !.terminal = end]
<1>1. /\ new \in Record /\ new.superseded = rec.superseded
      /\ SameReview(rec, new)
      /\ new.anchor = rec.anchor /\ new.checkIndex = slot /\ new.terminal = end
      /\ new.content = rec.content /\ new.candidate = rec.candidate
      /\ new.staged = rec.staged /\ new.confirmations = rec.confirmations
  <2>1. slot \in 0 .. FinalSlot
    BY BoundsAreNaturals
  <2>2. new \in Record
    BY <2>1 DEF Observable, Record
  <2>. QED BY <2>2 DEF Observable, Record, SameReview
<1>2. KeepsHistoryOf(rec, new)
  BY <1>1, SameHistoryIsKept DEF Observable
<1> HIDE DEF new
<1>3. KeepsRevisionsApart(new)
  BY <1>1 DEF Observable, KeepsRevisionsApart, supersededOf, SameReview
<1>. QED BY <1>1, <1>2, <1>3 DEF Observable, ConsumesSlot, new

LEMMA AdvanceFollows ==
  ASSUME NEW rec, Observable(rec), NEW at \in Nat, KeepsCadence(rec, at),
         NEW slot \in 1 .. FinalSlot, rec.anchor + slot <= at,
         NEW wasObserved, NEW room \in BOOLEAN
  PROVE  FollowsCheck(rec, advanceCadence(rec, slot, wasObserved, room), at)
<1> DEFINE new == advanceCadence(rec, slot, wasObserved, room)
           consumed(end) == [rec EXCEPT !.checkIndex = slot, !.terminal = end]
           passed == [rec EXCEPT !.checkIndex = slot]
<1>1. /\ rec \in Record /\ rec.terminal \in Terminals
      /\ rec.staged # None => rec.terminal # "open"
      /\ {"settled", "settled-on-deadline", "never-reconciled"} \subseteq Terminals
  BY DEF Observable, KeepsRevisionsApart, Record, Terminals
<1>2. passed = consumed(rec.terminal)
  BY <1>1 DEF Record
<1>3. ASSUME NEW end \in Terminals, rec.staged # None => end # "open"
      PROVE  ConsumesSlot(rec, consumed(end), slot, end)
  BY <1>3, ConsumedFollows
<1>4. /\ Observable(passed) /\ passed.terminal = rec.terminal
      /\ passed.content = rec.content /\ passed.candidate = rec.candidate
      /\ passed.confirmations = rec.confirmations /\ passed.staged = rec.staged
  BY <1>1, <1>2, <1>3 DEF ConsumesSlot
<1>5. CASE rec.terminal # "open"
  <2>1. new = consumed(rec.terminal)
    BY <1>2, <1>4, <1>5 DEF advanceCadence
  <2> HIDE DEF new, consumed
  <2>2. KeepsCadence(new, at)
    BY <1>1, <1>3, <1>5, <2>1 DEF KeepsCadence, ConsumesSlot
  <2>. QED BY <1>1, <1>3, <2>1, <2>2 DEF FollowsCheck, ConsumesSlot, new
<1>6. CASE rec.terminal = "open" /\ wasObserved /\ isSettling(passed, slot)
  <2>1. new = consumed("settled")
    BY <1>4, <1>6 DEF advanceCadence
  <2>2. rec.content # None
    BY <1>4, <1>6 DEF isSettling
  <2> HIDE DEF new, consumed
  <2>3. KeepsCadence(new, at)
    BY <1>1, <1>3, <2>1, <2>2 DEF KeepsCadence, ConsumesSlot
  <2>. QED BY <1>1, <1>3, <2>1, <2>3 DEF FollowsCheck, ConsumesSlot, new
<1>7. CASE /\ rec.terminal = "open" /\ ~(wasObserved /\ isSettling(passed, slot))
           /\ slot # FinalSlot
  <2>1. new = consumed(rec.terminal)
    BY <1>2, <1>4, <1>7 DEF advanceCadence
  <2> HIDE DEF new, consumed
  <2>2. KeepsCadence(new, at)
    BY <1>1, <1>3, <1>7, <2>1 DEF KeepsCadence, ConsumesSlot
  <2>. QED BY <1>1, <1>3, <2>1, <2>2 DEF FollowsCheck, ConsumesSlot, new
<1>8. CASE /\ rec.terminal = "open" /\ ~(wasObserved /\ isSettling(passed, slot))
           /\ slot = FinalSlot
  <2>1. new = settleOnDeadline(passed, room) /\ rec.staged = None
    BY <1>1, <1>4, <1>8 DEF advanceCadence
  <2>2. CASE rec.content = None
    <3> DEFINE ended == consumed("never-reconciled")
    <3>1. new = [ended EXCEPT !.candidate = None]
      BY <2>1, <2>2, <1>1, <1>4 DEF settleOnDeadline, Record
    <3>2. /\ Observable(ended) /\ ended.staged = None /\ ended.content = None
          /\ ended.terminal = "never-reconciled" /\ ended.anchor = rec.anchor
          /\ ended.superseded = rec.superseded /\ ended.checkIndex = slot
          /\ SameReview(rec, ended) /\ KeepsHistoryOf(rec, ended)
      <4>1. ended.superseded = rec.superseded
        BY <1>1 DEF Record
      <4>. QED BY <1>1, <1>3, <2>1, <2>2, <4>1 DEF ConsumesSlot
    <3> HIDE DEF ended, new
    <3>3. /\ new \in Record /\ new.superseded = ended.superseded
          /\ new.candidate = None /\ new.content = None /\ new.staged = None
          /\ new.terminal = "never-reconciled" /\ new.anchor = rec.anchor
          /\ new.confirmations = ended.confirmations
          /\ SameReview(rec, new)
      <4>1. None \in RevisionOrNone
        BY DEF RevisionOrNone
      <4>. QED BY <3>1, <3>2, <4>1 DEF Observable, Record, SameReview
    <3>4. KeepsHistoryOf(rec, new)
      BY <3>2, <3>3 DEF KeepsHistoryOf, supersededOf
    <3>5. KeepsRevisionsApart(new)
      BY <3>2, <3>3 DEF Observable, KeepsRevisionsApart, supersededOf, SameReview
    <3>6. KeepsCadence(new, at)
      BY <3>3, <1>8 DEF KeepsCadence, ConsumesSlot
    <3>. QED BY <2>1, <2>2, <3>3, <3>4, <3>5, <3>6
          DEF FollowsCheck, Observable, KeepsHistoryOf, new
  <2>3. CASE rec.content # None
    <3> DEFINE ended == consumed("settled-on-deadline")
    <3>1. \/ new = ended \/ new = stage(ended, room)
      <4>1. passed.content # None
        BY <2>3, <1>4
      <4>2. [passed EXCEPT !.terminal = "settled-on-deadline"] = ended
        BY <1>1 DEF Record
      <4> HIDE DEF ended, passed
      <4>. QED BY <2>1, <4>1, <4>2 DEF settleOnDeadline
    <3>2. /\ Observable(ended) /\ ended.staged = None /\ ended.content # None
          /\ ended.terminal = "settled-on-deadline" /\ ended.anchor = rec.anchor
          /\ SameReview(rec, ended) /\ KeepsHistoryOf(rec, ended)
      BY <1>1, <1>3, <2>1, <2>3 DEF ConsumesSlot
    <3> HIDE DEF ended, new, consumed
    <3>3. /\ FollowsObservation(ended, new) /\ new.terminal = "settled-on-deadline"
      <4>1. CASE new = ended
        BY <4>1, <3>2, UnobservedFollows
      <4>2. CASE new = stage(ended, room)
        <5>1. FollowsObservation(ended, new)
          BY <4>2, <3>2, StageFollows
        <5>2. new.terminal = ended.terminal
          BY <4>2, <3>2 DEF stage, Observable, Record
        <5>. QED BY <5>1, <5>2, <3>2
      <4>. QED BY <3>1, <4>1, <4>2
    <3>4. /\ KeepsCadence(new, at) /\ new.content # None
      BY <3>2, <3>3 DEF FollowsObservation, KeepsCadence
    <3>5. SameReview(rec, new)
      BY <3>2, <3>3 DEF FollowsObservation, SameReview
    <3>6. KeepsHistoryOf(rec, new)
      <4>1. rec.superseded = ended.superseded
        BY <1>1 DEF ended, consumed, Record
      <4>. QED BY <3>3, <4>1 DEF FollowsObservation, KeepsHistoryOf, supersededOf
    <3>. QED BY <2>1, <3>2, <3>3, <3>4, <3>5, <3>6
          DEF FollowsCheck, FollowsObservation, new
  <2>. QED BY <2>2, <2>3
<1>. QED BY <1>5, <1>6, <1>7, <1>8

(* A check whose slot is of the cadence was planned once that slot had passed. *)
CheckIsDue(rec, check, at) ==
  check.kind = "cadence" =>
    /\ check.slot \in 1 .. FinalSlot
    /\ rec.anchor + check.slot <= at

LEMMA CheckFollows ==
  ASSUME NEW rec, Observable(rec), NEW at \in Nat, KeepsCadence(rec, at),
         NEW check, CheckIsDue(rec, check, at),
         NEW outcome \in Outcomes, NEW room \in BOOLEAN
  PROVE  FollowsCheck(rec, applyClassificationCheck(rec, check, outcome, room), at)
<1> DEFINE after == IF outcome \in Revisions
                    THEN observe(rec, check, outcome, room) ELSE rec
           new == applyClassificationCheck(rec, check, outcome, room)
<1>1. /\ FollowsObservation(rec, after) /\ KeepsCadence(after, at)
      /\ isInOperatorBacklog(rec) => after = rec
  BY ObserveFollows, ObserveKeepsCadence, UnobservedFollows
<1>2. rec.staged # None => after = rec
  BY <1>1 DEF isInOperatorBacklog
<1>3. new = IF outcome \in {"deferred", "not-attempted"} \/ check.kind # "cadence"
            THEN after
            ELSE advanceCadence(after, check.slot, outcome \in Revisions, room)
  BY DEF applyClassificationCheck
<1> HIDE DEF after, new
<1>4. FollowsCheck(rec, after, at)
  BY <1>1, <1>2 DEF FollowsObservation, FollowsCheck
<1>5. CASE outcome \in {"deferred", "not-attempted"} \/ check.kind # "cadence"
  BY <1>3, <1>4, <1>5 DEF new
<1>6. CASE ~(outcome \in {"deferred", "not-attempted"} \/ check.kind # "cadence")
  <2>1. FollowsCheck(after, new, at)
    <3>1. /\ check.slot \in 1 .. FinalSlot /\ after.anchor + check.slot <= at
          /\ Observable(after)
      BY <1>1, <1>6 DEF CheckIsDue, FollowsObservation
    <3>2. new = advanceCadence(after, check.slot, outcome \in Revisions, room)
      BY <1>3, <1>6, Zenon
    <3>. QED BY <3>1, <3>2, <1>1, AdvanceFollows
  <2>2. SameReview(rec, new) /\ new.anchor = rec.anchor
    BY <1>4, <2>1 DEF FollowsCheck, SameReview
  <2>3. KeepsHistoryOf(rec, new)
    <3>1. IsPrefix(rec.superseded, new.superseded)
      <4>1. /\ rec.superseded \in Seq(Revisions) /\ after.superseded \in Seq(Revisions)
            /\ new.superseded \in Seq(Revisions)
            /\ IsPrefix(rec.superseded, after.superseded)
            /\ IsPrefix(after.superseded, new.superseded)
        BY <1>4, <2>1 DEF FollowsCheck, Observable, Record, KeepsHistoryOf
      <4>. QED BY <4>1, PrefixIsTransitive
    <3>. QED BY <3>1, <1>4, <2>1 DEF FollowsCheck, KeepsHistoryOf
  <2>. QED BY <1>2, <1>4, <2>1, <2>2, <2>3 DEF FollowsCheck, new
<1>. QED BY <1>5, <1>6

-----------------------------------------------------------------------------
(* The observations in a row a round's history counts *)

(* What a record before an observation and one after say of the count. *)
Corroborates(old, new, tail) ==
  /\ TailSupports(new, tail)
  /\ old.content # None /\ new.content # old.content =>
       tail.revision = new.content /\ tail.count >= 2
  /\ new.staged # old.staged /\ new.staged # None =>
       tail.revision = new.staged /\ tail.count >= 2

LEMMA UnobservedCorroborates ==
  ASSUME NEW rec, NEW tail, TailSupports(rec, tail)
  PROVE  Corroborates(rec, rec, tail)
BY DEF Corroborates

LEMMA CountedOnce ==
  ASSUME NEW tail, tail.count \in Nat, NEW revision
  PROVE  /\ counted(tail, revision).revision = revision
         /\ counted(tail, revision).count \in Nat
         /\ counted(tail, revision).count >= 1
         /\ tail.revision = revision /\ tail.count >= 1 =>
              counted(tail, revision).count >= 2
         /\ \A n \in 0 .. MaximumConfirmations :
              tail.revision = revision /\ tail.count >= n =>
                counted(tail, revision).count >=
                  (IF n < MaximumConfirmations THEN n + 1 ELSE n)
<1> DEFINE count == IF tail.revision # revision THEN 1
                    ELSE IF tail.count < MaximumConfirmations THEN tail.count + 1
                    ELSE tail.count
<1>1. counted(tail, revision).revision = revision
      /\ counted(tail, revision).count = count
  BY DEF counted
<1>. QED BY <1>1, BoundsAreNaturals

LEMMA ObserveFirstCorroborates ==
  ASSUME NEW rec, Observable(rec), NEW check, NEW revision \in Revisions,
         rec.content = None, NEW tail, tail.count \in Nat
  PROVE  Corroborates(rec, observeFirst(rec, check, revision),
           IF isReconciling(rec, check) THEN counted(tail, revision) ELSE tail)
<1> DEFINE new == observeFirst(rec, check, revision)
           next == IF isReconciling(rec, check) THEN counted(tail, revision) ELSE tail
<1>1. rec \in Record
  BY DEF Observable
<1>2. check.kind = "cadence" => next.revision = revision /\ next.count >= 1
  BY CountedOnce DEF isReconciling
<1> HIDE DEF next
<1>3. CASE check.kind # "cadence"
  <2>1. new = firstWrite(rec, revision, 0)
    BY <1>3 DEF observeFirst
  <2>2. new.candidate = None /\ new.confirmations = 0 /\ new.staged = rec.staged
    BY <1>1, <2>1 DEF firstWrite, Record
  <2>. QED BY <2>2 DEF Corroborates, TailSupports, next
<1>4. CASE check.kind = "cadence"
  <2>1. \/ new = firstWrite(rec, revision, 1) \/ new = sighted(rec, revision)
    BY <1>4 DEF observeFirst
  <2>2. CASE new = firstWrite(rec, revision, 1)
    <3>1. /\ new.candidate = None /\ new.confirmations = 1
          /\ new.content = revision /\ new.staged = rec.staged
      BY <1>1, <2>2 DEF firstWrite, Record
    <3>. QED BY <3>1, <1>2, <1>4 DEF Corroborates, TailSupports, next
  <2>3. CASE new = sighted(rec, revision)
    <3>1. /\ new.candidate = revision /\ new.confirmations = 0
          /\ new.content = rec.content /\ new.staged = rec.staged
      BY <1>1, <2>3 DEF sighted, Record
    <3>. QED BY <3>1, <1>2, <1>4 DEF Corroborates, TailSupports, next
  <2>. QED BY <2>1, <2>2, <2>3
<1>. QED BY <1>3, <1>4

LEMMA ObserveAcceptedCorroborates ==
  ASSUME NEW rec, Observable(rec), NEW revision \in Revisions, NEW room \in BOOLEAN,
         rec.content # None, rec.staged = None,
         NEW tail, tail.count \in Nat, TailSupports(rec, tail)
  PROVE  Corroborates(rec, observeAccepted(rec, revision, room), counted(tail, revision))
<1> DEFINE new == observeAccepted(rec, revision, room)
           next == counted(tail, revision)
<1>1. /\ rec \in Record /\ rec.candidate # rec.content
      /\ rec.confirmations \in 0 .. MaximumConfirmations
      /\ MaximumConfirmations \in Nat /\ MaximumConfirmations >= 2
  BY BoundsAreNaturals DEF Observable, KeepsRevisionsApart, Record
<1>2. /\ next.revision = revision /\ next.count \in Nat /\ next.count >= 1
      /\ tail.revision = revision /\ tail.count >= 1 => next.count >= 2
      /\ \A n \in 0 .. MaximumConfirmations :
           tail.revision = revision /\ tail.count >= n =>
             next.count >= (IF n < MaximumConfirmations THEN n + 1 ELSE n)
  BY CountedOnce
<1> HIDE DEF next
<1>3. CASE revision \in supersededOf(rec)
  <2>1. new = rejected(rec)
    BY <1>3 DEF observeAccepted
  <2>2. /\ new.candidate = None /\ new.confirmations = 0
        /\ new.content = rec.content /\ new.staged = rec.staged
    BY <1>1, <2>1 DEF rejected, Record
  <2>. QED BY <2>2 DEF Corroborates, TailSupports, next
<1>4. CASE revision \notin supersededOf(rec) /\ revision = rec.content
  <2>1. new = confirmed(rec)
    BY <1>4 DEF observeAccepted
  <2> DEFINE n == rec.confirmations
  <2>2. /\ new.candidate = None /\ new.content = rec.content
        /\ new.staged = rec.staged /\ new.terminal = rec.terminal
        /\ new.confirmations = IF n < MaximumConfirmations THEN n + 1 ELSE n
    BY <1>1, <2>1 DEF confirmed, Record
  <2>3. ASSUME rec.terminal = "open" PROVE next.count >= new.confirmations
    <3>1. CASE n = 0
      BY <1>1, <1>2, <2>2, <3>1
    <3>2. CASE n > 0
      <4>1. tail.revision = revision /\ tail.count >= n
        BY <1>4, <2>3, <3>2 DEF TailSupports
      <4>. QED BY <1>1, <1>2, <2>2, <4>1
    <3>. QED BY <1>1, <3>1, <3>2
  <2>. QED BY <1>2, <1>4, <2>2, <2>3 DEF Corroborates, TailSupports, next
<1>5. CASE /\ revision \notin supersededOf(rec) /\ revision # rec.content
           /\ revision # rec.candidate
  <2>1. new = sighted(rec, revision)
    BY <1>5 DEF observeAccepted
  <2>2. /\ new.candidate = revision /\ new.confirmations = 0
        /\ new.content = rec.content /\ new.staged = rec.staged
    BY <1>1, <2>1 DEF sighted, Record
  <2>. QED BY <1>2, <2>2 DEF Corroborates, TailSupports, next
<1>6. CASE /\ revision \notin supersededOf(rec) /\ revision # rec.content
           /\ revision = rec.candidate
  <2>1. rec.candidate # None /\ tail.revision = revision /\ tail.count >= 1
    BY <1>6, NullIsNoRevision DEF TailSupports
  <2>2. next.count >= 2 /\ next.revision = rec.candidate
    BY <1>2, <1>6, <2>1
  <2>3. rec.terminal = "open" => rec.confirmations = 0
    BY <1>1, <1>6, <2>1 DEF TailSupports
  <2>4. CASE new = rec
    <3> HIDE DEF new
    <3>1. Corroborates(rec, rec, next)
      BY <1>1, <1>2, <2>2, <2>3 DEF Corroborates, TailSupports
    <3>. QED BY <2>4, <3>1 DEF new, next
  <2>5. CASE /\ isSettled(rec)
             /\ new = [rec EXCEPT !.staged = rec.candidate, !.candidate = None]
    <3>1. /\ new.staged = rec.candidate /\ new.candidate = None
          /\ new.content = rec.content /\ new.terminal = rec.terminal
      BY <1>1, <2>5 DEF Record
    <3>. QED BY <2>2, <2>5, <3>1 DEF Corroborates, TailSupports, isSettled, next
  <2>6. CASE /\ ~(Len(rec.superseded) >= HistoryCapacity)
             /\ new = corroborateUnsettled(rec)
    <3>1. /\ new.content = rec.candidate /\ new.candidate = None
          /\ new.confirmations = 2 /\ new.staged = rec.staged
      BY <1>1, <2>6 DEF corroborateUnsettled, Record
    <3>. QED BY <2>2, <3>1 DEF Corroborates, TailSupports, next
  <2>7. new = rec \/ <2>5!1 \/ <2>6!1
    <3>1. CASE isSettled(rec)
      BY <1>6, <3>1 DEF observeAccepted, stage
    <3>2. CASE ~isSettled(rec)
      <4>1. new = corroborateUnsettled(rec)
        BY <1>6, <3>2 DEF observeAccepted
      <4>. QED BY <4>1 DEF corroborateUnsettled
    <3>. QED BY <3>1, <3>2
  <2>. QED BY <2>4, <2>5, <2>6, <2>7
<1>. QED BY <1>3, <1>4, <1>5, <1>6

(* The count an observation leaves: it grows only with what a check reconciles. *)
nextTail(tail, rec, check, outcome) ==
  IF \/ outcome \notin Revisions
     \/ isInOperatorBacklog(rec)
     \/ ~isReconciling(rec, check)
  THEN tail ELSE counted(tail, outcome)

LEMMA ObserveCorroborates ==
  ASSUME NEW rec, Observable(rec), NEW check, NEW revision \in Revisions,
         NEW room \in BOOLEAN, NEW tail, tail.count \in Nat, TailSupports(rec, tail)
  PROVE  Corroborates(rec, observe(rec, check, revision, room),
                      nextTail(tail, rec, check, revision))
<1>1. CASE isInOperatorBacklog(rec)
  BY <1>1, UnobservedCorroborates DEF observe, nextTail
<1>2. CASE ~isInOperatorBacklog(rec) /\ rec.content = None
  BY <1>2, ObserveFirstCorroborates DEF observe, nextTail
<1>3. CASE ~isInOperatorBacklog(rec) /\ rec.content # None /\ isReconciling(rec, check)
  <2>1. rec.staged = None
    BY <1>3 DEF isInOperatorBacklog
  <2>. QED BY <1>3, <2>1, ObserveAcceptedCorroborates DEF observe, nextTail
<1>4. CASE /\ ~isInOperatorBacklog(rec) /\ rec.content # None
           /\ ~isReconciling(rec, check)
  BY <1>4, UnobservedCorroborates DEF observe, nextTail
<1>. QED BY <1>1, <1>2, <1>3, <1>4

(* The same of a whole check, which may also settle the round. *)
SettlesWithCount(old, new, tail) ==
  /\ TailSupports(new, tail)
  /\ old.content # None /\ new.content # old.content =>
       tail.revision = new.content /\ tail.count >= 2
  /\ new.staged # old.staged /\ new.staged # None =>
       /\ tail.revision = new.staged
       /\ tail.count >= 2 \/ (old.checkIndex # FinalSlot /\ new.checkIndex = FinalSlot)
  /\ new.terminal = "settled" /\ old.terminal # "settled" =>
       /\ tail.revision = new.content
       /\ tail.count >= SettlingConfirmations
       /\ new.checkIndex >= SettlingSlot

LEMMA CheckCorroborates ==
  ASSUME NEW rec, Observable(rec), NEW at \in Nat, KeepsCadence(rec, at),
         NEW check, CheckIsDue(rec, check, at),
         NEW outcome \in Outcomes, NEW room \in BOOLEAN,
         NEW tail, tail.count \in Nat, TailSupports(rec, tail)
  PROVE  SettlesWithCount(rec, applyClassificationCheck(rec, check, outcome, room),
                          nextTail(tail, rec, check, outcome))
<1> DEFINE after == IF outcome \in Revisions
                    THEN observe(rec, check, outcome, room) ELSE rec
           new == applyClassificationCheck(rec, check, outcome, room)
           next == nextTail(tail, rec, check, outcome)
           passed == [after EXCEPT !.checkIndex = check.slot]
<1>1. Corroborates(rec, after, next)
  BY ObserveCorroborates, UnobservedCorroborates DEF nextTail
<1>2. /\ FollowsObservation(rec, after) /\ KeepsCadence(after, at)
      /\ after \in Record /\ rec \in Record
      /\ after.terminal \in {rec.terminal, "settled-on-deadline"}
      /\ (after.terminal = "open") <=> (rec.terminal = "open")
      /\ after.checkIndex = rec.checkIndex
  BY ObserveFollows, ObserveKeepsCadence, UnobservedFollows
     DEF FollowsObservation, Observable
<1>3. new = IF outcome \in {"deferred", "not-attempted"} \/ check.kind # "cadence"
            THEN after
            ELSE advanceCadence(after, check.slot, outcome \in Revisions, room)
  BY DEF applyClassificationCheck
<1>4. next.count \in Nat
  BY CountedOnce DEF nextTail
<1> HIDE DEF after, next
<1>5. CASE new = after
  <2>1. ~(after.terminal = "settled" /\ rec.terminal # "settled")
    BY <1>2
  <2> HIDE DEF new
  <2>. QED BY <1>1, <1>5, <2>1 DEF SettlesWithCount, Corroborates, new, next
<1>6. CASE new # after
  <2>1. /\ check.slot \in 1 .. FinalSlot
        /\ new = advanceCadence(after, check.slot, outcome \in Revisions, room)
    BY <1>3, <1>6, Zenon DEF CheckIsDue
  <2>2. /\ passed.checkIndex = check.slot /\ passed.terminal = after.terminal
        /\ passed.content = after.content /\ passed.candidate = after.candidate
        /\ passed.confirmations = after.confirmations /\ passed.staged = after.staged
        /\ \A f \in DOMAIN after : f # "checkIndex" => passed[f] = after[f]
        /\ DOMAIN passed = DOMAIN after
    BY <1>2 DEF Record
  <2>3. passed \in Record
    <3>1. check.slot \in 0 .. FinalSlot
      BY <2>1, BoundsAreNaturals
    <3>. QED BY <3>1, <1>2 DEF Record
  <2> HIDE DEF passed, new
  <2>4. \/ new = passed
        \/ /\ after.terminal = "open" /\ isSettling(passed, check.slot)
           /\ new = [passed EXCEPT !.terminal = "settled"]
        \/ /\ after.terminal = "open" /\ check.slot = FinalSlot
           /\ new = settleOnDeadline(passed, room)
    BY <2>1, <2>2 DEF advanceCadence, passed
  <2>5. CASE new = passed
    BY <1>1, <1>2, <2>2, <2>5 DEF SettlesWithCount, Corroborates, TailSupports, new, next
  <2>6. CASE /\ after.terminal = "open" /\ isSettling(passed, check.slot)
             /\ new = [passed EXCEPT !.terminal = "settled"]
    <3>1. /\ new.terminal = "settled" /\ new.checkIndex = check.slot
          /\ new.content = after.content /\ new.candidate = after.candidate
          /\ new.staged = after.staged
      BY <2>2, <2>3, <2>6 DEF Record
    <3>2. /\ after.confirmations >= SettlingConfirmations /\ after.confirmations \in Nat
          /\ check.slot >= SettlingSlot /\ after.candidate = None
      BY <1>2, <2>2, <2>6, BoundsAreNaturals DEF isSettling, Record
    <3>3. next.revision = after.content /\ next.count >= after.confirmations
      BY <1>1, <2>6, <3>2, BoundsAreNaturals DEF Corroborates, TailSupports
    <3>4. next.count >= SettlingConfirmations
      BY <1>4, <3>2, <3>3, BoundsAreNaturals
    <3>. QED BY <1>1, <3>1, <3>2, <3>3, <3>4
          DEF SettlesWithCount, Corroborates, TailSupports, new, next
  <2>7. CASE /\ after.terminal = "open" /\ check.slot = FinalSlot
             /\ new = settleOnDeadline(passed, room)
    <3>1. rec.checkIndex # FinalSlot /\ rec.terminal = "open"
      BY <1>2, <2>7 DEF KeepsCadence
    <3>2. rec.staged = None /\ after.staged = None
      BY <1>2, <2>7 DEF FollowsObservation, Observable, KeepsRevisionsApart
    <3>3. CASE after.content = None
      <4>1. new = [passed EXCEPT !.terminal = "never-reconciled", !.candidate = None]
        BY <2>2, <2>7, <3>3 DEF settleOnDeadline
      <4>2. /\ new.terminal = "never-reconciled" /\ new.candidate = None
            /\ new.content = after.content /\ new.staged = after.staged
        BY <2>2, <2>3, <4>1 DEF Record
      <4>. QED BY <1>1, <3>2, <4>2
            DEF SettlesWithCount, Corroborates, TailSupports, new, next
    <3>4. CASE after.content # None
      <4> DEFINE settled == [passed EXCEPT !.terminal = "settled-on-deadline"]
      <4>1. /\ settled.terminal = "settled-on-deadline"
            /\ settled.checkIndex = FinalSlot
            /\ settled.content = after.content /\ settled.candidate = after.candidate
            /\ settled.staged = None
        BY <2>2, <2>3, <2>7, <3>2 DEF Record
      <4>2. \/ new = settled
            \/ /\ settled.candidate # None
               /\ new = [settled EXCEPT !.staged = settled.candidate,
                           !.candidate = None]
        <5>1. new = IF passed.candidate = None THEN settled ELSE stage(settled, room)
          BY <2>2, <2>7, <3>4 DEF settleOnDeadline
        <5>. QED BY <2>2, <4>1, <5>1 DEF stage
      <4>3. settled \in [DOMAIN settled -> {settled[f] : f \in DOMAIN settled}]
            /\ DOMAIN settled = DOMAIN passed /\ passed \in Record
        BY <2>3 DEF Record
      <4>4. CASE new = settled
        <5> HIDE DEF settled
        <5>. QED BY <1>1, <3>2, <4>1, <4>4
              DEF SettlesWithCount, Corroborates, TailSupports, new, next
      <4>5. CASE /\ settled.candidate # None
                 /\ new = [settled EXCEPT !.staged = settled.candidate,
                             !.candidate = None]
        <5>1. /\ new.staged = after.candidate /\ new.candidate = None
              /\ new.content = after.content
              /\ new.terminal = "settled-on-deadline"
              /\ new.checkIndex = FinalSlot
          BY <2>3, <4>1, <4>5 DEF Record
        <5>2. next.revision = after.candidate /\ next.count >= 1
          BY <1>1, <3>2, <3>4, <4>1, <4>5 DEF Corroborates, TailSupports
        <5>. QED BY <1>1, <3>1, <5>1, <5>2
              DEF SettlesWithCount, Corroborates, TailSupports, new, next
      <4>. QED BY <4>2, <4>4, <4>5
    <3>. QED BY <3>3, <3>4
  <2>. QED BY <2>4, <2>5, <2>6, <2>7
<1>. QED BY <1>5, <1>6

(* A check stages nothing of a first result, and leaves nothing pending beside
   what it stages. *)
StagesWhole(old, new) ==
  /\ new.staged # old.staged => new.candidate = None
  /\ old.content = None =>
       new.staged = None /\ (new.content # None => new.candidate = None)

LEMMA ObserveStagesWhole ==
  ASSUME NEW rec, Observable(rec), NEW check, NEW revision \in Revisions,
         NEW room \in BOOLEAN
  PROVE  StagesWhole(rec, observe(rec, check, revision, room))
<1> DEFINE new == observe(rec, check, revision, room)
<1>1. rec \in Record /\ (rec.content = None => rec.staged = None)
  BY DEF Observable, KeepsRevisionsApart
<1>2. CASE isInOperatorBacklog(rec) \/ (rec.content # None /\ ~isReconciling(rec, check))
  <2>1. new = rec
    BY <1>2, <1>1 DEF observe, isInOperatorBacklog, Observable, KeepsRevisionsApart
  <2>. QED BY <1>1, <1>2, <2>1 DEF StagesWhole, Observable, KeepsRevisionsApart,
                                 isInOperatorBacklog
<1>3. CASE ~isInOperatorBacklog(rec) /\ rec.content = None
  <2>1. \/ new = sighted(rec, revision)
        \/ \E count \in {0, 1} : new = firstWrite(rec, revision, count)
    BY <1>3 DEF observe, observeFirst
  <2> HIDE DEF new
  <2>2. CASE new = sighted(rec, revision)
    <3>1. new.content = rec.content /\ new.staged = rec.staged
      BY <1>1, <2>2 DEF sighted, Record
    <3>. QED BY <1>1, <1>3, <3>1 DEF StagesWhole, new
  <2>3. ASSUME NEW count, new = firstWrite(rec, revision, count)
        PROVE  StagesWhole(rec, new)
    <3>1. new.candidate = None /\ new.staged = rec.staged
      BY <1>1, <2>3 DEF firstWrite, Record
    <3>. QED BY <1>1, <1>3, <3>1 DEF StagesWhole
  <2>. QED BY <2>1, <2>2, <2>3 DEF new
<1>4. CASE ~isInOperatorBacklog(rec) /\ rec.content # None /\ isReconciling(rec, check)
  <2>1. new = observeAccepted(rec, revision, room)
    BY <1>4 DEF observe
  <2> HIDE DEF new
  <2>2. \/ new = rejected(rec) \/ new = confirmed(rec) \/ new = sighted(rec, revision)
        \/ new = stage(rec, room) \/ new = corroborateUnsettled(rec)
    BY <2>1 DEF observeAccepted
  <2>3. new.staged = rec.staged \/ new.candidate = None
    BY <1>1, <2>2 DEF rejected, confirmed, sighted, stage, corroborateUnsettled, Record
  <2>. QED BY <1>4, <2>3 DEF StagesWhole, new
<1>. QED BY <1>2, <1>3, <1>4

LEMMA AdvanceStagesWhole ==
  ASSUME NEW rec \in Record, NEW slot, NEW wasObserved, NEW room \in BOOLEAN
  PROVE  LET new == advanceCadence(rec, slot, wasObserved, room) IN
         /\ rec.content = None \/ rec.candidate = None =>
              new.staged = rec.staged /\ new.content = rec.content
         /\ rec.candidate = None => new.candidate = None
         /\ new.staged # rec.staged => new.candidate = None
<1> DEFINE moved == [rec EXCEPT !.checkIndex = slot]
           ended == [moved EXCEPT !.terminal = "settled-on-deadline"]
           new == advanceCadence(rec, slot, wasObserved, room)
<1>1. /\ moved.content = rec.content /\ moved.candidate = rec.candidate
      /\ moved.staged = rec.staged
      /\ ended.content = rec.content /\ ended.candidate = rec.candidate
      /\ ended.staged = rec.staged
  BY DEF Record
<1>2. \/ new = moved
      \/ new = [moved EXCEPT !.terminal = "settled"]
      \/ /\ rec.content = None
         /\ new = [moved EXCEPT !.terminal = "never-reconciled", !.candidate = None]
      \/ rec.content # None /\ rec.candidate = None /\ new = ended
      \/ rec.content # None /\ rec.candidate # None /\ new = stage(ended, room)
  BY <1>1, Zenon DEF advanceCadence, settleOnDeadline
<1>3. CASE new = moved
  BY <1>1, <1>3
<1>4. CASE new = [moved EXCEPT !.terminal = "settled"]
  <2>1. new.content = rec.content /\ new.candidate = rec.candidate /\ new.staged = rec.staged
    <3> HIDE DEF new
    <3>. QED BY <1>4 DEF Record
  <2>. QED BY <2>1
<1>5. CASE /\ rec.content = None
           /\ new = [moved EXCEPT !.terminal = "never-reconciled", !.candidate = None]
  <2>1. new.content = rec.content /\ new.candidate = None /\ new.staged = rec.staged
    <3> HIDE DEF new
    <3>. QED BY <1>5 DEF Record
  <2>. QED BY <2>1
<1>6. CASE rec.content # None /\ rec.candidate = None /\ new = ended
  BY <1>1, <1>6
<1>7. CASE rec.content # None /\ rec.candidate # None /\ new = stage(ended, room)
  <2>1. CASE room
    <3>1. new = [ended EXCEPT !.staged = ended.candidate, !.candidate = None]
      BY <1>7, <2>1 DEF stage
    <3>2. new.candidate = None
      <4> HIDE DEF new
      <4>. QED BY <3>1 DEF Record
    <3>. QED BY <1>7, <3>2
  <2>2. CASE ~room
    <3>1. new = ended
      BY <1>7, <2>2 DEF stage
    <3>. QED BY <1>1, <3>1
  <2>. QED BY <2>1, <2>2
<1>. QED BY <1>2, <1>3, <1>4, <1>5, <1>6, <1>7

LEMMA CheckStagesWhole ==
  ASSUME NEW rec, Observable(rec), NEW check, NEW outcome \in Outcomes,
         NEW room \in BOOLEAN
  PROVE  LET new == applyClassificationCheck(rec, check, outcome, room) IN
         /\ new.staged # rec.staged => new.candidate = None
         /\ rec.content = None => new.staged = None
<1> DEFINE after == IF outcome \in Revisions
                    THEN observe(rec, check, outcome, room) ELSE rec
           new == applyClassificationCheck(rec, check, outcome, room)
<1>1. /\ after \in Record
      /\ after.staged # rec.staged => after.candidate = None
      /\ rec.content = None =>
           after.staged = None /\ (after.content # None => after.candidate = None)
  <2>1. CASE outcome \in Revisions
    BY <2>1, ObserveFollows, ObserveStagesWhole DEF FollowsObservation, Observable, StagesWhole
  <2>2. CASE outcome \notin Revisions
    BY <2>2 DEF Observable, KeepsRevisionsApart
  <2>. QED BY <2>1, <2>2
<1>2. \/ new = after
      \/ new = advanceCadence(after, check.slot, outcome \in Revisions, room)
  BY Zenon DEF applyClassificationCheck
<1> HIDE DEF after, new
<1>3. CASE new = after
  BY <1>1, <1>3 DEF new
<1>4. CASE new = advanceCadence(after, check.slot, outcome \in Revisions, room)
  <2>1. /\ after.content = None \/ after.candidate = None =>
             new.staged = after.staged /\ new.content = after.content
        /\ after.candidate = None => new.candidate = None
        /\ new.staged # after.staged => new.candidate = None
    <3> DEFINE wasObserved == outcome \in Revisions
    <3>1. new = advanceCadence(after, check.slot, wasObserved, room)
      BY <1>4, Zenon
    <3> HIDE DEF wasObserved
    <3>. QED BY <1>1, <3>1, AdvanceStagesWhole
  <2>. QED BY <1>1, <2>1 DEF new
<1>. QED BY <1>2, <1>3, <1>4

(* A check that displaces a revision remembers it. *)
Remembers(old, new) ==
  old.content \in {None, new.content} \union supersededOf(new)

LEMMA ObserveRemembers ==
  ASSUME NEW rec, Observable(rec), NEW check, NEW revision \in Revisions,
         NEW room \in BOOLEAN
  PROVE  Remembers(rec, observe(rec, check, revision, room))
<1> DEFINE new == observe(rec, check, revision, room)
<1>1. rec \in Record
  BY DEF Observable
<1>2. \/ new = rec \/ rec.content = None
      \/ new = rejected(rec) \/ new = confirmed(rec) \/ new = sighted(rec, revision)
      \/ new = stage(rec, room)
      \/ rec.content # None /\ new = corroborateUnsettled(rec)
  BY DEF observe, observeAccepted
<1> HIDE DEF new
<1>3. CASE new = rec \/ rec.content = None
  BY <1>3 DEF Remembers, new
<1>4. CASE \/ new = rejected(rec) \/ new = confirmed(rec) \/ new = sighted(rec, revision)
           \/ new = stage(rec, room)
  <2>1. new.content = rec.content
    BY <1>1, <1>4 DEF rejected, confirmed, sighted, stage, Record
  <2>. QED BY <2>1 DEF Remembers, new
<1>5. CASE rec.content # None /\ new = corroborateUnsettled(rec)
  <2> DEFINE longer == Append(rec.superseded, rec.content)
  <2>1. rec.content \in Revisions /\ rec.superseded \in Seq(Revisions)
    BY <1>1, <1>5 DEF Record, RevisionOrNone
  <2>2. rec.content \in ToSet(longer)
    BY <2>1, HistoryGrows
  <2>3. new = rec \/ new = [rec EXCEPT !.superseded = longer, !.content = rec.candidate,
                              !.confirmations = 2, !.candidate = None]
    BY <1>5 DEF corroborateUnsettled
  <2> HIDE DEF longer
  <2>4. new = rec \/ new.superseded = longer
    BY <1>1, <2>3 DEF Record
  <2>. QED BY <2>2, <2>4 DEF Remembers, supersededOf, new
<1>. QED BY <1>2, <1>3, <1>4, <1>5

LEMMA AdvanceRemembers ==
  ASSUME NEW rec \in Record, NEW slot, NEW wasObserved, NEW room \in BOOLEAN
  PROVE  LET new == advanceCadence(rec, slot, wasObserved, room) IN
         new.content = rec.content /\ new.superseded = rec.superseded
<1> DEFINE moved == [rec EXCEPT !.checkIndex = slot]
           ended == [moved EXCEPT !.terminal = "settled-on-deadline"]
           staged == [ended EXCEPT !.staged = ended.candidate, !.candidate = None]
           new == advanceCadence(rec, slot, wasObserved, room)
<1>1. \/ new = moved
      \/ new = [moved EXCEPT !.terminal = "settled"]
      \/ new = [moved EXCEPT !.terminal = "never-reconciled", !.candidate = None]
      \/ new = ended \/ new = staged
  BY Zenon DEF advanceCadence, settleOnDeadline, stage
<1> HIDE DEF new
<1>2. new.content = rec.content /\ new.superseded = rec.superseded
  BY <1>1 DEF Record
<1>. QED BY <1>2 DEF new

LEMMA CheckRemembers ==
  ASSUME NEW rec, Observable(rec), NEW check, NEW outcome \in Outcomes,
         NEW room \in BOOLEAN
  PROVE  LET new == applyClassificationCheck(rec, check, outcome, room) IN
         Remembers(rec, new) /\ (outcome = "not-attempted" => new = rec)
<1> DEFINE after == IF outcome \in Revisions
                    THEN observe(rec, check, outcome, room) ELSE rec
           new == applyClassificationCheck(rec, check, outcome, room)
<1>1. Remembers(rec, after) /\ after \in Record
  <2>1. CASE outcome \in Revisions
    BY <2>1, ObserveRemembers, ObserveFollows DEF FollowsObservation, Observable
  <2>2. CASE outcome \notin Revisions
    BY <2>2 DEF Observable, Remembers
  <2>. QED BY <2>1, <2>2
<1>2. outcome = "not-attempted" => new = rec
  BY KindAssumption DEF applyClassificationCheck
<1>3. \/ new = after
      \/ new = advanceCadence(after, check.slot, outcome \in Revisions, room)
  BY Zenon DEF applyClassificationCheck
<1> HIDE DEF after, new
<1>4. new.content = after.content /\ new.superseded = after.superseded
  <2>1. CASE new = after
    BY <2>1
  <2>2. CASE new = advanceCadence(after, check.slot, outcome \in Revisions, room)
    <3> DEFINE wasObserved == outcome \in Revisions
    <3>1. new = advanceCadence(after, check.slot, wasObserved, room)
      BY <2>2, Zenon
    <3> HIDE DEF wasObserved
    <3>. QED BY <1>1, <3>1, AdvanceRemembers
  <2>. QED BY <1>3, <2>1, <2>2
<1>. QED BY <1>1, <1>2, <1>4 DEF Remembers, supersededOf, new

-----------------------------------------------------------------------------
(* The records a run starts from, and the checks it plans of them *)

LEMMA SoundIsObservable ==
  ASSUME NEW rec \in Record, NEW at, RecordSound(rec, at)
  PROVE  Observable(rec) /\ ReceiptsAgree(rec) /\ KeepsCadence(rec, at)
BY DecodedRecord DEF RecordSound, Observable

LEMMA ObservableIsSound ==
  ASSUME NEW rec, Observable(rec), ReceiptsAgree(rec), NEW at, KeepsCadence(rec, at)
  PROVE  rec \in Record /\ RecordSound(rec, at)
BY DecodedRecord DEF RecordSound, Observable

(* Time only passes. *)
LEMMA SoundLater ==
  ASSUME NEW rec \in Record, NEW at \in Nat, RecordSound(rec, at),
         NEW later \in Nat, at <= later
  PROVE  RecordSound(rec, later)
<1>1. rec.anchor \in Nat
  BY DEF Record
<1>. QED BY <1>1, BoundsAreNaturals DEF RecordSound, KeepsCadence

(* What versions, and the release a round is served in, do not touch. *)
SameButVersion(old, new) ==
  /\ new \in Record
  /\ new.anchor = old.anchor /\ new.checkIndex = old.checkIndex
  /\ new.content = old.content /\ new.candidate = old.candidate
  /\ new.confirmations = old.confirmations /\ new.terminal = old.terminal
  /\ new.staged = old.staged /\ new.competing = old.competing
  /\ new.superseded = old.superseded /\ new.disposition = old.disposition
  /\ new.verifications = old.verifications
  /\ new.generation = old.generation /\ new.reset = old.reset

LEMMA BumpedIsSame ==
  ASSUME NEW rec \in Record
  PROVE  /\ SameButVersion(rec, bumped(rec))
         /\ bumped(rec).version = rec.version + 1
         /\ bumped(rec).published = rec.published
<1>1. rec.version + 1 \in Nat
  BY DEF Record
<1>. QED BY <1>1 DEF bumped, Record, SameButVersion

LEMMA ServedIsSame ==
  ASSUME NEW rec \in Record, NEW revision \in RevisionOrNone
  PROVE  /\ SameButVersion(rec, [rec EXCEPT !.published = revision])
         /\ [rec EXCEPT !.published = revision].version = rec.version
BY DEF Record, SameButVersion

LEMMA SameButVersionIsSound ==
  ASSUME NEW old \in Record, NEW new, SameButVersion(old, new), NEW at,
         RecordSound(old, at)
  PROVE  new \in Record /\ RecordSound(new, at)
<1>1. Observable(old) /\ ReceiptsAgree(old) /\ KeepsCadence(old, at)
  BY SoundIsObservable
<1>2. Observable(new)
  BY <1>1 DEF Observable, KeepsRevisionsApart, supersededOf, SameButVersion
<1>3. ReceiptsAgree(new)
  BY <1>1 DEF ReceiptsAgree, isCoherentGeneration, SameButVersion
<1>4. KeepsCadence(new, at)
  BY <1>1 DEF KeepsCadence, SameButVersion
<1>. QED BY <1>2, <1>3, <1>4, ObservableIsSound

LEMMA NewRecordIsSound ==
  ASSUME NEW anchor \in Nat, NEW at
  PROVE  /\ newClassificationRecord(anchor) \in Record
         /\ RecordSound(newClassificationRecord(anchor), at)
<1> DEFINE new == newClassificationRecord(anchor)
<1>1. /\ new.superseded = <<>> /\ new.verifications = <<>>
      /\ new.generation = 0 /\ new.reset = None
      /\ new.content = None /\ new.candidate = None /\ new.staged = None
      /\ new.competing = None /\ new.terminal = "open" /\ new.checkIndex = 0
      /\ new.confirmations = 0
  BY DEF newClassificationRecord
<1>2. new \in Record
  <2>1. /\ 0 \in 0 .. FinalSlot /\ 0 \in 0 .. MaximumConfirmations
        /\ None \in RevisionOrNone /\ "open" \in Terminals
        /\ <<>> \in Seq(Revisions) /\ <<>> \in Histories
    BY BoundsAreNaturals, EmptyHistory, EmptySeq DEF RevisionOrNone, Terminals
  <2>. QED BY <2>1 DEF newClassificationRecord, Record
<1> HIDE DEF new
<1>3. /\ ToSet(<<>>) = {} /\ Cardinality({}) = 0 /\ Len(<<>>) = 0
  BY EmptyHistory, FS_EmptySet DEF ToSet
<1>4. decodeSupersededRevisions(new.superseded) /\ supersededOf(new) = {}
  <2>1. decodeSupersededRevisions(<<>>)
    <3>1. Cardinality(ToSet(<<>>)) = Len(<<>>)
      BY <1>3, Zenon
    <3>2. Len(<<>>) <= HistoryCapacity
      BY <1>3, BoundsAreNaturals
    <3>. QED BY <3>1, <3>2, Zenon DEF decodeSupersededRevisions
  <2>. QED BY <1>1, <1>3, <2>1 DEF supersededOf
<1>5. ReceiptsAgree(new)
  BY <1>1, EmptyHistory, BoundsAreNaturals
     DEF ReceiptsAgree, decodeVerifications, decodeVerificationReset,
         isCoherentGeneration
<1>6. KeepsRevisionsApart(new)
  BY <1>1, <1>4 DEF KeepsRevisionsApart
<1>7. KeepsCadence(new, at)
  BY <1>1, BoundsAreNaturals DEF KeepsCadence
<1>. QED BY <1>2, <1>4, <1>5, <1>6, <1>7, ObservableIsSound DEF Observable, new

(* A moved race starts its cadence again; nothing was observed of it. *)
LEMMA RescheduledIsSound ==
  ASSUME NEW rec \in Record, NEW at, RecordSound(rec, at), NEW anchor \in Nat
  PROVE  LET new == rescheduled(rec, anchor) IN
         /\ new \in Record /\ RecordSound(new, at)
         /\ SameReview(rec, new)
         /\ new.superseded = rec.superseded
         /\ new.content = rec.content /\ new.candidate = rec.candidate
         /\ new.staged = rec.staged /\ new.confirmations = rec.confirmations
         /\ rec.content # None => new = rec
         /\ new.terminal = "settled" => rec.terminal = "settled"
<1> DEFINE new == rescheduled(rec, anchor)
<1>1. CASE ~isReschedulable(rec, anchor)
  BY <1>1 DEF rescheduled, SameReview
<1>2. CASE isReschedulable(rec, anchor)
  <2>1. new = [rec EXCEPT !.anchor = anchor, !.checkIndex = 0, !.terminal = "open"]
    BY <1>2 DEF rescheduled
  <2>2. rec.content = None /\ rec.staged = None
    BY <1>2 DEF isReschedulable, isInOperatorBacklog
  <2>3. new \in Record
    <3>1. 0 \in 0 .. FinalSlot /\ "open" \in Terminals
      BY BoundsAreNaturals DEF Terminals
    <3> HIDE DEF new
    <3>. QED BY <2>1, <3>1 DEF Record
  <2>4. /\ SameReview(rec, new)
        /\ new.superseded = rec.superseded
        /\ new.content = rec.content /\ new.candidate = rec.candidate
        /\ new.staged = rec.staged /\ new.confirmations = rec.confirmations
        /\ new.terminal = "open" /\ new.checkIndex = 0
    <3> HIDE DEF new
    <3>. QED BY <2>1 DEF Record, SameReview
  <2> HIDE DEF new
  <2>5. Observable(rec) /\ ReceiptsAgree(rec) /\ KeepsCadence(rec, at)
    BY SoundIsObservable
  <2>6. Observable(new)
    BY <2>2, <2>3, <2>4, <2>5
       DEF Observable, KeepsRevisionsApart, supersededOf, SameReview
  <2>7. ReceiptsAgree(new) /\ KeepsCadence(new, at)
    BY <2>4, <2>5, SameReceiptsAgree, BoundsAreNaturals DEF KeepsCadence
  <2>8. RecordSound(new, at)
    BY <2>6, <2>7, ObservableIsSound
  <2>. QED BY <2>2, <2>3, <2>4, <2>8 DEF new
<1>. QED BY <1>1, <1>2

(* A bounded set of naturals has a greatest element: the one with the fewest
   above it. *)
LEMMA GreatestElement ==
  ASSUME NEW n \in Nat, NEW S \in SUBSET (0 .. n), S # {}
  PROVE  Max(S) \in S
<1> DEFINE above(i) == {j \in S : j > i}
           T == {above(i) : i \in S}
<1>1. IsFiniteSet(0 .. n)
  BY FS_Interval
<1>2. FiniteSubsetsOf(0 .. n) = SUBSET (0 .. n)
  BY <1>1, FS_FiniteSubsetsOfFinite
<1>3. IsWellFoundedOn(StrictSubsetOrdering(0 .. n), SUBSET (0 .. n))
  BY <1>2, FS_StrictSubsetOrderingWellFounded
<1>4. T \subseteq SUBSET (0 .. n) /\ T # {}
  OBVIOUS
<1>5. PICK X \in T : \A Y \in T : ~ (<<Y, X>> \in StrictSubsetOrdering(0 .. n))
  <2> HIDE DEF T
  <2>. QED BY <1>3, <1>4, WFMin
<1>6. PICK i \in S : X = above(i)
  BY <1>5
<1>7. ASSUME NEW j \in S PROVE i >= j
  <2> SUFFICES ASSUME ~(i >= j) PROVE FALSE
    OBVIOUS
  <2>1. i \in Int /\ j \in Int /\ j > i
    BY <1>6, <1>7
  <2>2. j \in above(i) /\ j \notin above(j)
    BY <1>6, <1>7, <2>1
  <2>3. above(j) \subseteq above(i)
    <3>1. \A k \in S : k > j => k > i
      BY <2>1
    <3>. QED BY <3>1
  <2>4. above(j) \in SUBSET (0 .. n) /\ above(i) \in SUBSET (0 .. n)
    OBVIOUS
  <2>5. above(j) \in T
    BY <1>7
  <2> HIDE DEF above, T
  <2>6. <<above(j), above(i)>> \in StrictSubsetOrdering(0 .. n)
    BY <2>2, <2>3, <2>4 DEF StrictSubsetOrdering
  <2>. QED BY <1>5, <1>6, <2>5, <2>6
<1>. QED BY <1>7 DEF Max

LEMMA CurrentSlotHasPassed ==
  ASSUME NEW anchor \in Nat, NEW at \in Nat, NEW every
  PROVE  /\ currentSlot(anchor, at, every) \in 0 .. FinalSlot
         /\ currentSlot(anchor, at, every) # 0 =>
              anchor + currentSlot(anchor, at, every) <= at
<1> DEFINE passed == {slot \in 1 .. FinalSlot :
                        anchor + slot <= at /\ (every \/ isConfirmationSlot(slot))}
<1>1. currentSlot(anchor, at, every) = IF passed = {} THEN 0 ELSE Max(passed)
  BY DEF currentSlot
<1>2. /\ passed \in SUBSET (0 .. FinalSlot) /\ FinalSlot \in Nat
      /\ \A slot \in passed : anchor + slot <= at
  BY BoundsAreNaturals
<1> HIDE DEF passed
<1>3. passed # {} => Max(passed) \in passed
  BY <1>2, GreatestElement
<1>4. CASE passed = {}
  BY <1>1, <1>4, BoundsAreNaturals
<1>5. CASE passed # {}
  <2>1. currentSlot(anchor, at, every) \in passed
    BY <1>1, <1>3, <1>5
  <2>. QED BY <1>2, <2>1
<1>. QED BY <1>4, <1>5

(* The record a planned check is applied to is the one it was planned from,
   and a check of the cadence takes a slot that has passed. *)
LEMMA PlannedCheckIsDue ==
  ASSUME NEW rec \in Record, NEW moved \in Nat, NEW at \in Nat, NEW trigger,
         NEW check, check = plannedCheck(rec, moved, at, trigger)
  PROVE  /\ check \in Checks
         /\ check # NoCheck =>
              /\ check.anchor \in Nat
              /\ CheckIsDue(rescheduled(rec, check.anchor), check, at)
<1> DEFINE effective == followedMove(rec, moved, at)
           slot == currentSlot(effective.anchor, at, everySlot(effective))
           planned(kind, n) == [kind |-> kind, slot |-> n, anchor |-> effective.anchor]
<1>1. effective = rec \/ effective = rescheduled(rec, moved)
  BY DEF followedMove
<1>2. rescheduled(rec, moved) = rec \/ rescheduled(rec, moved).anchor = moved
  BY DEF rescheduled, Record
<1>3. rec.anchor \in Nat /\ rescheduled(rec, rec.anchor) = rec
  BY DEF rescheduled, isReschedulable, Record
<1>4. effective.anchor \in Nat /\ rescheduled(rec, effective.anchor) = effective
  BY <1>1, <1>2, <1>3
<1>5. effective.checkIndex \in Nat
  <2>1. rec.checkIndex \in Nat
    BY BoundsAreNaturals DEF Record
  <2>2. \/ rescheduled(rec, moved) = rec \/ rescheduled(rec, moved).checkIndex = 0
    BY DEF rescheduled, Record
  <2> HIDE DEF effective
  <2>. QED BY <1>1, <2>1, <2>2
<1> HIDE DEF effective
<1>6. slot \in 0 .. FinalSlot /\ (slot # 0 => effective.anchor + slot <= at)
  BY <1>4, CurrentSlotHasPassed
<1> HIDE DEF slot
<1>7. \/ check = NoCheck \/ check = planned("manual", 0) \/ check = planned("reread", 0)
      \/ check = planned("cadence", slot) /\ slot > effective.checkIndex
  BY DEF plannedCheck, effective, slot
<1>8. CASE check = NoCheck
  BY <1>8 DEF Checks
<1>9. CASE check = planned("manual", 0) \/ check = planned("reread", 0)
  <2>1. /\ check.kind \in {"manual", "reread"} /\ check.slot = 0
        /\ check.anchor = effective.anchor
    BY <1>9
  <2>2. check \in Checks
    BY <1>4, <1>9, BoundsAreNaturals DEF Checks
  <2>. QED BY <1>4, <2>1, <2>2 DEF CheckIsDue
<1>10. CASE check = planned("cadence", slot) /\ slot > effective.checkIndex
  <2>1. /\ check.kind = "cadence" /\ check.slot = slot
        /\ check.anchor = effective.anchor /\ slot \in 1 .. FinalSlot
    BY <1>5, <1>6, <1>10, BoundsAreNaturals
  <2>2. check \in Checks
    BY <1>4, <1>6, <1>10 DEF Checks
  <2>. QED BY <1>4, <1>6, <2>1, <2>2 DEF CheckIsDue
<1>. QED BY <1>7, <1>8, <1>9, <1>10

-----------------------------------------------------------------------------
(* What operators do to a record held for review *)

(* A revision a verification returned is pending, competing or neither. *)
KeepsStaged(old, new) ==
  /\ new \in Record
  /\ new.version = old.version /\ new.anchor = old.anchor
  /\ new.checkIndex = old.checkIndex /\ new.published = old.published
  /\ new.content = old.content /\ new.staged = old.staged
  /\ new.terminal = old.terminal /\ new.superseded = old.superseded
  /\ new.disposition = old.disposition
  /\ new.generation = old.generation /\ new.reset = old.reset

Tracks(old, new, revision) ==
  /\ KeepsStaged(old, new) /\ new.verifications = old.verifications
  /\ \/ /\ new.competing = old.competing
        /\ \/ new.candidate \in {None, old.candidate}
           \/ new.candidate = revision /\ revision # old.content
     \/ new.candidate = None /\ new.competing = revision /\ revision = old.candidate

LEMMA TrackedTracks ==
  ASSUME NEW rec \in Record, NEW revision \in Revisions
  PROVE  Tracks(rec, tracked(rec, revision), revision)
<1> DEFINE new == tracked(rec, revision)
<1>1. CASE revision \in supersededOf(rec)
  <2>1. None \in RevisionOrNone /\ 0 \in 0 .. MaximumConfirmations
    BY BoundsAreNaturals DEF RevisionOrNone
  <2>2. new = [rec EXCEPT !.candidate = None, !.confirmations = 0]
    BY <1>1 DEF tracked, rejected
  <2> HIDE DEF new
  <2>. QED BY <2>1, <2>2, ZenonT(60) DEF Record, Tracks, KeepsStaged, new
<1>2. CASE revision \notin supersededOf(rec) /\ revision \in {rec.content, rec.staged}
  <2>1. None \in RevisionOrNone
    BY DEF RevisionOrNone
  <2>2. new = [rec EXCEPT !.candidate = None]
    BY <1>2 DEF tracked, NoCandidate
  <2> HIDE DEF new
  <2>. QED BY <2>1, <2>2 DEF Record, Tracks, KeepsStaged, new
<1>3. CASE /\ revision \notin supersededOf(rec) /\ revision \notin {rec.content, rec.staged}
           /\ revision = rec.candidate
  <2>1. None \in RevisionOrNone /\ revision \in RevisionOrNone
    BY DEF RevisionOrNone
  <2>2. new = [[rec EXCEPT !.candidate = None] EXCEPT !.competing = revision]
    BY <1>3 DEF tracked, NoCandidate
  <2> HIDE DEF new
  <2>. QED BY <1>3, <2>1, <2>2, ZenonT(60) DEF Record, Tracks, KeepsStaged, new
<1>4. CASE /\ revision \notin supersededOf(rec) /\ revision \notin {rec.content, rec.staged}
           /\ revision # rec.candidate
  <2>1. revision \in RevisionOrNone
    BY DEF RevisionOrNone
  <2>2. new = [rec EXCEPT !.candidate = revision]
    BY <1>4 DEF tracked
  <2> HIDE DEF new
  <2>. QED BY <1>4, <2>1, <2>2 DEF Record, Tracks, KeepsStaged, new
<1>. QED BY <1>1, <1>2, <1>3, <1>4

(* The identifier is recorded after those the generation has. *)
Verifies(old, new, op, outcome) ==
  /\ KeepsStaged(old, new)
  /\ IF outcome = "deferred" THEN new = old
     ELSE /\ new.verifications =
               Append(old.verifications, [op |-> op, staged |-> old.staged])
          /\ \/ new.candidate = old.candidate /\ new.competing = old.competing
             \/ /\ outcome \in Revisions
                /\ \/ /\ new.competing = old.competing
                      /\ \/ new.candidate \in {None, old.candidate}
                         \/ new.candidate = outcome /\ outcome # old.content
                   \/ /\ new.candidate = None /\ new.competing = outcome
                      /\ outcome = old.candidate

LEMMA VerificationVerifies ==
  ASSUME NEW rec \in Record, NEW op \in Operations,
         NEW outcome \in Revisions \union {"failed", "deferred"},
         rec.staged # None, Len(rec.verifications) < MaximumVerifications
  PROVE  Verifies(rec, applyOperatorVerification(rec, op, outcome), op, outcome)
<1> DEFINE entry == [op |-> op, staged |-> rec.staged]
           after == IF outcome = "failed" THEN rec ELSE tracked(rec, outcome)
           new == applyOperatorVerification(rec, op, outcome)
<1>1. CASE outcome = "deferred"
  BY <1>1 DEF applyOperatorVerification, Verifies, KeepsStaged
<1>2. CASE outcome # "deferred"
  <2>1. new = [after EXCEPT !.verifications = Append(@, entry)]
    BY <1>2 DEF applyOperatorVerification
  <2>2. /\ KeepsStaged(rec, after) /\ after.verifications = rec.verifications
        /\ \/ after = rec
           \/ /\ outcome \in Revisions
              /\ Tracks(rec, after, outcome)
    <3>1. CASE outcome = "failed"
      BY <3>1 DEF KeepsStaged
    <3>2. CASE outcome \in Revisions
      <4>1. outcome # "failed"
        BY <3>2, KindAssumption
      <4>2. after = tracked(rec, outcome)
        BY <4>1
      <4> HIDE DEF after
      <4>. QED BY <3>2, <4>2, TrackedTracks DEF Tracks
    <3>. QED BY <1>2, <3>1, <3>2
  <2>3. Append(after.verifications, entry) \in Histories
    <3>1. entry \in Verification
      BY DEF Record, RevisionOrNone, Verification
    <3>2. rec.verifications \in Histories
      BY DEF Record
    <3> HIDE DEF entry, after
    <3>. QED BY <2>2, <3>1, <3>2, VerificationsGrow
  <2> HIDE DEF after, new
  <2>4. /\ new \in Record
        /\ new.verifications = Append(rec.verifications, entry)
        /\ KeepsStaged(rec, new)
        /\ new.candidate = after.candidate /\ new.competing = after.competing
    <3> HIDE DEF entry
    <3>1. after \in Record
      BY <2>2 DEF KeepsStaged
    <3>2. new \in Record
      BY <2>1, <2>3, <3>1 DEF Record
    <3>. QED BY <2>1, <2>2, <3>1, <3>2 DEF Record, KeepsStaged
  <2>. QED BY <1>2, <2>2, <2>4 DEF Verifies, Tracks, new
<1>. QED BY <1>1, <1>2

LEMMA VerificationIsSound ==
  ASSUME NEW rec \in Record, NEW at, RecordSound(rec, at),
         NEW op \in Operations, NEW outcome \in Revisions \union {"failed", "deferred"},
         rec.staged # None, rec.competing = None,
         Len(rec.verifications) < MaximumVerifications,
         \A i \in DOMAIN rec.verifications : rec.verifications[i].op # op,
         rec.reset # None => rec.reset.op # op,
         NEW new, Verifies(rec, new, op, outcome), keepsHistory(rec, new)
  PROVE  new \in Record /\ RecordSound(new, at)
<1>1. new \in Record /\ Observable(rec) /\ ReceiptsAgree(rec) /\ KeepsCadence(rec, at)
  BY SoundIsObservable DEF Verifies, KeepsStaged
<1>2. CASE outcome = "deferred"
  BY <1>1, <1>2 DEF Verifies
<1>3. CASE outcome # "deferred"
  <2>1. rec.content # None /\ rec.terminal # "open"
    BY <1>1 DEF Observable, KeepsRevisionsApart
  <2>2. KeepsRevisionsApart(new)
    <3>1. /\ {new.content, new.candidate, new.staged, new.competing}
               \intersect supersededOf(new) = {}
      BY DEF keepsHistory
    <3>2. /\ new.content = rec.content /\ new.staged = rec.staged
          /\ new.terminal = rec.terminal
      BY DEF Verifies, KeepsStaged
    <3>3. new.candidate # new.content
      BY <1>1, <1>3, <2>1, <3>2
         DEF Verifies, Observable, KeepsRevisionsApart
    <3>. QED BY <2>1, <3>1, <3>2, <3>3 DEF KeepsRevisionsApart
  <2>3. decodeSupersededRevisions(new.superseded)
    BY <1>1 DEF Verifies, KeepsStaged, Observable
  <2>4. ReceiptsAgree(new)
    <3> DEFINE entry == [op |-> op, staged |-> rec.staged]
               n == Len(rec.verifications)
    <3>1. entry \in Verification /\ entry.op = op
      BY DEF Record, RevisionOrNone, Verification
    <3>2. rec.verifications \in Histories
      BY DEF Record
    <3>3. new.verifications = Append(rec.verifications, entry)
      BY <1>3 DEF Verifies
    <3> HIDE DEF entry
    <3>4. /\ Len(new.verifications) = n + 1 /\ n \in Nat
          /\ DOMAIN rec.verifications = 1 .. n
          /\ DOMAIN new.verifications = 1 .. n + 1
          /\ \A i \in 1 .. n : new.verifications[i] = rec.verifications[i]
          /\ new.verifications[n + 1] = entry
      BY <3>1, <3>2, <3>3, VerificationsGrow
    <3>5. \A i \in 1 .. n + 1 : i \in 1 .. n \/ i = n + 1
      BY <3>4
    <3>6. decodeVerifications(new.verifications)
      <4>1. n + 1 <= MaximumVerifications
        BY <3>4, BoundsAreNaturals
      <4>2. ASSUME NEW i \in 1 .. n + 1, NEW j \in 1 .. n + 1,
                   new.verifications[i].op = new.verifications[j].op
            PROVE  i = j
        BY <1>1, <3>1, <3>4, <3>5, <4>2 DEF ReceiptsAgree, decodeVerifications
      <4>. QED BY <3>4, <4>1, <4>2 DEF decodeVerifications
    <3>7. /\ new.reset = rec.reset /\ new.generation = rec.generation
      BY DEF Verifies, KeepsStaged
    <3>8. isCoherentGeneration(new)
      BY <1>1, <3>1, <3>4, <3>5, <3>7 DEF ReceiptsAgree, isCoherentGeneration
    <3>. QED BY <1>1, <3>6, <3>7, <3>8 DEF ReceiptsAgree
  <2>5. KeepsCadence(new, at)
    BY <1>1 DEF Verifies, KeepsStaged, KeepsCadence
  <2>. QED BY <1>1, <2>2, <2>3, <2>4, <2>5, ObservableIsSound DEF Observable
<1>. QED BY <1>2, <1>3

(* A generation's history moves to its receipt, under a fresh identifier. *)
Rotates(old, new, op) ==
  /\ new \in Record
  /\ new.version = old.version /\ new.anchor = old.anchor
  /\ new.checkIndex = old.checkIndex /\ new.published = old.published
  /\ new.content = old.content /\ new.candidate = old.candidate
  /\ new.staged = old.staged /\ new.competing = old.competing
  /\ new.confirmations = old.confirmations
  /\ new.terminal = old.terminal /\ new.superseded = old.superseded
  /\ new.disposition = old.disposition
  /\ new.verifications = <<>> /\ new.generation = old.generation + 1
  /\ new.reset = [op |-> op, from |-> old.generation, cleared |-> old.verifications]

LEMMA RotationRotates ==
  ASSUME NEW rec \in Record, NEW op \in Operations
  PROVE  Rotates(rec, rotatedRecord(rec, op), op)
<1> DEFINE receipt == [op |-> op, from |-> rec.generation, cleared |-> rec.verifications]
           new == rotatedRecord(rec, op)
<1>1. receipt \in Receipt /\ rec.generation + 1 \in Nat
  BY DEF Record, Receipt
<1>2. new = [rec EXCEPT !.verifications = <<>>, !.generation = rec.generation + 1,
               !.reset = receipt]
  BY DEF rotatedRecord
<1>3. <<>> \in Histories
  BY EmptyHistory
<1> HIDE DEF receipt, new
<1>4. new \in Record /\ new.reset = receipt
  BY <1>1, <1>2, <1>3 DEF Record
<1>5. /\ new.version = rec.version /\ new.anchor = rec.anchor
      /\ new.checkIndex = rec.checkIndex /\ new.published = rec.published
      /\ new.content = rec.content /\ new.candidate = rec.candidate
      /\ new.staged = rec.staged /\ new.competing = rec.competing
      /\ new.confirmations = rec.confirmations
      /\ new.terminal = rec.terminal /\ new.superseded = rec.superseded
      /\ new.disposition = rec.disposition
      /\ new.verifications = <<>> /\ new.generation = rec.generation + 1
  BY <1>2 DEF Record
<1>. QED BY <1>4, <1>5 DEF Rotates, receipt, new

LEMMA RotationIsSound ==
  ASSUME NEW rec \in Record, NEW at, RecordSound(rec, at), NEW op \in Operations,
         Len(rec.verifications) = MaximumVerifications,
         NEW new, Rotates(rec, new, op)
  PROVE  new \in Record /\ RecordSound(new, at)
<1>1. new \in Record /\ Observable(rec) /\ ReceiptsAgree(rec) /\ KeepsCadence(rec, at)
  BY SoundIsObservable DEF Rotates
<1>2. Observable(new)
  BY <1>1 DEF Observable, KeepsRevisionsApart, supersededOf, Rotates
<1>3. KeepsCadence(new, at)
  BY <1>1 DEF KeepsCadence, Rotates
<1>4. ReceiptsAgree(new)
  <2>1. decodeVerifications(new.verifications)
    BY EmptyHistory, BoundsAreNaturals DEF Rotates, decodeVerifications
  <2>2. /\ new.reset = [op |-> op, from |-> rec.generation, cleared |-> rec.verifications]
        /\ new.generation = rec.generation + 1 /\ DOMAIN new.verifications = {}
    BY EmptyHistory DEF Rotates
  <2>3. /\ new.reset.op = op /\ new.reset.from = rec.generation
        /\ new.reset.cleared = rec.verifications
    BY <2>2
  <2>4. new.reset # None
    <3>1. new.reset \in Receipt
      BY <2>2 DEF Receipt, Record
    <3>. QED BY <3>1, KindAssumption
  <2>5. decodeVerificationReset(new.reset)
    BY <2>3 DEF decodeVerificationReset
  <2>6. isCoherentGeneration(new)
    BY <2>2, <2>3, <2>4 DEF isCoherentGeneration
  <2>. QED BY <2>1, <2>5, <2>6 DEF ReceiptsAgree
<1>. QED BY <1>2, <1>3, <1>4, ObservableIsSound

(* A disposition frees the record, and remembers the revision it turned down. *)
turnedDown(rec, action) ==
  IF action = "retain-published" THEN rec.staged ELSE rec.content

Disposes(old, new, op, action) ==
  /\ new \in Record
  /\ new.version = old.version /\ new.anchor = old.anchor
  /\ new.checkIndex = old.checkIndex /\ new.published = old.published
  /\ new.content \in Revisions /\ new.candidate = None
  /\ new.staged = None /\ new.competing = None
  /\ new.confirmations = old.confirmations /\ new.terminal = old.terminal
  /\ new.disposition = op
  /\ new.verifications = old.verifications
  /\ new.generation = old.generation /\ new.reset = old.reset
  /\ supersededOf(new) = supersededOf(old) \union {turnedDown(old, action)}
  /\ turnedDown(old, action) \in Revisions

LEMMA DispositionDisposes ==
  ASSUME NEW rec \in Record, NEW op \in Operations, NEW action \in Dispositions,
         NEW content, NEW staged, NEW competing,
         isDisposable(rec, action, content, staged, competing)
  PROVE  Disposes(rec, applyDisposition(rec, op, action), op, action)
<1> DEFINE chosen == CASE action = "accept-staged" -> rec.staged
                       [] action = "accept-competing" -> rec.competing
                       [] action = "retain-published" -> rec.content
           down == IF action = "retain-published" THEN rec.staged ELSE rec.content
           next == Append(rec.superseded, down)
           new == applyDisposition(rec, op, action)
<1>1. rec.staged \in Revisions /\ rec.content \in Revisions
  BY DEF isDisposable, Record, RevisionOrNone
<1>2. chosen \in Revisions
  BY <1>1 DEF Dispositions, isDisposable, Record, RevisionOrNone
<1>3. down \in Revisions /\ down = turnedDown(rec, action)
  BY <1>1 DEF turnedDown
<1>4. /\ rec.superseded \in Seq(Revisions) /\ next \in Seq(Revisions)
      /\ ToSet(next) = ToSet(rec.superseded) \union {down}
  <2>1. rec.superseded \in Seq(Revisions)
    BY DEF Record
  <2> HIDE DEF down
  <2>. QED BY <2>1, <1>3, HistoryGrows
<1>5. new = [rec EXCEPT !.content = chosen, !.candidate = None, !.staged = None,
               !.competing = None, !.disposition = op, !.superseded = next]
  BY DEF applyDisposition
<1> HIDE DEF chosen, down, next, new
<1>6. new \in Record
  <2>1. /\ chosen \in RevisionOrNone /\ None \in RevisionOrNone
        /\ op \in Operations \union {None}
    BY <1>2 DEF RevisionOrNone
  <2>. QED BY <2>1, <1>4, <1>5 DEF Record
<1>7. /\ new.version = rec.version /\ new.anchor = rec.anchor
      /\ new.checkIndex = rec.checkIndex /\ new.published = rec.published
      /\ new.content = chosen /\ new.candidate = None
      /\ new.staged = None /\ new.competing = None
      /\ new.confirmations = rec.confirmations /\ new.terminal = rec.terminal
      /\ new.disposition = op
      /\ new.verifications = rec.verifications
      /\ new.generation = rec.generation /\ new.reset = rec.reset
      /\ new.superseded = next
  BY <1>5 DEF Record
<1>. QED BY <1>2, <1>3, <1>4, <1>6, <1>7 DEF Disposes, supersededOf, new

LEMMA DispositionIsSound ==
  ASSUME NEW rec \in Record, NEW at, RecordSound(rec, at), rec.staged # None,
         NEW op, NEW action, NEW new, Disposes(rec, new, op, action),
         keepsHistory(rec, new)
  PROVE  new \in Record /\ RecordSound(new, at)
<1>1. new \in Record /\ Observable(rec) /\ ReceiptsAgree(rec) /\ KeepsCadence(rec, at)
  BY SoundIsObservable DEF Disposes
<1>2. rec.content # None /\ rec.terminal # "open"
  BY <1>1 DEF Observable, KeepsRevisionsApart
<1>3. KeepsRevisionsApart(new) /\ decodeSupersededRevisions(new.superseded)
  <2>1. /\ {new.content, new.candidate, new.staged, new.competing}
             \intersect supersededOf(new) = {}
        /\ Cardinality(ToSet(new.superseded)) = Len(new.superseded)
        /\ Len(new.superseded) <= HistoryCapacity
    BY DEF keepsHistory, supersededOf
  <2>2. /\ new.content # None /\ new.candidate = None
        /\ new.staged = None /\ new.competing = None
    BY NullIsNoRevision DEF Disposes
  <2>. QED BY <2>1, <2>2 DEF KeepsRevisionsApart, decodeSupersededRevisions
<1>4. KeepsCadence(new, at)
  BY <1>1, <1>2, NullIsNoRevision DEF KeepsCadence, Disposes
<1>5. ReceiptsAgree(new)
  BY <1>1 DEF ReceiptsAgree, isCoherentGeneration, Disposes
<1>. QED BY <1>1, <1>3, <1>4, <1>5, ObservableIsSound DEF Observable

-----------------------------------------------------------------------------
(* The store *)

LEMMA WaitingIsCounted ==
  ASSUME NEW S \in SUBSET Rounds
  PROVE  IsFiniteSet(S) /\ Cardinality(S) \in Nat
BY LedgerAssumption, FS_Subset, FS_CardinalityType

(* The season a commit leaves is the one it was asked to write, one version
   later unless nothing of it changed. *)
SeasonFollows(new, write) ==
  /\ new \in SeasonRecord
  /\ new.version \in {write.version, write.version + 1}
  /\ new.calendar = write.calendar /\ new.due = write.due
  /\ new.disposition = write.disposition
  /\ new.hold = write.hold /\ new.durable = write.durable
  /\ new.action = write.action

LEMMA CommittedSeason ==
  ASSUME NEW write \in SeasonRecord, NEW new, new = bumped(write) \/ new = write
  PROVE  SeasonFollows(new, write)
<1>1. write.version + 1 \in Nat
  BY DEF SeasonRecord
<1>2. CASE new = bumped(write)
  BY <1>1, <1>2 DEF bumped, SeasonRecord, SeasonFollows
<1>3. CASE new = write
  BY <1>3 DEF SeasonRecord, SeasonFollows
<1>. QED BY <1>2, <1>3

LEMMA CommitKeepsBacklog ==
  ASSUME LedgerTypeOK, \A r \in Rounds : backlog[r] = records[r].staged,
         NEW fence, NEW seasonWrite, NEW written, DOMAIN written \subseteq Rounds,
         \A r \in DOMAIN written : written[r] \in Record,
         Commit(fence, seasonWrite, written)
  PROVE  /\ records' \in [Rounds -> Record] /\ backlog' \in [Rounds -> RevisionOrNone]
         /\ \A r \in Rounds : backlog'[r] = records'[r].staged
         /\ backlogCount' <= BacklogCapacity
         /\ \A r \in DOMAIN written : records'[r] = bumped(written[r])
         /\ \A r \in Rounds \ DOMAIN written : records'[r] = records[r]
<1> DEFINE I == insertions(written)
<1>1. records' = [r \in Rounds |->
                    IF r \in DOMAIN written THEN bumped(written[r]) ELSE records[r]]
  BY DEF Commit
<1>2. backlog' = [r \in Rounds |-> IF r \in I THEN written[r].staged ELSE backlog[r]]
  BY DEF Commit
<1>3. \A r \in DOMAIN written : /\ bumped(written[r]) \in Record
                                /\ bumped(written[r]).staged = written[r].staged
                                /\ written[r].staged \in RevisionOrNone
  BY BumpedIsSame DEF SameButVersion, Record
<1>4. \A r \in DOMAIN written : r \notin I => written[r].staged = records[r].staged
  BY DEF insertions, Commit, isCommittable, keepsReview
<1>5. \A r \in Rounds : records[r] \in Record /\ backlog[r] \in RevisionOrNone
  BY DEF LedgerTypeOK
<1>6. I \subseteq DOMAIN written
  BY DEF insertions
<1>7. waiting' = waiting \union I
  <2>1. \A r \in I : written[r].staged # None
    BY DEF insertions
  <2> HIDE DEF I
  <2>2. waiting' = {r \in Rounds : backlog'[r] # None}
    BY DEF waiting
  <2>. QED BY <1>2, <1>6, <2>1, <2>2 DEF waiting
<1>8. Cardinality(waiting \union I) <= Cardinality(waiting) + Cardinality(I)
  <2>1. waiting \in SUBSET Rounds /\ I \in SUBSET Rounds
    BY <1>6 DEF waiting
  <2>2. waiting \intersect I \in SUBSET Rounds /\ waiting \union I \in SUBSET Rounds
    BY <2>1
  <2> HIDE DEF I
  <2>3. /\ IsFiniteSet(waiting) /\ IsFiniteSet(I)
        /\ Cardinality(waiting) \in Nat /\ Cardinality(I) \in Nat
        /\ Cardinality(waiting \intersect I) \in Nat
    BY <2>1, <2>2, WaitingIsCounted
  <2>4. Cardinality(waiting \union I) =
          Cardinality(waiting) + Cardinality(I) - Cardinality(waiting \intersect I)
    BY <2>3, FS_Union
  <2>. QED BY <2>3, <2>4
<1>9. Cardinality(waiting) + elsewhere + Cardinality(I) <= BacklogCapacity
  BY DEF Commit, hasBacklogRoom, backlogCount
<1>10. /\ Cardinality(waiting) \in Nat /\ Cardinality(I) \in Nat
       /\ Cardinality(waiting \union I) \in Nat
       /\ elsewhere' = elsewhere /\ elsewhere \in Nat /\ BacklogCapacity \in Nat
  <2>1. waiting \in SUBSET Rounds /\ I \in SUBSET Rounds
        /\ waiting \union I \in SUBSET Rounds
    BY <1>6 DEF waiting
  <2>2. elsewhere' = elsewhere /\ elsewhere \in Nat /\ BacklogCapacity \in Nat
    BY LedgerAssumption DEF Commit, LedgerTypeOK
  <2> HIDE DEF I
  <2>. QED BY <2>1, <2>2, WaitingIsCounted
<1> HIDE DEF I
<1>11. backlogCount' <= BacklogCapacity
  <2>1. backlogCount' = Cardinality(waiting \union I) + elsewhere
    BY <1>7, <1>10 DEF backlogCount
  <2>. QED BY <2>1, <1>8, <1>9, <1>10
<1>12. /\ records' \in [Rounds -> Record] /\ backlog' \in [Rounds -> RevisionOrNone]
  BY <1>1, <1>2, <1>3, <1>5, <1>6
<1>13. \A r \in Rounds : backlog'[r] = records'[r].staged
  BY <1>1, <1>2, <1>3, <1>4, <1>6
<1>. QED BY <1>1, <1>11, <1>12, <1>13
=============================================================================
