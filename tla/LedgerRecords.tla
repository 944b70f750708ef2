----------------------------- MODULE LedgerRecords -----------------------------
(***************************************************************************)
(* What the ledger accepts as a record, a request or an answer             *)
(* (sync/coordinated/ledger/records.ts, requests.ts, wire-decoders.ts).    *)
(*                                                                         *)
(* Every value the ledger reads from storage or receives is decoded        *)
(* against one closed model, and so is every answer its client receives.   *)
(* A stored record that does not decode fails every later operation on its *)
(* season; a request that does not is refused whole; an answer that does   *)
(* not is uncertain, whatever was written.  Shapes of single fields are    *)
(* the sets of ReconciliationLedger; what is kept are the bounds and the   *)
(* agreement between fields.                                               *)
(***************************************************************************)
EXTENDS ReconciliationLedger

(* Oldest first, bounded, and each operation identifier at most once. *)
decodeVerifications(verifications) ==
  /\ Len(verifications) <= MaximumVerifications
  /\ \A i, j \in DOMAIN verifications :
       verifications[i].op = verifications[j].op => i = j

(* Only a full history is ever rotated. *)
decodeVerificationReset(reset) ==
  reset # None =>
    reset.op \in Operations /\ Len(reset.cleared) = MaximumVerifications

(* No receipt exactly at generation 0, otherwise one for the generation
   before, under an identifier no verification of this generation has. *)
isCoherentGeneration(rec) ==
  IF rec.reset = None THEN rec.generation = 0
  ELSE /\ rec.reset.from + 1 = rec.generation
       /\ \A i \in DOMAIN rec.verifications :
            rec.verifications[i].op # rec.reset.op

decodeSupersededRevisions(revisions) ==
  /\ Len(revisions) <= HistoryCapacity
  /\ Cardinality(ToSet(revisions)) = Len(revisions)

(* A correction slot, a candidate and the accepted content are each a
   revision or absent; the instants kept beside them are not modelled. *)
decodeCorrection(slot) == slot \in RevisionOrNone

decodeClassificationRecord(rec) ==
  /\ rec.checkIndex \in 0 .. FinalSlot
  /\ {rec.published, rec.content, rec.candidate} \subseteq RevisionOrNone
  /\ rec.confirmations \in 0 .. MaximumConfirmations
  /\ rec.terminal \in Terminals
  /\ decodeCorrection(rec.staged) /\ decodeCorrection(rec.competing)
  /\ decodeSupersededRevisions(rec.superseded)
  /\ rec.disposition \in Operations \union {None}
  /\ decodeVerifications(rec.verifications)
  /\ decodeVerificationReset(rec.reset)
  /\ isCoherentGeneration(rec)

(* A reservation is a digest and its ordering input, together or not at all. *)
decodeDisposition(disposition) ==
  disposition \in {"none", "publishing", "reserved", "review", "blocked"}

decodeOperatorAction(action) ==
  action # None =>
    /\ action.op \in Operations
    /\ action.action \in {"hold", "release-hold", "clear-block"}

decodeSeasonRecord(record) ==
  /\ DOMAIN record.calendar = Rounds
  /\ \A r \in Rounds : record.calendar[r] \in Anchors
  /\ decodeDisposition(record.disposition)
  /\ decodeOperatorAction(record.action)

decodeVersioned(record) == record.version >= 1

(* One entry for each round, and a count of every season's entries. *)
decodeBacklog(entries, count) ==
  /\ \A r \in DOMAIN entries : entries[r] \in Revisions
  /\ Cardinality(DOMAIN entries) <= count
  /\ count <= BacklogCapacity

decodeSnapshot(snap, entries) ==
  /\ decodeVersioned(snap.season) /\ decodeSeasonRecord(snap.season)
  /\ \A r \in Rounds :
       snap.records[r].version # 0 => decodeClassificationRecord(snap.records[r])
  /\ decodeBacklog(entries, snap.count)

-----------------------------------------------------------------------------
(* Requests *)

(* The token names a lease that was handed out. *)
decodeLeaseToken(fence) == fence \in 1 .. MaxFence

decodeWrite(record) == record.version >= 0

(* No round is written twice, and one backlog change is made for a round. *)
decodeCommitRequest(fence, seasonWrite, written) ==
  /\ decodeLeaseToken(fence)
  /\ decodeWrite(seasonWrite) /\ decodeSeasonRecord(seasonWrite)
  /\ \A r \in DOMAIN written :
       decodeWrite(written[r]) /\ decodeClassificationRecord(written[r])
  /\ \A r \in insertions(written) : written[r].staged \in Revisions

(* A round the season does not have is never reconciled. *)
decodeReconciliationRequest(fence, served) ==
  /\ decodeLeaseToken(fence)
  /\ \A r \in DOMAIN served : r \in Rounds /\ served[r] \in RevisionOrNone

decodeOperatorActionRequest(asked) ==
  /\ asked.action \in {"hold", "release-hold", "clear-block"}
  /\ asked.op \in Operations
  /\ asked.version >= 0

decodeDispositionRequest(asked) ==
  /\ asked.action \in Dispositions
  /\ asked.op \in Operations /\ asked.round \in Rounds
  /\ asked.version >= 1
  /\ {asked.content, asked.staged} \subseteq Revisions
  /\ asked.competing \in RevisionOrNone

decodeVerificationRequest(asked, version, outcome) ==
  /\ asked.op \in Operations /\ asked.round \in Rounds
  /\ version >= 1
  /\ asked.staged \in Revisions
  /\ asked.generation >= 0
  /\ outcome \in Revisions \union {"failed", "deferred"}

decodeVerificationRotationRequest(asked) ==
  /\ asked.op \in Operations /\ asked.round \in Rounds
  /\ asked.version >= 1
  /\ asked.generation >= 0
  /\ asked.history \in Histories

-----------------------------------------------------------------------------
(* The inductive invariant of one record.                                    *)

(* What a record accepts, holds for review and remembers are apart; only a
   settled result is held for review. *)
KeepsRevisionsApart(rec) ==
  /\ {rec.content, rec.candidate, rec.staged, rec.competing}
       \intersect supersededOf(rec) = {}
  /\ rec.content # None => rec.candidate # rec.content
  /\ rec.staged # None => rec.content # None /\ rec.terminal # "open"
  /\ rec.competing # None => rec.staged # None
  /\ rec.content = None => rec.confirmations = 0 /\ supersededOf(rec) = {}

(* The ceiling is where a race ends, with or without a result. *)
KeepsCadence(rec, at) ==
  /\ rec.checkIndex = FinalSlot => rec.terminal # "open"
  /\ rec.terminal = "never-reconciled" <=>
       rec.terminal # "open" /\ rec.content = None
  /\ rec.terminal = "never-reconciled" => rec.anchor + FinalSlot <= at

(* `at` is the time the record is read. *)
RecordSound(rec, at) ==
  /\ decodeClassificationRecord(rec)
  /\ KeepsRevisionsApart(rec)
  /\ KeepsCadence(rec, at)

(* The last observations in a row of one revision, as a history counts them. *)
counted(tail, revision) ==
  [revision |-> revision,
   count |-> IF tail.revision # revision THEN 1
             ELSE IF tail.count < MaximumConfirmations THEN tail.count + 1
             ELSE tail.count]

(* What is pending, or confirmed of an open round, is what the last checks in a
   row returned. *)
TailSupports(rec, tail) ==
  /\ rec.content # None /\ rec.candidate # None /\ rec.staged = None =>
       tail.revision = rec.candidate /\ tail.count >= 1
  /\ rec.terminal = "open" /\ rec.confirmations > 0 =>
       tail.revision = rec.content /\ tail.count >= rec.confirmations
=============================================================================
