-------------------------- MODULE ReconciliationLedger --------------------------
(***************************************************************************)
(* The reconciliation ledger of one season: a Durable Object whose every   *)
(* operation is one storage transaction (sync/coordinated/ledger/store.ts).*)
(*                                                                         *)
(* A caller holds the season's lease, named by its fence, and presents it  *)
(* with every write; the version it read goes with every record it writes. *)
(* Each operation is an action that is enabled exactly when the ledger     *)
(* accepts it; a refusal changes nothing here.  The callers, which decide  *)
(* what to ask for, are in CoordinatedObservation.                         *)
(***************************************************************************)
EXTENDS ClassificationPolicy

CONSTANTS
  Rounds,            \* the rounds of the season, a finite set of numbers
  BacklogCapacity,   \* corrections the backlog holds across every season
  MaxFence,          \* bound: the leases handed out
  MaxElsewhere       \* bound: the entries other seasons hold at once

ASSUME LedgerAssumption ==
  /\ Rounds \subseteq Nat /\ IsFiniteSet(Rounds)
  /\ BacklogCapacity \in Nat
  /\ MaxFence \in Nat /\ MaxElsewhere \in Nat

VARIABLES
  lease,       \* the season's lease and its fence
  season,      \* the season record
  records,     \* the classification records, by round
  backlog,     \* the correction each round has in the operator backlog
  elsewhere    \* backlog entries of the other seasons

ledger == <<lease, season, records, backlog, elsewhere>>

(* publicationDueAt is only whether a publication is due at some instant;
   a disposition "review" is blocked until no correction waits, "blocked" is
   any other block. *)
SeasonRecord ==
  [version : Nat, calendar : [Rounds -> Anchors], due : BOOLEAN,
   disposition : {"none", "publishing", "reserved", "review", "blocked"},
   hold : BOOLEAN, durable : BOOLEAN,
   action : [op : Operations, action : {"hold", "release-hold", "clear-block"}]
              \union {None}]

(* A lease is free again when it was released or has expired; before the
   first one, the fence is 0. *)
LedgerTypeOK ==
  /\ lease \in [fence : 0 .. MaxFence, held : BOOLEAN]
  /\ season \in SeasonRecord
  /\ records \in [Rounds -> Record]
  /\ backlog \in [Rounds -> RevisionOrNone]
  /\ elsewhere \in 0 .. MaxElsewhere

(* A calendar has been observed; no round has been asked for. *)
LedgerInit ==
  /\ lease = [fence |-> 0, held |-> FALSE]
  /\ \E calendar \in [Rounds -> Anchors] :
       /\ season = [version |-> 1, calendar |-> calendar, due |-> FALSE,
                    disposition |-> "none", hold |-> FALSE, durable |-> FALSE,
                    action |-> None]
       /\ records = [r \in Rounds |-> newClassificationRecord(calendar[r])]
  /\ backlog = [r \in Rounds |-> None]
  /\ elsewhere = 0

waiting == {r \in Rounds : backlog[r] # None}
backlogCount == Cardinality(waiting) + elsewhere

(* What every operation answers with: the season as the transaction left it. *)
Snapshot(s, rs, count) == [season |-> s, records |-> rs, count |-> count]
snapshot == Snapshot(season, records, backlogCount)
snapshotNext ==
  Snapshot(season', records',
           Cardinality({r \in Rounds : backlog'[r] # None}) + elsewhere)

-----------------------------------------------------------------------------
(* The lease *)

\* Faulty holdsLease: any live lease will do.
holdsAnyLease(fence) == lease.held
holdsLease(fence) == lease.held /\ fence = lease.fence

AcquireLease ==
  /\ ~lease.held
  /\ lease.fence < MaxFence
  /\ lease' = [fence |-> lease.fence + 1, held |-> TRUE]
  /\ UNCHANGED <<season, records, backlog, elsewhere>>

ReleaseLease(fence) ==
  /\ holdsLease(fence)
  /\ lease' = [lease EXCEPT !.held = FALSE]
  /\ UNCHANGED <<season, records, backlog, elsewhere>>

(* The ledger's own clock passes the lease's expiry. *)
ExpireLease ==
  /\ lease.held
  /\ lease' = [lease EXCEPT !.held = FALSE]
  /\ UNCHANGED <<season, records, backlog, elsewhere>>

-----------------------------------------------------------------------------
(* Commit: every conditional write of a request, or none of them.  A request
   is the season record, which need not be written when nothing of it changed
   (its instants may have), and the record of every round written. *)

keepsHistory(before, next) ==
  /\ IsPrefix(before.superseded, next.superseded)
  /\ Cardinality(supersededOf(next)) = Len(next.superseded)
  /\ Len(next.superseded) <= HistoryCapacity
  /\ {next.content, next.candidate, next.staged, next.competing}
       \intersect supersededOf(next) = {}

isStopped(record) == record.hold \/ record.durable

keepsOperatorState(before, next) ==
  /\ next.hold = before.hold /\ next.action = before.action
  /\ before.durable => next.durable
  /\ next.disposition = "reserved" => ~isStopped(next)

keepsReview(before, next) ==
  /\ next.published = before.published
  /\ before.staged # None =>
       next.staged = before.staged /\ next.candidate = before.candidate
  /\ next.competing = before.competing
  /\ next.disposition = before.disposition
  /\ next.verifications = before.verifications
  /\ next.generation = before.generation /\ next.reset = before.reset

isCurrent(read, stored) == read.version = stored.version

insertions(written) ==
  {r \in DOMAIN written : records[r].staged = None /\ written[r].staged # None}

isCommittable(seasonWrite, written) ==
  /\ isCurrent(seasonWrite, season)
  /\ keepsOperatorState(season, seasonWrite)
  /\ \A r \in DOMAIN written :
       /\ isCurrent(written[r], records[r])
       /\ keepsReview(records[r], written[r])
       /\ keepsHistory(records[r], written[r])
  /\ \A r \in insertions(written) : backlog[r] = None

\* Faulty hasBacklogRoom: the caller has counted already.
hasCountedRoom(written) == Cardinality(insertions(written)) <= BacklogCapacity
hasBacklogRoom(written) ==
  backlogCount + Cardinality(insertions(written)) <= BacklogCapacity

bumped(record) == [record EXCEPT !.version = @ + 1]

Commit(fence, seasonWrite, written) ==
  /\ holdsLease(fence)
  /\ isCommittable(seasonWrite, written)
  /\ hasBacklogRoom(written)
  /\ \/ season' = bumped(seasonWrite)
     \/ seasonWrite = season /\ UNCHANGED season
  /\ records' = [r \in Rounds |->
       IF r \in DOMAIN written THEN bumped(written[r]) ELSE records[r]]
  /\ backlog' = [r \in Rounds |->
       IF r \in insertions(written) THEN written[r].staged ELSE backlog[r]]
  /\ UNCHANGED <<lease, elsewhere>>

(* reconcilePublishedRevisions: the authority's revisions, never refused. *)
ReconcilePublished(fence, served) ==
  /\ holdsLease(fence)
  /\ records' = [r \in Rounds |->
       IF records[r].version = 0 \/ served[r] = records[r].published
       THEN records[r]
       ELSE bumped([records[r] EXCEPT !.published = served[r]])]
  /\ UNCHANGED <<lease, season, backlog, elsewhere>>

-----------------------------------------------------------------------------
(* Operator operations.  A request carries its operation identifier and what
   the operator inspected; resent after it applied, it changes nothing. *)

isReplayedAction(request) ==
  season.action # None /\ season.action.op = request.op

applyOperatorAction(request) ==
  [season EXCEPT
     !.hold = IF request.action = "hold" THEN TRUE
              ELSE IF request.action = "release-hold" THEN FALSE ELSE @,
     !.durable = @ /\ request.action # "clear-block",
     !.due = @ \/ request.action # "hold",
     !.action = [op |-> request.op, action |-> request.action]]

Operate(fence, request) ==
  /\ holdsLease(fence)
  /\ ~isReplayedAction(request)
  /\ isCurrent(request, season)
  /\ CASE request.action = "hold" -> ~season.hold
       [] request.action = "release-hold" -> season.hold
       [] request.action = "clear-block" -> season.durable
  /\ season' = bumped(applyOperatorAction(request))
  /\ UNCHANGED <<lease, records, backlog, elsewhere>>

(* T12 lifts the season's review block once no other round waits. *)
\* Faulty seasonAfterDisposition: the round disposed of still counts.
seasonStillBlocked(round) ==
  IF /\ season.disposition = "review"
     /\ \A r \in Rounds : ~isInOperatorBacklog(records[r])
  THEN bumped([season EXCEPT !.disposition = "none", !.due = TRUE])
  ELSE season
seasonAfterDisposition(round) ==
  IF /\ season.disposition = "review"
     /\ \A r \in Rounds \ {round} : ~isInOperatorBacklog(records[r])
  THEN bumped([season EXCEPT !.disposition = "none", !.due = TRUE])
  ELSE season

Dispose(fence, request) ==
  LET round == request.round
      record == records[round]
      next == applyDisposition(record, request.op, request.action)
  IN
  /\ holdsLease(fence)
  /\ record.disposition # request.op
  /\ isCurrent(request, record)
  /\ isDisposable(record, request.action, request.content, request.staged,
                  request.competing)
  /\ backlog[round] = request.staged
  /\ keepsHistory(record, next)
  /\ records' = [records EXCEPT ![round] = bumped(next)]
  /\ backlog' = [backlog EXCEPT ![round] = None]
  /\ season' = seasonAfterDisposition(round)
  /\ UNCHANGED <<lease, elsewhere>>

(* One namespace of identifiers across the season: the verifications of the
   current generations, and every round's last rotation. *)
\* Faulty recordedVerification: only rotated verifications are compared.
clearedVerification(rs, op) ==
  \E r \in Rounds : rs[r].reset # None /\
    \E i \in DOMAIN rs[r].reset.cleared : rs[r].reset.cleared[i].op = op
recordedVerification(rs, op) ==
  \E r \in Rounds : \E i \in DOMAIN rs[r].verifications :
    rs[r].verifications[i].op = op
rotationRound(rs, op) ==
  \E r \in Rounds : rs[r].reset # None /\ rs[r].reset.op = op

Verify(fence, request, version, outcome) ==
  LET record == records[request.round] IN
  /\ holdsLease(fence)
  /\ request.generation = record.generation
  /\ ~recordedVerification(records, request.op)
  /\ ~rotationRound(records, request.op)
  /\ version = record.version
  /\ isVerifiable(record, request.staged)
  /\ backlog[request.round] = request.staged
  /\ LET next == applyOperatorVerification(record, request.op, outcome) IN
       /\ keepsHistory(record, next)
       /\ records' = [records EXCEPT ![request.round] = bumped(next)]
  /\ UNCHANGED <<lease, season, backlog, elsewhere>>

(* The history is hashed just before the transaction, which treats any other
   history as a mismatch: the digest of a history is the history. *)
RotateVerifications(fence, request) ==
  LET record == records[request.round] IN
  /\ holdsLease(fence)
  /\ ~recordedVerification(records, request.op)
  /\ ~rotationRound(records, request.op)
  /\ request.generation = record.generation
  /\ isCurrent(request, record)
  /\ record.verifications = request.history
  /\ season.hold
  /\ record.competing = None
  /\ Len(record.verifications) = MaximumVerifications
  /\ records' = [records EXCEPT
       ![request.round] = bumped(rotatedRecord(record, request.op))]
  /\ UNCHANGED <<lease, season, backlog, elsewhere>>

(* Another season stages a correction, or disposes of one. *)
OtherSeason ==
  /\ \/ /\ backlogCount < BacklogCapacity /\ elsewhere < MaxElsewhere
        /\ elsewhere' = elsewhere + 1
     \/ elsewhere > 0 /\ elsewhere' = elsewhere - 1
  /\ UNCHANGED <<lease, season, records, backlog>>
=============================================================================
