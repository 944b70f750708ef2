------------------------- MODULE CoordinatedObservation -------------------------
(***************************************************************************)
(* The callers of a season's reconciliation ledger: scheduled and manual   *)
(* runs of the coordinated runtime, and operators.                         *)
(*                                                                         *)
(* Each is a session: it takes the season's lease and makes its calls one  *)
(* by one.  Between two of them the lease may expire and another session   *)
(* take it; a session may crash, leaving the lease to expire; a call whose *)
(* answer is lost has executed or not, and the session then gives up.      *)
(* What is published and served is abstract: see SequencedPublication.     *)
(***************************************************************************)
EXTENDS LedgerRecords

CONSTANTS
  Sessions,          \* runs and operator calls in progress at once
  Triggers,          \* the kinds of run that are started
  OperatorActions,   \* the kinds of request operators send
  Completions,       \* how the rest of a round's observation may end
  Served,            \* what the authority may serve: a revision per round
  MaxTime            \* bound: the last instant

ASSUME SessionAssumption ==
  /\ Triggers \subseteq {"scheduled", "manual"}
  /\ Triggers \intersect Operations = {}
  /\ Completions \subseteq {"complete", "cancelled", "incomplete"}
  /\ Served \subseteq [Rounds -> RevisionOrNone]
  /\ MaxTime \in Nat

VARIABLES
  now,       \* the time, in slots
  request,   \* the request each operation identifier was given to
  session,   \* each session's progress
  \* History, read by no transition: it only lets properties name the past.
  history

vars == <<ledger, now, request, session, history>>

NoPlan == [r \in Rounds |-> NoCheck]
Idle ==
  [pc |-> "idle", work |-> None, fence |-> 0, snap |-> None,
   publishes |-> FALSE, plan |-> NoPlan, previous |-> "none", decision |-> "none"]

(* Whatever an operator inspected, its request is one the ledger decodes. *)
isWellFormed(asked) ==
  CASE asked.action \in {"hold", "release-hold", "clear-block"} ->
         decodeOperatorActionRequest(asked)
    [] asked.action \in Dispositions -> decodeDispositionRequest(asked)
    [] asked.action = "verify" ->
         \A outcome \in Revisions \union {"failed", "deferred"} :
           decodeVerificationRequest(asked, records[asked.round].version, outcome)
    [] asked.action = "rotate" -> decodeVerificationRotationRequest(asked)

Decisions ==
  {"none", "stopped", "publishable", "durable", "review", "blocked", "retry",
   "completed", "resolve"}
Snapshots == [season : SeasonRecord, records : [Rounds -> Record], count : Nat]
SessionRecord ==
  [pc : {"idle", "leased", "reconciled", "observing", "deciding", "publishing"},
   work : Triggers \union Operations \union {None}, fence : 0 .. MaxFence,
   snap : Snapshots \union {None}, publishes : BOOLEAN, plan : [Rounds -> Checks],
   previous : {"none", "review", "blocked"}, decision : Decisions]

TypeOK ==
  /\ LedgerTypeOK
  /\ now \in 0 .. MaxTime
  /\ \A op \in Operations :
       request[op] # None => isWellFormed(request[op])
  /\ session \in [Sessions -> SessionRecord]

Unseen == [revision |-> None, count |-> 0]
Init ==
  /\ LedgerInit
  /\ now = 0
  /\ request = [op \in Operations |-> None]
  /\ session = [s \in Sessions |-> Idle]
  /\ history = [tail |-> [r \in Rounds |-> Unseen],
                displaced |-> [r \in Rounds |-> {}],
                applied |-> [op \in Operations |-> 0],
                returned |-> [op \in Operations |-> None],
                owed |-> {}]

Tick ==
  /\ now < MaxTime
  /\ now' = now + 1
  /\ UNCHANGED <<ledger, request, session, history>>

isRun(s) == session[s].work \in Triggers
isScheduled(s) == session[s].work = "scheduled"

(* Where a session goes next; what it no longer reads is cleared. *)
Await(s, next) == session' = [session EXCEPT ![s] = next]

-----------------------------------------------------------------------------
(* Every session *)

Acquire(s, work) ==
  /\ session[s].pc = "idle"
  /\ work \in Operations => request[work] # None
  /\ AcquireLease
  /\ Await(s, [Idle EXCEPT !.pc = "leased", !.work = work, !.fence = lease'.fence,
                 !.snap = snapshot])
  /\ UNCHANGED <<now, request, history>>

(* A call failed, was refused by the caller's own checks or lost its answer,
   or the session crashed. *)
GiveUp(s) ==
  /\ session[s].pc # "idle"
  /\ Await(s, Idle)
  /\ UNCHANGED <<ledger, now, request, history>>

(* The last call of a session that ended, whatever its outcome; it is lost if
   the session crashed, and refused once the lease is another's. *)
Release ==
  /\ \A s \in Sessions : session[s].fence # lease.fence
  /\ ReleaseLease(lease.fence)
  /\ UNCHANGED <<now, request, session, history>>

-----------------------------------------------------------------------------
(* A run, up to its observation commit *)

Reconcile(s, served) ==
  /\ session[s].pc = "leased" /\ isRun(s)
  /\ decodeReconciliationRequest(session[s].fence, served)
  /\ ReconcilePublished(session[s].fence, served)
  /\ Await(s, [session[s] EXCEPT !.pc = "reconciled", !.snap = snapshotNext])
  /\ UNCHANGED <<now, request, history>>

(* A season still in genesis has no release to reconcile with. *)
SkipReconciliation(s) ==
  /\ session[s].pc = "leased" /\ isRun(s)
  /\ \A r \in Rounds : records[r].published = None
  /\ Await(s, [session[s] EXCEPT !.pc = "reconciled"])
  /\ UNCHANGED <<ledger, now, request, history>>

NoWrites == [r \in {} |-> None]

\* Faulty recovered: the unfinished publication is dropped.
recoveredForgetting(record, published) == [record EXCEPT !.disposition = "none"]
recovered(record, published) ==
  [record EXCEPT !.disposition = "none", !.due = @ \/ ~published]

(* A publication an earlier run left unfinished is resolved before planning:
   without a reservation it was never sent; with one, the authority tells. *)
Recover(s, published) ==
  LET record == session[s].snap.season IN
  /\ session[s].pc = "reconciled"
  /\ record.disposition \in {"publishing", "reserved"}
  /\ published => record.disposition = "reserved"
  /\ Commit(session[s].fence, recovered(record, published), NoWrites)
  /\ Await(s, [session[s] EXCEPT !.snap = snapshotNext])
  /\ history' = [history EXCEPT
       !.owed = IF published THEN @ \ {"run"} ELSE @]
  /\ UNCHANGED <<now, request>>

(* A round the ledger holds no record for is scheduled from the calendar. *)
recordOf(snap, r) ==
  IF snap.records[r].version = 0
  THEN newClassificationRecord(snap.season.calendar[r]) ELSE snap.records[r]

planRun(snap, trigger) ==
  [r \in Rounds |->
     plannedCheck(recordOf(snap, r), snap.season.calendar[r], now, trigger)]

(* A publication run is due for a cadence check, a due or drifted release or a
   weekly refresh; an observation run only when no cadence check is due. *)
Plan(s, publishes) ==
  LET snap == session[s].snap
      plan == planRun(snap, session[s].work) IN
  /\ session[s].pc = "reconciled"
  /\ snap.season.disposition \notin {"publishing", "reserved"}
  /\ isScheduled(s) \/ ~isStopped(snap.season)
  /\ ~publishes =>
       isScheduled(s) /\ \A r \in Rounds : plan[r].kind # "cadence"
  /\ Await(s, [session[s] EXCEPT !.pc = "observing", !.publishes = publishes,
                 !.plan = IF publishes THEN plan ELSE NoPlan,
                 !.previous = snap.season.disposition])
  /\ UNCHANGED <<ledger, now, request, history>>

planned(s) == {r \in Rounds : session[s].plan[r].kind # "none"}

(* The record of a planned round after its check.  Rounds go in ascending
   order, so the earliest take what room the backlog has. *)
checked(s, outcomes, r, room) ==
  LET check == session[s].plan[r] IN
  applyClassificationCheck(rescheduled(recordOf(session[s].snap, r), check.anchor),
                           check, outcomes[r], room)
stagesIfRoom(s, outcomes, r) ==
  checked(s, outcomes, r, TRUE).staged # checked(s, outcomes, r, FALSE).staged
hasRoom(s, outcomes, r) ==
  session[s].snap.count
    + Cardinality({q \in planned(s) : q < r /\ stagesIfRoom(s, outcomes, q)})
  < BacklogCapacity
recordRunObservations(s, outcomes) ==
  [r \in planned(s) |-> checked(s, outcomes, r, hasRoom(s, outcomes, r))]

(* An attempted check changes a record's accounting whatever it observed. *)
isWritten(s, outcomes, after, r) ==
  \/ outcomes[r] # "not-attempted"
  \/ after[r].version # 0 /\ after[r] # session[s].snap.records[r]

isCapacityExceeded(s, outcomes) ==
  \E r \in planned(s) :
    stagesIfRoom(s, outcomes, r) /\ ~hasRoom(s, outcomes, r)

roundWithholdReason(record, outcome) ==
  IF outcome \notin Revisions THEN "unavailable"
  ELSE IF record.staged # None THEN "staged"
  ELSE IF record.competing # None THEN "review-locked"
  ELSE IF record.candidate # None THEN "pending"
  ELSE IF outcome \in supersededOf(record) THEN "superseded"
  ELSE IF outcome # record.content THEN "unaccepted"
  ELSE "none"

(* What the run does next: decided from the records it committed. *)
decisionOf(s, outcomes, after, complete) ==
  LET reason(r) == roundWithholdReason(after[r], outcomes[r])
      reasons == {reason(r) : r \in planned(s)} IN
  IF isStopped(session[s].snap.season) THEN "stopped"
  ELSE IF complete = "cancelled" THEN "retry"
  ELSE IF reasons \subseteq {"none"} /\ complete = "complete" THEN "publishable"
  ELSE IF \/ isCapacityExceeded(s, outcomes)
          \/ \E r \in planned(s) : isSettled(after[r]) /\ reason(r) = "superseded"
  THEN "durable"
  ELSE IF reasons \intersect {"staged", "review-locked"} # {} THEN "review"
  ELSE "retry"

(* The season record the observation commit writes: a scheduled publication
   run serves the due publication, and marks it unfinished. *)
observedSeason(s, calendar, changed) ==
  LET record == session[s].snap.season IN
  [record EXCEPT !.calendar = calendar,
     !.due = IF isScheduled(s) /\ session[s].publishes THEN FALSE
             ELSE @ \/ (changed /\ ~session[s].publishes),
     !.disposition = IF session[s].publishes /\ ~isStopped(record)
                     THEN "publishing" ELSE @]

extended(tail, s, outcomes, r) ==
  LET rec == session[s].snap.records[r] IN
  IF \/ outcomes[r] \notin Revisions
     \/ isInOperatorBacklog(rec)
     \/ ~isReconciling(rec, session[s].plan[r])
  THEN tail ELSE counted(tail, outcomes[r])

observedHistory(s, outcomes, after) ==
  [history EXCEPT
     !.tail = [r \in Rounds |->
        IF r \in planned(s) THEN extended(@[r], s, outcomes, r) ELSE @[r]],
     !.displaced = [r \in Rounds |->
        IF r \in planned(s) /\ records[r].content \notin {None, after[r].content}
        THEN @[r] \union {records[r].content} ELSE @[r]],
     !.owed = IF isScheduled(s) /\ session[s].publishes
              THEN (@ \ {"operator"}) \union {"run"} ELSE @]

writtenBy(s, outcomes) ==
  LET after == recordRunObservations(s, outcomes) IN
  [r \in {q \in planned(s) : isWritten(s, outcomes, after, q)} |-> after[r]]

Observe(s, outcomes, calendar, changed, complete) ==
  LET me == session[s]
      after == recordRunObservations(s, outcomes)
      seasonWrite == observedSeason(s, calendar, changed)
      written == writtenBy(s, outcomes)
  IN
  /\ me.pc = "observing"
  /\ decodeCommitRequest(me.fence, seasonWrite, written)
  /\ Commit(me.fence, seasonWrite, written)
  /\ Await(s, IF me.publishes
              THEN [Idle EXCEPT !.pc = "deciding", !.work = me.work,
                      !.fence = me.fence, !.snap = snapshotNext,
                      !.previous = me.previous,
                      !.decision = decisionOf(s, outcomes, after, complete)]
              ELSE Idle)
  /\ history' = observedHistory(s, outcomes, after)
  /\ UNCHANGED <<now, request>>

-----------------------------------------------------------------------------
(* A run, from its decision to its outcome commit *)

unresolvedBlock(previous) ==
  IF previous \in {"review", "blocked"} THEN previous ELSE "none"

settleSeasonRecord(s, decision) ==
  LET record == session[s].snap.season
      kept == unresolvedBlock(session[s].previous)
      dueIf(due) == IF isScheduled(s) THEN due ELSE record.due
  IN
  CASE decision = "completed" -> [record EXCEPT !.disposition = "none"]
    [] decision = "retry" ->
         [record EXCEPT !.disposition = kept, !.due = dueIf(TRUE)]
    [] decision \in {"review", "blocked"} ->
         [record EXCEPT !.disposition = decision, !.due = dueIf(FALSE)]
    [] decision = "durable" ->
         [record EXCEPT !.disposition = kept, !.durable = TRUE, !.due = dueIf(FALSE)]
    [] decision = "stopped" ->
         [record EXCEPT !.disposition = kept, !.due = dueIf(FALSE)]
    [] decision = "resolve" -> record

(* The ordering input and digest are reserved, and only then is anything sent. *)
Reserve(s) ==
  LET record == session[s].snap.season IN
  /\ session[s].pc = "deciding" /\ session[s].decision = "publishable"
  /\ Commit(session[s].fence, [record EXCEPT !.disposition = "reserved"], NoWrites)
  /\ Await(s, [session[s] EXCEPT !.pc = "publishing", !.snap = snapshotNext])
  /\ UNCHANGED <<now, request, history>>

(* Without a reservation: withheld, or a release already served.  With one:
   what the guarded publisher answered. *)
mayDecide(s, decision) ==
  IF session[s].decision # "publishable" THEN decision = session[s].decision
  ELSE \/ decision \in {"completed", "retry", "blocked"}
       \/ decision = "resolve" /\ session[s].pc = "publishing"

Settle(s, decision) ==
  /\ session[s].pc \in {"deciding", "publishing"}
  /\ mayDecide(s, decision)
  /\ LET settled == settleSeasonRecord(s, decision) IN
     IF settled = session[s].snap.season THEN UNCHANGED ledger
     ELSE Commit(session[s].fence, settled, NoWrites)
  /\ Await(s, Idle)
  /\ history' = [history EXCEPT
       !.owed = IF decision = "completed" THEN @ \ {"run"} ELSE @]
  /\ UNCHANGED <<now, request>>

-----------------------------------------------------------------------------
(* Operators.  A request names what its author inspected; it is sent any
   number of times, each time under a lease of its own. *)

Inspect(op, action, r) ==
  LET record == records[r] IN
  /\ request[op] = None
  /\ action \in OperatorActions
  /\ \/ /\ action \in {"hold", "release-hold", "clear-block"}
        /\ action = "hold" => ~season.hold
        /\ action = "release-hold" => season.hold
        /\ action = "clear-block" => season.durable
        /\ request' = [request EXCEPT ![op] =
             [op |-> op, action |-> action, version |-> season.version]]
     \/ /\ action \in Dispositions
        /\ isDisposable(record, action, record.content, record.staged,
                        record.competing)
        /\ request' = [request EXCEPT ![op] =
             [op |-> op, action |-> action, round |-> r,
              version |-> record.version, content |-> record.content,
              staged |-> record.staged, competing |-> record.competing]]
     \/ /\ action = "verify"
        /\ record.staged # None
        /\ request' = [request EXCEPT ![op] =
             [op |-> op, action |-> action, round |-> r,
              staged |-> record.staged, generation |-> record.generation]]
     \/ /\ action = "rotate"
        /\ Len(record.verifications) = MaximumVerifications
        /\ request' = [request EXCEPT ![op] =
             [op |-> op, action |-> action, round |-> r,
              version |-> record.version, generation |-> record.generation,
              history |-> record.verifications]]
  /\ UNCHANGED <<ledger, now, session, history>>

isOperator(s) ==
  session[s].pc = "leased" /\ session[s].work \in Operations
requestOf(s) == request[session[s].work]

countApplied(op) ==
  [history.applied EXCEPT ![op] = IF @ < 2 THEN @ + 1 ELSE @]

SubmitAction(s) ==
  /\ isOperator(s)
  /\ decodeOperatorActionRequest(requestOf(s))
  /\ Operate(session[s].fence, requestOf(s))
  /\ Await(s, Idle)
  /\ history' = [history EXCEPT
       !.applied = countApplied(session[s].work),
       !.owed = IF requestOf(s).action # "hold" THEN @ \union {"operator"} ELSE @]
  /\ UNCHANGED <<now, request>>

SubmitDisposition(s) ==
  LET asked == requestOf(s) IN
  /\ isOperator(s)
  /\ decodeDispositionRequest(asked)
  /\ Dispose(session[s].fence, asked)
  /\ Await(s, Idle)
  /\ history' = [history EXCEPT
       !.applied = countApplied(session[s].work),
       !.displaced[asked.round] = @ \union
          {IF asked.action = "retain-published" THEN asked.staged
           ELSE records[asked.round].content},
       !.owed = IF season'.due /\ ~season.due THEN @ \union {"operator"} ELSE @]
  /\ UNCHANGED <<now, request>>

(* One provider request, made only when the snapshot the lease was granted
   with allows it; the ledger checks everything again. *)
isVerificationAllowed(snap, asked) ==
  LET record == snap.records[asked.round] IN
  /\ asked.generation = record.generation
  /\ ~rotationRound(snap.records, asked.op)
  /\ ~recordedVerification(snap.records, asked.op)
  /\ isVerifiable(record, asked.staged)
  /\ isEligible(record.anchor, now)

SubmitVerification(s, outcome) ==
  LET asked == requestOf(s) IN
  /\ isOperator(s)
  /\ asked.action = "verify"
  /\ isVerificationAllowed(session[s].snap, asked)
  /\ Verify(session[s].fence, asked, session[s].snap.records[asked.round].version,
            outcome)
  /\ Await(s, Idle)
  /\ history' = [history EXCEPT
       !.applied = IF outcome = "deferred" THEN @ ELSE countApplied(asked.op),
       !.returned[asked.op] =
          IF @ = None /\ outcome \in Revisions THEN outcome ELSE @]
  /\ UNCHANGED <<now, request>>

SubmitRotation(s) ==
  /\ isOperator(s)
  /\ requestOf(s).action = "rotate"
  /\ RotateVerifications(session[s].fence, requestOf(s))
  /\ Await(s, Idle)
  /\ history' = [history EXCEPT !.applied = countApplied(session[s].work)]
  /\ UNCHANGED <<now, request>>

-----------------------------------------------------------------------------
Expire == ExpireLease /\ UNCHANGED <<now, request, session, history>>
Elsewhere == OtherSeason /\ UNCHANGED <<now, request, session, history>>

ObserveSome(s) ==
  \E outcomes \in [planned(s) -> Outcomes], calendar \in [Rounds -> Anchors],
     changed \in BOOLEAN, complete \in Completions :
    Observe(s, outcomes, calendar, changed, complete)

Next ==
  \/ Tick
  \/ Expire
  \/ Elsewhere
  \/ Release
  \/ \E op \in Operations, action \in OperatorActions, r \in Rounds :
       Inspect(op, action, r)
  \/ \E s \in Sessions :
       \/ \E work \in Triggers \union Operations : Acquire(s, work)
       \/ GiveUp(s)
       \/ \E served \in Served : Reconcile(s, served)
       \/ SkipReconciliation(s)
       \/ \E published \in BOOLEAN : Recover(s, published)
       \/ \E publishes \in BOOLEAN : Plan(s, publishes)
       \/ ObserveSome(s)
       \/ Reserve(s)
       \/ \E decision \in Decisions : Settle(s, decision)
       \/ SubmitAction(s)
       \/ SubmitDisposition(s)
       \/ \E outcome \in Revisions \union {"failed", "deferred"} :
            SubmitVerification(s, outcome)
       \/ SubmitRotation(s)

Spec == Init /\ [][Next]_vars

-----------------------------------------------------------------------------
(* Properties *)

(* A correction is held for an operator exactly while the backlog has its
   entry, and the entries of every season together never exceed the capacity. *)
BacklogHoldsStaged ==
  /\ \A r \in Rounds : backlog[r] = records[r].staged
  /\ backlogCount <= BacklogCapacity

(* D2.2: once a revision was displaced, or rejected by an operator, the round
   never holds it again, accepted, pending, staged or competing. *)
SupersededNeverReturns ==
  \A r \in Rounds :
    history.displaced[r] \intersect
      {records[r].content, records[r].candidate, records[r].staged,
       records[r].competing} = {}

(* T11b: a competing correction was returned to two different operations:
   one response, resent or not, is never two sightings. *)
CompetingIsCorroborated ==
  \A r \in Rounds :
    records[r].competing # None =>
      \E first, second \in Operations :
        /\ first # second
        /\ \A op \in {first, second} :
             /\ request[op] # None /\ request[op].action = "verify"
             /\ request[op].round = r
             /\ history.returned[op] = records[r].competing

(* However often a request is resent, and whatever happened in between, its
   operation takes effect at most once. *)
OperationsApplyOnce == \A op \in Operations : history.applied[op] <= 1

(* A publication some run left undone, or an operator made due, is due, being
   resolved, blocked or stopped: it is never simply forgotten.  (A correction
   accepted while nothing blocks the season makes none due: the next plan sees
   the release drifted from the records.) *)
OwedPublicationIsRemembered ==
  history.owed # {} =>
    \/ season.due \/ season.disposition # "none"
    \/ season.hold \/ season.durable

(* The season is blocked for review only while a correction waits for it: no
   disposition leaves it blocked with nothing left to dispose of. *)
ReviewBlockHasCause ==
  season.disposition = "review" =>
    \E r \in Rounds : isInOperatorBacklog(records[r])

(* The lease makes a session's view of the ledger current for as long as it
   holds it, with every answer applied in the order of its calls. *)
HolderSeesLedger ==
  \A s \in Sessions :
    session[s].snap # None /\ holdsLease(session[s].fence) =>
      session[s].snap.season = season /\ session[s].snap.records = records

(* The policy and the store agree: whatever a run that still holds its lease
   observes, no rule of the store refuses what it then writes (losing a race
   for the last backlog entry is not one). *)
LiveRunIsNotRefused ==
  \A s \in Sessions :
    session[s].pc = "observing" /\ holdsLease(session[s].fence) =>
      \A outcomes \in [planned(s) -> Outcomes] :
        LET after == observedSeason(s, season.calendar, FALSE)
            written == writtenBy(s, outcomes)
        IN  /\ decodeCommitRequest(session[s].fence, after, written)
            /\ isCommittable(after, written)

(* Every request an operator makes is one the ledger decodes, every record it
   stores one it decodes again, and every answer it gives one its client
   accepts: however verifications, rotations and dispositions were resent and
   interleaved, no history holds an identifier twice, no generation
   contradicts its receipt, and the backlog shown never exceeds its count.
   One record that did would fail every later operation on its season
   (records.ts, wire-decoders.ts). *)
StoredRecordsDecode ==
  /\ TypeOK
  /\ decodeSnapshot(snapshot, [r \in waiting |-> backlog[r]])

(* A round that took its last slot has an end: with a result it is settled,
   and only without one is it abandoned, past the ceiling of the start it is
   scheduled for: one the calendar moved is reconciled from its new start. *)
CeilingIsFinal ==
  \A r \in Rounds :
    /\ records[r].checkIndex = FinalSlot => records[r].terminal # "open"
    /\ records[r].terminal = "never-reconciled" <=>
         records[r].terminal # "open" /\ records[r].content = None
    /\ records[r].terminal = "never-reconciled" => records[r].anchor + FinalSlot <= now

(* D2.1: an accepted revision is replaced, and a correction of a settled one
   staged, only after two checks in a row returned it (the ceiling stages a
   single sighting), or by an operator. *)
ReplacementIsCorroborated ==
  [][\A r \in Rounds :
       LET old == records[r] new == records'[r] IN
       /\ old.content \notin {None, new.content} /\ new.disposition = old.disposition =>
            history'.tail[r].revision = new.content /\ history'.tail[r].count >= 2
       /\ old.staged # new.staged /\ new.staged # None =>
            /\ history'.tail[r].revision = new.staged
            /\ \/ history'.tail[r].count >= 2
               \/ old.checkIndex # FinalSlot /\ new.checkIndex = FinalSlot]_vars

(* A round settles before its ceiling only when that many reconciliation
   checks in a row, the last at or after the settling slot, returned it. *)
SettlingIsConfirmed ==
  [][\A r \in Rounds :
       LET old == records[r] new == records'[r] IN
       new.terminal = "settled" /\ old.terminal # "settled" =>
         /\ history'.tail[r].revision = new.content
         /\ history'.tail[r].count >= SettlingConfirmations
         /\ new.checkIndex >= SettlingSlot]_vars

-----------------------------------------------------------------------------
(* The inductive invariant                                                   *)

(* What an operator may have asked for, each request under its own name. *)
SeasonActions == {"hold", "release-hold", "clear-block"}
Requests ==
  [op : Operations, action : SeasonActions, version : Nat]
    \union
  [op : Operations, action : Dispositions, round : Rounds, version : Nat \ {0},
   content : Revisions, staged : Revisions, competing : RevisionOrNone]
    \union
  [op : Operations, action : {"verify"}, round : Rounds, staged : Revisions,
   generation : Nat]
    \union
  [op : Operations, action : {"rotate"}, round : Rounds, version : Nat \ {0},
   generation : Nat, history : Histories]

RequestsAreNamed ==
  /\ DOMAIN request = Operations
  /\ \A op \in Operations :
       request[op] # None => request[op] \in Requests /\ request[op].op = op

(* A verification was asked of a record that was written. *)
VerifiedAreWritten ==
  \A op \in Operations :
    request[op] # None /\ request[op].action = "verify" =>
      records[request[op].round].version >= 1

HistoryTypeOK ==
  history \in
    [tail : [Rounds -> [revision : RevisionOrNone, count : Nat]],
     displaced : [Rounds -> SUBSET Revisions],
     applied : [Operations -> 0 .. 2], returned : [Operations -> RevisionOrNone],
     owed : SUBSET {"run", "operator"}]

(* A round without a record has the one it starts with. *)
RecordsAreSound ==
  \A r \in Rounds :
    /\ RecordSound(records[r], now)
    /\ records[r].version = 0 =>
         records[r] = newClassificationRecord(records[r].anchor)

SeasonIsWritten == season.version >= 1

(* A fence names one session, and the lease at most one of those. *)
FencesAreSingle ==
  \A s, t \in Sessions :
    session[s].pc # "idle" /\ session[s].fence = session[t].fence => s = t

FenceIsHandedOut(s) ==
  /\ session[s].pc = "idle" => session[s] = Idle
  /\ session[s].pc # "idle" =>
       /\ session[s].fence \in 1 .. lease.fence
       /\ session[s].snap \in Snapshots
       /\ session[s].work \in Operations => request[session[s].work] # None
  /\ session[s].pc \notin {"idle", "leased"} => isRun(s)

(* A run that observes planned from its snapshot, at an instant that passed. *)
PlanIsSound(s) ==
  session[s].pc = "observing" =>
    /\ session[s].snap.season.disposition \notin {"publishing", "reserved"}
    /\ session[s].previous = session[s].snap.season.disposition
    /\ \A r \in Rounds :
         \/ session[s].plan[r] = NoCheck
         \/ \E at \in 0 .. now :
              session[s].plan[r] =
                plannedCheck(recordOf(session[s].snap, r),
                             session[s].snap.season.calendar[r], at,
                             session[s].work)

(* A run that decides knows why. *)
DecisionIsSound(s) ==
  /\ session[s].pc \in {"deciding", "publishing"} =>
       /\ session[s].decision \in
            {"stopped", "publishable", "durable", "review", "retry"}
       /\ session[s].decision = "publishable" =>
            session[s].snap.season.disposition \in {"publishing", "reserved"}
       /\ session[s].decision = "stopped" => isStopped(session[s].snap.season)
  /\ session[s].pc = "publishing" => session[s].decision = "publishable"

reviewIsOpen == \E r \in Rounds : isInOperatorBacklog(records[r])

(* What a session holds the lease of is what it saw, and what it goes by. *)
HolderIsCurrent(s) ==
  /\ session[s].snap.season = season /\ session[s].snap.records = records
  /\ session[s].previous = "review" \/ session[s].decision = "review" =>
       reviewIsOpen
  /\ session[s].pc \in {"deciding", "publishing"} =>
       /\ isScheduled(s) => "operator" \notin history.owed
       /\ ~isScheduled(s) /\ "run" \in history.owed =>
            \/ season.due \/ isStopped(season)
            \/ session[s].previous \in {"review", "blocked"}

SessionIsSound(s) ==
  /\ FenceIsHandedOut(s) /\ PlanIsSound(s) /\ DecisionIsSound(s)
  /\ session[s].pc # "idle" /\ holdsLease(session[s].fence) => HolderIsCurrent(s)
SessionsAreSound == \A s \in Sessions : SessionIsSound(s)

ReviewHasCause == season.disposition = "review" => reviewIsOpen

(* Who owes what: an operator's publication is due until a scheduled run takes
   it over, and what a run owes is due, blocked, stopped or its own to finish. *)
OwedIsKept ==
  /\ "operator" \in history.owed => season.due
  /\ "run" \in history.owed =>
       \/ season.due \/ season.disposition # "none" \/ isStopped(season)

(* An operation that took effect cannot again: the ledger moved past what its
   request names. *)
isPassed(asked) ==
  CASE asked.action \in SeasonActions -> season.version > asked.version
    [] asked.action \in Dispositions \union {"rotate"} ->
         records[asked.round].version > asked.version
    [] asked.action = "verify" ->
         LET record == records[asked.round] IN
         \/ record.generation > asked.generation
         \/ /\ record.generation = asked.generation
            /\ \E i \in DOMAIN record.verifications :
                 record.verifications[i].op = asked.op

AppliedArePassed ==
  \A op \in Operations :
    /\ history.applied[op] <= 1
    /\ history.applied[op] = 1 => request[op] # None /\ isPassed(request[op])
    /\ history.returned[op] # None => history.applied[op] = 1

(* Whoever returned a candidate of a round held for review, or a competing
   revision, was a verification of that round. *)
isSightedBy(op, r, revision) ==
  /\ request[op] # None /\ request[op].action = "verify" /\ request[op].round = r
  /\ history.returned[op] = revision

SightingsAreVerifications ==
  \A r \in Rounds :
    /\ records[r].staged # None /\ records[r].candidate # None =>
         \E op \in Operations : isSightedBy(op, r, records[r].candidate)
    /\ records[r].competing # None =>
         \E first, second \in Operations :
           /\ first # second
           /\ isSightedBy(first, r, records[r].competing)
           /\ isSightedBy(second, r, records[r].competing)

DisplacedAreSuperseded ==
  \A r \in Rounds : history.displaced[r] \subseteq supersededOf(records[r])

TailsAreCounted == \A r \in Rounds : TailSupports(records[r], history.tail[r])

ObservationInv ==
  /\ TypeOK /\ RequestsAreNamed /\ VerifiedAreWritten /\ HistoryTypeOK
  /\ RecordsAreSound /\ SeasonIsWritten /\ BacklogHoldsStaged
  /\ FencesAreSingle /\ SessionsAreSound /\ ReviewHasCause /\ OwedIsKept
  /\ AppliedArePassed /\ SightingsAreVerifications
  /\ DisplacedAreSuperseded /\ TailsAreCounted
=============================================================================
