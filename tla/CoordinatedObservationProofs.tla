---------------------- MODULE CoordinatedObservationProofs ----------------------
(***************************************************************************)
(* The invariant of a season's ledger and its callers, for any number of   *)
(* sessions, rounds, revisions and operations, and the theorems it gives.  *)
(*                                                                         *)
(* The argument: a fence is handed to one session, so whatever a session   *)
(* that still holds the lease saw is what the ledger holds; what it then   *)
(* writes follows from the policy (ReconciliationLedgerProofs), and of the *)
(* others' soundness nothing is left that a changed ledger could break.    *)
(***************************************************************************)
EXTENDS CoordinatedObservation, ReconciliationLedgerProofs

WellFormed ==
  \A op \in Operations : request[op] # None => isWellFormed(request[op])

(* What a request was given is what its decoder asks of it. *)
LEMMA RequestsDecode ==
  ASSUME RequestsAreNamed', VerifiedAreWritten', records' \in [Rounds -> Record]
  PROVE  WellFormed'
<1> SUFFICES ASSUME NEW op \in Operations, request'[op] # None
             PROVE  isWellFormed(request[op])'
  BY DEF WellFormed
<1> DEFINE asked == request'[op]
<1>1. asked \in Requests /\ asked.op = op
  BY DEF RequestsAreNamed
<1>2. asked.action = "verify" => records'[asked.round].version >= 1
  BY DEF VerifiedAreWritten
<1> HIDE DEF asked
<1>3. CASE asked \in [op : Operations, action : SeasonActions, version : Nat]
  <2>1. /\ asked.action \in {"hold", "release-hold", "clear-block"}
        /\ decodeOperatorActionRequest(asked)
    BY <1>3 DEF SeasonActions, decodeOperatorActionRequest
  <2>. QED BY <2>1 DEF isWellFormed, asked, Dispositions
<1>4. CASE asked \in [op : Operations, action : Dispositions, round : Rounds,
                      version : Nat \ {0}, content : Revisions, staged : Revisions,
                      competing : RevisionOrNone]
  <2>1. /\ asked.action \in Dispositions
        /\ decodeDispositionRequest(asked)
    BY <1>4 DEF decodeDispositionRequest
  <2>. QED BY <2>1 DEF isWellFormed, asked, Dispositions
<1>5. CASE asked \in [op : Operations, action : {"verify"}, round : Rounds,
                      staged : Revisions, generation : Nat]
  <2>1. /\ asked.action = "verify"
        /\ \A outcome \in Revisions \union {"failed", "deferred"} :
             decodeVerificationRequest(asked, records'[asked.round].version, outcome)
    BY <1>2, <1>5 DEF decodeVerificationRequest
  <2>. QED BY <2>1 DEF isWellFormed, asked, Dispositions
<1>6. CASE asked \in [op : Operations, action : {"rotate"}, round : Rounds,
                      version : Nat \ {0}, generation : Nat, history : Histories]
  <2>1. /\ asked.action = "rotate"
        /\ decodeVerificationRotationRequest(asked)
    BY <1>6 DEF decodeVerificationRotationRequest
  <2>. QED BY <2>1 DEF isWellFormed, asked, Dispositions
<1>. QED BY <1>1, <1>3, <1>4, <1>5, <1>6 DEF Requests

-----------------------------------------------------------------------------
(* Sessions *)

LEMMA IdleIsSession ==
  /\ Idle \in SessionRecord /\ Idle.pc = "idle" /\ Idle.fence = 0
  /\ Idle.snap = None
<1>1. 0 \in 0 .. MaxFence
  BY LedgerAssumption
<1>2. NoPlan \in [Rounds -> Checks]
  BY DEF NoPlan, Checks
<1>. QED BY <1>1, <1>2 DEF Idle, SessionRecord, Decisions

(* A session nobody moves stays sound while its ledger does, if it has it. *)
LEMMA SessionStaysSound ==
  ASSUME NEW s \in Sessions, SessionIsSound(s), session'[s] = session[s],
         now \in Nat, now' \in Nat, now <= now',
         lease.fence \in Nat, lease'.fence \in Nat, lease.fence <= lease'.fence,
         \A op \in Operations : request[op] # None => request'[op] # None,
         session[s].pc # "idle" /\ lease'.held /\ session[s].fence = lease'.fence =>
           /\ holdsLease(session[s].fence)
           /\ season' = season /\ records' = records
           /\ history'.owed \subseteq history.owed
  PROVE  SessionIsSound(s)'
<1>1. FenceIsHandedOut(s)'
  BY DEF SessionIsSound, FenceIsHandedOut, isRun
<1>2. PlanIsSound(s)'
  <2>1. SUFFICES ASSUME session[s].pc = "observing" PROVE PlanIsSound(s)'
    BY DEF PlanIsSound
  <2>2. 0 .. now \subseteq 0 .. now'
    OBVIOUS
  <2>. QED BY <2>1, <2>2 DEF SessionIsSound, PlanIsSound
<1>3. DecisionIsSound(s)'
  BY DEF SessionIsSound, DecisionIsSound
<1>4. session'[s].pc # "idle" /\ holdsLease(session[s].fence)' => HolderIsCurrent(s)'
  BY DEF SessionIsSound, HolderIsCurrent, holdsLease, isScheduled, reviewIsOpen
<1>. QED BY <1>1, <1>2, <1>3, <1>4 DEF SessionIsSound

LEMMA IdleIsSound ==
  ASSUME NEW s \in Sessions, session'[s] = Idle
  PROVE  SessionIsSound(s)'
BY IdleIsSession
   DEF SessionIsSound, FenceIsHandedOut, PlanIsSound, DecisionIsSound

(* Only one session moves at a time, and it keeps its fence, gives it up or is
   handed the next. *)
LEMMA SessionsStaySound ==
  ASSUME ObservationInv, NEW s \in Sessions, NEW next \in SessionRecord,
         session' = [session EXCEPT ![s] = next],
         next = Idle \/ SessionIsSound(s)',
         \/ next = Idle
         \/ session[s].pc # "idle" /\ next.fence = session[s].fence
         \/ next.fence = lease.fence + 1,
         now' \in Nat, now <= now', lease'.fence \in Nat, lease.fence <= lease'.fence,
         \A op \in Operations : request[op] # None => request'[op] # None,
         \A t \in Sessions \ {s} :
           session[t].pc # "idle" /\ lease'.held /\ session[t].fence = lease'.fence =>
             /\ holdsLease(session[t].fence)
             /\ season' = season /\ records' = records
             /\ history'.owed \subseteq history.owed
  PROVE  /\ session' \in [Sessions -> SessionRecord]
         /\ FencesAreSingle' /\ SessionsAreSound'
<1>1. /\ session \in [Sessions -> SessionRecord] /\ now \in Nat /\ lease.fence \in Nat
      /\ \A t \in Sessions : SessionIsSound(t)
  BY LedgerAssumption
     DEF ObservationInv, TypeOK, LedgerTypeOK, SessionAssumption, SessionsAreSound
<1>2. /\ session' \in [Sessions -> SessionRecord] /\ session'[s] = next
      /\ \A t \in Sessions \ {s} : session'[t] = session[t]
  BY <1>1
<1>3. ASSUME NEW t \in Sessions PROVE SessionIsSound(t)'
  <2>1. CASE t = s
    BY <1>2, <2>1, IdleIsSound
  <2>2. CASE t # s
    BY <1>1, <1>2, <2>2, SessionStaysSound
  <2>. QED BY <2>1, <2>2
<1>4. \A t \in Sessions :
        /\ session[t] \in SessionRecord
        /\ session[t].pc # "idle" =>
             session[t].fence \in Nat /\ session[t].fence >= 1
             /\ session[t].fence <= lease.fence
        /\ session[t].pc = "idle" => session[t].fence = 0
  BY <1>1, IdleIsSession DEF SessionIsSound, FenceIsHandedOut
<1>5. \A t, u \in Sessions :
        session[t].pc # "idle" /\ session[t].fence = session[u].fence => t = u
  BY DEF ObservationInv, FencesAreSingle
<1>6. ASSUME NEW t \in Sessions, NEW u \in Sessions, session'[t].pc # "idle",
             session'[t].fence = session'[u].fence
      PROVE  t = u
  <2>1. CASE t # s /\ u # s
    BY <1>2, <1>5, <1>6, <2>1
  <2>2. CASE t = s /\ u # s
    <3>1. next # Idle /\ next.fence = session[u].fence
      BY <1>2, <1>6, <2>2, IdleIsSession
    <3>. QED BY <1>1, <1>4, <1>5, <2>2, <3>1
  <2>3. CASE t # s /\ u = s
    <3>1. session[t].pc # "idle" /\ session[t].fence = next.fence
      BY <1>2, <1>6, <2>3
    <3>. QED BY <1>1, <1>4, <1>5, <2>3, <3>1, IdleIsSession
  <2>. QED BY <2>1, <2>2, <2>3
<1>. QED BY <1>2, <1>3, <1>6 DEF FencesAreSingle, SessionsAreSound

(* The same of a step of no session. *)
LEMMA SessionsRest ==
  ASSUME ObservationInv, session' = session,
         now' \in Nat, now <= now', lease'.fence \in Nat, lease.fence <= lease'.fence,
         \A op \in Operations : request[op] # None => request'[op] # None,
         \A t \in Sessions :
           session[t].pc # "idle" /\ lease'.held /\ session[t].fence = lease'.fence =>
             /\ holdsLease(session[t].fence)
             /\ season' = season /\ records' = records
             /\ history'.owed \subseteq history.owed
  PROVE  /\ session' \in [Sessions -> SessionRecord]
         /\ FencesAreSingle' /\ SessionsAreSound'
<1>1. /\ session \in [Sessions -> SessionRecord] /\ now \in Nat /\ lease.fence \in Nat
      /\ \A t \in Sessions : SessionIsSound(t)
  BY LedgerAssumption
     DEF ObservationInv, TypeOK, LedgerTypeOK, SessionAssumption, SessionsAreSound
<1>2. ASSUME NEW t \in Sessions PROVE SessionIsSound(t)'
  BY <1>1, SessionStaysSound
<1>3. FencesAreSingle'
  BY DEF ObservationInv, FencesAreSingle
<1>. QED BY <1>1, <1>2, <1>3 DEF SessionsAreSound

-----------------------------------------------------------------------------
(* Steps that leave the season, its records and its history alone *)

LEMMA QuietStep ==
  ASSUME ObservationInv,
         season' = season, records' = records, backlog' = backlog, history' = history,
         lease' \in [fence : 0 .. MaxFence, held : BOOLEAN],
         elsewhere' \in 0 .. MaxElsewhere, backlogCount' <= BacklogCapacity,
         now' \in 0 .. MaxTime, now <= now',
         \A op \in Operations : request[op] # None => request'[op] = request[op],
         RequestsAreNamed', VerifiedAreWritten',
         session' \in [Sessions -> SessionRecord], FencesAreSingle', SessionsAreSound'
  PROVE  ObservationInv'
<1>1. /\ LedgerTypeOK /\ now \in Nat /\ now' \in Nat
  BY SessionAssumption DEF ObservationInv, TypeOK
<1>2. TypeOK'
  <2>1. WellFormed'
    BY <1>1, RequestsDecode DEF LedgerTypeOK
  <2>. QED BY <1>1, <2>1 DEF TypeOK, LedgerTypeOK, WellFormed
<1>3. RecordsAreSound'
  BY <1>1, SoundLater DEF ObservationInv, RecordsAreSound, LedgerTypeOK
<1>4. /\ HistoryTypeOK' /\ SeasonIsWritten' /\ BacklogHoldsStaged'
      /\ ReviewHasCause' /\ OwedIsKept'
      /\ DisplacedAreSuperseded' /\ TailsAreCounted'
  BY DEF ObservationInv, HistoryTypeOK, SeasonIsWritten, BacklogHoldsStaged,
         ReviewHasCause, reviewIsOpen, OwedIsKept, DisplacedAreSuperseded, TailsAreCounted
<1>5. AppliedArePassed'
  <2>1. \A op \in Operations : request[op] # None /\ isPassed(request[op]) =>
                                 isPassed(request[op])'
    BY DEF isPassed
  <2>. QED BY <2>1 DEF ObservationInv, AppliedArePassed
<1>6. SightingsAreVerifications'
  BY DEF ObservationInv, SightingsAreVerifications, isSightedBy
<1>. QED BY <1>2, <1>3, <1>4, <1>5, <1>6 DEF ObservationInv

LEMMA LedgerFacts ==
  ASSUME ObservationInv
  PROVE  /\ lease \in [fence : 0 .. MaxFence, held : BOOLEAN]
         /\ lease.fence \in 0 .. MaxFence /\ lease.fence \in Nat /\ lease.held \in BOOLEAN
         /\ season \in SeasonRecord
         /\ records \in [Rounds -> Record]
         /\ \A r \in Rounds : records[r] \in Record /\ RecordSound(records[r], now)
         /\ backlog \in [Rounds -> RevisionOrNone]
         /\ elsewhere \in 0 .. MaxElsewhere /\ elsewhere \in Nat
         /\ backlogCount <= BacklogCapacity
         /\ now \in 0 .. MaxTime /\ now \in Nat /\ MaxTime \in Nat
         /\ session \in [Sessions -> SessionRecord]
BY LedgerAssumption, SessionAssumption
   DEF ObservationInv, TypeOK, LedgerTypeOK, RecordsAreSound, BacklogHoldsStaged

(* What a session that is about its business knows, and that its lease is its own. *)
LEMMA SessionFacts ==
  ASSUME ObservationInv, NEW s \in Sessions, session[s].pc # "idle"
  PROVE  /\ session[s] \in SessionRecord
         /\ session[s].fence \in 1 .. lease.fence
         /\ session[s].fence \in 1 .. MaxFence
         /\ session[s].snap \in Snapshots
         /\ FenceIsHandedOut(s) /\ PlanIsSound(s) /\ DecisionIsSound(s)
         /\ holdsLease(session[s].fence) => HolderIsCurrent(s)
         /\ \A t \in Sessions : session[t].fence = session[s].fence => t = s
<1>1. session[s] \in SessionRecord /\ SessionIsSound(s)
  BY LedgerFacts DEF ObservationInv, SessionsAreSound
<1>2. session[s].fence \in 1 .. lease.fence /\ session[s].snap \in Snapshots
  BY <1>1 DEF SessionIsSound, FenceIsHandedOut
<1>3. session[s].fence \in 1 .. MaxFence
  BY <1>2, LedgerFacts, LedgerAssumption
<1>4. \A t \in Sessions : session[t].fence = session[s].fence => t = s
  BY DEF ObservationInv, FencesAreSingle
<1>. QED BY <1>1, <1>2, <1>3, <1>4 DEF SessionIsSound

LEMMA TickKeeps ==
  ASSUME ObservationInv, Tick
  PROVE  ObservationInv'
<1>1. /\ now' \in 0 .. MaxTime /\ now' \in Nat /\ now <= now' /\ UNCHANGED ledger
      /\ session' = session /\ request' = request /\ history' = history
  BY LedgerFacts DEF Tick
<1>2. /\ session' \in [Sessions -> SessionRecord] /\ FencesAreSingle' /\ SessionsAreSound'
  BY <1>1, LedgerFacts, SessionsRest DEF ledger, holdsLease
<1>3. /\ RequestsAreNamed' /\ VerifiedAreWritten' /\ backlogCount' = backlogCount
  BY <1>1 DEF ObservationInv, RequestsAreNamed, VerifiedAreWritten, ledger,
              backlogCount, waiting
<1>4. /\ season' = season /\ records' = records /\ backlog' = backlog
      /\ lease' = lease /\ elsewhere' = elsewhere
  BY <1>1 DEF ledger
<1>. QED BY <1>1, <1>2, <1>3, <1>4, LedgerFacts, QuietStep

(* The lease becomes free: what its holder saw no longer matters. *)
LEMMA FreedKeeps ==
  ASSUME ObservationInv, lease' = [lease EXCEPT !.held = FALSE],
         UNCHANGED <<season, records, backlog, elsewhere>>,
         UNCHANGED <<now, request, session, history>>
  PROVE  ObservationInv'
<1>1. /\ lease' \in [fence : 0 .. MaxFence, held : BOOLEAN]
      /\ lease'.fence = lease.fence /\ ~lease'.held
  BY DEF ObservationInv, TypeOK, LedgerTypeOK
<1>2. /\ session' \in [Sessions -> SessionRecord] /\ FencesAreSingle' /\ SessionsAreSound'
  BY <1>1, LedgerFacts, SessionsRest
<1>3. /\ RequestsAreNamed' /\ VerifiedAreWritten' /\ backlogCount' = backlogCount
  BY DEF ObservationInv, RequestsAreNamed, VerifiedAreWritten, backlogCount, waiting
<1>. QED BY <1>1, <1>2, <1>3, LedgerFacts, QuietStep

LEMMA ExpireKeeps ==
  ASSUME ObservationInv, Expire
  PROVE  ObservationInv'
BY FreedKeeps DEF Expire, ExpireLease

LEMMA ReleaseKeeps ==
  ASSUME ObservationInv, Release
  PROVE  ObservationInv'
BY FreedKeeps DEF Release, ReleaseLease

LEMMA ElsewhereKeeps ==
  ASSUME ObservationInv, Elsewhere
  PROVE  ObservationInv'
<1>1. /\ UNCHANGED <<lease, season, records, backlog>>
      /\ UNCHANGED <<now, request, session, history>>
  BY DEF Elsewhere, OtherSeason
<1>2. elsewhere' \in 0 .. MaxElsewhere /\ backlogCount' <= BacklogCapacity
  <2>1. waiting' = waiting /\ waiting \in SUBSET Rounds
    BY <1>1 DEF waiting
  <2>2. Cardinality(waiting) \in Nat /\ BacklogCapacity \in Nat /\ MaxElsewhere \in Nat
    BY <2>1, WaitingIsCounted, LedgerAssumption
  <2>3. backlogCount' = Cardinality(waiting) + elsewhere'
    BY <2>1 DEF backlogCount
  <2>. QED BY <2>2, <2>3, LedgerFacts DEF Elsewhere, OtherSeason, backlogCount
<1>3. /\ session' \in [Sessions -> SessionRecord] /\ FencesAreSingle' /\ SessionsAreSound'
  BY <1>1, LedgerFacts, SessionsRest DEF holdsLease
<1>4. RequestsAreNamed' /\ VerifiedAreWritten'
  BY <1>1 DEF ObservationInv, RequestsAreNamed, VerifiedAreWritten
<1>. QED BY <1>1, <1>2, <1>3, <1>4, LedgerFacts, QuietStep

(* A session takes a step of its own that only it notices. *)
LEMMA SessionKeeps ==
  ASSUME ObservationInv, UNCHANGED ledger, UNCHANGED <<now, request, history>>,
         NEW s \in Sessions, NEW next \in SessionRecord,
         session' = [session EXCEPT ![s] = next],
         \/ next = Idle
         \/ session[s].pc # "idle" /\ next.fence = session[s].fence /\ SessionIsSound(s)'
  PROVE  ObservationInv'
<1>1. /\ season' = season /\ records' = records /\ backlog' = backlog
      /\ lease' = lease /\ elsewhere' = elsewhere
      /\ now' = now /\ request' = request /\ history' = history
  BY DEF ledger
<1>2. /\ now' \in Nat /\ now <= now' /\ lease'.fence \in Nat /\ lease.fence <= lease'.fence
      /\ now' \in 0 .. MaxTime
  BY <1>1, LedgerFacts
<1>3. /\ session' \in [Sessions -> SessionRecord] /\ FencesAreSingle' /\ SessionsAreSound'
  BY <1>1, <1>2, SessionsStaySound DEF holdsLease
<1>4. /\ RequestsAreNamed' /\ VerifiedAreWritten' /\ backlogCount' = backlogCount
  BY <1>1 DEF ObservationInv, RequestsAreNamed, VerifiedAreWritten, backlogCount, waiting
<1>. QED BY <1>1, <1>2, <1>3, <1>4, LedgerFacts, QuietStep

LEMMA GiveUpKeeps ==
  ASSUME ObservationInv, NEW s \in Sessions, GiveUp(s)
  PROVE  ObservationInv'
BY SessionKeeps, IdleIsSession DEF GiveUp, Await

LEMMA SkipReconciliationKeeps ==
  ASSUME ObservationInv, NEW s \in Sessions, SkipReconciliation(s)
  PROVE  ObservationInv'
<1> DEFINE next == [session[s] EXCEPT !.pc = "reconciled"]
<1>1. /\ session[s].pc = "leased" /\ isRun(s) /\ session' = [session EXCEPT ![s] = next]
      /\ UNCHANGED ledger /\ UNCHANGED <<now, request, history>>
  BY DEF SkipReconciliation, Await
<1>2. /\ session[s] \in SessionRecord /\ FenceIsHandedOut(s)
      /\ holdsLease(session[s].fence) => HolderIsCurrent(s)
  BY <1>1, SessionFacts
<1>3. /\ next \in SessionRecord /\ next.pc = "reconciled"
      /\ next.fence = session[s].fence /\ next.snap = session[s].snap
      /\ next.work = session[s].work /\ next.previous = session[s].previous
      /\ next.decision = session[s].decision
  BY <1>2 DEF SessionRecord
<1>4. session'[s] = next
  BY <1>1, LedgerFacts
<1> HIDE DEF next
<1>5. SessionIsSound(s)'
  <2>1. FenceIsHandedOut(s)' /\ PlanIsSound(s)' /\ DecisionIsSound(s)'
    <3>1. request' = request /\ lease' = lease
      BY <1>1 DEF ledger
    <3>. QED BY <1>1, <1>2, <1>3, <1>4, <3>1
          DEF FenceIsHandedOut, PlanIsSound, DecisionIsSound, isRun
  <2>2. holdsLease(session[s].fence)' => HolderIsCurrent(s)'
    <3>1. SUFFICES ASSUME holdsLease(session[s].fence)' PROVE HolderIsCurrent(s)'
      OBVIOUS
    <3>2. /\ season' = season /\ records' = records /\ lease' = lease
          /\ history' = history
      BY <1>1 DEF ledger
    <3>3. HolderIsCurrent(s)
      BY <1>2, <1>3, <1>4, <3>1, <3>2 DEF holdsLease
    <3>. QED BY <1>3, <1>4, <3>2, <3>3 DEF HolderIsCurrent, reviewIsOpen
  <2>. QED BY <2>1, <2>2 DEF SessionIsSound
<1>. QED BY <1>1, <1>3, <1>5, SessionKeeps DEF next

LEMMA PlannedSession ==
  ASSUME NEW me \in SessionRecord, NEW publishes \in BOOLEAN,
         NEW plan \in [Rounds -> Checks], NEW previous \in {"none", "review", "blocked"}
  PROVE  [me EXCEPT !.pc = "observing", !.publishes = publishes, !.plan = plan,
            !.previous = previous] \in SessionRecord
BY DEF SessionRecord

LEMMA PlanKeeps ==
  ASSUME ObservationInv, NEW s \in Sessions, NEW publishes \in BOOLEAN,
         Plan(s, publishes)
  PROVE  ObservationInv'
<1> DEFINE snap == session[s].snap
           plan == planRun(snap, session[s].work)
           chosen == IF publishes THEN plan ELSE NoPlan
           next == [session[s] EXCEPT !.pc = "observing", !.publishes = publishes,
                      !.plan = chosen, !.previous = snap.season.disposition]
<1>1. /\ session[s].pc = "reconciled" /\ session' = [session EXCEPT ![s] = next]
      /\ snap.season.disposition \notin {"publishing", "reserved"}
      /\ isScheduled(s) \/ ~isStopped(snap.season)
      /\ UNCHANGED ledger /\ UNCHANGED <<now, request, history>>
  BY DEF Plan, Await
<1>2. /\ session[s] \in SessionRecord /\ FenceIsHandedOut(s) /\ snap \in Snapshots
      /\ holdsLease(session[s].fence) => HolderIsCurrent(s)
  BY <1>1, SessionFacts
<1>3. \A r \in Rounds :
        /\ chosen[r] \in Checks
        /\ \/ chosen[r] = NoCheck
           \/ chosen[r] = plannedCheck(recordOf(snap, r), snap.season.calendar[r], now,
                                       session[s].work)
  <2>1. ASSUME NEW r \in Rounds PROVE plan[r] \in Checks
    <3>1. plan[r] = plannedCheck(recordOf(snap, r), snap.season.calendar[r], now,
                                 session[s].work)
      BY DEF planRun
    <3>2. snap.season.calendar[r] \in Nat /\ snap.records[r] \in Record
      BY <1>2, PolicyAssumption DEF Snapshots, SeasonRecord
    <3> HIDE DEF snap, plan
    <3>3. recordOf(snap, r) \in Record
      BY <3>2, NewRecordIsSound DEF recordOf
    <3>. QED BY <3>1, <3>2, <3>3, LedgerFacts, PlannedCheckIsDue
  <2>2. \A r \in Rounds :
          /\ NoPlan[r] = NoCheck /\ NoCheck \in Checks
          /\ plan[r] = plannedCheck(recordOf(snap, r), snap.season.calendar[r], now,
                                    session[s].work)
    BY DEF NoPlan, Checks, planRun
  <2> HIDE DEF snap, plan
  <2>. QED BY <2>1, <2>2
<1>4. chosen \in [Rounds -> Checks]
  <2>1. plan = [r \in Rounds |-> plan[r]] /\ NoPlan = [r \in Rounds |-> NoPlan[r]]
    BY DEF planRun, NoPlan
  <2>2. chosen = [r \in Rounds |-> chosen[r]]
    BY <2>1
  <2> HIDE DEF chosen
  <2>. QED BY <1>3, <2>2
<1>5. snap.season.disposition \in {"none", "review", "blocked"}
  BY <1>1, <1>2 DEF Snapshots, SeasonRecord
<1>6. /\ next \in SessionRecord /\ next.pc = "observing"
      /\ next.fence = session[s].fence /\ next.snap = snap
      /\ next.work = session[s].work /\ next.plan = chosen
      /\ next.previous = snap.season.disposition
      /\ next.decision = session[s].decision
  <2>1. snap.season.disposition \in {"none", "review", "blocked"}
    BY <1>5
  <2> HIDE DEF chosen
  <2>2. next \in SessionRecord
    BY <1>2, <1>4, <2>1, PlannedSession
  <2>. QED BY <1>2, <2>2 DEF SessionRecord
<1>7. session'[s] = next
  BY <1>1, LedgerFacts
<1>8. isRun(s)
  BY <1>1, <1>2 DEF FenceIsHandedOut
<1> HIDE DEF next, chosen
<1>9. SessionIsSound(s)'
  <2>1. FenceIsHandedOut(s)' /\ DecisionIsSound(s)'
    <3>1. request' = request /\ lease' = lease
      BY <1>1 DEF ledger
    <3>. QED BY <1>1, <1>2, <1>6, <1>7, <1>8, <3>1
          DEF FenceIsHandedOut, DecisionIsSound, isRun
  <2>2. PlanIsSound(s)'
    <3>1. now \in 0 .. now /\ now' = now
      BY <1>1, LedgerFacts
    <3>. QED BY <1>1, <1>3, <1>6, <1>7, <3>1 DEF PlanIsSound
  <2>3. holdsLease(session[s].fence)' => HolderIsCurrent(s)'
    <3>1. SUFFICES ASSUME holdsLease(session[s].fence)' PROVE HolderIsCurrent(s)'
      OBVIOUS
    <3>2. holdsLease(session[s].fence)
      BY <1>1, <1>6, <1>7, <3>1 DEF holdsLease, ledger
    <3>3. HolderIsCurrent(s) /\ ReviewHasCause
      BY <1>2, <3>2 DEF ObservationInv
    <3>. QED BY <1>1, <1>6, <1>7, <3>3
          DEF HolderIsCurrent, ledger, reviewIsOpen, ReviewHasCause
  <2>. QED BY <2>1, <2>2, <2>3 DEF SessionIsSound
<1>. QED BY <1>1, <1>6, <1>9, SessionKeeps DEF next

LEMMA SnapshotIsTyped ==
  ASSUME ObservationInv
  PROVE  snapshot \in Snapshots /\ snapshot.season = season /\ snapshot.records = records
<1>1. waiting \in SUBSET Rounds
  BY DEF waiting
<1>2. backlogCount \in Nat
  BY <1>1, WaitingIsCounted, LedgerFacts DEF backlogCount
<1>. QED BY <1>2, LedgerFacts DEF snapshot, Snapshot, Snapshots

LEMMA AcquireKeeps ==
  ASSUME ObservationInv, NEW s \in Sessions, NEW work \in Triggers \union Operations,
         Acquire(s, work)
  PROVE  ObservationInv'
<1> DEFINE next == [Idle EXCEPT !.pc = "leased", !.work = work, !.fence = lease'.fence,
                      !.snap = snapshot]
<1>1. /\ session[s].pc = "idle" /\ (work \in Operations => request[work] # None)
      /\ lease' = [fence |-> lease.fence + 1, held |-> TRUE] /\ lease.fence < MaxFence
      /\ season' = season /\ records' = records /\ backlog' = backlog
      /\ elsewhere' = elsewhere
      /\ session' = [session EXCEPT ![s] = next]
      /\ now' = now /\ request' = request /\ history' = history
  BY DEF Acquire, AcquireLease, Await
<1>2. /\ lease'.fence = lease.fence + 1 /\ lease'.fence \in 0 .. MaxFence
      /\ lease'.fence \in Nat /\ lease.fence <= lease'.fence /\ lease'.held
      /\ lease' \in [fence : 0 .. MaxFence, held : BOOLEAN]
  BY <1>1, LedgerFacts, LedgerAssumption
<1>3. /\ next \in SessionRecord /\ next.pc = "leased" /\ next.work = work
      /\ next.fence = lease'.fence /\ next.snap = snapshot
      /\ next.previous = "none" /\ next.decision = "none"
  <2>1. Idle.previous = "none" /\ Idle.decision = "none"
    BY DEF Idle
  <2>2. next \in SessionRecord
    BY <1>2, SnapshotIsTyped, IdleIsSession DEF SessionRecord
  <2>. QED BY <2>1, <2>2, IdleIsSession DEF SessionRecord
<1>4. session'[s] = next
  BY <1>1, LedgerFacts
<1> HIDE DEF next
<1>5. SessionIsSound(s)'
  <2>1. FenceIsHandedOut(s)'
    <3>1. lease'.fence \in 1 .. lease'.fence
      BY <1>2, LedgerFacts
    <3>. QED BY <1>1, <1>3, <1>4, <3>1, SnapshotIsTyped DEF FenceIsHandedOut
  <2>2. PlanIsSound(s)' /\ DecisionIsSound(s)' /\ HolderIsCurrent(s)'
    BY <1>1, <1>3, <1>4, SnapshotIsTyped DEF PlanIsSound, DecisionIsSound, HolderIsCurrent
  <2>. QED BY <2>1, <2>2 DEF SessionIsSound
<1>6. \A t \in Sessions \ {s} : ~(session[t].pc # "idle" /\ session[t].fence = lease'.fence)
  BY <1>2, LedgerFacts, SessionFacts
<1>7. /\ session' \in [Sessions -> SessionRecord] /\ FencesAreSingle' /\ SessionsAreSound'
  <2>1. next.fence = lease.fence + 1
    BY <1>2, <1>3
  <2>2. now' \in Nat /\ now <= now'
    BY <1>1, LedgerFacts
  <2>3. \A op \in Operations : request[op] # None => request'[op] # None
    BY <1>1
  <2>. QED BY <1>1, <1>2, <1>3, <1>5, <1>6, <2>1, <2>2, <2>3, SessionsStaySound
<1>8. /\ RequestsAreNamed' /\ VerifiedAreWritten' /\ backlogCount' = backlogCount
  BY <1>1 DEF ObservationInv, RequestsAreNamed, VerifiedAreWritten, backlogCount, waiting
<1>. QED BY <1>1, <1>2, <1>7, <1>8, LedgerFacts, QuietStep

(* Whoever inspects a record held for review, or with verifications, inspects
   one that was written. *)
LEMMA WrittenRecord ==
  ASSUME ObservationInv, NEW r \in Rounds,
         records[r].staged # None \/ Len(records[r].verifications) = MaximumVerifications
  PROVE  records[r].version \in Nat \ {0}
<1>1. records[r].version = 0 => records[r] = newClassificationRecord(records[r].anchor)
  BY DEF ObservationInv, RecordsAreSound
<1>2. \A anchor : /\ newClassificationRecord(anchor).staged = None
                  /\ newClassificationRecord(anchor).verifications = <<>>
  BY DEF newClassificationRecord
<1>3. records[r].version \in Nat
  BY LedgerFacts DEF Record
<1>. QED BY <1>1, <1>2, <1>3, EmptyHistory, BoundsAreNaturals

LEMMA InspectKeeps ==
  ASSUME ObservationInv, NEW op \in Operations, NEW action \in OperatorActions,
         NEW r \in Rounds, Inspect(op, action, r)
  PROVE  ObservationInv'
<1> DEFINE record == records[r]
<1>1. /\ request[op] = None /\ UNCHANGED ledger /\ UNCHANGED <<now, session, history>>
      /\ season' = season /\ records' = records /\ backlog' = backlog
      /\ elsewhere' = elsewhere /\ lease' = lease
  BY DEF Inspect, ledger
<1>2. PICK asked \in Requests :
        /\ asked.op = op /\ request' = [request EXCEPT ![op] = asked]
        /\ asked.action = "verify" => records[asked.round].version >= 1
  <2>1. record \in Record
    BY LedgerFacts
  <2>2. CASE /\ action \in SeasonActions
             /\ request' = [request EXCEPT ![op] =
                  [op |-> op, action |-> action, version |-> season.version]]
    <3> DEFINE asked == [op |-> op, action |-> action, version |-> season.version]
    <3>1. season.version \in Nat
      BY LedgerFacts DEF SeasonRecord
    <3>2. asked \in Requests /\ asked.action # "verify"
      BY <2>2, <3>1 DEF Requests, SeasonActions
    <3>. QED BY <2>2, <3>2
  <2>3. CASE /\ action \in Dispositions
             /\ isDisposable(record, action, record.content, record.staged,
                             record.competing)
             /\ request' = [request EXCEPT ![op] =
                  [op |-> op, action |-> action, round |-> r,
                   version |-> record.version, content |-> record.content,
                   staged |-> record.staged, competing |-> record.competing]]
    <3> DEFINE asked == [op |-> op, action |-> action, round |-> r,
                         version |-> record.version, content |-> record.content,
                         staged |-> record.staged, competing |-> record.competing]
    <3>1. /\ record.staged \in Revisions /\ record.content \in Revisions
          /\ record.competing \in RevisionOrNone
      BY <2>1, <2>3 DEF isDisposable, Record, RevisionOrNone
    <3>2. record.version \in Nat \ {0}
      BY <3>1, WrittenRecord, NullIsNoRevision
    <3>3. asked \in Requests /\ asked.action # "verify"
      BY <2>3, <3>1, <3>2 DEF Requests, Dispositions
    <3>. QED BY <2>3, <3>3
  <2>4. CASE /\ action = "verify" /\ record.staged # None
             /\ request' = [request EXCEPT ![op] =
                  [op |-> op, action |-> action, round |-> r,
                   staged |-> record.staged, generation |-> record.generation]]
    <3> DEFINE asked == [op |-> op, action |-> action, round |-> r,
                         staged |-> record.staged, generation |-> record.generation]
    <3>1. record.staged \in Revisions /\ record.generation \in Nat
      BY <2>1, <2>4 DEF Record, RevisionOrNone
    <3>2. record.version \in Nat \ {0}
      BY <2>4, WrittenRecord
    <3>3. asked \in Requests /\ asked.op = op /\ asked.round = r
      BY <2>4, <3>1 DEF Requests
    <3>4. request' = [request EXCEPT ![op] = asked] /\ records[asked.round].version >= 1
      BY <2>4, <3>2, <3>3
    <3> HIDE DEF asked
    <3>. QED BY <3>3, <3>4
  <2>5. CASE /\ action = "rotate" /\ Len(record.verifications) = MaximumVerifications
             /\ request' = [request EXCEPT ![op] =
                  [op |-> op, action |-> action, round |-> r,
                   version |-> record.version, generation |-> record.generation,
                   history |-> record.verifications]]
    <3> DEFINE asked == [op |-> op, action |-> action, round |-> r,
                         version |-> record.version, generation |-> record.generation,
                         history |-> record.verifications]
    <3>1. record.generation \in Nat /\ record.verifications \in Histories
      BY <2>1 DEF Record
    <3>2. record.version \in Nat \ {0}
      BY <2>5, WrittenRecord
    <3>3. asked \in Requests /\ asked.action # "verify"
      BY <2>5, <3>1, <3>2 DEF Requests
    <3>. QED BY <2>5, <3>3
  <2>. QED BY <2>2, <2>3, <2>4, <2>5 DEF Inspect, SeasonActions
<1>3. /\ DOMAIN request = Operations /\ DOMAIN request' = Operations
      /\ request'[op] = asked
      /\ \A other \in Operations \ {op} : request'[other] = request[other]
  BY <1>2 DEF ObservationInv, RequestsAreNamed
<1>4. RequestsAreNamed' /\ VerifiedAreWritten' /\ backlogCount' = backlogCount
  BY <1>1, <1>2, <1>3
     DEF ObservationInv, RequestsAreNamed, VerifiedAreWritten, backlogCount, waiting
<1>5. \A other \in Operations : request[other] # None => request'[other] = request[other]
  BY <1>1, <1>3
<1>6. /\ now' \in 0 .. MaxTime /\ now' \in Nat /\ now <= now'
      /\ lease'.fence \in Nat /\ lease.fence <= lease'.fence
  BY <1>1, LedgerFacts
<1>7. /\ session' \in [Sessions -> SessionRecord] /\ FencesAreSingle' /\ SessionsAreSound'
  BY <1>1, <1>5, <1>6, SessionsRest DEF holdsLease
<1>. QED BY <1>1, <1>4, <1>5, <1>6, <1>7, LedgerFacts, QuietStep

-----------------------------------------------------------------------------
(* Steps of the session that has the lease *)

(* What no operation takes back of a record. *)
RecordFollows(old, new) ==
  /\ new.version >= old.version
  /\ supersededOf(old) \subseteq supersededOf(new)
  /\ \/ new.generation > old.generation
     \/ /\ new.generation = old.generation
        /\ \A i \in DOMAIN old.verifications :
             /\ i \in DOMAIN new.verifications
             /\ new.verifications[i] = old.verifications[i]

LEMMA SameRecordFollows ==
  ASSUME NEW rec \in Record
  PROVE  RecordFollows(rec, rec)
BY DEF RecordFollows, Record

(* What took effect stays so. *)
LEMMA PassedStays ==
  ASSUME ObservationInv, request' = request, records' \in [Rounds -> Record],
         season' \in SeasonRecord, season'.version >= season.version,
         \A r \in Rounds : RecordFollows(records[r], records'[r]),
         NEW op \in Operations, request[op] # None, isPassed(request[op])
  PROVE  isPassed(request[op])'
<1> DEFINE asked == request[op]
<1>1. asked \in Requests
  BY DEF ObservationInv, RequestsAreNamed
<1>2. season.version \in Nat /\ season'.version \in Nat
  BY LedgerFacts DEF SeasonRecord
<1>3. \A r \in Rounds : /\ records[r].version \in Nat /\ records'[r].version \in Nat
                        /\ records[r].generation \in Nat /\ records'[r].generation \in Nat
  BY LedgerFacts DEF Record
<1>4. request'[op] = asked
  OBVIOUS
<1>5. CASE asked.action \in SeasonActions
  <2>1. asked.version \in Nat
    BY <1>1, <1>5 DEF Requests, SeasonActions, Dispositions
  <2>2. season.version > asked.version
    BY <1>5 DEF isPassed, SeasonActions, Dispositions
  <2> HIDE DEF asked
  <2>3. season'.version > asked.version
    BY <1>2, <2>1, <2>2
  <2>. QED BY <1>4, <1>5, <2>3 DEF isPassed, SeasonActions, Dispositions
<1>6. CASE asked.action \in Dispositions \union {"rotate"}
  <2>1. asked.version \in Nat /\ asked.round \in Rounds
    BY <1>1, <1>6 DEF Requests, SeasonActions, Dispositions
  <2>2. records[asked.round].version > asked.version
    BY <1>6 DEF isPassed, SeasonActions, Dispositions
  <2> HIDE DEF asked
  <2>3. records'[asked.round].version > asked.version
    BY <1>3, <2>1, <2>2 DEF RecordFollows
  <2>. QED BY <1>4, <1>6, <2>3 DEF isPassed, SeasonActions, Dispositions
<1>7. CASE asked.action = "verify"
  <2>1. asked.generation \in Nat /\ asked.round \in Rounds
    BY <1>1, <1>7 DEF Requests, SeasonActions, Dispositions
  <2> DEFINE old == records[asked.round]
             new == records'[asked.round]
  <2>2. \/ old.generation > asked.generation
        \/ /\ old.generation = asked.generation
           /\ \E i \in DOMAIN old.verifications : old.verifications[i].op = asked.op
    BY <1>7 DEF isPassed, SeasonActions, Dispositions
  <2>3. RecordFollows(old, new) /\ old.generation \in Nat /\ new.generation \in Nat
    BY <1>3, <2>1
  <2> HIDE DEF asked, old, new
  <2>4. \/ new.generation > asked.generation
        \/ /\ new.generation = asked.generation
           /\ \E i \in DOMAIN new.verifications : new.verifications[i].op = asked.op
    BY <2>1, <2>2, <2>3 DEF RecordFollows
  <2>. QED BY <1>4, <1>7, <2>4 DEF isPassed, SeasonActions, Dispositions, new
<1>. QED BY <1>1, <1>5, <1>6, <1>7 DEF Requests

LEMMA LedgerStep ==
  ASSUME ObservationInv, request' = request, now' = now, lease' = lease,
         elsewhere' = elsewhere,
         season' \in SeasonRecord, season'.version >= season.version,
         records' \in [Rounds -> Record],
         \A r \in Rounds :
           /\ RecordFollows(records[r], records'[r]) /\ RecordSound(records'[r], now)
           /\ records'[r] = records[r] \/ records'[r].version >= 1,
         backlog' \in [Rounds -> RevisionOrNone], BacklogHoldsStaged',
         session' \in [Sessions -> SessionRecord], FencesAreSingle', SessionsAreSound',
         HistoryTypeOK', ReviewHasCause', OwedIsKept', AppliedArePassed',
         SightingsAreVerifications', DisplacedAreSuperseded', TailsAreCounted'
  PROVE  ObservationInv'
<1>1. /\ season.version \in Nat /\ season'.version \in Nat
      /\ \A r \in Rounds : records[r].version \in Nat /\ records'[r].version \in Nat
  BY LedgerFacts DEF SeasonRecord, Record
<1>2. SeasonIsWritten'
  BY <1>1 DEF ObservationInv, SeasonIsWritten
<1>3. RequestsAreNamed'
  BY DEF ObservationInv, RequestsAreNamed
<1>4. VerifiedAreWritten'
  <2>1. \A op \in Operations : request[op] # None /\ request[op].action = "verify" =>
                                 request[op].round \in Rounds
    BY DEF ObservationInv, RequestsAreNamed, Requests, SeasonActions, Dispositions
  <2>. QED BY <1>1, <2>1 DEF ObservationInv, VerifiedAreWritten, RecordFollows
<1>5. TypeOK'
  <2>1. WellFormed'
    BY <1>3, <1>4, RequestsDecode
  <2>. QED BY <2>1, LedgerFacts DEF TypeOK, LedgerTypeOK, WellFormed
<1>6. RecordsAreSound'
  <2>1. \A r \in Rounds : records'[r].version = 0 =>
                            records'[r] = newClassificationRecord(records'[r].anchor)
    BY <1>1 DEF ObservationInv, RecordsAreSound
  <2>. QED BY <2>1 DEF RecordsAreSound
<1>. QED BY <1>2, <1>3, <1>4, <1>5, <1>6 DEF ObservationInv

(* The holder's step leaves the other sessions sound: none of them has the lease. *)
LEMMA HolderSteps ==
  ASSUME ObservationInv, NEW s \in Sessions, session[s].pc # "idle",
         holdsLease(session[s].fence), lease' = lease, now' = now, request' = request,
         NEW next \in SessionRecord, session' = [session EXCEPT ![s] = next],
         next = Idle \/ (next.fence = session[s].fence /\ SessionIsSound(s)')
  PROVE  /\ session' \in [Sessions -> SessionRecord]
         /\ FencesAreSingle' /\ SessionsAreSound'
<1>1. \A t \in Sessions \ {s} : ~(session[t].pc # "idle" /\ session[t].fence = lease'.fence)
  BY SessionFacts DEF holdsLease
<1>2. /\ now' \in Nat /\ now <= now' /\ lease'.fence \in Nat /\ lease.fence <= lease'.fence
  BY LedgerFacts
<1>. QED BY <1>1, <1>2, SessionsStaySound

LEMMA SnapshotNextIsTyped ==
  ASSUME ObservationInv, season' \in SeasonRecord, records' \in [Rounds -> Record]
  PROVE  /\ snapshotNext \in Snapshots
         /\ snapshotNext.season = season' /\ snapshotNext.records = records'
<1> DEFINE W == {r \in Rounds : backlog'[r] # None}
<1>1. Cardinality(W) \in Nat
  BY WaitingIsCounted
<1> HIDE DEF W
<1>2. Cardinality(W) + elsewhere \in Nat
  BY <1>1, LedgerFacts
<1>. QED BY <1>2 DEF snapshotNext, Snapshot, Snapshots, W

(* A run commits what it knows of the season and no record. *)
LEMMA SeasonCommitted ==
  ASSUME ObservationInv, NEW fence, NEW write \in SeasonRecord,
         Commit(fence, write, NoWrites)
  PROVE  /\ holdsLease(fence) /\ SeasonFollows(season', write)
         /\ write.version = season.version
         /\ season' \in SeasonRecord /\ season'.version >= season.version
         /\ records' = records /\ backlog' = backlog
         /\ lease' = lease /\ elsewhere' = elsewhere
<1>1. DOMAIN NoWrites = {} /\ insertions(NoWrites) = {}
  BY DEF NoWrites, insertions
<1>2. /\ holdsLease(fence) /\ (season' = bumped(write) \/ (write = season /\ UNCHANGED season))
      /\ write.version = season.version /\ lease' = lease /\ elsewhere' = elsewhere
  BY DEF Commit, isCommittable, isCurrent
<1>3. records' = records /\ backlog' = backlog
  BY <1>1, LedgerFacts DEF Commit
<1>4. SeasonFollows(season', write)
  BY <1>2, CommittedSeason
<1>5. write.version \in Nat
  BY DEF SeasonRecord
<1>. QED BY <1>2, <1>3, <1>4, <1>5 DEF SeasonFollows

(* Only what is owed of the history, and of the ledger only the season, changes. *)
LEMMA SeasonStep ==
  ASSUME ObservationInv, request' = request, now' = now, lease' = lease,
         elsewhere' = elsewhere, records' = records, backlog' = backlog,
         season' \in SeasonRecord, season'.version >= season.version,
         NEW owed \in SUBSET {"run", "operator"},
         history' = [history EXCEPT !.owed = owed],
         session' \in [Sessions -> SessionRecord], FencesAreSingle', SessionsAreSound',
         ReviewHasCause', OwedIsKept'
  PROVE  ObservationInv'
<1>1. /\ history'.tail = history.tail /\ history'.displaced = history.displaced
      /\ history'.applied = history.applied /\ history'.returned = history.returned
      /\ history'.owed = owed /\ DOMAIN history' = DOMAIN history
  BY DEF ObservationInv, HistoryTypeOK
<1>2. HistoryTypeOK'
  BY <1>1 DEF ObservationInv, HistoryTypeOK
<1>3. \A r \in Rounds : RecordFollows(records[r], records'[r]) /\ RecordSound(records'[r], now)
  BY LedgerFacts, SameRecordFollows
<1>4. AppliedArePassed'
  <2>1. ASSUME NEW op \in Operations, request[op] # None, isPassed(request[op])
        PROVE  isPassed(request[op])'
    BY <1>3, <2>1, LedgerFacts, PassedStays
  <2>. QED BY <1>1, <2>1 DEF ObservationInv, AppliedArePassed
<1>5. SightingsAreVerifications' /\ DisplacedAreSuperseded' /\ TailsAreCounted'
  BY <1>1 DEF ObservationInv, SightingsAreVerifications, isSightedBy,
              DisplacedAreSuperseded, TailsAreCounted
<1>6. BacklogHoldsStaged'
  BY DEF ObservationInv, BacklogHoldsStaged, backlogCount, waiting
<1>. QED BY <1>2, <1>3, <1>4, <1>5, <1>6, LedgerFacts, LedgerStep

LEMMA RecoverKeeps ==
  ASSUME ObservationInv, NEW s \in Sessions, NEW published \in BOOLEAN,
         Recover(s, published)
  PROVE  ObservationInv'
<1> DEFINE record == session[s].snap.season
           write == recovered(record, published)
           next == [session[s] EXCEPT !.snap = snapshotNext]
           owed == IF published THEN history.owed \ {"run"} ELSE history.owed
<1>1. /\ session[s].pc = "reconciled" /\ Commit(session[s].fence, write, NoWrites)
      /\ session' = [session EXCEPT ![s] = next]
      /\ history' = [history EXCEPT !.owed = owed]
      /\ now' = now /\ request' = request
  BY DEF Recover, Await
<1>2. /\ session[s] \in SessionRecord /\ FenceIsHandedOut(s)
      /\ record \in SeasonRecord
      /\ holdsLease(session[s].fence) => HolderIsCurrent(s)
  BY <1>1, SessionFacts DEF Snapshots
<1>3. write \in SeasonRecord /\ write.disposition = "none" /\ write.due = (record.due \/ ~published)
  <2> HIDE DEF record
  <2>1. (record.due \/ ~published) \in BOOLEAN
    OBVIOUS
  <2>. QED BY <1>2, <2>1 DEF recovered, SeasonRecord
<1> HIDE DEF write
<1>4. /\ holdsLease(session[s].fence) /\ SeasonFollows(season', write)
      /\ season' \in SeasonRecord /\ season'.version >= season.version
      /\ records' = records /\ backlog' = backlog
      /\ lease' = lease /\ elsewhere' = elsewhere
  BY <1>1, <1>3, SeasonCommitted
<1>5. /\ HolderIsCurrent(s) /\ record = season
  BY <1>2, <1>4 DEF HolderIsCurrent
<1>6. /\ snapshotNext \in Snapshots /\ snapshotNext.season = season'
      /\ snapshotNext.records = records'
  BY <1>4, LedgerFacts, SnapshotNextIsTyped
<1> HIDE DEF record
<1>7. /\ next \in SessionRecord /\ next.pc = "reconciled"
      /\ next.fence = session[s].fence /\ next.snap = snapshotNext
      /\ next.work = session[s].work /\ next.previous = session[s].previous
      /\ next.decision = session[s].decision
  BY <1>1, <1>2, <1>6 DEF SessionRecord
<1>8. session'[s] = next
  BY <1>1, LedgerFacts
<1> HIDE DEF next
<1>9. SessionIsSound(s)'
  <2>1. FenceIsHandedOut(s)' /\ PlanIsSound(s)' /\ DecisionIsSound(s)'
    BY <1>1, <1>2, <1>4, <1>6, <1>7, <1>8
       DEF FenceIsHandedOut, PlanIsSound, DecisionIsSound, isRun
  <2>2. HolderIsCurrent(s)'
    BY <1>1, <1>4, <1>5, <1>6, <1>7, <1>8 DEF HolderIsCurrent, reviewIsOpen
  <2>. QED BY <2>1, <2>2 DEF SessionIsSound
<1>10. /\ session' \in [Sessions -> SessionRecord] /\ FencesAreSingle' /\ SessionsAreSound'
  BY <1>1, <1>4, <1>7, <1>9, HolderSteps
<1>11. /\ owed \in SUBSET {"run", "operator"} /\ history'.owed = owed
  BY <1>1 DEF ObservationInv, HistoryTypeOK
<1>12. ReviewHasCause' /\ OwedIsKept'
  <2>1. season'.disposition = "none" /\ season'.due = (season.due \/ ~published)
    BY <1>3, <1>4, <1>5 DEF SeasonFollows
  <2>2. ReviewHasCause'
    BY <2>1 DEF ReviewHasCause
  <2>3. OwedIsKept'
    BY <1>11, <2>1 DEF ObservationInv, OwedIsKept
  <2>. QED BY <2>2, <2>3
<1> HIDE DEF owed
<1>. QED BY <1>1, <1>4, <1>10, <1>11, <1>12, SeasonStep

LEMMA ReserveKeeps ==
  ASSUME ObservationInv, NEW s \in Sessions, Reserve(s)
  PROVE  ObservationInv'
<1> DEFINE record == session[s].snap.season
           write == [record EXCEPT !.disposition = "reserved"]
           next == [session[s] EXCEPT !.pc = "publishing", !.snap = snapshotNext]
<1>1. /\ session[s].pc = "deciding" /\ session[s].decision = "publishable"
      /\ Commit(session[s].fence, write, NoWrites)
      /\ session' = [session EXCEPT ![s] = next]
      /\ now' = now /\ request' = request /\ history' = history
  BY DEF Reserve, Await
<1>2. /\ session[s] \in SessionRecord /\ FenceIsHandedOut(s) /\ DecisionIsSound(s)
      /\ record \in SeasonRecord
      /\ holdsLease(session[s].fence) => HolderIsCurrent(s)
  BY <1>1, SessionFacts DEF Snapshots
<1>3. /\ write \in SeasonRecord /\ write.disposition = "reserved"
      /\ write.due = record.due /\ write.hold = record.hold
      /\ write.durable = record.durable
  <2> HIDE DEF record
  <2>. QED BY <1>2 DEF SeasonRecord
<1> HIDE DEF write
<1>4. /\ holdsLease(session[s].fence) /\ SeasonFollows(season', write)
      /\ season' \in SeasonRecord /\ season'.version >= season.version
      /\ records' = records /\ backlog' = backlog
      /\ lease' = lease /\ elsewhere' = elsewhere
  BY <1>1, <1>3, SeasonCommitted
<1>5. /\ HolderIsCurrent(s) /\ record = season
  BY <1>2, <1>4 DEF HolderIsCurrent
<1>6. /\ snapshotNext \in Snapshots /\ snapshotNext.season = season'
      /\ snapshotNext.records = records'
  BY <1>4, LedgerFacts, SnapshotNextIsTyped
<1> HIDE DEF record
<1>7. /\ next \in SessionRecord /\ next.pc = "publishing"
      /\ next.fence = session[s].fence /\ next.snap = snapshotNext
      /\ next.work = session[s].work /\ next.previous = session[s].previous
      /\ next.decision = session[s].decision
  BY <1>2, <1>6 DEF SessionRecord
<1>8. session'[s] = next
  BY <1>1, LedgerFacts
<1> HIDE DEF next
<1>9. /\ season'.disposition = "reserved" /\ season'.due = season.due
      /\ isStopped(season') = isStopped(season)
  BY <1>3, <1>4, <1>5 DEF SeasonFollows, isStopped
<1>10. SessionIsSound(s)'
  <2>1. FenceIsHandedOut(s)' /\ PlanIsSound(s)' /\ DecisionIsSound(s)'
    BY <1>1, <1>2, <1>4, <1>6, <1>7, <1>8, <1>9
       DEF FenceIsHandedOut, PlanIsSound, DecisionIsSound, isRun
  <2>2. HolderIsCurrent(s)'
    BY <1>1, <1>4, <1>5, <1>6, <1>7, <1>8, <1>9
       DEF HolderIsCurrent, reviewIsOpen, isScheduled, isStopped
  <2>. QED BY <2>1, <2>2 DEF SessionIsSound
<1>11. /\ session' \in [Sessions -> SessionRecord] /\ FencesAreSingle' /\ SessionsAreSound'
  BY <1>1, <1>4, <1>7, <1>10, HolderSteps
<1>12. /\ history.owed \in SUBSET {"run", "operator"}
       /\ history' = [history EXCEPT !.owed = history.owed]
  BY <1>1 DEF ObservationInv, HistoryTypeOK
<1>13. ReviewHasCause' /\ OwedIsKept'
  BY <1>1, <1>9 DEF ReviewHasCause, ObservationInv, OwedIsKept
<1>. QED BY <1>1, <1>4, <1>11, <1>12, <1>13, SeasonStep

(* What a run writes of the season when it settles. *)
LEMMA SettledSeason ==
  ASSUME NEW s \in Sessions, NEW decision,
         decision \in {"completed", "retry", "review", "blocked", "durable", "stopped"},
         session[s].snap.season \in SeasonRecord
  PROVE  LET record == session[s].snap.season
             settled == settleSeasonRecord(s, decision)
         IN  /\ settled \in SeasonRecord
             /\ settled.disposition =
                  IF decision = "completed" THEN "none"
                  ELSE IF decision \in {"review", "blocked"} THEN decision
                  ELSE unresolvedBlock(session[s].previous)
             /\ settled.due =
                  IF decision = "completed" \/ ~isScheduled(s) THEN record.due
                  ELSE decision = "retry"
             /\ settled.hold = record.hold
             /\ settled.durable = (record.durable \/ decision = "durable")
<1> DEFINE record == session[s].snap.season
           kept == unresolvedBlock(session[s].previous)
           dueIf(due) == IF isScheduled(s) THEN due ELSE record.due
           settled == settleSeasonRecord(s, decision)
<1>1. kept \in {"none", "review", "blocked"} /\ record \in SeasonRecord
  BY DEF unresolvedBlock
<1>2. record.due \in BOOLEAN /\ record.durable \in BOOLEAN
  BY <1>1 DEF SeasonRecord
<1>3. dueIf(TRUE) \in BOOLEAN /\ dueIf(FALSE) \in BOOLEAN
  BY <1>2
<1> HIDE DEF record, kept
<1>4. CASE decision = "completed"
  <2>1. settled = [record EXCEPT !.disposition = "none"]
    BY <1>4 DEF settleSeasonRecord, record
  <2> HIDE DEF settled
  <2>. QED BY <1>1, <1>4, <2>1 DEF SeasonRecord, settled, record
<1>5. CASE decision = "retry"
  <2>1. settled = [record EXCEPT !.disposition = kept, !.due = dueIf(TRUE)]
    BY <1>5 DEF settleSeasonRecord, record, kept
  <2>2. dueIf(TRUE) = IF ~isScheduled(s) THEN record.due ELSE TRUE
    OBVIOUS
  <2> HIDE DEF settled, dueIf
  <2>. QED BY <1>1, <1>3, <1>5, <2>1, <2>2 DEF SeasonRecord, settled, record, kept
<1>6. CASE decision \in {"review", "blocked"}
  <2>1. settled = [record EXCEPT !.disposition = decision, !.due = dueIf(FALSE)]
    BY <1>6 DEF settleSeasonRecord, record, kept
  <2>2. dueIf(FALSE) = IF ~isScheduled(s) THEN record.due ELSE FALSE
    OBVIOUS
  <2> HIDE DEF settled, dueIf
  <2>. QED BY <1>1, <1>3, <1>6, <2>1, <2>2 DEF SeasonRecord, settled, record
<1>7. CASE decision = "durable"
  <2>1. settled = [record EXCEPT !.disposition = kept, !.durable = TRUE,
                     !.due = dueIf(FALSE)]
    BY <1>7 DEF settleSeasonRecord, record, kept
  <2>2. dueIf(FALSE) = IF ~isScheduled(s) THEN record.due ELSE FALSE
    OBVIOUS
  <2> HIDE DEF settled, dueIf
  <2>. QED BY <1>1, <1>3, <1>7, <2>1, <2>2 DEF SeasonRecord, settled, record, kept
<1>8. CASE decision = "stopped"
  <2>1. settled = [record EXCEPT !.disposition = kept, !.due = dueIf(FALSE)]
    BY <1>8 DEF settleSeasonRecord, record, kept
  <2>2. dueIf(FALSE) = IF ~isScheduled(s) THEN record.due ELSE FALSE
    OBVIOUS
  <2> HIDE DEF settled, dueIf
  <2>. QED BY <1>1, <1>3, <1>8, <2>1, <2>2 DEF SeasonRecord, settled, record, kept
<1>. QED BY <1>4, <1>5, <1>6, <1>7, <1>8

LEMMA SettleKeeps ==
  ASSUME ObservationInv, NEW s \in Sessions, NEW decision \in Decisions,
         Settle(s, decision)
  PROVE  ObservationInv'
<1> DEFINE record == session[s].snap.season
           write == settleSeasonRecord(s, decision)
           owed == IF decision = "completed" THEN history.owed \ {"run"}
                   ELSE history.owed
<1>1. /\ session[s].pc \in {"deciding", "publishing"} /\ mayDecide(s, decision)
      /\ session' = [session EXCEPT ![s] = Idle]
      /\ history' = [history EXCEPT !.owed = owed]
      /\ now' = now /\ request' = request
      /\ IF write = record THEN UNCHANGED ledger
         ELSE Commit(session[s].fence, write, NoWrites)
  BY DEF Settle, Await
<1>2. /\ DecisionIsSound(s) /\ record \in SeasonRecord
      /\ holdsLease(session[s].fence) => HolderIsCurrent(s)
  BY <1>1, SessionFacts DEF Snapshots
<1>3. /\ owed \in SUBSET {"run", "operator"} /\ history'.owed = owed
      /\ owed \subseteq history.owed
  BY <1>1 DEF ObservationInv, HistoryTypeOK
<1>4. CASE UNCHANGED ledger
  <2>1. /\ season' = season /\ records' = records /\ backlog' = backlog
        /\ lease' = lease /\ elsewhere' = elsewhere
    BY <1>4 DEF ledger
  <2>2. /\ now' \in Nat /\ now <= now' /\ lease'.fence \in Nat
        /\ lease.fence <= lease'.fence
        /\ season' \in SeasonRecord /\ season'.version >= season.version
    BY <1>1, <2>1, LedgerFacts DEF SeasonRecord
  <2>3. /\ session' \in [Sessions -> SessionRecord] /\ FencesAreSingle' /\ SessionsAreSound'
    BY <1>1, <1>3, <2>1, <2>2, IdleIsSession, SessionsStaySound DEF holdsLease
  <2>4. ReviewHasCause' /\ OwedIsKept'
    BY <1>3, <2>1 DEF ObservationInv, ReviewHasCause, reviewIsOpen, OwedIsKept
  <2> HIDE DEF owed
  <2>. QED BY <1>1, <1>3, <2>1, <2>2, <2>3, <2>4, SeasonStep
<1>5. CASE write # record /\ Commit(session[s].fence, write, NoWrites)
  <2>1. /\ decision \in {"completed", "retry", "review", "blocked", "durable", "stopped"}
        /\ decision = "review" => session[s].decision = "review"
        /\ decision = "stopped" => isStopped(record)
    BY <1>1, <1>2, <1>5 DEF mayDecide, DecisionIsSound, settleSeasonRecord
  <2>2. /\ write \in SeasonRecord
        /\ write.disposition =
             IF decision = "completed" THEN "none"
             ELSE IF decision \in {"review", "blocked"} THEN decision
             ELSE unresolvedBlock(session[s].previous)
        /\ write.due = IF decision = "completed" \/ ~isScheduled(s) THEN record.due
                       ELSE decision = "retry"
        /\ write.hold = record.hold
        /\ write.durable = (record.durable \/ decision = "durable")
    BY <1>2, <2>1, SettledSeason
  <2> HIDE DEF write
  <2>3. /\ holdsLease(session[s].fence) /\ SeasonFollows(season', write)
        /\ season' \in SeasonRecord /\ season'.version >= season.version
        /\ records' = records /\ backlog' = backlog
        /\ lease' = lease /\ elsewhere' = elsewhere
    BY <1>5, <2>2, SeasonCommitted
  <2>4. HolderIsCurrent(s) /\ record = season
    BY <1>2, <2>3 DEF HolderIsCurrent
  <2>5. /\ session' \in [Sessions -> SessionRecord] /\ FencesAreSingle' /\ SessionsAreSound'
    BY <1>1, <2>3, IdleIsSession, HolderSteps
  <2>6. /\ season'.disposition = write.disposition /\ season'.due = write.due
        /\ season'.hold = write.hold /\ season'.durable = write.durable
    BY <2>3 DEF SeasonFollows
  <2>7. ReviewHasCause'
    BY <2>1, <2>2, <2>3, <2>4, <2>6
       DEF ReviewHasCause, reviewIsOpen, HolderIsCurrent, unresolvedBlock
  <2>8. "operator" \in history'.owed => season'.due
    BY <1>1, <1>3, <2>1, <2>2, <2>4, <2>6 DEF ObservationInv, OwedIsKept, HolderIsCurrent
  <2>9. "run" \in history'.owed =>
          season'.due \/ season'.disposition # "none" \/ isStopped(season')
    <3>1. SUFFICES ASSUME "run" \in history'.owed
                   PROVE  season'.due \/ season'.disposition # "none" \/ isStopped(season')
      OBVIOUS
    <3>2. "run" \in history.owed /\ decision # "completed"
      BY <1>3, <3>1
    <3>3. CASE decision \in {"review", "blocked"}
      BY <2>2, <2>6, <3>3
    <3>4. CASE decision \in {"durable", "stopped"}
      BY <2>1, <2>2, <2>4, <2>6, <3>4 DEF isStopped
    <3>5. CASE decision = "retry" /\ isScheduled(s)
      BY <2>2, <2>6, <3>5
    <3>6. CASE decision = "retry" /\ ~isScheduled(s)
      <4>1. season.due \/ isStopped(season) \/ session[s].previous \in {"review", "blocked"}
        BY <1>1, <2>4, <3>2, <3>6 DEF HolderIsCurrent
      <4>. QED BY <2>2, <2>4, <2>6, <3>6, <4>1 DEF isStopped, unresolvedBlock
    <3>. QED BY <2>1, <3>2, <3>3, <3>4, <3>5, <3>6
  <2>10. OwedIsKept'
    BY <2>8, <2>9 DEF OwedIsKept
  <2> HIDE DEF owed
  <2>. QED BY <1>1, <1>3, <2>3, <2>5, <2>7, <2>10, SeasonStep
<1>. QED BY <1>1, <1>4, <1>5

-----------------------------------------------------------------------------
(* Steps that write records and leave them as they are for review *)

(* What the season, the sessions that have no lease, and the requests of others
   do not notice. *)
SameForReview(old, new) ==
  /\ SameButVersion(old, new) /\ new.version >= old.version

LEMMA SameForReviewIsSound ==
  ASSUME NEW old \in Record, NEW new, SameForReview(old, new), NEW at,
         RecordSound(old, at)
  PROVE  /\ new \in Record /\ RecordSound(new, at) /\ RecordFollows(old, new)
         /\ isInOperatorBacklog(new) = isInOperatorBacklog(old)
<1>1. new \in Record /\ RecordSound(new, at)
  BY SameButVersionIsSound DEF SameForReview
<1>2. RecordFollows(old, new)
  BY DEF SameForReview, SameButVersion, RecordFollows, supersededOf
<1>3. isInOperatorBacklog(new) = isInOperatorBacklog(old)
  BY DEF SameForReview, SameButVersion, isInOperatorBacklog
<1>. QED BY <1>1, <1>2, <1>3

(* The authority's revisions change nothing but what the record says is served. *)
LEMMA ReconciledRecords ==
  ASSUME ObservationInv, NEW s \in Sessions, NEW served \in Served,
         Reconcile(s, served), NEW r \in Rounds
  PROVE  /\ SameForReview(records[r], records'[r])
         /\ records'[r] = records[r] \/ records'[r].version >= 1
<1>1. records[r] \in Record /\ records[r].version \in Nat
  BY LedgerFacts DEF Record
<1>2. CASE records'[r] = records[r]
  BY <1>1, <1>2 DEF SameForReview, SameButVersion
<1>3. CASE records'[r] = bumped([records[r] EXCEPT !.published = served[r]])
  <2> DEFINE set == [records[r] EXCEPT !.published = served[r]]
  <2>1. served[r] \in RevisionOrNone
    BY SessionAssumption
  <2>2. SameButVersion(records[r], set) /\ set.version = records[r].version
    BY <1>1, <2>1, ServedIsSame
  <2> HIDE DEF set
  <2>3. SameButVersion(set, bumped(set)) /\ bumped(set).version = set.version + 1
    BY <2>2, BumpedIsSame DEF SameButVersion
  <2>4. SameButVersion(records[r], bumped(set))
    BY <2>2, <2>3 DEF SameButVersion
  <2>. QED BY <1>1, <1>3, <2>2, <2>3, <2>4 DEF SameForReview, set
<1>. QED BY <1>2, <1>3 DEF Reconcile, ReconcilePublished

LEMMA ReconcileKeeps ==
  ASSUME ObservationInv, NEW s \in Sessions, NEW served \in Served,
         Reconcile(s, served)
  PROVE  ObservationInv'
<1> DEFINE next == [session[s] EXCEPT !.pc = "reconciled", !.snap = snapshotNext]
<1>1. /\ session[s].pc = "leased" /\ isRun(s) /\ holdsLease(session[s].fence)
      /\ records' = [r \in Rounds |->
           IF records[r].version = 0 \/ served[r] = records[r].published
           THEN records[r]
           ELSE bumped([records[r] EXCEPT !.published = served[r]])]
      /\ lease' = lease /\ season' = season /\ backlog' = backlog
      /\ elsewhere' = elsewhere
      /\ session' = [session EXCEPT ![s] = next]
      /\ now' = now /\ request' = request /\ history' = history
  BY DEF Reconcile, ReconcilePublished, Await
<1>2. \A r \in Rounds :
        /\ SameForReview(records[r], records'[r])
        /\ records'[r] = records[r] \/ records'[r].version >= 1
  BY ReconciledRecords
<1>3. \A r \in Rounds :
        /\ records'[r] \in Record /\ RecordFollows(records[r], records'[r])
        /\ RecordSound(records'[r], now)
        /\ isInOperatorBacklog(records'[r]) = isInOperatorBacklog(records[r])
  BY <1>2, LedgerFacts, SameForReviewIsSound
<1>4. records' \in [Rounds -> Record]
  <2>1. records' = [r \in Rounds |-> records'[r]]
    BY <1>1
  <2>. QED BY <1>3, <2>1
<1>5. season' \in SeasonRecord /\ season'.version >= season.version
  BY <1>1, LedgerFacts DEF SeasonRecord
<1>6. /\ snapshotNext \in Snapshots /\ snapshotNext.season = season'
      /\ snapshotNext.records = records'
  BY <1>4, <1>5, SnapshotNextIsTyped
<1>7. /\ session[s] \in SessionRecord /\ FenceIsHandedOut(s) /\ HolderIsCurrent(s)
  BY <1>1, SessionFacts
<1>8. /\ next \in SessionRecord /\ next.pc = "reconciled"
      /\ next.fence = session[s].fence /\ next.snap = snapshotNext
      /\ next.work = session[s].work /\ next.previous = session[s].previous
      /\ next.decision = session[s].decision
  BY <1>6, <1>7 DEF SessionRecord
<1>9. session'[s] = next
  BY <1>1, LedgerFacts
<1> HIDE DEF next
<1>10. reviewIsOpen => reviewIsOpen'
  BY <1>3 DEF reviewIsOpen
<1>11. SessionIsSound(s)'
  <2>1. FenceIsHandedOut(s)' /\ PlanIsSound(s)' /\ DecisionIsSound(s)'
    BY <1>1, <1>6, <1>7, <1>8, <1>9
       DEF FenceIsHandedOut, PlanIsSound, DecisionIsSound, isRun
  <2>2. HolderIsCurrent(s)'
    BY <1>1, <1>6, <1>7, <1>8, <1>9, <1>10 DEF HolderIsCurrent
  <2>. QED BY <2>1, <2>2 DEF SessionIsSound
<1>12. /\ session' \in [Sessions -> SessionRecord] /\ FencesAreSingle' /\ SessionsAreSound'
  BY <1>1, <1>8, <1>11, HolderSteps
<1>13. BacklogHoldsStaged'
  BY <1>1, <1>2 DEF ObservationInv, BacklogHoldsStaged, backlogCount, waiting,
                    SameForReview, SameButVersion
<1>14. HistoryTypeOK' /\ ReviewHasCause' /\ OwedIsKept'
  BY <1>1, <1>10 DEF ObservationInv, HistoryTypeOK, ReviewHasCause, OwedIsKept
<1>15. AppliedArePassed'
  <2>1. ASSUME NEW op \in Operations, request[op] # None, isPassed(request[op])
        PROVE  isPassed(request[op])'
    BY <1>1, <1>3, <1>4, <1>5, <2>1, PassedStays
  <2>. QED BY <1>1, <2>1 DEF ObservationInv, AppliedArePassed
<1>16. SightingsAreVerifications' /\ DisplacedAreSuperseded' /\ TailsAreCounted'
  <2>1. \A r \in Rounds : SameButVersion(records[r], records'[r])
    BY <1>2 DEF SameForReview
  <2>2. SightingsAreVerifications'
    BY <1>1, <2>1 DEF ObservationInv, SightingsAreVerifications, isSightedBy, SameButVersion
  <2>3. DisplacedAreSuperseded'
    BY <1>1, <2>1 DEF ObservationInv, DisplacedAreSuperseded, supersededOf, SameButVersion
  <2>4. TailsAreCounted'
    BY <1>1, <2>1 DEF ObservationInv, TailsAreCounted, TailSupports, SameButVersion
  <2>. QED BY <2>2, <2>3, <2>4
<1>. QED BY <1>1, <1>2, <1>3, <1>4, <1>5, <1>12, <1>13, <1>14, <1>15, <1>16,
            LedgerFacts, LedgerStep

-----------------------------------------------------------------------------
(* Operators *)

LEMMA OperatorFacts ==
  ASSUME ObservationInv, NEW s \in Sessions, isOperator(s)
  PROVE  /\ session[s].pc # "idle" /\ session[s].work \in Operations
         /\ requestOf(s) = request[session[s].work] /\ requestOf(s) # None
         /\ requestOf(s) \in Requests /\ requestOf(s).op = session[s].work
<1>1. session[s].pc # "idle" /\ session[s].work \in Operations
  BY DEF isOperator
<1>2. request[session[s].work] # None
  BY <1>1, SessionFacts DEF FenceIsHandedOut
<1>. QED BY <1>1, <1>2 DEF requestOf, ObservationInv, RequestsAreNamed

LEMMA RecordReplaced ==
  ASSUME ObservationInv, NEW k \in Rounds, NEW new \in Record,
         records' = [records EXCEPT ![k] = new],
         RecordFollows(records[k], new), RecordSound(new, now), new.version >= 1
  PROVE  /\ records' \in [Rounds -> Record] /\ records'[k] = new
         /\ \A r \in Rounds \ {k} : records'[r] = records[r]
         /\ \A r \in Rounds :
              /\ RecordFollows(records[r], records'[r]) /\ RecordSound(records'[r], now)
              /\ records'[r] = records[r] \/ records'[r].version >= 1
<1>1. /\ records' \in [Rounds -> Record] /\ records'[k] = new
      /\ \A r \in Rounds \ {k} : records'[r] = records[r]
  BY LedgerFacts
<1>2. ASSUME NEW r \in Rounds
      PROVE  /\ RecordFollows(records[r], records'[r]) /\ RecordSound(records'[r], now)
             /\ records'[r] = records[r] \/ records'[r].version >= 1
  <2>1. CASE r = k
    BY <1>1, <2>1
  <2>2. CASE r # k
    BY <1>1, <2>2, LedgerFacts, SameRecordFollows
  <2>. QED BY <2>1, <2>2
<1>. QED BY <1>1, <1>2

(* An operation that takes effect had not, and will not again. *)
LEMMA AppliedOnce ==
  ASSUME ObservationInv, request' = request, records' \in [Rounds -> Record],
         season' \in SeasonRecord, season'.version >= season.version,
         \A r \in Rounds : RecordFollows(records[r], records'[r]),
         NEW op \in Operations, request[op] # None,
         ~isPassed(request[op]), isPassed(request[op])',
         history'.applied = countApplied(op),
         \A other \in Operations \ {op} :
           history'.returned[other] = history.returned[other]
  PROVE  /\ AppliedArePassed' /\ history.applied[op] = 0 /\ history.returned[op] = None
         /\ history'.applied \in [Operations -> 0 .. 2]
<1>1. history.applied \in [Operations -> 0 .. 2]
  BY DEF ObservationInv, HistoryTypeOK
<1>2. history.applied[op] = 0 /\ history.returned[op] = None
  BY <1>1 DEF ObservationInv, AppliedArePassed
<1>3. history'.applied = [history.applied EXCEPT ![op] = 1]
  BY <1>1, <1>2 DEF countApplied
<1>4. ASSUME NEW other \in Operations, request[other] # None, isPassed(request[other])
      PROVE  isPassed(request[other])'
  BY <1>4, PassedStays
<1>5. AppliedArePassed'
  <2>1. /\ history'.applied[op] = 1
        /\ \A other \in Operations \ {op} :
             history'.applied[other] = history.applied[other]
    BY <1>1, <1>3
  <2>. QED BY <1>4, <2>1 DEF ObservationInv, AppliedArePassed
<1>. QED BY <1>1, <1>2, <1>3, <1>5

LEMMA OperatedSeason ==
  ASSUME season \in SeasonRecord, NEW asked,
         asked.action \in SeasonActions, asked.op \in Operations
  PROVE  LET new == bumped(applyOperatorAction(asked)) IN
         /\ new \in SeasonRecord /\ new.version = season.version + 1
         /\ new.disposition = season.disposition
         /\ new.due = (season.due \/ asked.action # "hold")
         /\ new.hold = IF asked.action = "hold" THEN TRUE
                       ELSE IF asked.action = "release-hold" THEN FALSE ELSE season.hold
         /\ new.durable = (season.durable /\ asked.action # "clear-block")
<1> DEFINE made == applyOperatorAction(asked)
           hold == IF asked.action = "hold" THEN TRUE
                   ELSE IF asked.action = "release-hold" THEN FALSE ELSE season.hold
           durable == season.durable /\ asked.action # "clear-block"
           due == season.due \/ asked.action # "hold"
           action == [op |-> asked.op, action |-> asked.action]
<1>1. /\ hold \in BOOLEAN /\ durable \in BOOLEAN /\ due \in BOOLEAN
      /\ action \in [op : Operations, action : {"hold", "release-hold", "clear-block"}]
  BY DEF SeasonRecord, SeasonActions
<1>2. made = [season EXCEPT !.hold = hold, !.durable = durable, !.due = due,
                !.action = action]
  BY DEF applyOperatorAction
<1> HIDE DEF hold, durable, due, action, made
<1>3. /\ made \in SeasonRecord /\ made.version = season.version
      /\ made.disposition = season.disposition /\ made.due = due
      /\ made.hold = hold /\ made.durable = durable
  BY <1>1, <1>2 DEF SeasonRecord
<1>4. made.version + 1 \in Nat
  BY <1>3 DEF SeasonRecord
<1>5. /\ bumped(made) \in SeasonRecord /\ bumped(made).version = season.version + 1
      /\ bumped(made).disposition = made.disposition /\ bumped(made).due = made.due
      /\ bumped(made).hold = made.hold /\ bumped(made).durable = made.durable
  BY <1>3, <1>4 DEF bumped, SeasonRecord
<1>. QED BY <1>3, <1>5 DEF hold, durable, due, made

LEMMA SubmitActionKeeps ==
  ASSUME ObservationInv, NEW s \in Sessions, SubmitAction(s)
  PROVE  ObservationInv'
<1> PICK op \in Operations : op = session[s].work
  BY OperatorFacts DEF SubmitAction
<1> DEFINE asked == requestOf(s)
           owed == IF asked.action # "hold" THEN history.owed \union {"operator"}
                   ELSE history.owed
<1>1. /\ isOperator(s) /\ asked.action \in SeasonActions
      /\ holdsLease(session[s].fence) /\ asked.version = season.version
      /\ season' = bumped(applyOperatorAction(asked))
      /\ lease' = lease /\ records' = records /\ backlog' = backlog
      /\ elsewhere' = elsewhere
      /\ session' = [session EXCEPT ![s] = Idle]
      /\ history' = [history EXCEPT !.applied = countApplied(op), !.owed = owed]
      /\ now' = now /\ request' = request
  BY DEF SubmitAction, decodeOperatorActionRequest, SeasonActions, Operate, isCurrent,
         Await
<1>2. /\ session[s].pc # "idle" /\ op \in Operations /\ asked = request[op]
      /\ asked # None /\ asked.op = op
  BY <1>1, OperatorFacts
<1>3. /\ season' \in SeasonRecord /\ season'.version = season.version + 1
      /\ season'.disposition = season.disposition
      /\ season'.due = (season.due \/ asked.action # "hold")
      /\ season'.hold = IF asked.action = "hold" THEN TRUE
                        ELSE IF asked.action = "release-hold" THEN FALSE ELSE season.hold
      /\ season'.durable = (season.durable /\ asked.action # "clear-block")
  BY <1>1, <1>2, LedgerFacts, OperatedSeason
<1>4. season.version \in Nat /\ season'.version >= season.version
  BY <1>3, LedgerFacts DEF SeasonRecord
<1>5. /\ session' \in [Sessions -> SessionRecord] /\ FencesAreSingle' /\ SessionsAreSound'
  BY <1>1, <1>2, IdleIsSession, HolderSteps
<1>6. \A r \in Rounds :
        /\ RecordFollows(records[r], records'[r]) /\ RecordSound(records'[r], now)
        /\ records'[r] = records[r]
  BY <1>1, LedgerFacts, SameRecordFollows
<1>7. /\ history'.applied = countApplied(op) /\ history'.owed = owed
      /\ history'.tail = history.tail /\ history'.displaced = history.displaced
      /\ history'.returned = history.returned
      /\ owed \in SUBSET {"run", "operator"}
  BY <1>1 DEF ObservationInv, HistoryTypeOK
<1>8. /\ AppliedArePassed' /\ history'.applied \in [Operations -> 0 .. 2]
  <2>1. PICK given : /\ given = request[op] /\ given = request'[op]
                     /\ given.action \in SeasonActions /\ given.version = season.version
    BY <1>1, <1>2
  <2>2. season'.version > given.version /\ ~(season.version > given.version)
    BY <1>3, <1>4, <2>1
  <2>3. ~isPassed(request[op])
    BY <2>1, <2>2 DEF isPassed, SeasonActions, Dispositions
  <2>4. isPassed(request[op])'
    BY <2>1, <2>2 DEF isPassed, SeasonActions, Dispositions
  <2>5. request[op] # None
    BY <1>2
  <2>. QED BY <1>1, <1>2, <1>3, <1>4, <1>6, <1>7, <2>3, <2>4, <2>5, LedgerFacts, AppliedOnce
<1>9. HistoryTypeOK'
  <2>1. history' = [history EXCEPT !.applied = history'.applied, !.owed = owed]
    BY <1>1, <1>7
  <2> HIDE DEF owed
  <2>. QED BY <1>7, <1>8, <2>1 DEF ObservationInv, HistoryTypeOK
<1>10. OwedIsKept'
  <2>1. "operator" \in history'.owed => season'.due
    BY <1>3, <1>7 DEF ObservationInv, OwedIsKept
  <2>2. "run" \in history'.owed =>
          season'.due \/ season'.disposition # "none" \/ isStopped(season')
    <3>1. "run" \in history'.owed => "run" \in history.owed
      BY <1>7
    <3>. QED BY <1>1, <1>3, <3>1 DEF ObservationInv, OwedIsKept, isStopped, SeasonActions
  <2>. QED BY <2>1, <2>2 DEF OwedIsKept
<1>11. /\ ReviewHasCause' /\ SightingsAreVerifications' /\ DisplacedAreSuperseded'
       /\ TailsAreCounted' /\ BacklogHoldsStaged'
  BY <1>1, <1>3, <1>7
     DEF ObservationInv, ReviewHasCause, reviewIsOpen, SightingsAreVerifications,
         isSightedBy, DisplacedAreSuperseded, TailsAreCounted, BacklogHoldsStaged,
         backlogCount, waiting
<1>. QED BY <1>1, <1>3, <1>4, <1>5, <1>6, <1>8, <1>9, <1>10, <1>11, LedgerFacts, LedgerStep

LEMMA SubmitRotationKeeps ==
  ASSUME ObservationInv, NEW s \in Sessions, SubmitRotation(s)
  PROVE  ObservationInv'
<1> PICK op \in Operations : op = session[s].work
  BY OperatorFacts DEF SubmitRotation
<1> DEFINE asked == requestOf(s)
           k == asked.round
           old == records[k]
           next == rotatedRecord(old, asked.op)
           new == bumped(next)
<1>1. /\ isOperator(s) /\ asked.action = "rotate"
      /\ holdsLease(session[s].fence) /\ asked.version = old.version
      /\ Len(old.verifications) = MaximumVerifications
      /\ records' = [records EXCEPT ![k] = new]
      /\ lease' = lease /\ season' = season /\ backlog' = backlog
      /\ elsewhere' = elsewhere
      /\ session' = [session EXCEPT ![s] = Idle]
      /\ history' = [history EXCEPT !.applied = countApplied(op)]
      /\ now' = now /\ request' = request
  BY DEF SubmitRotation, RotateVerifications, isCurrent, Await
<1>2. /\ session[s].pc # "idle" /\ op \in Operations /\ asked = request[op]
      /\ asked # None /\ asked.op = op /\ asked \in Requests
  BY <1>1, OperatorFacts
<1>3. k \in Rounds /\ asked.version \in Nat
  BY <1>1, <1>2 DEF Requests, SeasonActions, Dispositions
<1>4. old \in Record /\ RecordSound(old, now)
  BY <1>3, LedgerFacts
<1> HIDE DEF asked, old, next, k
<1>5. Rotates(old, next, asked.op) /\ next \in Record /\ RecordSound(next, now)
  BY <1>1, <1>2, <1>4, RotationRotates, RotationIsSound DEF next
<1>6. SameButVersion(next, new) /\ new.version = next.version + 1
  BY <1>5, BumpedIsSame
<1> HIDE DEF new
<1>7. new \in Record /\ RecordSound(new, now)
  BY <1>5, <1>6, SameButVersionIsSound
<1>8. /\ old.version \in Nat /\ new.version = old.version + 1
      /\ old.generation \in Nat /\ new.generation = old.generation + 1
  BY <1>4, <1>5, <1>6 DEF Rotates, SameButVersion, Record
<1>9. RecordFollows(old, new)
  BY <1>5, <1>6, <1>8 DEF RecordFollows, Rotates, SameButVersion, supersededOf
<1>10. /\ records' \in [Rounds -> Record] /\ records'[k] = new
       /\ \A r \in Rounds \ {k} : records'[r] = records[r]
       /\ \A r \in Rounds :
            /\ RecordFollows(records[r], records'[r]) /\ RecordSound(records'[r], now)
            /\ records'[r] = records[r] \/ records'[r].version >= 1
  <2>1. new.version >= 1 /\ RecordFollows(records[k], new)
    BY <1>8, <1>9 DEF old
  <2>2. records' = [records EXCEPT ![k] = new]
    BY <1>1
  <2>. QED BY <1>3, <1>7, <2>1, <2>2, RecordReplaced
<1>11. /\ session' \in [Sessions -> SessionRecord] /\ FencesAreSingle' /\ SessionsAreSound'
  BY <1>1, <1>2, IdleIsSession, HolderSteps
<1>12. /\ history'.applied = countApplied(op) /\ history'.owed = history.owed
       /\ history'.tail = history.tail /\ history'.displaced = history.displaced
       /\ history'.returned = history.returned
  BY <1>1 DEF ObservationInv, HistoryTypeOK
<1>13. season' \in SeasonRecord /\ season'.version >= season.version
  BY <1>1, LedgerFacts DEF SeasonRecord
<1>14. /\ AppliedArePassed' /\ history'.applied \in [Operations -> 0 .. 2]
  <2>1. PICK given : /\ given = request[op] /\ given = request'[op]
                     /\ given.action = "rotate" /\ given.version = old.version
                     /\ given.round = k
    BY <1>1, <1>2 DEF k
  <2>2. /\ records'[given.round].version > given.version
        /\ ~(records[given.round].version > given.version)
    BY <1>8, <1>10, <2>1 DEF old
  <2>3. ~isPassed(request[op])
    BY <2>1, <2>2 DEF isPassed, SeasonActions, Dispositions
  <2>4. isPassed(request[op])'
    BY <2>1, <2>2 DEF isPassed, SeasonActions, Dispositions
  <2>5. request[op] # None
    BY <1>2
  <2>. QED BY <1>1, <1>2, <1>10, <1>12, <1>13, <2>3, <2>4, <2>5, AppliedOnce
<1>15. HistoryTypeOK'
  <2>1. history' = [history EXCEPT !.applied = history'.applied]
    BY <1>1, <1>12
  <2>. QED BY <1>14, <2>1 DEF ObservationInv, HistoryTypeOK
<1>16. /\ new.content = old.content /\ new.candidate = old.candidate
       /\ new.staged = old.staged /\ new.competing = old.competing
       /\ new.confirmations = old.confirmations /\ new.terminal = old.terminal
       /\ supersededOf(new) = supersededOf(old)
  BY <1>5, <1>6 DEF Rotates, SameButVersion, supersededOf
<1>17. \A r \in Rounds :
         /\ records'[r].content = records[r].content
         /\ records'[r].candidate = records[r].candidate
         /\ records'[r].staged = records[r].staged
         /\ records'[r].competing = records[r].competing
         /\ records'[r].confirmations = records[r].confirmations
         /\ records'[r].terminal = records[r].terminal
         /\ supersededOf(records'[r]) = supersededOf(records[r])
  BY <1>3, <1>10, <1>16 DEF old
<1>18. /\ ReviewHasCause' /\ OwedIsKept' /\ BacklogHoldsStaged'
  BY <1>1, <1>12, <1>17
     DEF ObservationInv, ReviewHasCause, reviewIsOpen, isInOperatorBacklog, OwedIsKept,
         BacklogHoldsStaged, backlogCount, waiting
<1>19. SightingsAreVerifications' /\ DisplacedAreSuperseded' /\ TailsAreCounted'
  BY <1>1, <1>12, <1>17
     DEF ObservationInv, SightingsAreVerifications, isSightedBy, DisplacedAreSuperseded,
         TailsAreCounted, TailSupports
<1>. QED BY <1>1, <1>10, <1>11, <1>13, <1>14, <1>15, <1>18, <1>19, LedgerFacts, LedgerStep

(* The record a verification leaves: one later, still held for review. *)
LEMMA VerifiedRecord ==
  ASSUME NEW old \in Record, NEW at, RecordSound(old, at), NEW op \in Operations,
         NEW outcome \in Revisions \union {"failed", "deferred"},
         old.staged # None, old.competing = None,
         Len(old.verifications) < MaximumVerifications,
         \A i \in DOMAIN old.verifications : old.verifications[i].op # op,
         old.reset # None => old.reset.op # op,
         NEW next, next = applyOperatorVerification(old, op, outcome),
         keepsHistory(old, next),
         NEW new, new = bumped(next)
  PROVE  /\ new \in Record /\ RecordSound(new, at) /\ RecordFollows(old, new)
         /\ Verifies(old, next, op, outcome) /\ SameButVersion(next, new)
         /\ new.version = old.version + 1
         /\ outcome # "deferred" =>
              \E i \in DOMAIN new.verifications : new.verifications[i].op = op
<1>1. Verifies(old, next, op, outcome)
  BY VerificationVerifies
<1>2. next \in Record /\ RecordSound(next, at) /\ next.version = old.version
  BY <1>1, VerificationIsSound DEF Verifies, KeepsStaged
<1>3. SameButVersion(next, new) /\ new.version = next.version + 1
  BY <1>2, BumpedIsSame
<1>4. new \in Record /\ RecordSound(new, at)
  BY <1>2, <1>3, SameButVersionIsSound
<1>5. /\ new.superseded = old.superseded /\ new.generation = old.generation
      /\ old.generation \in Nat /\ old.version \in Nat
      /\ new.verifications = next.verifications
  BY <1>1, <1>3 DEF Verifies, KeepsStaged, SameButVersion, Record
<1>6. CASE outcome = "deferred"
  <2>1. next = old
    BY <1>1, <1>6 DEF Verifies
  <2>. QED BY <1>1, <1>2, <1>3, <1>4, <1>5, <1>6, <2>1 DEF RecordFollows, supersededOf
<1>7. CASE outcome # "deferred"
  <2> DEFINE entry == [op |-> op, staged |-> old.staged]
             n == Len(old.verifications)
  <2>1. entry \in Verification /\ entry.op = op
    BY DEF Record, RevisionOrNone, Verification
  <2>2. old.verifications \in Histories
    BY DEF Record
  <2>3. new.verifications = Append(old.verifications, entry)
    BY <1>1, <1>5, <1>7 DEF Verifies
  <2> HIDE DEF entry
  <2>4. /\ n \in Nat /\ DOMAIN old.verifications = 1 .. n
        /\ DOMAIN new.verifications = 1 .. n + 1
        /\ \A i \in 1 .. n : new.verifications[i] = old.verifications[i]
        /\ new.verifications[n + 1] = entry
    BY <2>1, <2>2, <2>3, VerificationsGrow
  <2>5. n + 1 \in DOMAIN new.verifications /\ 1 .. n \subseteq 1 .. n + 1
    BY <2>4
  <2>6. \E i \in DOMAIN new.verifications : new.verifications[i].op = op
    BY <2>1, <2>4, <2>5
  <2>7. RecordFollows(old, new)
    BY <1>2, <1>3, <1>5, <2>4, <2>5 DEF RecordFollows, supersededOf
  <2>. QED BY <1>1, <1>2, <1>3, <1>4, <2>6, <2>7
<1>. QED BY <1>6, <1>7

LEMMA SubmitVerificationKeeps ==
  ASSUME ObservationInv, NEW s \in Sessions,
         NEW outcome \in Revisions \union {"failed", "deferred"},
         SubmitVerification(s, outcome)
  PROVE  ObservationInv'
<1> PICK op \in Operations : op = session[s].work
  BY OperatorFacts DEF SubmitVerification
<1> DEFINE asked == requestOf(s)
           k == asked.round
           old == records[k]
           next == applyOperatorVerification(old, asked.op, outcome)
           new == bumped(next)
           applied == IF outcome = "deferred" THEN history.applied
                      ELSE countApplied(asked.op)
           returned == [history.returned EXCEPT ![asked.op] =
                          IF @ = None /\ outcome \in Revisions THEN outcome ELSE @]
<1>1. /\ isOperator(s) /\ asked.action = "verify"
      /\ holdsLease(session[s].fence) /\ asked.generation = old.generation
      /\ ~recordedVerification(records, asked.op)
      /\ ~rotationRound(records, asked.op)
      /\ isVerifiable(old, asked.staged)
      /\ keepsHistory(old, next)
      /\ records' = [records EXCEPT ![k] = new]
      /\ lease' = lease /\ season' = season /\ backlog' = backlog
      /\ elsewhere' = elsewhere
      /\ session' = [session EXCEPT ![s] = Idle]
      /\ history' = [history EXCEPT !.applied = applied, !.returned = returned]
      /\ now' = now /\ request' = request
  <2>1. history.returned \in [Operations -> RevisionOrNone]
    BY DEF ObservationInv, HistoryTypeOK
  <2>. QED BY <2>1 DEF SubmitVerification, Verify, Await
<1>2. /\ session[s].pc # "idle" /\ asked = request[op]
      /\ asked # None /\ asked.op = op /\ asked \in Requests
  BY <1>1, OperatorFacts
<1>3. k \in Rounds /\ asked.generation \in Nat
  BY <1>1, <1>2 DEF Requests, SeasonActions, Dispositions
<1>4. old \in Record /\ RecordSound(old, now)
  BY <1>3, LedgerFacts
<1>5. /\ old.staged # None /\ old.competing = None
      /\ Len(old.verifications) < MaximumVerifications
      /\ \A i \in DOMAIN old.verifications : old.verifications[i].op # op
      /\ old.reset # None => old.reset.op # op
  BY <1>1, <1>2, <1>3 DEF isVerifiable, recordedVerification, rotationRound
<1>6. next = applyOperatorVerification(old, op, outcome)
  BY <1>2
<1>7. /\ applied = IF outcome = "deferred" THEN history.applied ELSE countApplied(op)
      /\ returned = [history.returned EXCEPT ![op] =
           IF @ = None /\ outcome \in Revisions THEN outcome ELSE @]
  BY <1>2
<1> HIDE DEF asked, old, next, k, applied, returned
<1>8. /\ new \in Record /\ RecordSound(new, now) /\ RecordFollows(old, new)
      /\ Verifies(old, next, op, outcome) /\ SameButVersion(next, new)
      /\ new.version = old.version + 1
      /\ outcome # "deferred" =>
           \E i \in DOMAIN new.verifications : new.verifications[i].op = op
  BY <1>1, <1>4, <1>5, <1>6, VerifiedRecord
<1> HIDE DEF new
<1>9. /\ records' \in [Rounds -> Record] /\ records'[k] = new
      /\ \A r \in Rounds \ {k} : records'[r] = records[r]
      /\ \A r \in Rounds :
           /\ RecordFollows(records[r], records'[r]) /\ RecordSound(records'[r], now)
           /\ records'[r] = records[r] \/ records'[r].version >= 1
  <2>1. new.version >= 1 /\ RecordFollows(records[k], new)
    BY <1>4, <1>8, SMTT(60) DEF old, Record
  <2>2. records' = [records EXCEPT ![k] = new]
    BY <1>1
  <2>. QED BY <1>3, <1>8, <2>1, <2>2, RecordReplaced
<1>10. /\ session' \in [Sessions -> SessionRecord] /\ FencesAreSingle' /\ SessionsAreSound'
  BY <1>1, <1>2, IdleIsSession, HolderSteps
<1>11. /\ history'.applied = applied /\ history'.owed = history.owed
       /\ history'.tail = history.tail /\ history'.displaced = history.displaced
       /\ history'.returned = returned
       /\ history.returned \in [Operations -> RevisionOrNone]
       /\ history.applied \in [Operations -> 0 .. 2]
  BY <1>1 DEF ObservationInv, HistoryTypeOK
<1>12. season' \in SeasonRecord /\ season'.version >= season.version
  BY <1>1, LedgerFacts DEF SeasonRecord
<1>13. /\ returned \in [Operations -> RevisionOrNone]
       /\ \A other \in Operations \ {op} : returned[other] = history.returned[other]
       /\ returned[op] = IF history.returned[op] = None /\ outcome \in Revisions
                         THEN outcome ELSE history.returned[op]
  BY <1>7, <1>11 DEF RevisionOrNone
<1>14. /\ AppliedArePassed' /\ applied \in [Operations -> 0 .. 2]
       /\ outcome # "deferred" => history.returned[op] = None
  <2>1. CASE outcome = "deferred"
    <3>1. applied = history.applied /\ returned[op] = history.returned[op]
      BY <1>7, <1>13, <2>1, KindAssumption
    <3>2. ASSUME NEW other \in Operations, request[other] # None, isPassed(request[other])
          PROVE  isPassed(request[other])'
      BY <1>1, <1>9, <1>12, <3>2, PassedStays
    <3>. QED BY <1>1, <1>11, <1>13, <2>1, <3>1, <3>2 DEF ObservationInv, AppliedArePassed
  <2>2. CASE outcome # "deferred"
    <3>1. PICK given : /\ given = request[op] /\ given = request'[op]
                       /\ given.action = "verify" /\ given.round = k /\ given.op = op
                       /\ given.generation = old.generation
      BY <1>1, <1>2 DEF k
    <3>2. new.generation = old.generation /\ old.generation \in Nat
      BY <1>4, <1>8 DEF Verifies, KeepsStaged, SameButVersion, Record
    <3>3. ~isPassed(request[op])
      BY <1>5, <3>1, <3>2 DEF isPassed, SeasonActions, Dispositions, old
    <3>4. isPassed(request[op])'
      BY <1>8, <1>9, <2>2, <3>1, <3>2 DEF isPassed, SeasonActions, Dispositions
    <3>5. request[op] # None
      BY <1>2
    <3>6. /\ history'.applied = countApplied(op)
          /\ \A other \in Operations \ {op} :
               history'.returned[other] = history.returned[other]
      BY <1>7, <1>11, <1>13, <2>2
    <3>. QED BY <1>1, <1>9, <1>11, <1>12, <3>3, <3>4, <3>5, <3>6, AppliedOnce
  <2>. QED BY <2>1, <2>2
<1>15. HistoryTypeOK'
  <2>1. history' = [history EXCEPT !.applied = applied, !.returned = returned]
    BY <1>1
  <2>. QED BY <1>13, <1>14, <2>1 DEF ObservationInv, HistoryTypeOK
<1>16. /\ new.content = old.content /\ new.staged = old.staged
       /\ new.terminal = old.terminal /\ supersededOf(new) = supersededOf(old)
       /\ new.candidate = next.candidate /\ new.competing = next.competing
  BY <1>8 DEF Verifies, KeepsStaged, SameButVersion, supersededOf
<1>17. \A r \in Rounds : /\ records'[r].staged = records[r].staged
                         /\ supersededOf(records'[r]) = supersededOf(records[r])
  BY <1>3, <1>9, <1>16 DEF old
<1>18. ReviewHasCause' /\ OwedIsKept' /\ BacklogHoldsStaged' /\ DisplacedAreSuperseded'
  <2>1. reviewIsOpen'
    BY <1>3, <1>5, <1>9, <1>16 DEF reviewIsOpen, isInOperatorBacklog
  <2>. QED BY <1>1, <1>11, <1>17, <2>1
        DEF ObservationInv, ReviewHasCause, OwedIsKept, BacklogHoldsStaged,
            backlogCount, waiting, DisplacedAreSuperseded
<1>19. TailsAreCounted'
  <2>1. old.terminal # "open"
    BY <1>4, <1>5 DEF RecordSound, KeepsRevisionsApart
  <2>2. TailSupports(records'[k], history.tail[k])
    BY <1>5, <1>9, <1>16, <2>1 DEF TailSupports
  <2>. QED BY <1>3, <1>9, <1>11, <2>2 DEF ObservationInv, TailsAreCounted
<1>20. SightingsAreVerifications'
  <2> DEFINE seen(w, r, revision) ==
               /\ request'[w] # None /\ request'[w].action = "verify"
               /\ request'[w].round = r /\ history'.returned[w] = revision
  <2>1. ASSUME NEW w \in Operations, NEW r \in Rounds, NEW revision,
               revision # None, isSightedBy(w, r, revision)
        PROVE  seen(w, r, revision) /\ (outcome # "deferred" => w # op)
    BY <1>1, <1>11, <1>13, <1>14, <2>1 DEF isSightedBy
  <2>2. outcome \in Revisions => seen(op, k, outcome)
    <3>1. outcome \in Revisions => outcome # "deferred"
      BY KindAssumption
    <3>. QED BY <1>1, <1>2, <1>11, <1>13, <1>14, <3>1 DEF k
  <2> HIDE DEF seen
  <2>3. ASSUME NEW r \in Rounds
        PROVE  /\ records[r].staged # None /\ records[r].candidate # None =>
                    \E w \in Operations : seen(w, r, records[r].candidate)
               /\ records[r].competing # None =>
                    \E first, second \in Operations :
                      /\ first # second
                      /\ seen(first, r, records[r].competing)
                      /\ seen(second, r, records[r].competing)
    BY <2>1 DEF ObservationInv, SightingsAreVerifications
  <2>4. new.candidate # None => \E w \in Operations : seen(w, k, new.candidate)
    <3>1. old.candidate # None => \E w \in Operations : seen(w, k, old.candidate)
      BY <1>3, <1>5, <2>3 DEF old
    <3>2. \/ new.candidate = None \/ new.candidate = old.candidate
          \/ outcome \in Revisions /\ new.candidate = outcome
      <4>1. Verifies(old, next, op, outcome) /\ new.candidate = next.candidate
        BY <1>8, <1>16
      <4>2. CASE outcome = "deferred"
        BY <4>1, <4>2 DEF Verifies
      <4>3. CASE outcome # "deferred"
        BY <4>1, <4>3 DEF Verifies
      <4>. QED BY <4>2, <4>3
    <3>. QED BY <2>2, <3>1, <3>2
  <2>5. new.competing # None =>
          \E first, second \in Operations :
            /\ first # second
            /\ seen(first, k, new.competing) /\ seen(second, k, new.competing)
    <3>1. SUFFICES ASSUME new.competing # None
                   PROVE  \E first, second \in Operations :
                            /\ first # second
                            /\ seen(first, k, new.competing)
                            /\ seen(second, k, new.competing)
      OBVIOUS
    <3>2. /\ outcome \in Revisions /\ outcome # "deferred"
          /\ new.competing = outcome /\ outcome = old.candidate
      BY <1>5, <1>8, <1>16, <3>1, KindAssumption DEF Verifies
    <3>3. old.candidate # None
      BY <3>1, <3>2
    <3>4. PICK w \in Operations : isSightedBy(w, k, old.candidate)
      BY <1>3, <1>5, <3>3 DEF ObservationInv, SightingsAreVerifications, old
    <3>5. seen(w, k, old.candidate) /\ w # op
      BY <1>3, <2>1, <3>2, <3>3, <3>4
    <3>. QED BY <2>2, <3>2, <3>5
  <2>6. ASSUME NEW r \in Rounds
        PROVE  /\ records'[r].staged # None /\ records'[r].candidate # None =>
                    \E w \in Operations : seen(w, r, records'[r].candidate)
               /\ records'[r].competing # None =>
                    \E first, second \in Operations :
                      /\ first # second
                      /\ seen(first, r, records'[r].competing)
                      /\ seen(second, r, records'[r].competing)
    <3>1. CASE r = k
      BY <1>9, <2>4, <2>5, <3>1
    <3>2. CASE r # k
      <4>1. records'[r] = records[r]
        BY <1>9, <3>2
      <4>. QED BY <2>3, <4>1
    <3>. QED BY <3>1, <3>2
  <2>. QED BY <2>6 DEF SightingsAreVerifications, isSightedBy, seen
<1>. QED BY <1>1, <1>9, <1>10, <1>12, <1>14, <1>15, <1>18, <1>19, <1>20,
            LedgerFacts, LedgerStep

(* The last disposition of a season held for review makes its release due. *)
LEMMA SeasonIsFreed ==
  ASSUME season \in SeasonRecord, NEW round
  PROVE  LET new == seasonAfterDisposition(round) IN
         /\ new \in SeasonRecord /\ new.version >= season.version
         /\ new.hold = season.hold /\ new.durable = season.durable
         /\ \/ /\ new = season
               /\ season.disposition = "review" =>
                    \E r \in Rounds \ {round} : isInOperatorBacklog(records[r])
            \/ new.disposition = "none" /\ new.due = TRUE
<1> DEFINE freed == [season EXCEPT !.disposition = "none", !.due = TRUE]
<1>1. season.version \in Nat /\ season.version + 1 \in Nat
  BY DEF SeasonRecord
<1>2. /\ freed \in SeasonRecord /\ freed.version = season.version
      /\ freed.hold = season.hold /\ freed.durable = season.durable
      /\ freed.disposition = "none" /\ freed.due = TRUE
  BY DEF SeasonRecord
<1> HIDE DEF freed
<1>3. /\ bumped(freed) \in SeasonRecord /\ bumped(freed).version = season.version + 1
      /\ bumped(freed).hold = season.hold /\ bumped(freed).durable = season.durable
      /\ bumped(freed).disposition = "none" /\ bumped(freed).due = TRUE
  BY <1>1, <1>2 DEF bumped, SeasonRecord
<1>. QED BY <1>1, <1>3 DEF seasonAfterDisposition, freed

(* The record a disposition leaves: one later, out of the backlog. *)
LEMMA DisposedRecord ==
  ASSUME NEW old \in Record, NEW at, RecordSound(old, at), NEW op \in Operations,
         NEW action \in Dispositions, NEW content, NEW staged, NEW competing,
         isDisposable(old, action, content, staged, competing),
         NEW next, next = applyDisposition(old, op, action),
         keepsHistory(old, next),
         NEW new, new = bumped(next)
  PROVE  /\ new \in Record /\ RecordSound(new, at) /\ RecordFollows(old, new)
         /\ new.version = old.version + 1 /\ old.terminal # "open"
         /\ new.candidate = None /\ new.staged = None /\ new.competing = None
         /\ new.terminal = old.terminal /\ new.disposition = op
         /\ supersededOf(new) = supersededOf(old) \union {turnedDown(old, action)}
         /\ turnedDown(old, action) \in Revisions
<1>1. Disposes(old, next, op, action) /\ old.staged # None
  BY DispositionDisposes DEF isDisposable
<1>2. next \in Record /\ RecordSound(next, at) /\ next.version = old.version
  BY <1>1, DispositionIsSound DEF Disposes
<1>3. SameButVersion(next, new) /\ new.version = next.version + 1
  BY <1>2, BumpedIsSame
<1>4. new \in Record /\ RecordSound(new, at)
  BY <1>2, <1>3, SameButVersionIsSound
<1>5. old.version \in Nat /\ old.terminal # "open"
  BY <1>1 DEF Record, RecordSound, KeepsRevisionsApart
<1>6. /\ new.candidate = None /\ new.staged = None /\ new.competing = None
      /\ new.terminal = old.terminal /\ new.disposition = op
      /\ new.verifications = old.verifications /\ new.generation = old.generation
      /\ supersededOf(new) = supersededOf(old) \union {turnedDown(old, action)}
      /\ turnedDown(old, action) \in Revisions
  BY <1>1, <1>3 DEF Disposes, SameButVersion, supersededOf
<1>7. RecordFollows(old, new)
  BY <1>2, <1>3, <1>5, <1>6 DEF RecordFollows
<1>. QED BY <1>2, <1>3, <1>4, <1>5, <1>6, <1>7

LEMMA SubmitDispositionKeeps ==
  ASSUME ObservationInv, NEW s \in Sessions, SubmitDisposition(s)
  PROVE  ObservationInv'
<1> PICK op \in Operations : op = session[s].work
  BY OperatorFacts DEF SubmitDisposition
<1> DEFINE asked == requestOf(s)
           k == asked.round
           old == records[k]
           next == applyDisposition(old, asked.op, asked.action)
           new == bumped(next)
           down == IF asked.action = "retain-published" THEN asked.staged ELSE old.content
           displaced == [history.displaced EXCEPT ![k] = @ \union {down}]
           owed == IF season'.due /\ ~season.due THEN history.owed \union {"operator"}
                   ELSE history.owed
<1>1. /\ isOperator(s) /\ asked.action \in Dispositions
      /\ holdsLease(session[s].fence) /\ asked.version = old.version
      /\ isDisposable(old, asked.action, asked.content, asked.staged, asked.competing)
      /\ keepsHistory(old, next)
      /\ records' = [records EXCEPT ![k] = new]
      /\ backlog' = [backlog EXCEPT ![k] = None]
      /\ season' = seasonAfterDisposition(k)
      /\ lease' = lease /\ elsewhere' = elsewhere
      /\ session' = [session EXCEPT ![s] = Idle]
      /\ history' = [history EXCEPT !.applied = countApplied(op),
                       !.displaced = displaced, !.owed = owed]
      /\ now' = now /\ request' = request
  BY DEF SubmitDisposition, decodeDispositionRequest, Dispose, isCurrent, Await
<1>2. /\ session[s].pc # "idle" /\ asked = request[op]
      /\ asked # None /\ asked.op = op /\ asked \in Requests
  BY <1>1, OperatorFacts
<1>3. k \in Rounds /\ asked.version \in Nat
  BY <1>1, <1>2 DEF Requests, SeasonActions, Dispositions
<1>4. old \in Record /\ RecordSound(old, now)
  BY <1>3, LedgerFacts
<1>5. down = turnedDown(old, asked.action)
  BY <1>1 DEF isDisposable, turnedDown
<1>6. next = applyDisposition(old, op, asked.action)
  BY <1>2
<1> HIDE DEF asked, old, next, k, down, displaced, owed
<1>7. /\ new \in Record /\ RecordSound(new, now) /\ RecordFollows(old, new)
      /\ new.version = old.version + 1 /\ old.terminal # "open"
      /\ new.candidate = None /\ new.staged = None /\ new.competing = None
      /\ new.terminal = old.terminal
      /\ supersededOf(new) = supersededOf(old) \union {down} /\ down \in Revisions
  BY <1>1, <1>4, <1>5, <1>6, DisposedRecord
<1> HIDE DEF new
<1>8. old.version \in Nat
  BY <1>4 DEF Record
<1>9. /\ records' \in [Rounds -> Record] /\ records'[k] = new
      /\ \A r \in Rounds \ {k} : records'[r] = records[r]
      /\ \A r \in Rounds :
           /\ RecordFollows(records[r], records'[r]) /\ RecordSound(records'[r], now)
           /\ records'[r] = records[r] \/ records'[r].version >= 1
  <2>1. new.version >= 1 /\ RecordFollows(records[k], new)
    BY <1>7, <1>8 DEF old
  <2>2. records' = [records EXCEPT ![k] = new]
    BY <1>1
  <2>. QED BY <1>3, <1>7, <2>1, <2>2, RecordReplaced
<1>10. /\ session' \in [Sessions -> SessionRecord] /\ FencesAreSingle' /\ SessionsAreSound'
  BY <1>1, <1>2, IdleIsSession, HolderSteps
<1>11. /\ history'.applied = countApplied(op) /\ history'.owed = owed
       /\ history'.tail = history.tail /\ history'.displaced = displaced
       /\ history'.returned = history.returned
       /\ history.displaced \in [Rounds -> SUBSET Revisions]
       /\ history.owed \in SUBSET {"run", "operator"}
  BY <1>1 DEF ObservationInv, HistoryTypeOK
<1>12. /\ season' \in SeasonRecord /\ season'.version >= season.version
       /\ season'.hold = season.hold /\ season'.durable = season.durable
       /\ \/ /\ season' = season
             /\ season.disposition = "review" =>
                  \E r \in Rounds \ {k} : isInOperatorBacklog(records[r])
          \/ season'.disposition = "none" /\ season'.due = TRUE
  BY <1>1, LedgerFacts, SeasonIsFreed
<1>13. /\ AppliedArePassed' /\ history'.applied \in [Operations -> 0 .. 2]
  <2>1. PICK given : /\ given = request[op] /\ given = request'[op]
                     /\ given.action \in Dispositions /\ given.version = old.version
                     /\ given.round = k
    BY <1>1, <1>2 DEF k
  <2>2. /\ records'[given.round].version > given.version
        /\ ~(records[given.round].version > given.version)
    BY <1>7, <1>8, <1>9, <2>1 DEF old
  <2>3. ~isPassed(request[op])
    BY <2>1, <2>2 DEF isPassed, SeasonActions, Dispositions
  <2>4. isPassed(request[op])'
    BY <2>1, <2>2 DEF isPassed, SeasonActions, Dispositions
  <2>5. request[op] # None
    BY <1>2
  <2>. QED BY <1>1, <1>9, <1>11, <1>12, <2>3, <2>4, <2>5, AppliedOnce
<1>14. /\ displaced \in [Rounds -> SUBSET Revisions]
       /\ displaced[k] = history.displaced[k] \union {down}
       /\ \A r \in Rounds \ {k} : displaced[r] = history.displaced[r]
  BY <1>3, <1>7, <1>11 DEF displaced
<1>15. owed \in SUBSET {"run", "operator"}
  BY <1>11 DEF owed
<1>16. HistoryTypeOK'
  <2>1. history' = [history EXCEPT !.applied = history'.applied,
                      !.displaced = displaced, !.owed = owed]
    BY <1>1, <1>11
  <2>. QED BY <1>13, <1>14, <1>15, <2>1 DEF ObservationInv, HistoryTypeOK
<1>17. OwedIsKept'
  <2>1. /\ "operator" \in owed => "operator" \in history.owed \/ season'.due
        /\ "run" \in owed => "run" \in history.owed
    BY DEF owed
  <2>. QED BY <1>11, <1>12, <2>1 DEF ObservationInv, OwedIsKept, isStopped
<1>18. ReviewHasCause'
  <2>1. SUFFICES ASSUME season'.disposition = "review" PROVE reviewIsOpen'
    BY DEF ReviewHasCause
  <2>2. PICK r \in Rounds \ {k} : isInOperatorBacklog(records[r])
    BY <1>12, <2>1
  <2>3. records'[r] = records[r]
    BY <1>9
  <2>. QED BY <2>2, <2>3 DEF reviewIsOpen, isInOperatorBacklog
<1>19. /\ BacklogHoldsStaged' /\ backlog' \in [Rounds -> RevisionOrNone]
  <2>1. backlog \in [Rounds -> RevisionOrNone]
    BY LedgerFacts
  <2>2. /\ backlog' \in [Rounds -> RevisionOrNone] /\ backlog'[k] = None
        /\ \A r \in Rounds \ {k} : backlog'[r] = backlog[r]
    BY <1>1, <1>3, <2>1 DEF RevisionOrNone
  <2>3. \A r \in Rounds : backlog'[r] = records'[r].staged
    BY <1>7, <1>9, <2>2 DEF ObservationInv, BacklogHoldsStaged
  <2>4. waiting' \subseteq waiting /\ waiting \in SUBSET Rounds
    BY <2>2 DEF waiting
  <2>5. /\ Cardinality(waiting') <= Cardinality(waiting)
        /\ Cardinality(waiting') \in Nat /\ Cardinality(waiting) \in Nat
    <3>1. waiting' \in SUBSET Rounds
      BY <2>4
    <3>. QED BY <2>4, <3>1, WaitingIsCounted, FS_Subset
  <2>6. backlogCount' <= BacklogCapacity
    BY <1>1, <2>5, LedgerFacts, LedgerAssumption DEF backlogCount
  <2>. QED BY <2>2, <2>3, <2>6 DEF BacklogHoldsStaged
<1>20. SightingsAreVerifications'
  <2>1. ASSUME NEW r \in Rounds
        PROVE  /\ records'[r].staged # None => records'[r] = records[r]
               /\ records'[r].competing # None => records'[r] = records[r]
    BY <1>7, <1>9
  <2>. QED BY <1>1, <1>11, <2>1
        DEF ObservationInv, SightingsAreVerifications, isSightedBy
<1>21. DisplacedAreSuperseded'
  <2>1. ASSUME NEW r \in Rounds PROVE displaced[r] \subseteq supersededOf(records'[r])
    <3>1. CASE r = k
      BY <1>3, <1>7, <1>9, <1>14, <3>1 DEF ObservationInv, DisplacedAreSuperseded, old
    <3>2. CASE r # k
      BY <1>9, <1>14, <3>2 DEF ObservationInv, DisplacedAreSuperseded
    <3>. QED BY <3>1, <3>2
  <2>. QED BY <1>11, <2>1 DEF DisplacedAreSuperseded, supersededOf
<1>22. TailsAreCounted'
  <2>1. TailSupports(records'[k], history.tail[k])
    BY <1>7, <1>9 DEF TailSupports
  <2>. QED BY <1>3, <1>9, <1>11, <2>1 DEF ObservationInv, TailsAreCounted
<1>. QED BY <1>1, <1>9, <1>10, <1>12, <1>13, <1>16, <1>17, <1>18, <1>19, <1>20, <1>21,
            <1>22, LedgerFacts, LedgerStep

-----------------------------------------------------------------------------
(* An observation commit *)

(* A check starts from the stored record, unless nothing was observed for it
   and the calendar moved its race. *)
baseOf(s, r) == rescheduled(recordOf(session[s].snap, r), session[s].plan[r].anchor)

StartsFrom(old, base) ==
  /\ base \in Record /\ SameReview(old, base)
  /\ base.superseded = old.superseded
  /\ base.content = old.content /\ base.candidate = old.candidate
  /\ base.staged = old.staged /\ base.confirmations = old.confirmations
  /\ old.content # None => base = old
  /\ base.terminal = "settled" => old.terminal = "settled"

LEMMA BaseIsSound ==
  ASSUME ObservationInv, NEW s \in Sessions, session[s].pc = "observing",
         holdsLease(session[s].fence), NEW r \in planned(s)
  PROVE  /\ StartsFrom(records[r], baseOf(s, r)) /\ RecordSound(baseOf(s, r), now)
         /\ CheckIsDue(baseOf(s, r), session[s].plan[r], now)
<1> DEFINE snap == session[s].snap
           old == records[r]
           check == session[s].plan[r]
           read == recordOf(snap, r)
           base == baseOf(s, r)
<1>1. /\ r \in Rounds /\ snap.records = records /\ snap.season = season
      /\ PlanIsSound(s) /\ check # NoCheck
  BY SessionFacts DEF planned, HolderIsCurrent, NoCheck
<1>2. old \in Record /\ RecordSound(old, now) /\ now \in Nat
  BY <1>1, LedgerFacts
<1>3. season.calendar[r] \in Nat
  BY <1>1, LedgerFacts, PolicyAssumption DEF SeasonRecord
<1>4. read = IF old.version = 0 THEN newClassificationRecord(season.calendar[r]) ELSE old
  BY <1>1 DEF recordOf
<1>5. PICK at \in 0 .. now :
        check = plannedCheck(read, season.calendar[r], at, session[s].work)
  BY <1>1 DEF PlanIsSound
<1>6. at \in Nat /\ at <= now
  BY <1>2
<1>7. old.version = 0 => old = newClassificationRecord(old.anchor)
  BY <1>1 DEF ObservationInv, RecordsAreSound
<1> HIDE DEF snap, old, check, read
<1>8. read \in Record /\ RecordSound(read, now)
  BY <1>2, <1>3, <1>4, NewRecordIsSound
<1>9. check.anchor \in Nat /\ CheckIsDue(rescheduled(read, check.anchor), check, at)
  BY <1>1, <1>3, <1>5, <1>6, <1>8, PlannedCheckIsDue
<1>10. base = rescheduled(read, check.anchor)
  BY DEF baseOf, snap, check, read
<1>11. /\ base \in Record /\ RecordSound(base, now) /\ SameReview(read, base)
       /\ base.superseded = read.superseded
       /\ base.content = read.content /\ base.candidate = read.candidate
       /\ base.staged = read.staged /\ base.confirmations = read.confirmations
       /\ read.content # None => base = read
       /\ base.terminal = "settled" => read.terminal = "settled"
  BY <1>8, <1>9, <1>10, RescheduledIsSound
<1> HIDE DEF base
<1>12. CheckIsDue(base, check, now)
  <2>1. CheckIsDue(base, check, at)
    BY <1>9, <1>10
  <2>2. base.anchor \in Nat /\ FinalSlot \in Nat
    BY <1>11, BoundsAreNaturals DEF Record
  <2>. QED BY <1>2, <1>6, <2>1, <2>2 DEF CheckIsDue
<1>13. StartsFrom(old, base)
  <2>1. CASE old.version # 0
    BY <1>4, <1>11, <2>1 DEF StartsFrom
  <2>2. CASE old.version = 0
    <3>1. /\ SameReview(old, read) /\ read.superseded = old.superseded
          /\ read.content = None /\ old.content = None
          /\ read.candidate = old.candidate
          /\ read.staged = old.staged /\ read.confirmations = old.confirmations
          /\ read.terminal = old.terminal
      BY <1>4, <1>7, <2>2 DEF newClassificationRecord, SameReview
    <3>. QED BY <1>11, <3>1 DEF StartsFrom, SameReview
  <2>. QED BY <2>1, <2>2
<1>. QED BY <1>11, <1>12, <1>13 DEF old, check, base

(* What a check may do to a record: nothing operators decide, and nothing a
   count of observations in a row does not support. *)
FollowsRun(old, new, tail, at) ==
  /\ new \in Record /\ RecordSound(new, at)
  /\ SameReview(old, new) /\ KeepsHistoryOf(old, new) /\ Remembers(old, new)
  /\ old.content # None => new.content # None
  /\ old.staged # None => new.staged = old.staged /\ new.candidate = old.candidate
  /\ new.staged # old.staged => new.candidate = None
  /\ SettlesWithCount(old, new, tail)

LEMMA CheckedFollows ==
  ASSUME ObservationInv, NEW s \in Sessions, session[s].pc = "observing",
         holdsLease(session[s].fence), NEW r \in planned(s),
         NEW outcomes \in [planned(s) -> Outcomes], NEW room \in BOOLEAN
  PROVE  /\ FollowsRun(records[r], checked(s, outcomes, r, room),
                       extended(history.tail[r], s, outcomes, r), now)
         /\ outcomes[r] = "not-attempted" =>
              checked(s, outcomes, r, room).content = records[r].content
<1> DEFINE old == records[r]
           base == baseOf(s, r)
           check == session[s].plan[r]
           outcome == outcomes[r]
           new == checked(s, outcomes, r, room)
           before == history.tail[r]
           tail == extended(history.tail[r], s, outcomes, r)
<1>1. StartsFrom(old, base) /\ RecordSound(base, now) /\ CheckIsDue(base, check, now)
  BY BaseIsSound
<1>2. new = applyClassificationCheck(base, check, outcome, room)
  BY DEF checked, baseOf
<1>3. /\ r \in Rounds /\ outcome \in Outcomes /\ now \in Nat
      /\ old \in Record /\ RecordSound(old, now) /\ session[s].snap.records = records
  BY LedgerFacts, SessionFacts DEF planned, HolderIsCurrent
<1>4. before.count \in Nat /\ TailSupports(old, before)
  BY <1>3 DEF ObservationInv, HistoryTypeOK, TailsAreCounted
<1>5. tail = nextTail(before, old, check, outcome)
  BY <1>3 DEF extended, nextTail
<1> HIDE DEF old, base, check, outcome, new, before, tail
<1>6. base \in Record
  BY <1>1 DEF StartsFrom
<1>7. Observable(base) /\ ReceiptsAgree(base) /\ KeepsCadence(base, now)
  BY <1>1, <1>6, SoundIsObservable
<1>8. TailSupports(base, before)
  <2>1. old.content = None => old.confirmations = 0
    BY <1>3 DEF RecordSound, KeepsRevisionsApart
  <2>. QED BY <1>1, <1>4, <2>1 DEF StartsFrom, TailSupports
<1>9. tail = nextTail(before, base, check, outcome)
  BY <1>1, <1>5
     DEF StartsFrom, SameReview, nextTail, isInOperatorBacklog, isReconciling, isSettled
<1>10. FollowsCheck(base, new, now)
  BY <1>1, <1>2, <1>3, <1>7, CheckFollows
<1>11. SettlesWithCount(base, new, tail)
  BY <1>1, <1>2, <1>3, <1>4, <1>7, <1>8, <1>9, CheckCorroborates
<1>12. /\ new.staged # base.staged => new.candidate = None
       /\ base.content = None => new.staged = None
  BY <1>2, <1>3, <1>7, CheckStagesWhole
<1>13. Remembers(base, new) /\ (outcome = "not-attempted" => new = base)
  BY <1>2, <1>3, <1>7, CheckRemembers
<1>14. new \in Record /\ RecordSound(new, now)
  <2>1. ReceiptsAgree(new)
    BY <1>7, <1>10, SameReceiptsAgree DEF FollowsCheck
  <2>. QED BY <1>10, <2>1, ObservableIsSound DEF FollowsCheck
<1>15. SameReview(old, new)
  BY <1>1, <1>10 DEF StartsFrom, FollowsCheck, SameReview
<1>16. KeepsHistoryOf(old, new) /\ Remembers(old, new)
  BY <1>1, <1>10, <1>13
     DEF StartsFrom, FollowsCheck, KeepsHistoryOf, Remembers, supersededOf
<1>17. SettlesWithCount(old, new, tail)
  BY <1>1, <1>11, <1>12 DEF SettlesWithCount, StartsFrom
<1>18. /\ old.content # None => new.content # None
       /\ old.staged # None => new.staged = old.staged /\ new.candidate = old.candidate
       /\ new.staged # old.staged => new.candidate = None
       /\ outcome = "not-attempted" => new.content = old.content
  BY <1>1, <1>10, <1>12, <1>13 DEF StartsFrom, FollowsCheck
<1>. QED BY <1>14, <1>15, <1>16, <1>17, <1>18
      DEF FollowsRun, old, new, tail, outcome

LEMMA RunFollows ==
  ASSUME ObservationInv, NEW s \in Sessions, session[s].pc = "observing",
         holdsLease(session[s].fence), NEW outcomes \in [planned(s) -> Outcomes],
         NEW r \in planned(s)
  PROVE  LET new == recordRunObservations(s, outcomes)[r] IN
         /\ FollowsRun(records[r], new, extended(history.tail[r], s, outcomes, r), now)
         /\ outcomes[r] = "not-attempted" => new.content = records[r].content
<1> DEFINE new == recordRunObservations(s, outcomes)[r]
<1>1. new = checked(s, outcomes, r, hasRoom(s, outcomes, r))
  BY DEF recordRunObservations
<1>2. hasRoom(s, outcomes, r) \in BOOLEAN
  BY DEF hasRoom
<1> HIDE DEF new
<1>3. /\ FollowsRun(records[r], new, extended(history.tail[r], s, outcomes, r), now)
      /\ outcomes[r] = "not-attempted" => new.content = records[r].content
  BY <1>1, <1>2, CheckedFollows
<1>. QED BY <1>3 DEF new

(* What one observation commit leaves of a round. *)
ObservedAs(old, new, tail, at) ==
  /\ new \in Record /\ RecordSound(new, at) /\ RecordFollows(old, new)
  /\ new = old \/ new.version >= 1
  /\ new.competing = old.competing /\ new.disposition = old.disposition
  /\ Remembers(old, new)
  /\ old.staged # None => new.staged = old.staged /\ new.candidate = old.candidate
  /\ new.staged # old.staged => new.candidate = None
  /\ SettlesWithCount(old, new, tail)

LEMMA UnwrittenIsObserved ==
  ASSUME NEW old \in Record, NEW at, RecordSound(old, at), NEW tail,
         TailSupports(old, tail)
  PROVE  ObservedAs(old, old, tail, at)
BY SameRecordFollows DEF ObservedAs, Remembers, SettlesWithCount

LEMMA WrittenIsObserved ==
  ASSUME NEW old \in Record, NEW at, NEW tail, NEW mid, FollowsRun(old, mid, tail, at),
         NEW new, new = bumped(mid)
  PROVE  ObservedAs(old, new, tail, at)
<1>1. mid \in Record /\ RecordSound(mid, at) /\ mid.version = old.version
  BY DEF FollowsRun, SameReview
<1>2. SameButVersion(mid, new) /\ new.version = mid.version + 1
  BY <1>1, BumpedIsSame
<1>3. new \in Record /\ RecordSound(new, at)
  BY <1>1, <1>2, SameButVersionIsSound
<1>4. old.version \in Nat /\ new.version >= 1 /\ new.version >= old.version
  BY <1>1, <1>2, SMTT(60) DEF Record
<1>5. RecordFollows(old, new)
  BY <1>2, <1>4
     DEF FollowsRun, SameReview, KeepsHistoryOf, RecordFollows, SameButVersion, supersededOf
<1>6. SettlesWithCount(old, new, tail)
  BY <1>2 DEF FollowsRun, SettlesWithCount, TailSupports, SameButVersion
<1>7. Remembers(old, new)
  BY <1>2 DEF FollowsRun, Remembers, SameButVersion, supersededOf
<1>8. /\ new.competing = old.competing /\ new.disposition = old.disposition
      /\ old.staged # None => new.staged = old.staged /\ new.candidate = old.candidate
      /\ new.staged # old.staged => new.candidate = None
  BY <1>2 DEF FollowsRun, SameReview, SameButVersion
<1>. QED BY <1>3, <1>4, <1>5, <1>6, <1>7, <1>8 DEF ObservedAs

LEMMA ObservedRecords ==
  ASSUME ObservationInv, NEW s \in Sessions,
         NEW outcomes \in [planned(s) -> Outcomes], NEW calendar \in [Rounds -> Anchors],
         NEW changed \in BOOLEAN, NEW complete \in Completions,
         Observe(s, outcomes, calendar, changed, complete)
  PROVE  /\ records' \in [Rounds -> Record]
         /\ backlog' \in [Rounds -> RevisionOrNone] /\ BacklogHoldsStaged'
         /\ \A r \in Rounds :
              /\ ObservedAs(records[r], records'[r], history'.tail[r], now)
              /\ history'.displaced[r] \subseteq
                   history.displaced[r] \union
                     ({records[r].content} \ {None, records'[r].content})
         /\ \A r \in planned(s) : outcomes[r] # "not-attempted" =>
              records'[r] = bumped(recordRunObservations(s, outcomes)[r])
<1> DEFINE after == recordRunObservations(s, outcomes)
           written == writtenBy(s, outcomes)
           write == observedSeason(s, calendar, changed)
<1>1. /\ session[s].pc = "observing" /\ holdsLease(session[s].fence)
      /\ Commit(session[s].fence, write, written)
      /\ history' = observedHistory(s, outcomes, after)
  BY DEF Observe, Commit
<1>2. \A r \in planned(s) :
        /\ r \in Rounds
        /\ FollowsRun(records[r], after[r], extended(history.tail[r], s, outcomes, r), now)
        /\ outcomes[r] = "not-attempted" => after[r].content = records[r].content
  BY <1>1, RunFollows DEF planned
<1>3. /\ DOMAIN written \subseteq planned(s) /\ planned(s) \subseteq Rounds
      /\ \A r \in DOMAIN written : written[r] = after[r]
      /\ \A r \in planned(s) : r \notin DOMAIN written => outcomes[r] = "not-attempted"
  BY DEF writtenBy, planned, isWritten
<1>4. /\ LedgerTypeOK /\ \A r \in Rounds : backlog[r] = records[r].staged
  BY DEF ObservationInv, TypeOK, BacklogHoldsStaged
<1>5. \A r \in DOMAIN written : written[r] \in Record
  BY <1>2, <1>3 DEF FollowsRun
<1> HIDE DEF after, written, write
<1>6. /\ records' \in [Rounds -> Record] /\ backlog' \in [Rounds -> RevisionOrNone]
      /\ \A r \in Rounds : backlog'[r] = records'[r].staged
      /\ backlogCount' <= BacklogCapacity
      /\ \A r \in DOMAIN written : records'[r] = bumped(written[r])
      /\ \A r \in Rounds \ DOMAIN written : records'[r] = records[r]
  BY <1>1, <1>3, <1>4, <1>5, CommitKeepsBacklog
<1>7. \A r \in planned(s) : outcomes[r] # "not-attempted" => records'[r] = bumped(after[r])
  BY <1>3, <1>6
<1>8. \A r \in Rounds :
        /\ r \in planned(s) =>
             /\ history'.tail[r] = extended(history.tail[r], s, outcomes, r)
             /\ history'.displaced[r] =
                  IF records[r].content \notin {None, after[r].content}
                  THEN history.displaced[r] \union {records[r].content}
                  ELSE history.displaced[r]
        /\ r \notin planned(s) =>
             /\ history'.tail[r] = history.tail[r]
             /\ history'.displaced[r] = history.displaced[r]
  BY <1>1 DEF observedHistory, ObservationInv, HistoryTypeOK
<1>9. ASSUME NEW r \in Rounds
      PROVE  /\ ObservedAs(records[r], records'[r], history'.tail[r], now)
             /\ history'.displaced[r] \subseteq
                  history.displaced[r] \union
                    ({records[r].content} \ {None, records'[r].content})
  <2>1. /\ records[r] \in Record /\ RecordSound(records[r], now)
        /\ TailSupports(records[r], history.tail[r])
    BY LedgerFacts DEF ObservationInv, TailsAreCounted
  <2>2. CASE r \in DOMAIN written
    <3>1. records'[r] = bumped(after[r]) /\ r \in planned(s)
      BY <1>3, <1>6, <2>2
    <3>2. after[r] \in Record
      BY <1>2, <3>1 DEF FollowsRun
    <3>3. records'[r].content = after[r].content
      BY <3>1, <3>2, BumpedIsSame DEF SameButVersion
    <3>4. ObservedAs(records[r], records'[r], history'.tail[r], now)
      BY <1>2, <1>8, <2>1, <3>1, WrittenIsObserved
    <3>. QED BY <1>8, <3>1, <3>3, <3>4
  <2>3. CASE r \in planned(s) \ DOMAIN written
    <3>1. records'[r] = records[r] /\ outcomes[r] = "not-attempted"
      BY <1>3, <1>6, <2>3
    <3>2. history'.tail[r] = history.tail[r] /\ after[r].content = records[r].content
      BY <1>2, <1>8, <2>3, <3>1, KindAssumption DEF extended
    <3>. QED BY <1>8, <2>1, <2>3, <3>1, <3>2, UnwrittenIsObserved
  <2>4. CASE r \notin planned(s)
    <3>1. records'[r] = records[r]
      BY <1>3, <1>6, <2>4
    <3>. QED BY <1>8, <2>1, <2>4, <3>1, UnwrittenIsObserved
  <2>. QED BY <2>2, <2>3, <2>4
<1>10. BacklogHoldsStaged'
  BY <1>6 DEF BacklogHoldsStaged
<1>. QED BY <1>6, <1>7, <1>9, <1>10 DEF after

(* The season record of an observation commit. *)
LEMMA ObservedSeason ==
  ASSUME ObservationInv, NEW s \in Sessions, session[s].pc = "observing",
         NEW calendar \in [Rounds -> Anchors], NEW changed \in BOOLEAN
  PROVE  LET record == session[s].snap.season
             write == observedSeason(s, calendar, changed)
         IN  /\ write \in SeasonRecord /\ write.version = record.version
             /\ write.due = IF isScheduled(s) /\ session[s].publishes THEN FALSE
                            ELSE record.due \/ (changed /\ ~session[s].publishes)
             /\ write.disposition = IF session[s].publishes /\ ~isStopped(record)
                                    THEN "publishing" ELSE record.disposition
             /\ write.hold = record.hold /\ write.durable = record.durable
             /\ write.action = record.action
<1> DEFINE record == session[s].snap.season
           due == IF isScheduled(s) /\ session[s].publishes THEN FALSE
                  ELSE record.due \/ (changed /\ ~session[s].publishes)
           disposition == IF session[s].publishes /\ ~isStopped(record)
                          THEN "publishing" ELSE record.disposition
           write == observedSeason(s, calendar, changed)
<1>1. record \in SeasonRecord
  BY SessionFacts DEF Snapshots
<1>2. write = [record EXCEPT !.calendar = calendar, !.due = due,
                 !.disposition = disposition]
  BY DEF observedSeason
<1>3. /\ due \in BOOLEAN
      /\ disposition \in {"none", "publishing", "reserved", "review", "blocked"}
  BY <1>1 DEF SeasonRecord
<1> HIDE DEF record, due, disposition, write
<1>4. write \in SeasonRecord
  BY <1>1, <1>2, <1>3 DEF SeasonRecord
<1>5. /\ write.version = record.version /\ write.due = due
      /\ write.disposition = disposition
      /\ write.hold = record.hold /\ write.durable = record.durable
      /\ write.action = record.action
  BY <1>1, <1>2 DEF SeasonRecord
<1>. QED BY <1>4, <1>5 DEF record, due, disposition, write

LEMMA DecisionHasCause ==
  ASSUME ObservationInv, NEW s \in Sessions, session[s].pc = "observing",
         NEW outcomes, NEW after, NEW complete
  PROVE  LET decision == decisionOf(s, outcomes, after, complete) IN
         /\ decision \in {"stopped", "publishable", "durable", "review", "retry"}
         /\ decision = "stopped" <=> isStopped(session[s].snap.season)
         /\ decision = "review" =>
              \E r \in planned(s) :
                outcomes[r] \in Revisions /\ isInOperatorBacklog(after[r])
<1> DEFINE decision == decisionOf(s, outcomes, after, complete)
           reasons == {roundWithholdReason(after[r], outcomes[r]) : r \in planned(s)}
<1>1. /\ decision \in {"stopped", "publishable", "durable", "review", "retry"}
      /\ decision = "stopped" <=> isStopped(session[s].snap.season)
  BY Zenon DEF decisionOf
<1>2. decision = "review" => reasons \intersect {"staged", "review-locked"} # {}
  BY Zenon DEF decisionOf
<1>3. \A r \in planned(s) :
        roundWithholdReason(after[r], outcomes[r]) \in {"staged", "review-locked"} =>
          outcomes[r] \in Revisions /\ isInOperatorBacklog(after[r])
  BY DEF roundWithholdReason, isInOperatorBacklog
<1> HIDE DEF decision
<1>4. decision = "review" =>
        \E r \in planned(s) :
          roundWithholdReason(after[r], outcomes[r]) \in {"staged", "review-locked"}
  BY <1>2
<1>. QED BY <1>1, <1>3, <1>4 DEF decision

LEMMA ObserveKeeps ==
  ASSUME ObservationInv, NEW s \in Sessions,
         NEW outcomes \in [planned(s) -> Outcomes], NEW calendar \in [Rounds -> Anchors],
         NEW changed \in BOOLEAN, NEW complete \in Completions,
         Observe(s, outcomes, calendar, changed, complete)
  PROVE  ObservationInv'
<1> DEFINE me == session[s]
           after == recordRunObservations(s, outcomes)
           decision == decisionOf(s, outcomes, after, complete)
           write == observedSeason(s, calendar, changed)
           deciding == [Idle EXCEPT !.pc = "deciding", !.work = me.work,
                          !.fence = me.fence, !.snap = snapshotNext,
                          !.previous = me.previous, !.decision = decision]
           next == IF me.publishes THEN deciding ELSE Idle
           serves == isScheduled(s) /\ me.publishes
           owed == IF serves THEN (history.owed \ {"operator"}) \union {"run"}
                   ELSE history.owed
<1>1. /\ me.pc = "observing" /\ holdsLease(me.fence)
      /\ Commit(me.fence, write, writtenBy(s, outcomes))
      /\ session' = [session EXCEPT ![s] = next]
      /\ history' = observedHistory(s, outcomes, after)
      /\ now' = now /\ request' = request
      /\ lease' = lease /\ elsewhere' = elsewhere
  BY DEF Observe, Commit, Await
<1>2. /\ records' \in [Rounds -> Record]
      /\ backlog' \in [Rounds -> RevisionOrNone] /\ BacklogHoldsStaged'
      /\ \A r \in Rounds :
           /\ ObservedAs(records[r], records'[r], history'.tail[r], now)
           /\ history'.displaced[r] \subseteq
                history.displaced[r] \union
                  ({records[r].content} \ {None, records'[r].content})
      /\ \A r \in planned(s) : outcomes[r] # "not-attempted" =>
           records'[r] = bumped(after[r])
  BY ObservedRecords
<1>3. /\ me \in SessionRecord /\ me.fence \in 1 .. lease.fence /\ isRun(s)
      /\ me.snap.season = season /\ PlanIsSound(s) /\ HolderIsCurrent(s)
      /\ FenceIsHandedOut(s)
  BY <1>1, SessionFacts DEF HolderIsCurrent, FenceIsHandedOut
<1>4. /\ SeasonFollows(season', write) /\ season' \in SeasonRecord
      /\ season'.version >= season.version
      /\ season'.due = IF serves THEN FALSE ELSE season.due \/ (changed /\ ~me.publishes)
      /\ season'.disposition = IF me.publishes /\ ~isStopped(season) THEN "publishing"
                               ELSE season.disposition
      /\ isStopped(season') = isStopped(season)
  <2>1. /\ write \in SeasonRecord /\ write.version = season.version
        /\ write.due = IF serves THEN FALSE ELSE season.due \/ (changed /\ ~me.publishes)
        /\ write.disposition = IF me.publishes /\ ~isStopped(season) THEN "publishing"
                               ELSE season.disposition
        /\ write.hold = season.hold /\ write.durable = season.durable
    <3> DEFINE record == session[s].snap.season
    <3>1. /\ write \in SeasonRecord /\ write.version = record.version
          /\ write.due = IF isScheduled(s) /\ session[s].publishes THEN FALSE
                         ELSE record.due \/ (changed /\ ~session[s].publishes)
          /\ write.disposition = IF session[s].publishes /\ ~isStopped(record)
                                 THEN "publishing" ELSE record.disposition
          /\ write.hold = record.hold /\ write.durable = record.durable
      BY <1>1, ObservedSeason, ZenonT(60)
    <3>. QED BY <1>3, <3>1
  <2> HIDE DEF write
  <2>2. SeasonFollows(season', write)
    BY <1>1, <2>1, CommittedSeason DEF Commit
  <2>3. season.version \in Nat
    BY LedgerFacts DEF SeasonRecord
  <2>. QED BY <2>1, <2>2, <2>3 DEF SeasonFollows, isStopped
<1>5. /\ history.owed \in SUBSET {"run", "operator"}
      /\ history.tail \in [Rounds -> [revision : RevisionOrNone, count : Nat]]
      /\ history.displaced \in [Rounds -> SUBSET Revisions]
      /\ history'.owed = owed
      /\ history'.applied = history.applied /\ history'.returned = history.returned
  BY <1>1 DEF observedHistory, ObservationInv, HistoryTypeOK
<1>6. HistoryTypeOK'
  <2> DEFINE tail == [r \in Rounds |->
                        IF r \in planned(s)
                        THEN extended(history.tail[r], s, outcomes, r)
                        ELSE history.tail[r]]
             displaced == [r \in Rounds |->
                IF r \in planned(s) /\ records[r].content \notin {None, after[r].content}
                THEN history.displaced[r] \union {records[r].content}
                ELSE history.displaced[r]]
  <2>1. tail \in [Rounds -> [revision : RevisionOrNone, count : Nat]]
    <3>1. ASSUME NEW r \in planned(s)
          PROVE  extended(history.tail[r], s, outcomes, r)
                   \in [revision : RevisionOrNone, count : Nat]
      <4>1. history.tail[r] \in [revision : RevisionOrNone, count : Nat]
        BY <1>5 DEF planned
      <4>. QED BY <4>1 DEF extended, counted, RevisionOrNone
    <3>. QED BY <1>5, <3>1
  <2>2. displaced \in [Rounds -> SUBSET Revisions]
    <3>1. \A r \in Rounds : records[r].content \in RevisionOrNone
      BY LedgerFacts DEF Record
    <3> HIDE DEF after
    <3>. QED BY <1>5, <3>1 DEF RevisionOrNone
  <2>3. owed \in SUBSET {"run", "operator"}
    BY <1>5
  <2>4. history' = [history EXCEPT !.tail = tail, !.displaced = displaced, !.owed = owed]
    BY <1>1 DEF observedHistory
  <2> HIDE DEF tail, displaced, owed
  <2>. QED BY <2>1, <2>2, <2>3, <2>4 DEF ObservationInv, HistoryTypeOK
<1>7. /\ decision \in {"stopped", "publishable", "durable", "review", "retry"}
      /\ decision = "stopped" <=> isStopped(season)
      /\ decision = "review" =>
           \E r \in planned(s) :
             outcomes[r] \in Revisions /\ isInOperatorBacklog(after[r])
  BY <1>1, <1>3, DecisionHasCause
<1>8. \A r \in planned(s) : after[r] \in Record
  BY <1>1, RunFollows DEF FollowsRun
<1> HIDE DEF after, decision, write
(* What waits for an operator still does, and what the run decided waits does. *)
<1>9. reviewIsOpen => reviewIsOpen'
  BY <1>2 DEF reviewIsOpen, isInOperatorBacklog, ObservedAs
<1>10. decision = "review" => reviewIsOpen'
  <2>1. SUFFICES ASSUME decision = "review" PROVE reviewIsOpen'
    OBVIOUS
  <2>2. PICK r \in planned(s) : outcomes[r] \in Revisions /\ isInOperatorBacklog(after[r])
    BY <1>7, <2>1
  <2>3. r \in Rounds /\ records'[r] = bumped(after[r])
    BY <1>2, <2>2, KindAssumption DEF planned
  <2>4. records'[r].staged = after[r].staged /\ records'[r].competing = after[r].competing
    BY <1>8, <2>3, BumpedIsSame DEF SameButVersion
  <2>. QED BY <2>2, <2>3, <2>4 DEF reviewIsOpen, isInOperatorBacklog
<1>11. /\ snapshotNext \in Snapshots /\ snapshotNext.season = season'
       /\ snapshotNext.records = records'
  BY <1>2, <1>4, SnapshotNextIsTyped
<1>12. /\ deciding \in SessionRecord /\ deciding.pc = "deciding"
       /\ deciding.work = me.work /\ deciding.fence = me.fence
       /\ deciding.snap = snapshotNext /\ deciding.previous = me.previous
       /\ deciding.decision = decision
  <2>1. decision \in Decisions
    BY <1>7 DEF Decisions
  <2>2. deciding \in SessionRecord
    BY <1>3, <1>11, <2>1, IdleIsSession DEF SessionRecord
  <2>. QED BY <2>2, IdleIsSession DEF SessionRecord
<1>13. next \in SessionRecord /\ session'[s] = next
  BY <1>1, <1>12, LedgerFacts, IdleIsSession
<1>14. me.publishes => SessionIsSound(s)'
  <2>1. SUFFICES ASSUME me.publishes PROVE SessionIsSound(s)'
    OBVIOUS
  <2>2. session'[s] = deciding
    BY <1>13, <2>1
  <2> HIDE DEF deciding, next
  <2>3. FenceIsHandedOut(s)' /\ PlanIsSound(s)'
    BY <1>1, <1>3, <1>11, <1>12, <2>2 DEF FenceIsHandedOut, PlanIsSound, isRun
  <2>4. DecisionIsSound(s)'
    BY <1>4, <1>7, <1>11, <1>12, <2>1, <2>2 DEF DecisionIsSound
  <2>5. me.previous = "review" => reviewIsOpen
    BY <1>1, <1>3 DEF HolderIsCurrent
  <2>6. isScheduled(s)' = isScheduled(s)
    BY <1>12, <2>2 DEF isScheduled
  <2>7. isScheduled(s) => "operator" \notin history'.owed
    BY <1>5, <2>1
  <2>8. ~isScheduled(s) /\ "run" \in history'.owed =>
          \/ season'.due \/ isStopped(season') \/ me.previous \in {"review", "blocked"}
    <3>1. /\ me.previous = season.disposition
          /\ season.disposition \in {"none", "review", "blocked"}
      BY <1>1, <1>3, LedgerFacts DEF PlanIsSound, SeasonRecord
    <3>. QED BY <1>4, <1>5, <3>1 DEF ObservationInv, OwedIsKept
  <2>9. HolderIsCurrent(s)'
    BY <1>9, <1>10, <1>11, <1>12, <2>2, <2>5, <2>6, <2>7, <2>8 DEF HolderIsCurrent
  <2>. QED BY <2>3, <2>4, <2>9 DEF SessionIsSound
<1>15. /\ session' \in [Sessions -> SessionRecord] /\ FencesAreSingle' /\ SessionsAreSound'
  <2>1. next = Idle \/ (next.fence = me.fence /\ SessionIsSound(s)')
    BY <1>12, <1>14
  <2>2. me.pc # "idle"
    BY <1>1
  <2> HIDE DEF next
  <2>. QED BY <1>1, <1>13, <2>1, <2>2, HolderSteps
<1>16. ReviewHasCause'
  BY <1>4, <1>9 DEF ObservationInv, ReviewHasCause
<1>17. OwedIsKept'
  <2>1. CASE serves
    BY <1>4, <1>5, <2>1 DEF OwedIsKept
  <2>2. CASE ~serves
    BY <1>4, <1>5, <2>2 DEF ObservationInv, OwedIsKept
  <2>. QED BY <2>1, <2>2
<1>18. \A r \in Rounds :
         /\ RecordFollows(records[r], records'[r]) /\ RecordSound(records'[r], now)
         /\ records'[r] = records[r] \/ records'[r].version >= 1
  BY <1>2 DEF ObservedAs
<1>19. AppliedArePassed'
  <2>1. ASSUME NEW op \in Operations, request[op] # None, isPassed(request[op])
        PROVE  isPassed(request[op])'
    BY <1>1, <1>2, <1>4, <1>18, <2>1, PassedStays
  <2>. QED BY <1>1, <1>5, <2>1 DEF ObservationInv, AppliedArePassed
<1>20. SightingsAreVerifications'
  <2>1. ASSUME NEW r \in Rounds
        PROVE  /\ records'[r].staged # None /\ records'[r].candidate # None =>
                    records[r].staged # None /\ records'[r].candidate = records[r].candidate
               /\ records'[r].competing = records[r].competing
    BY <1>2 DEF ObservedAs
  <2>. QED BY <1>1, <1>5, <2>1 DEF ObservationInv, SightingsAreVerifications, isSightedBy
<1>21. DisplacedAreSuperseded'
  <2>1. ASSUME NEW r \in Rounds
        PROVE  history'.displaced[r] \subseteq supersededOf(records'[r])
    <3>1. /\ supersededOf(records[r]) \subseteq supersededOf(records'[r])
          /\ records[r].content \in
               {None, records'[r].content} \union supersededOf(records'[r])
      BY <1>2, <1>18 DEF RecordFollows, ObservedAs, Remembers
    <3>2. history.displaced[r] \subseteq supersededOf(records[r])
      BY DEF ObservationInv, DisplacedAreSuperseded
    <3>. QED BY <1>2, <3>1, <3>2
  <2>. QED BY <2>1 DEF DisplacedAreSuperseded, supersededOf
<1>22. TailsAreCounted'
  BY <1>2 DEF TailsAreCounted, ObservedAs, SettlesWithCount
<1>. QED BY <1>1, <1>2, <1>4, <1>6, <1>15, <1>16, <1>17, <1>18, <1>19, <1>20, <1>21,
            <1>22, LedgerStep

-----------------------------------------------------------------------------
(* The invariant *)

LEMMA ObservationStarts ==
  ASSUME Init
  PROVE  ObservationInv
<1>1. PICK calendar \in [Rounds -> Anchors] :
        /\ season = [version |-> 1, calendar |-> calendar, due |-> FALSE,
                     disposition |-> "none", hold |-> FALSE, durable |-> FALSE,
                     action |-> None]
        /\ records = [r \in Rounds |-> newClassificationRecord(calendar[r])]
  BY DEF Init, LedgerInit
<1>2. /\ season \in SeasonRecord /\ season.version = 1 /\ season.due = FALSE
      /\ season.disposition = "none"
  BY <1>1 DEF SeasonRecord
<1>3. /\ lease = [fence |-> 0, held |-> FALSE] /\ backlog = [r \in Rounds |-> None]
      /\ elsewhere = 0 /\ now = 0 /\ request = [op \in Operations |-> None]
      /\ session = [s \in Sessions |-> Idle]
      /\ history = [tail |-> [r \in Rounds |-> Unseen],
                    displaced |-> [r \in Rounds |-> {}],
                    applied |-> [op \in Operations |-> 0],
                    returned |-> [op \in Operations |-> None],
                    owed |-> {}]
  BY DEF Init, LedgerInit
<1>4. ASSUME NEW r \in Rounds
      PROVE  /\ records[r] \in Record /\ RecordSound(records[r], now)
             /\ records[r] = newClassificationRecord(records[r].anchor)
             /\ records[r].version = 0 /\ records[r].content = None
             /\ records[r].staged = None /\ records[r].candidate = None
             /\ records[r].competing = None /\ records[r].confirmations = 0
  <2>1. calendar[r] \in Nat /\ records[r] = newClassificationRecord(calendar[r])
    BY <1>1, PolicyAssumption
  <2>. QED BY <2>1, NewRecordIsSound DEF newClassificationRecord
<1>5. records \in [Rounds -> Record]
  BY <1>1, <1>4
<1>6. LedgerTypeOK
  BY <1>2, <1>3, <1>5, LedgerAssumption DEF LedgerTypeOK, RevisionOrNone
<1>7. TypeOK /\ RequestsAreNamed /\ VerifiedAreWritten
  BY <1>3, <1>6, IdleIsSession, SessionAssumption
     DEF TypeOK, RequestsAreNamed, VerifiedAreWritten
<1>8. HistoryTypeOK
  <2>1. /\ Unseen \in [revision : RevisionOrNone, count : Nat]
        /\ 0 \in 0 .. 2 /\ None \in RevisionOrNone
    BY DEF Unseen, RevisionOrNone
  <2>. QED BY <1>3, <2>1 DEF HistoryTypeOK
<1>9. BacklogHoldsStaged
  <2>1. waiting = {}
    BY <1>3 DEF waiting
  <2>2. backlogCount = 0
    BY <1>3, <2>1, FS_EmptySet DEF backlogCount
  <2>. QED BY <1>3, <1>4, <2>2, LedgerAssumption DEF BacklogHoldsStaged
<1>10. RecordsAreSound /\ SeasonIsWritten
  BY <1>2, <1>4 DEF RecordsAreSound, SeasonIsWritten
<1>11. FencesAreSingle /\ SessionsAreSound
  <2>1. \A s \in Sessions : session[s] = Idle
    BY <1>3
  <2>. QED BY <2>1, IdleIsSession
        DEF FencesAreSingle, SessionsAreSound, SessionIsSound, FenceIsHandedOut,
            PlanIsSound, DecisionIsSound
<1>12. ReviewHasCause /\ OwedIsKept /\ AppliedArePassed
  BY <1>2, <1>3 DEF ReviewHasCause, OwedIsKept, AppliedArePassed
<1>13. SightingsAreVerifications /\ DisplacedAreSuperseded /\ TailsAreCounted
  BY <1>3, <1>4
     DEF SightingsAreVerifications, DisplacedAreSuperseded, TailsAreCounted, TailSupports
<1>. QED BY <1>7, <1>8, <1>9, <1>10, <1>11, <1>12, <1>13 DEF ObservationInv

LEMMA StutterKeeps ==
  ASSUME ObservationInv, UNCHANGED vars
  PROVE  ObservationInv'
<1>1. /\ UNCHANGED ledger /\ session' = session /\ request' = request
      /\ history' = history /\ now' = now
      /\ season' = season /\ records' = records /\ backlog' = backlog
      /\ lease' = lease /\ elsewhere' = elsewhere
  BY DEF vars, ledger
<1>2. now' \in 0 .. MaxTime /\ now' \in Nat /\ now <= now'
  BY <1>1, LedgerFacts
<1>3. /\ session' \in [Sessions -> SessionRecord] /\ FencesAreSingle' /\ SessionsAreSound'
  BY <1>1, <1>2, LedgerFacts, SessionsRest DEF holdsLease
<1>4. /\ RequestsAreNamed' /\ VerifiedAreWritten' /\ backlogCount' = backlogCount
  BY <1>1 DEF ObservationInv, RequestsAreNamed, VerifiedAreWritten, backlogCount, waiting
<1>. QED BY <1>1, <1>2, <1>3, <1>4, LedgerFacts, QuietStep

LEMMA ObservationStays ==
  ASSUME ObservationInv, [Next]_vars
  PROVE  ObservationInv'
<1>1. CASE Tick \/ Expire \/ Elsewhere \/ Release
  BY <1>1, TickKeeps, ExpireKeeps, ElsewhereKeeps, ReleaseKeeps
<1>2. ASSUME NEW op \in Operations, NEW action \in OperatorActions, NEW r \in Rounds,
             Inspect(op, action, r)
      PROVE  ObservationInv'
  BY <1>2, InspectKeeps
<1>3. ASSUME NEW s \in Sessions, NEW work \in Triggers \union Operations, Acquire(s, work)
      PROVE  ObservationInv'
  BY <1>3, AcquireKeeps
<1>4. ASSUME NEW s \in Sessions,
             \/ GiveUp(s) \/ SkipReconciliation(s) \/ Reserve(s)
             \/ \E served \in Served : Reconcile(s, served)
             \/ \E published \in BOOLEAN : Recover(s, published)
             \/ \E publishes \in BOOLEAN : Plan(s, publishes)
             \/ \E decision \in Decisions : Settle(s, decision)
      PROVE  ObservationInv'
  BY <1>4, GiveUpKeeps, SkipReconciliationKeeps, ReserveKeeps, ReconcileKeeps,
     RecoverKeeps, PlanKeeps, SettleKeeps
<1>5. ASSUME NEW s \in Sessions, ObserveSome(s)
      PROVE  ObservationInv'
  BY <1>5, ObserveKeeps DEF ObserveSome
<1>6. ASSUME NEW s \in Sessions,
             \/ SubmitAction(s) \/ SubmitDisposition(s) \/ SubmitRotation(s)
             \/ \E outcome \in Revisions \union {"failed", "deferred"} :
                  SubmitVerification(s, outcome)
      PROVE  ObservationInv'
  BY <1>6, SubmitActionKeeps, SubmitDispositionKeeps, SubmitRotationKeeps,
     SubmitVerificationKeeps
<1>7. CASE UNCHANGED vars
  BY <1>7, StutterKeeps
<1>. QED BY <1>1, <1>2, <1>3, <1>4, <1>5, <1>6, <1>7 DEF Next

(* The whole invariant holds in every behaviour of the runs and operators. *)
THEOREM ObservationSafe == Spec => []ObservationInv
BY ObservationStarts, ObservationStays, PTL DEF Spec

-----------------------------------------------------------------------------
(* What the invariant gives *)

(* The lease fences every caller (ledger/store.ts): while a run or an operator
   command holds it, what it read, and what its own calls answered, is what the
   ledger holds. *)
THEOREM HoldersSeeTheLedger == Spec => []HolderSeesLedger
<1>1. ObservationInv => HolderSeesLedger
  <2> SUFFICES ASSUME ObservationInv PROVE HolderSeesLedger
    OBVIOUS
  <2> SUFFICES ASSUME NEW s \in Sessions, session[s].snap # None,
                      holdsLease(session[s].fence)
               PROVE  session[s].snap.season = season /\ session[s].snap.records = records
    BY DEF HolderSeesLedger
  <2>1. session[s].pc # "idle"
    BY IdleIsSession
       DEF ObservationInv, SessionsAreSound, SessionIsSound, FenceIsHandedOut
  <2>. QED BY <2>1, SessionFacts DEF HolderIsCurrent
<1>. QED BY <1>1, ObservationSafe, PTL

(* A correction waits in the operator backlog exactly while its round holds it
   for review, and the backlog shared by every season stays within its capacity:
   a commit counts its insertions before it makes any (ledger/store.ts). *)
THEOREM BacklogIsExact == Spec => []BacklogHoldsStaged
<1>1. ObservationInv => BacklogHoldsStaged
  BY DEF ObservationInv
<1>. QED BY <1>1, ObservationSafe, PTL

(* What the ledger stores it reads again, and what it answers its client
   accepts: no sequence of commands leaves a record, or a backlog, that the
   decoders of records.ts and wire-decoders.ts refuse. *)
THEOREM StoredRecordsAreReadable == Spec => []StoredRecordsDecode
<1>1. ObservationInv => StoredRecordsDecode
  <2> SUFFICES ASSUME ObservationInv PROVE StoredRecordsDecode
    OBVIOUS
  <2>1. season \in SeasonRecord /\ season.version >= 1
    BY LedgerFacts DEF ObservationInv, SeasonIsWritten
  <2>2. decodeVersioned(season) /\ decodeSeasonRecord(season)
    BY <2>1
       DEF decodeVersioned, decodeSeasonRecord, decodeDisposition, decodeOperatorAction,
           SeasonRecord
  <2>3. \A r \in Rounds : decodeClassificationRecord(records[r])
    BY LedgerFacts DEF RecordSound
  <2>4. \A r \in waiting : backlog[r] \in Revisions
    BY LedgerFacts DEF waiting, RevisionOrNone
  <2>5. Cardinality(waiting) <= backlogCount /\ backlogCount <= BacklogCapacity
    <3>1. waiting \in SUBSET Rounds
      BY DEF waiting
    <3>2. Cardinality(waiting) \in Nat
      BY <3>1, WaitingIsCounted
    <3>. QED BY <3>2, LedgerFacts DEF backlogCount
  <2>6. decodeBacklog([r \in waiting |-> backlog[r]], backlogCount)
    BY <2>4, <2>5 DEF decodeBacklog
  <2>7. decodeSnapshot(snapshot, [r \in waiting |-> backlog[r]])
    BY <2>2, <2>3, <2>6 DEF decodeSnapshot, snapshot, Snapshot
  <2>. QED BY <2>7 DEF ObservationInv, StoredRecordsDecode
<1>. QED BY <1>1, ObservationSafe, PTL

(* The ceiling ends a race (policy/classification.ts): past its last slot a round is settled,
   and it is abandoned only without a result and past the ceiling of the start
   it is scheduled for, whatever the calendar moved meanwhile. *)
THEOREM CeilingEndsRaces == Spec => []CeilingIsFinal
<1>1. ObservationInv => CeilingIsFinal
  <2> SUFFICES ASSUME ObservationInv PROVE CeilingIsFinal
    OBVIOUS
  <2>. QED BY LedgerFacts DEF CeilingIsFinal, RecordSound, KeepsCadence
<1>. QED BY <1>1, ObservationSafe, PTL

(* D2.2: what a record displaced, or an operator turned down, is in its history
   for good, so no later observation, verification or disposition brings it
   back (policy/classification.ts, ledger/store.ts). *)
THEOREM SupersededStaysAway == Spec => []SupersededNeverReturns
<1>1. ObservationInv => SupersededNeverReturns
  <2> SUFFICES ASSUME ObservationInv PROVE SupersededNeverReturns
    OBVIOUS
  <2> SUFFICES ASSUME NEW r \in Rounds
               PROVE  history.displaced[r] \intersect
                        {records[r].content, records[r].candidate, records[r].staged,
                         records[r].competing} = {}
    BY DEF SupersededNeverReturns
  <2>1. history.displaced[r] \subseteq supersededOf(records[r])
    BY DEF ObservationInv, DisplacedAreSuperseded
  <2>2. KeepsRevisionsApart(records[r])
    BY LedgerFacts DEF RecordSound
  <2>. QED BY <2>1, <2>2 DEF KeepsRevisionsApart
<1>. QED BY <1>1, ObservationSafe, PTL

(* T11b: two verifications, under two operation identifiers, returned what
   competes with a staged correction; a request resent is one sighting. *)
THEOREM CompetitionIsSeenTwice == Spec => []CompetingIsCorroborated
<1>1. ObservationInv => CompetingIsCorroborated
  BY DEF ObservationInv, SightingsAreVerifications, isSightedBy, CompetingIsCorroborated
<1>. QED BY <1>1, ObservationSafe, PTL

(* An operation took effect at most once, however often its request was sent:
   once applied, the ledger has moved past the version, the generation or the
   history the request names. *)
THEOREM OperationsTakeEffectOnce == Spec => []OperationsApplyOnce
<1>1. ObservationInv => OperationsApplyOnce
  BY DEF ObservationInv, AppliedArePassed, OperationsApplyOnce
<1>. QED BY <1>1, ObservationSafe, PTL

(* A publication that a run left undone, or that an operator made due, is still
   due, being resolved, blocked or stopped: no crash, lost answer or command in
   between forgets it (run.ts, outcome/decisions.ts, outcome/recovery.ts). *)
THEOREM OwedPublicationStays == Spec => []OwedPublicationIsRemembered
<1>1. ObservationInv => OwedPublicationIsRemembered
  <2> SUFFICES ASSUME ObservationInv PROVE OwedPublicationIsRemembered
    OBVIOUS
  <2>1. history.owed \in SUBSET {"run", "operator"}
    BY DEF ObservationInv, HistoryTypeOK
  <2>2. OwedIsKept
    BY DEF ObservationInv
  <2>. QED BY <2>1, <2>2 DEF OwedIsKept, OwedPublicationIsRemembered, isStopped
<1>. QED BY <1>1, ObservationSafe, PTL

(* A season blocked for review has a correction to review: the last disposition
   lifts the block, and no outcome commit puts it back (ledger/operator.ts). *)
THEOREM ReviewBlockHasReason == Spec => []ReviewBlockHasCause
<1>1. ObservationInv => ReviewBlockHasCause
  BY DEF ObservationInv, ReviewHasCause, reviewIsOpen, ReviewBlockHasCause
<1>. QED BY <1>1, ObservationSafe, PTL

(* The policy and the store agree (policy/classification.ts, ledger/store.ts): what
   a run that holds its lease observed is a request the ledger decodes, and every one
   of the store's conditions accepts it; only the last backlog entry can still
   be lost to another season. *)
THEOREM LiveRunsAreNotRefused == Spec => []LiveRunIsNotRefused
<1>1. ObservationInv => LiveRunIsNotRefused
  <2> SUFFICES ASSUME ObservationInv, NEW s \in Sessions,
                      session[s].pc = "observing", holdsLease(session[s].fence),
                      NEW outcomes \in [planned(s) -> Outcomes]
               PROVE  LET write == observedSeason(s, season.calendar, FALSE)
                          written == writtenBy(s, outcomes)
                      IN  /\ decodeCommitRequest(session[s].fence, write, written)
                          /\ isCommittable(write, written)
    BY DEF LiveRunIsNotRefused
  <2> DEFINE write == observedSeason(s, season.calendar, FALSE)
             written == writtenBy(s, outcomes)
  <2>1. /\ session[s].snap.season = season
        /\ season.disposition \notin {"publishing", "reserved"}
        /\ session[s].fence \in 1 .. MaxFence
    BY SessionFacts DEF HolderIsCurrent, PlanIsSound
  <2>2. season.calendar \in [Rounds -> Anchors] /\ season.version \in Nat
    BY LedgerFacts DEF SeasonRecord
  <2>3. /\ write \in SeasonRecord /\ write.version = season.version
        /\ write.disposition \in {"publishing", season.disposition}
        /\ write.hold = season.hold /\ write.durable = season.durable
        /\ write.action = season.action
    BY <2>1, <2>2, ObservedSeason
  <2>4. ASSUME NEW r \in DOMAIN written
        PROVE  /\ r \in Rounds
               /\ FollowsRun(records[r], written[r],
                             extended(history.tail[r], s, outcomes, r), now)
    <3>1. r \in planned(s) /\ written[r] = recordRunObservations(s, outcomes)[r]
      BY DEF writtenBy
    <3>. QED BY <3>1, RunFollows DEF planned
  <2> HIDE DEF write, written
  <2>5. \A r \in insertions(written) :
          written[r].staged \in Revisions /\ backlog[r] = None
    BY <2>4 DEF insertions, FollowsRun, Record, RevisionOrNone, ObservationInv,
                BacklogHoldsStaged
  <2>6. ASSUME NEW r \in DOMAIN written
        PROVE  /\ decodeWrite(written[r]) /\ decodeClassificationRecord(written[r])
               /\ isCurrent(written[r], records[r])
               /\ keepsReview(records[r], written[r])
               /\ keepsHistory(records[r], written[r])
    <3> DEFINE old == records[r]
               new == written[r]
               tail == extended(history.tail[r], s, outcomes, r)
    <3>1. FollowsRun(old, new, tail, now) /\ r \in Rounds
      BY <2>4
    <3> HIDE DEF old, new, tail
    <3>2. new \in Record /\ RecordSound(new, now) /\ new.version \in Nat
      BY <3>1 DEF FollowsRun, Record
    <3>3. decodeWrite(new) /\ decodeClassificationRecord(new)
      BY <3>2 DEF decodeWrite, RecordSound
    <3>4. isCurrent(new, old) /\ keepsReview(old, new)
      BY <3>1 DEF FollowsRun, SameReview, isCurrent, keepsReview
    <3>5. keepsHistory(old, new)
      BY <3>1
         DEF FollowsRun, KeepsHistoryOf, decodeSupersededRevisions, keepsHistory,
             supersededOf, RecordSound, KeepsRevisionsApart
    <3>. QED BY <3>3, <3>4, <3>5 DEF old, new
  <2>7. decodeCommitRequest(session[s].fence, write, written)
    <3>1. decodeWrite(write) /\ decodeSeasonRecord(write)
      BY <2>2, <2>3
         DEF decodeWrite, decodeSeasonRecord, decodeDisposition, decodeOperatorAction,
             SeasonRecord
    <3>. QED BY <2>1, <2>5, <2>6, <3>1 DEF decodeCommitRequest, decodeLeaseToken
  <2>8. isCommittable(write, written)
    <3>1. isCurrent(write, season) /\ keepsOperatorState(season, write)
      BY <2>1, <2>3 DEF isCurrent, keepsOperatorState
    <3>. QED BY <2>5, <2>6, <3>1 DEF isCommittable
  <2>. QED BY <2>7, <2>8 DEF write, written
<1>. QED BY <1>1, ObservationSafe, PTL

-----------------------------------------------------------------------------
(* What no step does to a round *)

(* What one step leaves of a round, against the observations counted. *)
StaysCorroborated(old, new, tail) ==
  /\ old.content \notin {None, new.content} /\ new.disposition = old.disposition =>
       tail.revision = new.content /\ tail.count >= 2
  /\ old.staged # new.staged /\ new.staged # None =>
       /\ tail.revision = new.staged
       /\ tail.count >= 2 \/ (old.checkIndex # FinalSlot /\ new.checkIndex = FinalSlot)
  /\ new.terminal = "settled" /\ old.terminal # "settled" =>
       /\ tail.revision = new.content
       /\ tail.count >= SettlingConfirmations
       /\ new.checkIndex >= SettlingSlot

(* Nothing but an observation or a disposition accepts, stages or settles. *)
KeepsResult(old, new) ==
  /\ new.content = old.content \/ new.disposition # old.disposition
  /\ new.staged \in {None, old.staged}
  /\ new.terminal = old.terminal

LEMMA KeptIsCorroborated ==
  ASSUME NEW old, NEW new, KeepsResult(old, new), NEW tail
  PROVE  StaysCorroborated(old, new, tail)
BY DEF KeepsResult, StaysCorroborated

LEMMA SameKeepsResult ==
  ASSUME records' = records
  PROVE  \A r \in Rounds : KeepsResult(records[r], records'[r])
BY DEF KeepsResult

LEMMA NothingIsWritten ==
  ASSUME ObservationInv, NEW fence, NEW write, Commit(fence, write, NoWrites)
  PROVE  records' = records
BY LedgerFacts DEF Commit, NoWrites

LEMMA ReplacedKeepsResult ==
  ASSUME ObservationInv, NEW k \in Rounds, NEW new, records' = [records EXCEPT ![k] = new],
         KeepsResult(records[k], new)
  PROVE  \A r \in Rounds : KeepsResult(records[r], records'[r])
<1>1. records'[k] = new /\ \A r \in Rounds \ {k} : records'[r] = records[r]
  BY LedgerFacts
<1>2. \A r \in Rounds \ {k} : KeepsResult(records[r], records'[r])
  BY <1>1 DEF KeepsResult
<1>. QED BY <1>1, <1>2

LEMMA OperatorsKeepResults ==
  ASSUME ObservationInv, NEW s \in Sessions,
         \/ SubmitAction(s) \/ SubmitDisposition(s) \/ SubmitRotation(s)
         \/ \E outcome \in Revisions \union {"failed", "deferred"} :
              SubmitVerification(s, outcome)
  PROVE  \A r \in Rounds : KeepsResult(records[r], records'[r])
<1> DEFINE asked == requestOf(s)
           k == asked.round
           old == records[k]
<1>1. CASE SubmitAction(s)
  BY <1>1, SameKeepsResult DEF SubmitAction, Operate
<1>2. CASE ~SubmitAction(s)
  <2>1. asked \in Requests /\ asked.op \in Operations
    BY <1>2, OperatorFacts
       DEF SubmitDisposition, SubmitRotation, SubmitVerification
  <2>2. asked.action \in Dispositions \union {"verify", "rotate"}
    BY <1>2
       DEF SubmitDisposition, decodeDispositionRequest, SubmitRotation, SubmitVerification
  <2>3. k \in Rounds
    BY <2>1, <2>2 DEF Requests, SeasonActions, Dispositions
  <2>4. old \in Record /\ RecordSound(old, now)
    BY <2>3, LedgerFacts
  <2>5. CASE SubmitDisposition(s)
    <3> DEFINE next == applyDisposition(old, asked.op, asked.action)
    <3>1. /\ asked.action \in Dispositions /\ old.disposition # asked.op
          /\ isDisposable(old, asked.action, asked.content, asked.staged, asked.competing)
          /\ keepsHistory(old, next)
          /\ records' = [records EXCEPT ![k] = bumped(next)]
      BY <2>5 DEF SubmitDisposition, decodeDispositionRequest, Dispose
    <3> HIDE DEF asked, old, next
    <3>2. /\ bumped(next).staged = None /\ bumped(next).terminal = old.terminal
          /\ bumped(next).disposition = asked.op
      BY <2>1, <2>4, <3>1, DisposedRecord DEF next
    <3>3. KeepsResult(old, bumped(next))
      BY <3>1, <3>2 DEF KeepsResult
    <3>. QED BY <2>3, <3>1, <3>3, ReplacedKeepsResult DEF old
  <2>6. CASE SubmitRotation(s)
    <3> DEFINE next == rotatedRecord(old, asked.op)
    <3>1. records' = [records EXCEPT ![k] = bumped(next)]
      BY <2>6 DEF SubmitRotation, RotateVerifications
    <3> HIDE DEF asked, old, next
    <3>2. Rotates(old, next, asked.op)
      BY <2>1, <2>4, RotationRotates DEF next
    <3>3. SameButVersion(next, bumped(next))
      BY <3>2, BumpedIsSame DEF Rotates
    <3>4. KeepsResult(old, bumped(next))
      BY <3>2, <3>3 DEF Rotates, SameButVersion, KeepsResult
    <3>. QED BY <2>3, <3>1, <3>4, ReplacedKeepsResult DEF old
  <2>7. ASSUME NEW outcome \in Revisions \union {"failed", "deferred"},
               SubmitVerification(s, outcome)
        PROVE  \A r \in Rounds : KeepsResult(records[r], records'[r])
    <3> DEFINE next == applyOperatorVerification(old, asked.op, outcome)
    <3>1. /\ old.staged # None /\ old.competing = None
          /\ Len(old.verifications) < MaximumVerifications
          /\ records' = [records EXCEPT ![k] = bumped(next)]
      BY <2>7 DEF SubmitVerification, Verify, isVerifiable
    <3> HIDE DEF asked, old, next
    <3>2. KeepsStaged(old, next)
      BY <2>1, <2>4, <3>1, VerificationVerifies DEF next, Verifies
    <3>3. SameButVersion(next, bumped(next))
      BY <3>2, BumpedIsSame DEF KeepsStaged
    <3>4. KeepsResult(old, bumped(next))
      BY <3>2, <3>3 DEF KeepsStaged, SameButVersion, KeepsResult
    <3>. QED BY <2>3, <3>1, <3>4, ReplacedKeepsResult DEF old
  <2>. QED BY <1>2, <2>5, <2>6, <2>7
<1>. QED BY <1>1, <1>2

LEMMA RoundsStayCorroborated ==
  ASSUME ObservationInv, [Next]_vars
  PROVE  \A r \in Rounds : StaysCorroborated(records[r], records'[r], history'.tail[r])
<1> DEFINE Kept == \A r \in Rounds : KeepsResult(records[r], records'[r])
           Goal == \A r \in Rounds :
                     StaysCorroborated(records[r], records'[r], history'.tail[r])
<1>1. Kept => Goal
  BY KeptIsCorroborated
<1>2. CASE Tick \/ Expire \/ Elsewhere \/ Release
  BY <1>1, <1>2, SameKeepsResult
     DEF Tick, Expire, ExpireLease, Elsewhere, OtherSeason, Release, ReleaseLease, ledger
<1>3. ASSUME NEW op \in Operations, NEW action \in OperatorActions, NEW r \in Rounds,
             Inspect(op, action, r)
      PROVE  Goal
  BY <1>1, <1>3, SameKeepsResult DEF Inspect, ledger
<1>4. ASSUME NEW s \in Sessions,
             \/ \E work \in Triggers \union Operations : Acquire(s, work)
             \/ GiveUp(s) \/ SkipReconciliation(s)
             \/ \E publishes \in BOOLEAN : Plan(s, publishes)
      PROVE  Goal
  <2>1. records' = records
    BY <1>4 DEF Acquire, AcquireLease, GiveUp, SkipReconciliation, Plan, ledger
  <2>. QED BY <1>1, <2>1, SameKeepsResult
<1>5. ASSUME NEW s \in Sessions,
             \/ Reserve(s)
             \/ \E published \in BOOLEAN : Recover(s, published)
             \/ \E decision \in Decisions : Settle(s, decision)
      PROVE  Goal
  <2>1. records' = records \/ \E fence, write : Commit(fence, write, NoWrites)
    BY <1>5 DEF Reserve, Recover, Settle, ledger
  <2>2. records' = records
    BY <2>1, NothingIsWritten
  <2>. QED BY <1>1, <2>2, SameKeepsResult
<1>6. ASSUME NEW s \in Sessions, NEW served \in Served, Reconcile(s, served)
      PROVE  Goal
  <2>1. ASSUME NEW r \in Rounds PROVE KeepsResult(records[r], records'[r])
    <3>1. SameForReview(records[r], records'[r])
      BY <1>6, ReconciledRecords
    <3>. QED BY <3>1 DEF SameForReview, SameButVersion, KeepsResult
  <2>. QED BY <1>1, <2>1
<1>7. ASSUME NEW s \in Sessions, ObserveSome(s)
      PROVE  Goal
  <2>1. \A r \in Rounds : ObservedAs(records[r], records'[r], history'.tail[r], now)
    BY <1>7, ObservedRecords DEF ObserveSome
  <2>. QED BY <2>1 DEF ObservedAs, SettlesWithCount, StaysCorroborated
<1>8. ASSUME NEW s \in Sessions,
             \/ SubmitAction(s) \/ SubmitDisposition(s) \/ SubmitRotation(s)
             \/ \E outcome \in Revisions \union {"failed", "deferred"} :
                  SubmitVerification(s, outcome)
      PROVE  Goal
  BY <1>1, <1>8, OperatorsKeepResults
<1>9. CASE UNCHANGED vars
  BY <1>1, <1>9, SameKeepsResult DEF vars, ledger
<1>. QED BY <1>2, <1>3, <1>4, <1>5, <1>6, <1>7, <1>8, <1>9 DEF Next

(* D2.1: no step of any run or operator replaces an accepted revision, or stages
   a correction of a settled one, on a single sighting, but an operator's
   disposition, and the ceiling, which stages for review (policy/classification.ts). *)
THEOREM ReplacementsAreCorroborated == Spec => ReplacementIsCorroborated
<1>1. ObservationInv /\ [Next]_vars =>
        [\A r \in Rounds :
           LET old == records[r] new == records'[r] IN
           /\ old.content \notin {None, new.content} /\ new.disposition = old.disposition =>
                history'.tail[r].revision = new.content /\ history'.tail[r].count >= 2
           /\ old.staged # new.staged /\ new.staged # None =>
                /\ history'.tail[r].revision = new.staged
                /\ \/ history'.tail[r].count >= 2
                   \/ old.checkIndex # FinalSlot /\ new.checkIndex = FinalSlot]_vars
  BY RoundsStayCorroborated DEF StaysCorroborated
<1>. QED BY <1>1, ObservationSafe, PTL DEF Spec, ReplacementIsCorroborated

(* A round settles before its ceiling only on that many confirmations in a row,
   the last at or after the settling slot (policy/classification.ts). *)
THEOREM SettlingsAreConfirmed == Spec => SettlingIsConfirmed
<1>1. ObservationInv /\ [Next]_vars =>
        [\A r \in Rounds :
           LET old == records[r] new == records'[r] IN
           new.terminal = "settled" /\ old.terminal # "settled" =>
             /\ history'.tail[r].revision = new.content
             /\ history'.tail[r].count >= SettlingConfirmations
             /\ new.checkIndex >= SettlingSlot]_vars
  BY RoundsStayCorroborated DEF StaysCorroborated
<1>. QED BY <1>1, ObservationSafe, PTL DEF Spec, SettlingIsConfirmed
=============================================================================
