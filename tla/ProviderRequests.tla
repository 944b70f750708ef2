-------------------------- MODULE ProviderRequests ---------------------------
(* The runs that ask Jolpica for resources, and the one object that grants     *)
(* them capacity.  A run asks for its resources one after another; each        *)
(* resource needs one or two requests; each request passes the run's pacer,    *)
(* takes a reservation from the global limiter, crosses the HTTP boundary and  *)
(* is read by the port that owns the resource.  A 429 holds the run at once    *)
(* and, if its report arrives, every run.                                      *)
EXTENDS ProviderOutcome

CONSTANTS
  Runs,          \* the coordinated runs and operator verifications
  Plan,          \* per run, the kinds it asks for, in plan order
  Windows,       \* the published limits: records [duration, limit]
  Spacing,       \* the least time between two reservations of one run
  HoldFloor,     \* the shortest upstream hold
  HoldCeiling,   \* the longest upstream hold
  RetryAfters,   \* instants a 429 may carry as Retry-After, NoInstant for none
  Deadline,      \* from a run's start to the abort of its coordination
  MaxTime,       \* the bound on the clock
  MaxFailures,   \* the bound on lost answers, lost reports and storage failures
  MaxElsewhere   \* the bound on what the runs outside Runs do

ASSUME ProviderAssumption ==
  /\ "elsewhere" \notin Runs /\ Plan \in [Runs -> Seq(Capabilities("jolpica"))]
  /\ \A r \in Runs : \A i, j \in DOMAIN Plan[r] : Plan[r][i] = Plan[r][j] => i = j
  /\ Windows # {} /\ IsFiniteSet(Windows)
  /\ \A w \in Windows : w.duration \in Nat \ {0} /\ w.limit \in Nat \ {0}
  /\ Spacing \in Nat \ {0} /\ Deadline \in Nat \ {0} /\ MaxTime \in Nat
  /\ MaxFailures \in Nat /\ MaxElsewhere \in Nat
  /\ HoldFloor \in Nat \ {0} /\ HoldCeiling \in Nat /\ HoldFloor <= HoldCeiling
  /\ RetryAfters \subseteq Nat

VARIABLES
  now,        \* the clock of the Workers and of the object
  ledger,     \* the object's record: the reservations it still holds
  hold,       \* the object's upstream hold, NoInstant before any 429
  runs,       \* per run: its place, its answers, its pacer and its signal
  failures,   \* how many faults have happened
  granted,    \* history: every reservation ever granted, [id, at, run]
  held,       \* history: every hold taken, by the run a 429 reached or, once
              \* its report arrives, by the object, [run, scope, after, until]
  sent,       \* history: per run, the endings of the requests that left
  inTime,     \* history: per run, how many resources were answered unaborted
  elsewhere   \* how many events of the runs outside Runs have happened

vars == <<now, ledger, hold, runs, failures, granted, held, sent, inTime, elsewhere>>

-----------------------------------------------------------------------------
(* The reservation engine.  The record is a set of [id, at]: two reservations  *)
(* at one instant stay two.                                                    *)

Longest == CHOOSE d \in {w.duration : w \in Windows} :
             \A w \in Windows : w.duration <= d
\* Faulty Pruned: the object forgets what has left its shortest window.
PrunedToShortest(record, at) ==
  LET shortest == CHOOSE d \in {w.duration : w \in Windows} :
                    \A w \in Windows : w.duration >= d
  IN  {g \in record : g.at > at - shortest}

Pruned(record, at) == {g \in record : g.at > at - Longest}

InWindow(record, w, at) == {g \in record : g.at > at - w.duration}
Exhausted(record, w, at) == Cardinality(InWindow(record, w, at)) >= w.limit
Limiting(record, at) == {w \in Windows : Exhausted(record, w, at)}

(* When a limiting window has room again: once the reservation that must leave *)
(* it first has expired.                                                       *)
RoomAgainAt(record, w, at) ==
  LET inWindow == InWindow(record, w, at)
      surplus == Cardinality(inWindow) - w.limit
      blocking == CHOOSE g \in inWindow :
                    /\ Cardinality({h \in inWindow : h.at < g.at}) <= surplus
                    /\ Cardinality({h \in inWindow : h.at <= g.at}) > surplus
  IN  blocking.at + w.duration

RetryAt(record, at) ==
  LET instants == {RoomAgainAt(record, w, at) : w \in Limiting(record, at)}
  IN  CHOOSE t \in instants : \A u \in instants : u <= t

UpstreamHoldUntil(at, retryAfter) ==
  IF retryAfter = NoInstant \/ retryAfter < at + HoldFloor THEN at + HoldFloor
  ELSE IF retryAfter > at + HoldCeiling THEN at + HoldCeiling ELSE retryAfter

Later(a, b) == IF a < b THEN b ELSE a

(* The object's decision, and the record and grants it leaves behind.          *)
Decision(record, holdUntil, at) ==
  IF holdUntil > at
  THEN [outcome |-> "deferred", retryAt |-> holdUntil]
  ELSE IF Limiting(Pruned(record, at), at) # {}
       THEN [outcome |-> "deferred", retryAt |-> RetryAt(Pruned(record, at), at)]
       ELSE [outcome |-> "allowed", retryAt |-> NoInstant]

-----------------------------------------------------------------------------
(* The ports: how many requests a resource needs, and how each reads the       *)
(* answer of a request that completed.                                         *)

CalendarReadings == {"normalized", "invalid-payload", "mapping-failure"}
CircuitsReadings == {"normalized", "invalid-payload", "mapping-failure"}
ResultsReadings == {"normalized", "invalid-payload", "mapping-failure", "no-classification"}
StandingsReadings == {"normalized", "invalid-payload", "mapping-failure"}
ParticipantsReadings == {"normalized", "invalid-payload", "mapping-failure"}

Readings(kind) ==
  CASE kind = "season-calendar" -> CalendarReadings
    [] kind = "season-circuits" -> CircuitsReadings
    [] kind = "season-participants" -> ParticipantsReadings
    [] kind = "session-classification" -> ResultsReadings
    [] OTHER -> StandingsReadings

RequestsOf(kind) == IF kind = "season-participants" THEN 2 ELSE 1

(* The HTTP boundary's failures after the request left, and how each ended.    *)
PolicyRejections == {"invalid-content-type", "response-too-large", "malformed-json"}
TransportFailures == {"timeout", "network", "redirect-rejected", "provider-http-error"}

AttemptOutcomeFor(ending) ==
  CASE ending = "provider-rate-limited" -> "rate-limited"
    [] ending \in PolicyRejections \cup {"completed"} -> "successful"
    [] OTHER -> "failed"

Attempt(kind, n, ending) ==
  [reference |-> <<kind, n>>, outcome |-> AttemptOutcomeFor(ending)]

(* A request that did not leave: nothing was asked, or the resource stopped    *)
(* after the requests it already made.                                         *)
NotSent(earlier, reason, hint) ==
  IF earlier = <<>> THEN NotAttempted(reason, hint)
  ELSE outcomeOf("interrupted", earlier, reason, hint)

(* A request that left and did not complete.                                   *)
TransportFailure(kind, earlier, ending, hint) ==
  LET attempts == Append(earlier, Attempt(kind, Len(earlier) + 1, ending))
  IN  IF ending = "provider-rate-limited"
      THEN outcomeOf("failed", attempts, "provider-rate-limited", hint)
      ELSE outcomeOf("failed", attempts, "provider-unavailable", NoInstant)

(* A request that completed and ends the resource under `reading`.             *)
ReadOutcome(attempts, reading) ==
  CASE reading = "normalized" -> Candidate(attempts, "fits")
    [] reading = "mapping-failure" ->
         outcomeOf("mapping-failure", attempts, NoReason, NoInstant)
    [] reading = "no-classification" ->
         outcomeOf("failed", attempts, "provider-unavailable", NoInstant)
    [] reading = "invalid-payload" ->
         outcomeOf("failed", attempts, "invalid-payload", NoInstant)

-----------------------------------------------------------------------------
(* A run.  pc: "idle" before its lease, "leased" before coordination,          *)
(* "next" between two resources, "pace" in the pacer, "asked" while the object *)
(* is asked, "answered" with the object's answer, "sent" while a request is    *)
(* out, "report" while a 429 is reported, "ended" after the coordination.      *)

idle ==
  [pc |-> "idle", startedAt |-> 0, aborted |-> FALSE, answers |-> <<>>, late |-> {},
   attempts |-> <<>>, lastReservationAt |-> NoInstant, heldUntil |-> NoInstant,
   reply |-> [outcome |-> "none", retryAt |-> NoInstant], retryAfter |-> NoInstant]

Init ==
  /\ now = 1 /\ ledger = {} /\ hold = NoInstant /\ failures = 0
  /\ runs = [r \in Runs |-> idle]
  /\ granted = {} /\ held = {} /\ sent = [r \in Runs |-> <<>>]
  /\ inTime = [r \in Runs |-> Len(Plan[r])] /\ elsewhere = 0

kindOf(r) == Plan[r][Len(runs[r].answers) + 1]
goes(r, run) == runs' = [runs EXCEPT ![r] = run]
at(r, pc) == runs[r].pc = pc

\* Faulty Answered: an answer that arrives after the abort is not noted as late.
AnsweredInTime(r, run, outcome) ==
  [run EXCEPT !.pc = "next", !.attempts = <<>>, !.retryAfter = NoInstant,
              !.reply = idle.reply, !.answers = Append(@, outcome)]

(* A resource is answered: the coordinator's worker takes the next operation.  *)
Answered(r, run, outcome) ==
  [run EXCEPT !.pc = "next", !.attempts = <<>>, !.retryAfter = NoInstant,
              !.reply = idle.reply,
              !.answers = Append(@, outcome),
              !.late = IF run.aborted THEN @ \cup {kindOf(r)} ELSE @]

\* Faulty Request: the run relies on the object to hold it.
RequestUnheld(r, run) ==
  IF run.aborted
  THEN Answered(r, run, NotSent(run.attempts, "cancelled", NoInstant))
  ELSE [run EXCEPT !.pc = "pace"]

(* Taking the next operation, or the next request of one: the boundary refuses *)
(* a run that was aborted, and the pacer one its own 429 holds.                *)
Request(r, run) ==
  IF run.aborted
  THEN Answered(r, run, NotSent(run.attempts, "cancelled", NoInstant))
  ELSE IF run.heldUntil > now
       THEN Answered(r, run, NotSent(run.attempts, "rate-limit-deferred", run.heldUntil))
       ELSE [run EXCEPT !.pc = "pace"]

Tick ==
  /\ now < MaxTime
  /\ now' = now + 1
  /\ UNCHANGED <<ledger, hold, runs, failures, granted, held, sent, inTime, elsewhere>>

Lease(r) ==
  /\ at(r, "idle")
  /\ goes(r, [runs[r] EXCEPT !.pc = "leased", !.startedAt = now])
  /\ UNCHANGED <<now, ledger, hold, failures, granted, held, sent, inTime, elsewhere>>

(* A run already past its coordination deadline begins it cancelled.           *)
EnterCoordination(r) ==
  /\ at(r, "leased")
  /\ LET aborted == runs[r].aborted \/ now >= runs[r].startedAt + Deadline
     IN  /\ goes(r, [runs[r] EXCEPT !.pc = "next", !.aborted = aborted])
         /\ inTime' = IF aborted THEN [inTime EXCEPT ![r] = 0] ELSE inTime
  /\ UNCHANGED <<now, ledger, hold, failures, granted, held, sent, elsewhere>>

(* The budget's timer fires at its deadline or later.                          *)
Expire(r) ==
  /\ runs[r].pc \notin {"idle", "ended"} /\ ~runs[r].aborted
  /\ now >= runs[r].startedAt + Deadline
  /\ goes(r, [runs[r] EXCEPT !.aborted = TRUE])
  /\ inTime' = [inTime EXCEPT ![r] = Len(runs[r].answers)]
  /\ UNCHANGED <<now, ledger, hold, failures, granted, held, sent, elsewhere>>

(* The pool's worker: a cancelled run schedules nothing more.                  *)
NextOperation(r) ==
  /\ at(r, "next")
  /\ IF Len(runs[r].answers) = Len(Plan[r]) \/ runs[r].aborted
     THEN goes(r, [idle EXCEPT !.pc = "ended", !.late = runs[r].late,
                     !.answers = [n \in DOMAIN Plan[r] |->
                                    IF n \in DOMAIN runs[r].answers
                                    THEN runs[r].answers[n] ELSE NotExecuted]])
     ELSE goes(r, Request(r, runs[r]))
  /\ UNCHANGED <<now, ledger, hold, failures, granted, held, sent, inTime, elsewhere>>

(* The pacer waits out its spacing, then asks once.                            *)
Ask(r) ==
  /\ at(r, "pace")
  /\ runs[r].lastReservationAt = NoInstant \/ now >= runs[r].lastReservationAt + Spacing
  /\ goes(r, [runs[r] EXCEPT !.pc = "asked", !.lastReservationAt = now])
  /\ UNCHANGED <<now, ledger, hold, failures, granted, held, sent, inTime, elsewhere>>

(* The object decides in one serialised read-modify-write; the answer may be   *)
(* lost or unreadable on its way back.                                         *)
Reserve(r) ==
  /\ at(r, "asked")
  /\ LET decision == Decision(ledger, hold, now)
         grant == [id |-> Cardinality(granted) + 1, at |-> now, run |-> r]
     IN  /\ IF decision.outcome = "allowed"
            THEN /\ ledger' = Pruned(ledger, now) \cup {grant}
                 /\ granted' = granted \cup {grant}
            ELSE UNCHANGED <<ledger, granted>>
         /\ \/ /\ goes(r, [runs[r] EXCEPT !.pc = "answered", !.reply = decision])
               /\ UNCHANGED failures
            \/ /\ failures < MaxFailures
               /\ failures' = failures + 1
               /\ goes(r, [runs[r] EXCEPT !.pc = "answered",
                             !.reply = [outcome |-> "unavailable", retryAt |-> NoInstant]])
  /\ UNCHANGED <<now, hold, held, sent, inTime, elsewhere>>

(* The object was not reached, or its storage failed: nothing was decided.     *)
Unreachable(r) ==
  /\ at(r, "asked") /\ failures < MaxFailures
  /\ failures' = failures + 1
  /\ goes(r, [runs[r] EXCEPT !.pc = "answered",
                !.reply = [outcome |-> "unavailable", retryAt |-> NoInstant]])
  /\ UNCHANGED <<now, ledger, hold, granted, held, sent, inTime, elsewhere>>

\* Faulty Send: an object that did not answer lets the request leave.
SendUnlessDeferred(r) ==
  /\ at(r, "answered")
  /\ runs[r].reply.outcome # "deferred" /\ ~runs[r].aborted
  /\ goes(r, [runs[r] EXCEPT !.pc = "sent"])
  /\ sent' = [sent EXCEPT ![r] = Append(@, "out")]
  /\ UNCHANGED <<now, ledger, hold, failures, granted, held, inTime, elsewhere>>

(* Only a grant to a run that is still wanted lets a request leave.            *)
Send(r) ==
  /\ at(r, "answered")
  /\ runs[r].reply.outcome = "allowed" /\ ~runs[r].aborted
  /\ goes(r, [runs[r] EXCEPT !.pc = "sent"])
  /\ sent' = [sent EXCEPT ![r] = Append(@, "out")]
  /\ UNCHANGED <<now, ledger, hold, failures, granted, held, inTime, elsewhere>>

Refuse(r) ==
  /\ at(r, "answered")
  /\ LET reply == runs[r].reply
         refused(reason, hint) == goes(r, Answered(r, runs[r],
                                             NotSent(runs[r].attempts, reason, hint)))
     IN  \/ reply.outcome = "unavailable" /\ refused("limiter-unavailable", NoInstant)
         \/ reply.outcome = "deferred" /\ refused("rate-limit-deferred", reply.retryAt)
         \/ /\ reply.outcome = "allowed" /\ runs[r].aborted
            /\ refused("cancelled", NoInstant)
  /\ UNCHANGED <<now, ledger, hold, failures, granted, held, sent, inTime, elsewhere>>

ends(r, ending) ==
  sent' = [sent EXCEPT ![r] = [@ EXCEPT ![Len(@)] = AttemptOutcomeFor(ending)]]

(* The provider's answer is read by the port; the first of two requests may    *)
(* lead to the second, unless the run was aborted meanwhile.                   *)
Complete(r) ==
  /\ at(r, "sent")
  /\ ends(r, "completed")
  /\ LET kind == kindOf(r)
         attempts == Append(runs[r].attempts,
                            Attempt(kind, Len(runs[r].attempts) + 1, "completed"))
     IN  \E reading \in Readings(kind) :
           IF reading = "normalized" /\ Len(attempts) < RequestsOf(kind)
           THEN goes(r, Request(r, [runs[r] EXCEPT !.attempts = attempts]))
           ELSE goes(r, Answered(r, runs[r], ReadOutcome(attempts, reading)))
  /\ UNCHANGED <<now, ledger, hold, failures, granted, held, inTime, elsewhere>>

(* The request fails at the boundary; an aborted request ends as cancelled.    *)
Fail(r) ==
  /\ at(r, "sent")
  /\ \E ending \in PolicyRejections \cup TransportFailures \cup {"cancelled"} :
       /\ ending = "cancelled" => runs[r].aborted
       /\ ends(r, ending)
       /\ goes(r, Answered(r, runs[r],
                    TransportFailure(kindOf(r), runs[r].attempts, ending, NoInstant)))
  /\ UNCHANGED <<now, ledger, hold, failures, granted, held, inTime, elsewhere>>

holds(r, scope, until) ==
  held' = held \cup {[run |-> r, scope |-> scope, after |-> Cardinality(granted),
                      until |-> until]}

(* The provider answers 429: the run holds itself first, then reports.         *)
RateLimited(r) ==
  /\ at(r, "sent")
  /\ ends(r, "provider-rate-limited")
  /\ \E retryAfter \in RetryAfters :
       /\ retryAfter = NoInstant \/ retryAfter >= now
       /\ goes(r, [runs[r] EXCEPT !.pc = "report", !.retryAfter = retryAfter,
                     !.heldUntil = Later(@, UpstreamHoldUntil(now, retryAfter))])
       /\ holds(r, "run", UpstreamHoldUntil(now, retryAfter))
  /\ UNCHANGED <<now, ledger, hold, failures, granted, inTime, elsewhere>>

reported(r) ==
  goes(r, Answered(r, runs[r], TransportFailure(kindOf(r), runs[r].attempts,
                              "provider-rate-limited", runs[r].retryAfter)))

(* The object takes the report: a later one can only extend the hold.          *)
RecordRateLimit(r) ==
  /\ at(r, "report")
  /\ hold' = Later(hold, UpstreamHoldUntil(now, runs[r].retryAfter))
  /\ holds(r, "object", UpstreamHoldUntil(now, runs[r].retryAfter))
  /\ reported(r)
  /\ UNCHANGED <<now, ledger, failures, granted, sent, inTime, elsewhere>>

(* A lost report is silent: only the run that was refused is held.             *)
LoseReport(r) ==
  /\ at(r, "report") /\ failures < MaxFailures
  /\ failures' = failures + 1
  /\ reported(r)
  /\ UNCHANGED <<now, ledger, hold, granted, held, sent, inTime, elsewhere>>

(* Runs outside Runs reserve and report as well: the object cannot tell them   *)
(* apart.                                                                      *)
ElsewhereReserve ==
  /\ elsewhere < MaxElsewhere
  /\ Decision(ledger, hold, now).outcome = "allowed"
  /\ LET grant == [id |-> Cardinality(granted) + 1, at |-> now, run |-> "elsewhere"]
     IN  /\ ledger' = Pruned(ledger, now) \cup {grant}
         /\ granted' = granted \cup {grant}
  /\ elsewhere' = elsewhere + 1
  /\ UNCHANGED <<now, hold, runs, failures, held, sent, inTime>>

ElsewhereReport ==
  /\ elsewhere < MaxElsewhere
  /\ \E retryAfter \in RetryAfters :
       /\ hold' = Later(hold, UpstreamHoldUntil(now, retryAfter))
       /\ holds("elsewhere", "object", UpstreamHoldUntil(now, retryAfter))
  /\ elsewhere' = elsewhere + 1
  /\ UNCHANGED <<now, ledger, runs, failures, granted, sent, inTime>>

Next ==
  \/ Tick \/ ElsewhereReserve \/ ElsewhereReport
  \/ \E r \in Runs :
       \/ Lease(r) \/ EnterCoordination(r) \/ Expire(r) \/ NextOperation(r)
       \/ Ask(r) \/ Reserve(r) \/ Unreachable(r) \/ Send(r) \/ Refuse(r)
       \/ Complete(r) \/ Fail(r) \/ RateLimited(r) \/ RecordRateLimit(r)
       \/ LoseReport(r)

Spec == Init /\ [][Next]_vars

-----------------------------------------------------------------------------
(* What the coordinator makes of a run that ended.  Every resource is asked of *)
(* both sources; OpenF1 is refused by policy, with no port to ask.             *)

Operations(r) ==
  [n \in 1 .. 2 * Len(Plan[r]) |->
     [source |-> IF n % 2 = 1 THEN "jolpica" ELSE "openf1",
      kind |-> Plan[r][(n + 1) \div 2]]]

answersOf(r) ==
  [n \in DOMAIN Operations(r) |->
     IF n % 2 = 1 THEN runs[r].answers[(n + 1) \div 2]
     ELSE NotAttempted(PolicyRefusal("openf1", Operations(r)[n].kind, FALSE, {"jolpica"}),
                       NoInstant)]

requestsEnded(r, ending) == Cardinality({i \in DOMAIN sent[r] : sent[r][i] = ending})

-----------------------------------------------------------------------------
(* Properties.                                                                 *)

Endings == {"out", "successful", "failed", "rate-limited"}
Places == {"idle", "leased", "next", "pace", "asked", "answered", "sent", "report", "ended"}

(* The clock, the object's record and every run stay within their domains, and *)
(* the record only holds reservations that were granted.                       *)
TypeOK ==
  /\ now \in 1 .. MaxTime + 1 /\ hold \in Nat /\ failures \in 0 .. MaxFailures
  /\ ledger \subseteq granted
  /\ \A g \in granted : g.id \in Nat /\ g.at \in 1 .. now /\ g.run \in Runs \cup {"elsewhere"}
  /\ \A h \in held : h.run \in Runs \cup {"elsewhere"} /\ h.after \in Nat /\ h.until \in Nat
  /\ \A r \in Runs :
       /\ runs[r].pc \in Places /\ runs[r].aborted \in BOOLEAN
       /\ runs[r].heldUntil \in Nat /\ runs[r].lastReservationAt \in 0 .. now
       /\ Len(runs[r].answers) <= Len(Plan[r])
       /\ \A i \in DOMAIN sent[r] : sent[r][i] \in Endings

(* Whatever runs reserve, and in whatever order, no published window ever      *)
(* holds more requests than its limit, although the object prunes the          *)
(* reservations it remembers (reservation-engine.ts:105, :150).                *)
WindowsRespected ==
  \A w \in Windows, g \in granted :
    Cardinality({h \in granted : h.at \in (g.at - w.duration + 1) .. g.at}) <= w.limit

(* The instant a deferral names is neither early nor late: at it the same      *)
(* reservations admit one more, and at every instant before it they do not     *)
(* (reservation-engine.ts:176).                                                *)
RetryAtIsExact ==
  Limiting(ledger, now) # {} =>
    LET retryAt == RetryAt(Pruned(ledger, now), now)
    IN  /\ Limiting(Pruned(ledger, retryAt), retryAt) = {}
        /\ \A t \in now .. retryAt - 1 : Limiting(Pruned(ledger, t), t) # {}

(* After a 429, the run it reached reserves nothing before its hold ends even  *)
(* when the report is lost, and no run does once the report has arrived; a     *)
(* later, shorter report does not end an earlier hold                          *)
(* (reservation-pacer.ts:95, provider-rate-limiter.ts:283).                    *)
HoldsAreHonoured ==
  \A h \in held, g \in granted :
    (h.scope = "object" \/ h.run = g.run) /\ g.id > h.after => g.at >= h.until

(* No request leaves without a reservation of its own: an unreachable or       *)
(* unreadable object fails closed (provider-rate-limiter.ts:620).              *)
EveryRequestIsReserved ==
  \A r \in Runs : Len(sent[r]) <= Cardinality({g \in granted : g.run = r})

(* Whatever a request meets, the port answers within the closed outcome the    *)
(* coordinator reads: no legal exchange is a malformed answer or a             *)
(* contradiction, and none makes a check a defect (port.ts:700,                *)
(* composition.ts:240).                                                        *)
PortsAnswerWellFormed ==
  \A r \in Runs : at(r, "ended") =>
    /\ \A n \in DOMAIN Plan[r] :
         WellFormed(runs[r].answers[n]) \/ runs[r].answers[n] = NotExecuted
    /\ LET contributions == Contributions(Operations(r), answersOf(r))
       IN  /\ RunStatus(contributions, runs[r].aborted) # "invariant-violated"
           /\ \A n \in DOMAIN Plan[r] :
                CheckOf(contributions, Plan[r][n], runs[r].late).status # "defect"

(* The run's account of its requests is the requests that left, each counted   *)
(* once under the ending it had, the ones of interrupted and refused resources *)
(* included (coordinator.ts:386).                                              *)
AccountingIsExact ==
  \A r \in Runs : at(r, "ended") =>
    Accounting(Operations(r), answersOf(r)) =
      [total |-> Len(sent[r]), successful |-> requestsEnded(r, "successful"),
       failed |-> requestsEnded(r, "failed"),
       rateLimited |-> requestsEnded(r, "rate-limited")]

(* A check is only recorded as made for a resource that was answered before    *)
(* the run's signal aborted; an observed one had every request it needs        *)
(* answered (late-answers.ts:28, composition.ts:240).                          *)
ChecksAreOfTheRun ==
  \A r \in Runs : at(r, "ended") =>
    LET contributions == Contributions(Operations(r), answersOf(r))
    IN  \A n \in DOMAIN Plan[r] :
          LET check == CheckOf(contributions, Plan[r][n], runs[r].late)
          IN  /\ check.status \in {"observed", "failed"} =>
                   n <= inTime[r] /\ runs[r].answers[n] # NotExecuted
              /\ check.status = "observed" =>
                   /\ Len(runs[r].answers[n].attempts) = RequestsOf(Plan[r][n])
                   /\ AllSuccessful(runs[r].answers[n].attempts)

(* The object's record is sound: well-typed, within every window, and exact    *)
(* about when it admits again.                                                 *)
ReservationsAreSound == TypeOK /\ WindowsRespected /\ RetryAtIsExact

(* Every request that leaves is reserved before and accounted after, once.     *)
RequestsAreAccounted == EveryRequestIsReserved /\ AccountingIsExact

(* What a run records of its resources is well-formed and its own.             *)
ChecksAreSound == PortsAnswerWellFormed /\ ChecksAreOfTheRun
=============================================================================
