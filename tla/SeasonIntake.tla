---------------------------- MODULE SeasonIntake -----------------------------
(* A run reads a season's resources one request after the other while Jolpica  *)
(* goes on publishing, and prepares a candidate from what it holds, or         *)
(* withholds one.                                                              *)
EXTENDS JolpicaSeason, SnapshotSet

CONSTANTS
  Season,        \* The season read.
  PageLimit,     \* The page every request asks for.
  Seasons,       \* What may be known of the season before its first race.
  RaceAnswers,   \* For every round, the answers with a classification.
  TableAnswers,  \* For both tables, the answers from before the first race on.
  Instants       \* The instants a candidate may be generated at.

(* Rows come in sequences, rounds, laps and instants are counted, the blocks   *)
(* of a weekend are those the provider knows, and an identity is the sequence  *)
(* of its parts.                                                               *)
IsListed(rows) == Len(rows) \in Nat /\ rows = [i \in 1 .. Len(rows) |-> rows[i]]
HoldsRaces(answer) ==
  /\ IsListed(answer.races)
  /\ \A n \in DOMAIN answer.races :
       /\ IsListed(answer.races[n].rows)
       /\ \A k \in DOMAIN answer.races[n].rows : answer.races[n].rows[k].laps \in Nat
ASSUME IntakeAssumption ==
  /\ Instants \subseteq Nat
  /\ \A s \in Seasons :
       /\ IsListed(s.calendar.rows) /\ IsListed(s.circuits.rows)
       /\ IsListed(s.drivers.rows) /\ IsListed(s.constructors.rows)
       /\ \A i \in DOMAIN s.calendar.rows :
            /\ s.calendar.rows[i].round \in Nat /\ s.calendar.rows[i].start \in Nat
            /\ \A block \in DOMAIN s.calendar.rows[i].sessions :
                 s.calendar.rows[i].sessions[block] \in Nat
            /\ DOMAIN s.calendar.rows[i].sessions \subseteq DOMAIN SessionTypes
            /\ \A answer \in RaceAnswers[s.calendar.rows[i].round] : HoldsRaces(answer)
       /\ \A driver \in s.canonical["driver"] : IsListed(driver)
       /\ \A r \in DOMAIN s.schedules : \A x \in s.schedules[r] : x.start \in Nat

VARIABLES
  season,    \* What is known before the first race: answers, registry, schedules.
  races,     \* Jolpica's answer to every round's classification.
  tables,    \* Jolpica's two standings tables.
  run        \* The run: what it has still to ask, what it read, what came of it.

vars == <<season, races, tables, run>>

SeasonResources ==
  <<<<"season-calendar">>, <<"season-participants">>, <<"season-circuits">>,
    <<"driver-standings">>, <<"constructor-standings">>>>
Tables == {"driver-standings", "constructor-standings"}
CalendarRounds == {row.round : row \in RowsOf(season.calendar)}

Begun == [todo |-> SeasonResources, readings |-> <<>>, status |-> "completed",
          stage |-> "season", gap |-> "none", relations |-> {}, at |-> 0]
NothingYet(round) ==
  [shaped |-> TRUE, offset |-> 0, limit |-> PageLimit, total |-> 0, season |-> Season,
   round |-> round, races |-> <<>>]

Init ==
  /\ season \in Seasons
  /\ races = [r \in CalendarRounds |-> NothingYet(r)]
  /\ tables = [t \in Tables |-> TableAnswers[t][1]]
  /\ run = Begun

-----------------------------------------------------------------------------
(* Jolpica.                                                                    *)

Published(r) == races[r].races # <<>>

(* A race is classified, in whatever order the rounds are.                     *)
Classify(r) ==
  /\ ~Published(r)
  /\ \E answer \in RaceAnswers[r] : races' = [races EXCEPT ![r] = answer]
  /\ UNCHANGED <<season, tables, run>>

(* A table moves on after the race it counts, at its own time.                 *)
MoveOn(t) ==
  /\ \E r \in {q \in CalendarRounds : Published(q) /\ tables[t].round < q} :
       tables' = [tables EXCEPT ![t] = TableAnswers[t][r + 1]]
  /\ UNCHANGED <<season, races, run>>

-----------------------------------------------------------------------------
(* The run.                                                                    *)

Registry == Build(season.documents, season.canonical)

Reading(request) ==
  LET kind == request[1] IN
  CASE kind = "season-calendar" ->
         ReadCalendar(season.calendar, Season, PageLimit, Registry)
    [] kind = "season-participants" ->
         ReadParticipants(season.drivers, season.constructors, Season, PageLimit,
                          Registry, season.curated)
    [] kind = "season-circuits" ->
         ReadCircuits(season.circuits, Season, PageLimit, Registry, season.curated)
    [] kind \in Tables ->
         ReadStandings(tables[kind], Season, kind, PageLimit, Registry)
    [] kind = "session-classification" ->
         ReadClassification(races[request[2]], Season, request[2], PageLimit, Registry)

(* What was read, with what a request has just been answered.                  *)
ReadingsWith(request) ==
  [q \in DOMAIN run.readings \cup {request} |->
     IF q = request THEN Reading(q) ELSE run.readings[q]]

(* Every resource is asked for, whatever came of those before.                 *)
Read ==
  /\ run.todo # <<>>
  /\ run' = [run EXCEPT !.todo = Tail(@), !.readings = ReadingsWith(Head(run.todo))]
  /\ UNCHANGED <<season, races, tables>>

(* The requests for the classifications of some rounds, in order.              *)
Checks(rounds) ==
  [n \in 1 .. Cardinality(rounds) |->
     <<"session-classification",
       CHOOSE r \in rounds : Cardinality({q \in rounds : q < r}) = n - 1>>]

(* The plan goes on with the classifications of some rounds.                   *)
PlanChecks ==
  /\ run.stage = "season" /\ run.todo = <<>>
  /\ \E rounds \in SUBSET CalendarRounds :
       run' = [run EXCEPT !.stage = "checks", !.todo = Checks(rounds)]
  /\ UNCHANGED <<season, races, tables>>

(* The run's signal is aborted between two requests: what it read is let go.   *)
Cancel ==
  /\ run.todo # <<>>
  /\ run' = [run EXCEPT !.status = "cancelled", !.stage = "checks", !.todo = <<>>,
                        !.readings = <<>>]
  /\ UNCHANGED <<season, races, tables>>

ReadAs(outcome) == {request \in DOMAIN run.readings : run.readings[request].reading = outcome}
PayloadOf(kind, otherwise) ==
  IF <<kind>> \in ReadAs("normalized") THEN run.readings[<<kind>>].payload ELSE otherwise

Classified(result) ==
  [round |-> result.round, session |-> result.session, status |-> result.status,
   source |-> "jolpica", event |-> result.event, canonical |-> TRUE,
   fastestLap |-> IF result.fastestDrivers = {} THEN Nobody ELSE TheOne(result.fastestDrivers),
   rows |-> result.entries]

NoTable == [round |-> NoRound, rows |-> {}]
NoParticipants == [drivers |-> {}, constructors |-> {}, entries |-> {}]

(* The run as the assembly sees it.                                            *)
Gathered ==
  LET participants == PayloadOf("season-participants", NoParticipants) IN
  [status |-> run.status,
   unavailable |-> {request[1] : request \in DOMAIN run.readings \ ReadAs("normalized")},
   selected |-> {request[1] : request \in ReadAs("normalized")},
   calendar |-> PayloadOf("season-calendar", {}), schedules |-> season.schedules,
   drivers |-> participants.drivers, constructors |-> participants.constructors,
   constructorEntries |-> participants.entries,
   circuits |-> PayloadOf("season-circuits", {}),
   driverStandings |-> PayloadOf("driver-standings", NoTable),
   constructorStandings |-> PayloadOf("constructor-standings", NoTable),
   classifications |->
     {Classified(run.readings[request].result) :
        request \in {q \in ReadAs("normalized") : q[1] = "session-classification"}}]

(* prepareCandidate: withheld for a gap, withheld because the generator threw, *)
(* or prepared.                                                                *)
GapOf(assembly) ==
  IF ~assembly.complete THEN assembly.gap
  ELSE IF Throws(SourceOf(Gathered)) THEN "generation-failed" ELSE "none"

Prepare(at) ==
  LET assembly == Assembly(Gathered)
      gapName == GapOf(assembly)
  IN  /\ run.stage = "checks" /\ run.todo = <<>>
      /\ run' = [run EXCEPT !.stage = IF gapName = "none" THEN "prepared" ELSE "withheld",
                            !.gap = gapName, !.relations = assembly.relations,
                            !.at = IF gapName = "none" THEN at ELSE 0]
      /\ UNCHANGED <<season, races, tables>>

(* What was prepared is published or dropped, and the next run begins.         *)
Begin ==
  /\ run.stage \in {"prepared", "withheld"}
  /\ run' = Begun
  /\ UNCHANGED <<season, races, tables>>

Next ==
  \/ \E r \in CalendarRounds : Classify(r)
  \/ \E t \in Tables : MoveOn(t)
  \/ Read \/ PlanChecks \/ Cancel \/ Begin
  \/ \E at \in Instants : Prepare(at)

Spec == Init /\ [][Next]_vars
-----------------------------------------------------------------------------
(* Properties.                                                                 *)

Stages == {"season", "checks", "withheld", "prepared"}
Gaps ==
  {"none", "run-not-completed", "resource-unavailable", "missing-required-resource",
   "missing-round-classification", "inconsistent-references",
   "standings-round-incoherent", "generation-failed"}
RelationNames ==
  {"event-circuit", "event-identity", "session-event", "driver-entry-driver",
   "driver-entry-constructor", "driver-entry-span", "constructor-entry-constructor",
   "constructor-entry-lineup", "driver-standing-driver", "driver-standing-constructor",
   "constructor-standing-constructor", "result-event", "result-identity",
   "result-fastest-lap-driver", "result-entry-driver", "result-entry-constructor",
   "event-has-results", "result-entry-span", "driver-entry-support", "duplicate-identity"}

(* Every part of the state has its type, and only what is withheld has a gap.  *)
TypeOK ==
  /\ season \in Seasons
  /\ DOMAIN races = CalendarRounds /\ DOMAIN tables = Tables
  /\ run.stage \in Stages /\ run.gap \in Gaps /\ run.relations \subseteq RelationNames
  /\ (run.gap # "none") = (run.stage = "withheld")

Prepared == run.stage = "prepared"
Source == SourceOf(Gathered)
Timeline == Chronology(Source.calendar, run.at)
Participation(d) == {f \in Facts(Source.results) : f.driver = d}

(* What is prepared is one state of the season although it was read piece by   *)
(* piece while Jolpica went on: the rounds with results are exactly those up   *)
(* to the round both tables count.  (season-assembly.ts, the horizon and the   *)
(* unaccounted rounds.)                                                        *)
OneHorizon ==
  Prepared =>
    \A t \in Tables :
      {e.round : e \in {x \in Source.calendar : IsSettled(x)}}
        = {r \in CalendarRounds : r <= run.readings[<<t>>].payload.round}

(* The spans derived from the classifications never fail the relations they    *)
(* are held to: no race order, no absence and no return withholds a season     *)
(* for its own derivation.  (driver-span-derivation.ts and the two checks of   *)
(* season-integrity.ts agree.)                                                 *)
DerivedSpansHold ==
  run.relations \cap {"driver-entry-span", "result-entry-span", "driver-entry-support"} = {}

(* An identity is shared only where one driver's is another's followed by the  *)
(* round his seat starts in, or where the curated content repeats itself: the  *)
(* records name one event twice, or a schedule one session.  The stints of one *)
(* driver never share one, nor anything else that a payload brings.            *)
OnlyLookalikesCollide ==
  "duplicate-identity" \in run.relations =>
    \/ \E e, f \in Source.driverEntries :
         f.startRound # NoRound /\ e.driver = Append(f.driver, f.startRound)
    \/ \E e, f \in Source.calendar : e # f /\ e.id = f.id
    \/ \E r \in DOMAIN season.schedules :
         \E x, y \in season.schedules[r] : x # y /\ x.type = y.type

(* A source that passes the assembly never makes the generator throw: the      *)
(* preflight covers everything generateSnapshotSet requires.                   *)
GenerationNeverFails == run.gap # "generation-failed"

(* A driver's last classified races: one, or none.                             *)
LastFacts(d) == {f \in Participation(d) : \A g \in Participation(d) : g.round <= f.round}

ShowsLast(current, last) ==
  /\ {e.constructor : e \in current} = {f.constructor : f \in last}
  /\ Cardinality(current) = Cardinality(last)
  /\ \A e \in current :
       e.endRound = NoRound <=> \E f \in last : IsLatest(Rounds(Source.results), f.round)

(* The seat a driver's document shows is that of his last classified race, it  *)
(* is open exactly when he took part in the latest one, and only a driver who  *)
(* never raced has none.                                                       *)
CurrentSeatIsLatest ==
  Prepared =>
    \A d \in Source.drivers : ShowsLast(CurrentEntry(Source.driverEntries, d), LastFacts(d))

(* The events ahead stand in the order of their days wherever they have one,   *)
(* a calendar whose rounds were moved and one with an undated event included:  *)
(* the comparator alone is not an order.                                       *)
AheadInDateOrder ==
  Prepared =>
    \A i, j \in DOMAIN Timeline.ahead :
      LET first == StartDay(Timeline.ahead[i])
          second == StartDay(Timeline.ahead[j])
      IN  i < j /\ first # NoDay /\ second # NoDay => first <= second

(* Every event with a race start is ahead, settled or of a day that has passed *)
(* (one without a start may be in no list), and the featured one is never a    *)
(* settled one while another is ahead.                                         *)
NothingIsLost ==
  Prepared =>
    /\ \A e \in Source.calendar :
         \/ IsSettled(e) \/ IsBehind(e, run.at)
         \/ RaceStart(e) = NoStart
         \/ \E i \in DOMAIN Timeline.ahead : Timeline.ahead[i] = e
    /\ Timeline.ahead # <<>> => ~IsSettled(Timeline.featured[1])

(* As many different drivers as were counted, classified positions without a   *)
(* gap, one time, that of the winner, laps behind exactly for the lapped.      *)
IsWholeResult(entries, count) ==
  LET classified == {row \in entries : row.position # NoPosition} IN
  /\ Cardinality({row.driver : row \in entries}) = count
  /\ {row.position : row \in classified} = 1 .. Cardinality(classified)
  /\ \A row \in entries : (row.time # Absent) = (row.position = 1)
  /\ \A row \in entries : (row.status = "lapped") = (row.lapsBehind > 0)
  /\ Cardinality({row \in entries : row.fastest}) <= 1

(* A result in a candidate is the whole of the answer it was read from.        *)
ResultsAreWhole ==
  Prepared => \A c \in Source.results : IsWholeResult(c.rows, races[c.round].total)

(* The participants and circuits of a candidate are all those the provider     *)
(* counts: a page that was cut off is never a season.                          *)
SeasonIsWhole ==
  Prepared =>
    /\ Cardinality(Source.drivers) = season.drivers.total
    /\ Cardinality(Source.constructors) = season.constructors.total
    /\ Cardinality(Source.circuits) = season.circuits.total
    /\ Cardinality(Source.calendar) = season.calendar.total

(* No event of a candidate stands under two rounds.  The check that no round   *)
(* comes twice cannot see that, nor does an identity repeat: the two rows are  *)
(* read as the events of their rounds.  (calendar-payload.ts, eventKey.)       *)
EventsStandOnce ==
  Prepared =>
    \A i, j \in DOMAIN season.calendar.rows :
      LET first == season.calendar.rows[i]
          second == season.calendar.rows[j]
      IN  /\ first.raceName = second.raceName
          /\ first.circuitId = second.circuitId
          => i = j

(* The documents of a candidate and the flags in it agree: an event has a      *)
(* results document exactly when the calendar says that it has results, which  *)
(* is what a client goes by, and every driver and circuit named has one.       *)
DocumentsFollowFlags ==
  Prepared =>
    /\ \A e \in Source.calendar :
         /\ e.hasResults = (<<"grand-prix", e.round, "results">> \in Documents(Source))
         /\ <<"circuit", e.circuit>> \in Documents(Source)
    /\ \A f \in Facts(Source.results) :
         {<<"driver", f.driver>>, <<"constructor", f.constructor>>} \subseteq Documents(Source)

(* A candidate that names anything was read with names that have one meaning   *)
(* each, whatever the order of the curated records.  (A season without a row   *)
(* in any table asks the registry nothing.)                                    *)
NamesHaveOneMeaning ==
  Prepared /\ Source.drivers \cup Source.constructors \cup Source.circuits # {} =>
    \A p, q \in Places(season.documents) :
      KeyAt(season.documents, p) = KeyAt(season.documents, q) =>
        RecordAt(season.documents, p).target = RecordAt(season.documents, q).target

(* A season is withheld only for what it lacks: never for the seats derived    *)
(* for it, nor by a generator that meets what the preflight let through.       *)
PreflightIsSound == DerivedSpansHold /\ OnlyLookalikesCollide /\ GenerationNeverFails

(* The timeline is in order and complete.                                      *)
ChronologyHolds == AheadInDateOrder /\ NothingIsLost

(* A candidate is everything the provider counted, every event once, under     *)
(* names of one meaning, and its documents are those its flags announce.       *)
CandidateIsWhole ==
  /\ TypeOK
  /\ SeasonIsWhole
  /\ EventsStandOnce
  /\ ResultsAreWhole
  /\ DocumentsFollowFlags
  /\ NamesHaveOneMeaning
=============================================================================
