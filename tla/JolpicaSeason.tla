---------------------------- MODULE JolpicaSeason ----------------------------
(* The season-wide resources, from Jolpica's answers to canonical payloads:    *)
(* calendar, participants, circuits and standings.  An answer is               *)
(* [shaped, offset, limit, total, season, rows], a standings answer also has   *)
(* the round of its table and its lists; `shaped` is FALSE for an envelope,    *)
(* a collection or a page that does not read.                                  *)
EXTENDS JolpicaResults

Unreadable == [reading |-> "invalid-payload"]
Unmapped == [reading |-> "mapping-failure"]
Normalized(payload) == [reading |-> "normalized", payload |-> payload]

RowsOf(answer) == {answer.rows[i] : i \in DOMAIN answer.rows}

IsWholeTable(answer, season, requested) ==
  /\ answer.shaped /\ answer.season = season
  /\ IsWholePage(answer, requested, Len(answer.rows))

-----------------------------------------------------------------------------
(* Participants and circuits: a row is a provider's name, `Malformed` when it  *)
(* is none, and a canonical identity has curated content or the season fails.  *)

DecodesIdentities(answer, season, requested) ==
  /\ IsWholeTable(answer, season, requested)
  /\ Malformed \notin RowsOf(answer)
  /\ Distinct(answer.rows)

(* A duplicate before the first missing content is a contradiction, a missing  *)
(* content before the first duplicate is not: the rows are walked in order.    *)
FirstTrouble(rows, season, entity, registry, curated) ==
  LET canonical == [i \in DOMAIN rows |-> TheOne(Resolved(registry, season, entity, rows[i]))]
      repeated(i) == \E j \in 1 .. (i - 1) : canonical[j] = canonical[i]
      troubled == {i \in DOMAIN rows : repeated(i) \/ canonical[i] \notin curated}
      first == CHOOSE i \in troubled : \A j \in troubled : i <= j
  IN  IF troubled = {} THEN "none"
      ELSE IF repeated(first) THEN "duplicate" ELSE "missing"

NormalizeIdentities(rows, season, entity, registry, curated) ==
  LET trouble == FirstTrouble(rows, season, entity, registry, curated)
  IN  IF \E i \in DOMAIN rows : Resolved(registry, season, entity, rows[i]) = {}
      THEN Unmapped
      ELSE CASE trouble = "duplicate" -> Unreadable
             [] trouble = "missing" -> Unmapped
             [] OTHER -> Normalized({TheOne(Resolved(registry, season, entity, rows[i])) :
                                       i \in DOMAIN rows})

ReadIdentities(answer, season, requested, entity, registry, curated) ==
  IF ~DecodesIdentities(answer, season, requested) THEN Unreadable
  ELSE NormalizeIdentities(answer.rows, season, entity, registry, curated)

ReadCircuits(answer, season, requested, registry, curated) ==
  ReadIdentities(answer, season, requested, "circuit", registry, curated)

(* The season entries of constructors come without a lineup.                   *)
ConstructorSeasonEntries(constructors) ==
  {[constructor |-> c, lineup |-> {}] : c \in constructors}

ReadParticipants(drivers, constructors, season, requested, registry, curated) ==
  LET first == ReadIdentities(drivers, season, requested, "driver", registry, curated)
      second == ReadIdentities(constructors, season, requested, "constructor",
                               registry, curated)
  IN  IF first.reading # "normalized" THEN first
      ELSE IF second.reading # "normalized" THEN second
      ELSE Normalized([drivers |-> first.payload, constructors |-> second.payload,
                       entries |-> ConstructorSeasonEntries(second.payload)])

-----------------------------------------------------------------------------
(* Standings.  A row is [legible, name, constructors, position], the           *)
(* constructors of a constructor's row empty.  The one list of a table is      *)
(* [season, round, rows].                                                      *)

ReadsStandingRow(row, kind) ==
  /\ row.legible /\ row.position > 0 /\ row.name # Malformed
  /\ kind = "driver-standings" =>
       /\ row.constructors # <<>>
       /\ Distinct(row.constructors)
       /\ \A i \in DOMAIN row.constructors : row.constructors[i] # Malformed

ChecksPositions(rows) ==
  \A i, j \in DOMAIN rows : i < j => rows[i].position < rows[j].position

DecodesStandings(answer, season, kind, requested) ==
  /\ answer.shaped /\ answer.season = season
  /\ IsWholePage(answer, requested, Len(answer.rows))
  /\ IF answer.lists = <<>>
     THEN answer.rows = <<>>
     ELSE /\ Len(answer.lists) = 1
          /\ answer.round > 0 /\ answer.lists[1] = [season |-> season, round |-> answer.round]
          /\ answer.rows # <<>>
          /\ \A i \in DOMAIN answer.rows : ReadsStandingRow(answer.rows[i], kind)
          /\ ChecksPositions(answer.rows)
          /\ Distinct([i \in DOMAIN answer.rows |-> answer.rows[i].name])

(* A driver who scored for two teams has no constructor in the table.          *)
DriverStandingOf(row, season, registry) ==
  [driver |-> TheOne(Resolved(registry, season, "driver", row.name)),
   constructor |->
     IF Len(row.constructors) = 1
     THEN TheOne(Resolved(registry, season, "constructor", row.constructors[1]))
     ELSE <<>>,
   position |-> row.position]

NormalizeDriverStandings(answer, season, registry) ==
  LET constructorsOf(row) ==
        [i \in DOMAIN row.constructors |->
           Resolved(registry, season, "constructor", row.constructors[i])]
      driverOf(row) == Resolved(registry, season, "driver", row.name)
      rows == answer.rows
  IN  IF \E i \in DOMAIN rows :
           driverOf(rows[i]) = {} \/ {} \in {constructorsOf(rows[i])[j] :
                                               j \in DOMAIN rows[i].constructors}
      THEN Unmapped
      ELSE IF \/ ~Distinct([i \in DOMAIN rows |-> driverOf(rows[i])])
              \/ \E i \in DOMAIN rows : ~Distinct(constructorsOf(rows[i]))
      THEN Unreadable
      ELSE Normalized([round |-> answer.round,
                       rows |-> {DriverStandingOf(rows[i], season, registry) :
                                   i \in DOMAIN rows}])

NormalizeConstructorStandings(answer, season, registry) ==
  LET constructorOf(row) == Resolved(registry, season, "constructor", row.name)
      rows == answer.rows
  IN  IF \E i \in DOMAIN rows : constructorOf(rows[i]) = {} THEN Unmapped
      ELSE IF ~Distinct([i \in DOMAIN rows |-> constructorOf(rows[i])]) THEN Unreadable
      ELSE Normalized([round |-> answer.round,
                       rows |-> {TheOne(constructorOf(rows[i])) : i \in DOMAIN rows}])

ReadStandings(answer, season, kind, requested, registry) ==
  IF ~DecodesStandings(answer, season, kind, requested) THEN Unreadable
  ELSE IF kind = "driver-standings"
  THEN NormalizeDriverStandings(answer, season, registry)
  ELSE NormalizeConstructorStandings(answer, season, registry)

-----------------------------------------------------------------------------
(* The calendar.  A row is [legible, season, round, raceName, circuitId,       *)
(* start, sessions], the sessions a function from blocks to instants.          *)

SessionTypes ==
  [FirstPractice |-> "practice_1", SecondPractice |-> "practice_2",
   ThirdPractice |-> "practice_3", SprintQualifying |-> "sprint_qualifying",
   Sprint |-> "sprint", Qualifying |-> "qualifying"]
StandardBlocks == {"FirstPractice", "SecondPractice", "ThirdPractice", "Qualifying"}
SprintBlocks == {"Sprint", "SprintQualifying"}

WeekendFormat(row) ==
  IF DOMAIN row.sessions \cap SprintBlocks # {} THEN "sprint"
  ELSE IF StandardBlocks \subseteq DOMAIN row.sessions THEN "standard" ELSE "unknown"

ReadsCalendarRow(row, season) ==
  /\ row.legible /\ row.season = season /\ row.round > 0
  /\ row.raceName # Malformed /\ row.circuitId # Malformed
  /\ row.start # Absent /\ \A block \in DOMAIN row.sessions : row.sessions[block] # Absent

\* Faulty eventKey: the key has the round in it, and no two rounds share one.
eventKeyOfRound(row) == EventLocator(row)

(* What tells events apart, the round left out: a circuit may host two events, *)
(* under two names, and one event has one round.                               *)
eventKey(row) == <<row.raceName, row.circuitId>>

DecodesCalendar(answer, season, requested) ==
  /\ IsWholeTable(answer, season, requested)
  /\ \A i \in DOMAIN answer.rows : ReadsCalendarRow(answer.rows[i], season)
  /\ Distinct([i \in DOMAIN answer.rows |-> answer.rows[i].round])
  /\ Distinct([i \in DOMAIN answer.rows |-> eventKey(answer.rows[i])])

(* No source of the calendar says that a session took place.                   *)
SessionsFor(row) ==
  {[type |-> SessionTypes[block], start |-> row.sessions[block], status |-> "unknown",
    canonical |-> TRUE] : block \in DOMAIN row.sessions}
    \cup {[type |-> "race", start |-> row.start, status |-> "unknown", canonical |-> TRUE]}

EventOf(row, season, registry) ==
  [round |-> row.round,
   id |-> TheOne(Resolved(registry, season, "event", EventLocator(row))),
   circuit |-> TheOne(Resolved(registry, season, "circuit", row.circuitId)),
   canonical |-> TRUE, status |-> "unknown", format |-> WeekendFormat(row),
   startDay |-> 0, endDay |-> 0, sessions |-> SessionsFor(row), hasResults |-> FALSE]

ReadCalendar(answer, season, requested, registry) ==
  IF ~DecodesCalendar(answer, season, requested) THEN Unreadable
  ELSE IF \E i \in DOMAIN answer.rows :
            \/ Resolved(registry, season, "event", EventLocator(answer.rows[i])) = {}
            \/ Resolved(registry, season, "circuit", answer.rows[i].circuitId) = {}
  THEN Unmapped
  ELSE Normalized({EventOf(row, season, registry) : row \in RowsOf(answer)})
=============================================================================
