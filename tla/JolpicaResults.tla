---------------------------- MODULE JolpicaResults ---------------------------
(* A race classification, from Jolpica's answer to the canonical result: what  *)
(* is refused, what has no classification yet, and what a row becomes.         *)
(* An answer is [shaped, offset, limit, total, season, round, races], a race   *)
(* [season, round, raceName, circuitId, rows], a row [legible, driver,         *)
(* constructor, position, text, status, laps, time, fastest].                  *)
EXTENDS ProviderMapping

Absent == 0
NoLap == [rank |-> 0, lap |-> 0]
NoPosition == 0

RowClasses ==
  {"finished", "lapped", "lapped-display-retired", "retired-classified",
   "retired", "did-not-start"}
ClassifiedRowClasses ==
  {"finished", "lapped", "lapped-display-retired", "retired-classified"}
LappedRowClasses == {"lapped", "lapped-display-retired"}

(* The status and the shape of the position text, read together.               *)
ResultStatusTable ==
  {<<"Finished", "numeric", "finished">>, <<"Lapped", "numeric", "lapped">>,
   <<"Lapped", "R", "lapped-display-retired">>,
   <<"Retired", "numeric", "retired-classified">>, <<"Retired", "R", "retired">>,
   <<"Did not start", "W", "did-not-start">>}
HasRowClass(row) ==
  \E entry \in ResultStatusTable : entry[1] = row.status /\ entry[2] = row.text
RowClass(row) ==
  (CHOOSE entry \in ResultStatusTable : entry[1] = row.status /\ entry[2] = row.text)[3]

IsClassifiedRow(row) == RowClass(row) \in ClassifiedRowClasses
IsLapped(row) == RowClass(row) \in LappedRowClasses

(* A row on its own: only a classified one has a time, and nobody sets a       *)
(* fastest lap on a lap he did not complete.                                   *)
ReadsRow(row) ==
  /\ row.legible /\ row.position > 0 /\ HasRowClass(row)
  /\ row.time # Absent => IsClassifiedRow(row)
  /\ row.fastest # NoLap =>
       RowClass(row) # "did-not-start" /\ row.fastest.lap <= row.laps

-----------------------------------------------------------------------------
(* The rows of a race together.                                                *)

Distinct(value) ==
  \A i, j \in DOMAIN value : value[i] = value[j] => i = j

Winner(rows) == CHOOSE i \in DOMAIN rows : rows[i].position = 1

ClassifiedComeFirst(rows) ==
  \A i, j \in DOMAIN rows :
    IsClassifiedRow(rows[i]) /\ ~IsClassifiedRow(rows[j]) =>
      rows[i].position < rows[j].position

LapsAgree(rows) ==
  LET winner == rows[Winner(rows)]
  IN  \A i \in DOMAIN rows :
        /\ rows[i].laps <= winner.laps
        /\ RowClass(rows[i]) = "finished" => rows[i].laps = winner.laps
        /\ IsLapped(rows[i]) => rows[i].laps < winner.laps

ChecksRows(rows) ==
  /\ Distinct([i \in DOMAIN rows |-> rows[i].driver])
  /\ Distinct([i \in DOMAIN rows |-> rows[i].position])
  /\ \A i, j \in DOMAIN rows :
       rows[i].fastest # NoLap /\ rows[i].fastest.rank = rows[j].fastest.rank => i = j
  /\ {rows[i].position : i \in DOMAIN rows} = 1 .. Len(rows)
  /\ ClassifiedComeFirst(rows)
  /\ RowClass(rows[Winner(rows)]) = "finished" /\ rows[Winner(rows)].time # Absent
  /\ LapsAgree(rows)

ReadsRace(race, season, round) ==
  /\ race.season = season /\ race.round = round
  /\ race.raceName # Malformed /\ race.circuitId # Malformed
  /\ race.rows # <<>>
  /\ \A i \in DOMAIN race.rows : ReadsRow(race.rows[i])
  /\ ChecksRows(race.rows)

(* One whole page: nothing skipped, nothing beyond it.                         *)
IsWholePage(answer, requested, rows) ==
  answer.offset = 0 /\ answer.limit = requested /\ answer.total <= answer.limit
    /\ rows = answer.total

DecodesNoRace(answer, season, round, requested) ==
  /\ answer.shaped /\ answer.season = season /\ answer.round = round
  /\ answer.races = <<>> /\ IsWholePage(answer, requested, 0)

DecodesRace(answer, season, round, requested) ==
  /\ answer.shaped /\ answer.season = season /\ answer.round = round
  /\ Len(answer.races) = 1 /\ ReadsRace(answer.races[1], season, round)
  /\ IsWholePage(answer, requested, Len(answer.races[1].rows))

-----------------------------------------------------------------------------
(* The canonical result.                                                       *)

FinishStatuses ==
  [class \in RowClasses |->
     CASE class = "finished" -> "finished"
       [] class \in LappedRowClasses -> "lapped"
       [] class \in {"retired-classified", "retired"} -> "dnf"
       [] OTHER -> "dns"]

EventLocator(race) == <<race.round, race.raceName, race.circuitId>>

Unresolved(race, season, registry) ==
  \/ Resolved(registry, season, "event", EventLocator(race)) = {}
  \/ \E i \in DOMAIN race.rows :
       \/ Resolved(registry, season, "driver", race.rows[i].driver) = {}
       \/ Resolved(registry, season, "constructor", race.rows[i].constructor) = {}

TheOne(S) == CHOOSE x \in S : TRUE
DriverOf(row, season, registry) == TheOne(Resolved(registry, season, "driver", row.driver))
ConstructorOf(row, season, registry) ==
  TheOne(Resolved(registry, season, "constructor", row.constructor))

HasLaps(rows) == \E i \in DOMAIN rows : rows[i].fastest # NoLap
Fastest(rows) == {i \in DOMAIN rows : rows[i].fastest.rank = 1}

Contradictory(race, season, registry) ==
  \/ ~Distinct([i \in DOMAIN race.rows |-> DriverOf(race.rows[i], season, registry)])
  \/ HasLaps(race.rows) /\ Fastest(race.rows) = {}

NormalizedEntry(row, rows, season, registry) ==
  LET winner == rows[Winner(rows)] IN
  [driver |-> DriverOf(row, season, registry),
   constructor |-> ConstructorOf(row, season, registry),
   position |-> IF IsClassifiedRow(row) THEN row.position ELSE NoPosition,
   status |-> FinishStatuses[RowClass(row)], laps |-> row.laps,
   time |-> IF row = winner THEN row.time ELSE Absent,
   lapsBehind |-> IF IsLapped(row) THEN winner.laps - row.laps ELSE 0,
   fastest |-> HasLaps(rows) /\ row.fastest.rank = 1]

RaceResult(race, season, registry) ==
  [round |-> race.round, session |-> "race", status |-> "final",
   event |-> TheOne(Resolved(registry, season, "event", EventLocator(race))),
   entries |-> {NormalizedEntry(race.rows[i], race.rows, season, registry) :
                  i \in DOMAIN race.rows},
   fastestDrivers |-> {DriverOf(race.rows[i], season, registry) : i \in Fastest(race.rows)}]

NoResult == [round |-> 0, entries |-> {}]
ReadClassification(answer, season, round, requested, registry) ==
  IF DecodesNoRace(answer, season, round, requested)
  THEN [reading |-> "no-classification", result |-> NoResult]
  ELSE IF ~DecodesRace(answer, season, round, requested)
  THEN [reading |-> "invalid-payload", result |-> NoResult]
  ELSE IF Unresolved(answer.races[1], season, registry)
  THEN [reading |-> "mapping-failure", result |-> NoResult]
  ELSE IF Contradictory(answer.races[1], season, registry)
  THEN [reading |-> "invalid-payload", result |-> NoResult]
  ELSE [reading |-> "normalized", result |-> RaceResult(answer.races[1], season, registry)]
=============================================================================
