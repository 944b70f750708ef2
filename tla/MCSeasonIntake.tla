--------------------------- MODULE MCSeasonIntake ----------------------------
(* SeasonIntake over three rounds, three drivers of which one is named like    *)
(* another's second stint, two constructors, and seasons in which one thing is *)
(* not as it should be.                                                        *)
EXTENDS SeasonIntake

MCSeason == 2026
MCPageLimit == 5
MCInstants == {5, 9}

record(entity, field, type, value, target) ==
  [source |-> "jolpica", entity |-> entity, field |-> field,
   value |-> [type |-> type, value |-> value], target |-> target, unexpected |-> FALSE]
driver(name, target) == record("driver", "driverId", "string", <<name>>, target)

names(other) ==
  <<driver("hamilton", <<"hamilton">>), driver("sainz", <<"sainz">>),
    driver("sainz_2", <<"sainz", 2>>), driver("carlos", other),
    record("constructor", "constructorId", "string", <<"ferrari">>, <<"ferrari">>),
    record("constructor", "constructorId", "string", <<"williams">>, <<"williams">>),
    record("circuit", "circuitId", "string", <<"monza">>, <<"monza">>),
    record("circuit", "circuitId", "string", <<"imola">>, <<"imola">>)>>
    \o [r \in 1 .. 3 |-> record("event", "eventLocator", "locator",
                                <<r, <<"race", r>>, <<IF r = 2 THEN "imola" ELSE "monza">>>>,
                                <<"event", r>>)]
documents(records) == <<[supported |-> TRUE, season |-> MCSeason, records |-> records]>>

page(rows, total) ==
  [shaped |-> TRUE, offset |-> 0, limit |-> MCPageLimit, total |-> total,
   season |-> MCSeason, rows |-> rows]
whole(rows) == page(rows, Len(rows))

(* Race starts in the order of the rounds, and rounds 2 and 3 changed over.    *)
calendar(starts, sessions) ==
  whole([r \in DOMAIN starts |->
           [legible |-> TRUE, season |-> MCSeason, round |-> r, raceName |-> <<"race", r>>,
            circuitId |-> <<IF r = 2 THEN "imola" ELSE "monza">>, start |-> starts[r],
            sessions |-> sessions]])
Usual == <<4, 8, 12>>
Moved == <<4, 12, 8>>
Qualified == [Qualifying |-> 3]
practiceOnly ==
  {[type |-> "practice_1", start |-> 3, status |-> "unknown", canonical |-> TRUE]}

known(starts, schedules, records, drivers, circuits) ==
  [calendar |-> calendar(starts, Qualified), schedules |-> schedules,
   documents |-> documents(records),
   canonical |-> [driver |-> {<<"hamilton">>, <<"sainz">>, <<"sainz", 2>>},
                  constructor |-> {<<"ferrari">>, <<"williams">>},
                  circuit |-> {<<"monza">>, <<"imola">>},
                  event |-> {<<"event", r>> : r \in 1 .. 3}],
   curated |-> {<<"hamilton">>, <<"sainz">>, <<"sainz", 2>>, <<"ferrari">>, <<"williams">>,
                <<"monza">>, <<"imola">>},
   drivers |-> drivers, constructors |-> whole(<<<<"ferrari">>, <<"williams">>>>),
   circuits |-> circuits]

NoSchedule == [r \in {} |-> {}]
EveryDriver == whole(<<<<"hamilton">>, <<"sainz">>, <<"sainz_2">>>>)
EveryCircuit == whole(<<<<"monza">>, <<"imola">>>>)
Named == names(<<"sainz">>)

\* The first event under the second round as well, and the records know it there.
AtTwoRounds ==
  Append(Named, record("event", "eventLocator", "locator",
                       <<2, <<"race", 1>>, <<"monza">>>>, <<"event", 2>>))

MCSeasons ==
  {known(Usual, NoSchedule, Named, EveryDriver, EveryCircuit),
   known(Moved, [r \in {1} |-> practiceOnly], Named, EveryDriver, EveryCircuit),
   \* One name with two meanings.
   known(<<4>>, NoSchedule, Append(Named, driver("sainz", <<"sainz", 2>>)),
         EveryDriver, EveryCircuit),
   \* A page cut off, a driver who is not a participant, a circuit that is missing.
   known(<<4>>, NoSchedule, Named,
         page(<<<<"hamilton">>, <<"sainz">>, <<"sainz_2">>>>, 4), EveryCircuit),
   known(<<4>>, NoSchedule, Named, whole(<<<<"hamilton">>, <<"sainz">>>>), EveryCircuit),
   known(<<4>>, NoSchedule, Named, EveryDriver, whole(<<<<"imola">>>>)),
   \* Two names of one driver, and a driver without curated content.
   known(<<4>>, NoSchedule, Named,
         whole(<<<<"hamilton">>, <<"sainz">>, <<"carlos">>>>), EveryCircuit),
   [known(<<4>>, NoSchedule, Named, EveryDriver, EveryCircuit)
      EXCEPT !.curated = @ \ {<<"sainz", 2>>}],
   \* One event under two rounds.
   [known(<<4, 8>>, NoSchedule, AtTwoRounds, EveryDriver, EveryCircuit)
      EXCEPT !.calendar.rows[2].raceName = <<"race", 1>>,
             !.calendar.rows[2].circuitId = <<"monza">>]}

-----------------------------------------------------------------------------
row(name, team, position, text, status, laps, time, fastest) ==
  [legible |-> TRUE, driver |-> <<name>>, constructor |-> <<team>>, position |-> position,
   text |-> text, status |-> status, laps |-> laps, time |-> time, fastest |-> fastest]
quickest == [rank |-> 1, lap |-> 3]
first(name, team) == row(name, team, 1, "numeric", "Finished", 5, 90, NoLap)

answer(r, rows, total) ==
  [shaped |-> TRUE, offset |-> 0, limit |-> MCPageLimit, total |-> total,
   season |-> MCSeason, round |-> r,
   races |-> <<[season |-> MCSeason, round |-> r, raceName |-> <<"race", r>>,
                circuitId |-> <<IF r = 2 THEN "imola" ELSE "monza">>, rows |-> rows]>>]

steady ==
  <<row("sainz", "williams", 2, "numeric", "Lapped", 4, 0, quickest),
    first("hamilton", "ferrari")>>
swapped ==
  <<first("hamilton", "williams"),
    row("sainz_2", "ferrari", 2, "R", "Retired", 2, 0, NoLap)>>
MCRaceAnswers ==
  [r \in 1 .. 3 |->
     {answer(r, steady, 2), answer(r, swapped, 2)}
       \cup IF r > 1 THEN {}
            ELSE {answer(1, steady, 3),
                  answer(1, <<first("sainz", "ferrari"),
                              row("carlos", "williams", 2, "W", "Did not start", 0, 0, NoLap)>>, 2),
                  answer(1, <<first("hamilton", "ferrari"),
                              row("sainz", "williams", 2, "numeric", "Lapped", 5, 0, NoLap)>>, 2)}]

standing(name, teams, position) ==
  [legible |-> TRUE, name |-> <<name>>, constructors |-> teams, position |-> position]
tableAfter(r, rows) ==
  [shaped |-> TRUE, offset |-> 0, limit |-> MCPageLimit, total |-> Len(rows),
   season |-> MCSeason, round |-> r, rows |-> rows,
   lists |-> IF rows = <<>> THEN <<>> ELSE <<[season |-> MCSeason, round |-> r]>>]
driverRows ==
  <<standing("hamilton", <<<<"ferrari">>, <<"williams">>>>, 1),
    standing("sainz", <<<<"williams">>>>, 2)>>
constructorRows == <<standing("ferrari", <<>>, 1), standing("williams", <<>>, 3)>>
MCTableAnswers ==
  [t \in Tables |->
     [n \in 1 .. 4 |->
        IF n = 1 THEN tableAfter(0, <<>>)
        ELSE tableAfter(n - 1, IF t = "driver-standings" THEN driverRows
                               ELSE constructorRows)]]
=============================================================================
