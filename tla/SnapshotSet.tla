----------------------------- MODULE SnapshotSet -----------------------------
(* What a complete season source is generated into: what is ahead of the       *)
(* instant of generation and what is behind it, the documents, and the seat a  *)
(* driver's document shows.  An instant is a natural number, two to a day.     *)
EXTENDS SeasonSource, SequencesExt

NoDay == 0
NoStart == 0
DayOf(instant) == instant \div 2

-----------------------------------------------------------------------------
(* The chronology of a season's events, which are delivered in round order.    *)

InRoundOrder(events) ==
  [n \in 1 .. Cardinality(events) |->
     CHOOSE e \in events : Cardinality({f \in events : f.round < e.round}) = n - 1]

IsSettled(e) == e.status = "completed" \/ e.hasResults

RaceStart(e) ==
  LET races == {x \in e.sessions :
                  x.type = "race" /\ x.status # "cancelled" /\ x.start # NoStart}
  IN  IF races = {} THEN NoStart ELSE (CHOOSE x \in races : TRUE).start

LastDay(e) == IF e.endDay # NoDay THEN e.endDay ELSE e.startDay

IsBehind(e, at) ==
  IF RaceStart(e) # NoStart THEN RaceStart(e) <= at
  ELSE LastDay(e) # NoDay /\ LastDay(e) < DayOf(at)

HorizonRound(events, at) ==
  LET passed == {e.round : e \in {f \in events : IsSettled(f) \/ IsBehind(f, at)}}
  IN  IF passed = {} THEN 0 ELSE CHOOSE r \in passed : \A q \in passed : q <= r

\* Faulty IsAhead: the horizon decides whatever start the event has.
IsAheadByRound(e, at, horizon) == e.round > horizon

IsAhead(e, at, horizon) ==
  IF RaceStart(e) # NoStart THEN RaceStart(e) > at
  ELSE IF LastDay(e) # NoDay THEN LastDay(e) >= DayOf(at)
  ELSE e.round > horizon

StartDay(e) ==
  IF e.startDay # NoDay THEN e.startDay
  ELSE IF RaceStart(e) # NoStart THEN DayOf(RaceStart(e)) ELSE NoDay

(* Two known days decide; otherwise the rounds do, so the order is no order    *)
(* over three events of which one has no day.                                  *)
Precedes(aDay, bDay, a, b) ==
  IF aDay # NoDay /\ bDay # NoDay /\ aDay # bDay THEN aDay < bDay ELSE a.round < b.round

StartsBefore(a, b) == Precedes(StartDay(a), StartDay(b), a, b)

(* The one a pass ends with that keeps the first and takes a later one only    *)
(* when it starts before.                                                      *)
Picked(remaining) ==
  LET delivered == InRoundOrder(remaining)
      pick[n \in DOMAIN delivered] ==
        IF n > 1 /\ ~StartsBefore(delivered[n], pick[n - 1]) THEN pick[n - 1]
        ELSE delivered[n]
  IN  pick[Cardinality(remaining)]

(* One pass after the other over what the passes before have left.             *)
OrderByStart(candidates) ==
  LET remaining[n \in 1 .. Cardinality(candidates)] ==
        IF n = 1 THEN candidates
        ELSE remaining[n - 1] \ {Picked(remaining[n - 1])}
  IN  [n \in 1 .. Cardinality(candidates) |-> Picked(remaining[n])]

(* The settled event that ended last, in the same order.                       *)
LatestSettled(settled) ==
  FoldLeft(LAMBDA best, e : IF Precedes(best.endDay, e.endDay, best, e) THEN e ELSE best,
           Head(InRoundOrder(settled)), Tail(InRoundOrder(settled)))

Chronology(events, at) ==
  LET delivered == InRoundOrder(events)
      horizon == HorizonRound(events, at)
      ahead == OrderByStart({e \in events :
                 ~IsSettled(e) /\ (e.status # "unknown" \/ IsAhead(e, at, horizon))})
      settled == {e \in events : IsSettled(e)}
      latestSettled == IF settled = {} THEN <<>> ELSE <<LatestSettled(settled)>>
      last == IF events # {} /\ delivered[Len(delivered)].status # "unknown"
              THEN <<delivered[Len(delivered)]>> ELSE <<>>
  IN  [ahead |-> ahead, latestSettled |-> latestSettled,
       featured |-> IF ahead # <<>> THEN <<Head(ahead)>>
                    ELSE IF latestSettled # <<>> THEN latestSettled ELSE last]

-----------------------------------------------------------------------------
(* The seat a driver's document shows: the open one, or the one that opened    *)
(* last.  Two candidates are an error, never a choice.                         *)

SpansOf(entries, driver) == {e \in entries : e.driver = driver}
OpenSpans(entries, driver) == {e \in SpansOf(entries, driver) : e.endRound = NoRound}
LatestSpans(entries, driver) ==
  {e \in SpansOf(entries, driver) :
     \A f \in SpansOf(entries, driver) : f.startRound <= e.startRound}

IsAmbiguous(entries, driver) ==
  IF OpenSpans(entries, driver) = {}
  THEN Cardinality(LatestSpans(entries, driver)) > 1
  ELSE Cardinality(OpenSpans(entries, driver)) > 1

\* Faulty CurrentEntry: the seat that opened first.
FirstEntry(entries, driver) ==
  {e \in SpansOf(entries, driver) :
     \A f \in SpansOf(entries, driver) : e.startRound <= f.startRound}

(* The set of the one current entry, empty for a driver without a seat.        *)
CurrentEntry(entries, driver) ==
  IF OpenSpans(entries, driver) # {} THEN OpenSpans(entries, driver)
  ELSE LatestSpans(entries, driver)

-----------------------------------------------------------------------------
(* generateSnapshotSet: what makes it throw, and the documents it makes.       *)

Throws(source) ==
  \/ \E e \in source.driverEntries : e.driver \notin source.drivers
  \/ \E e \in source.constructorEntries : e.constructor \notin source.constructors
  \/ \E e \in source.calendar : e.circuit \notin source.circuits
  \/ \E d \in source.drivers : IsAmbiguous(source.driverEntries, d)
  \/ \E e \in source.constructorEntries :
       e.constructor \in source.constructors /\ ~(e.lineup \subseteq source.drivers)

SeasonDocuments ==
  {"season", "bootstrap", "home", "calendar", "drivers", "constructors", "circuits",
   "standings:drivers", "standings:constructors", "content:manifest"}

Documents(source) ==
  {<<name>> : name \in SeasonDocuments}
    \cup {<<"grand-prix", e.round>> : e \in source.calendar}
    \cup {<<"grand-prix", c.round, "results">> :
            c \in {d \in source.results : \E e \in source.calendar : e.round = d.round}}
    \cup {<<"driver", d>> : d \in source.drivers}
    \cup {<<"constructor", c>> : c \in source.constructors}
    \cup {<<"circuit", c>> : c \in source.circuits}
=============================================================================
