---------------------------- MODULE SeasonSource -----------------------------
(* The season source assembled from a run's selected payloads: the spans a     *)
(* driver's seats are derived into, the relations a season must satisfy, and   *)
(* the gap that withholds one that does not.  Rounds are positive, NoRound is  *)
(* a round that is `null`, and an identity is the sequence of its parts.       *)
EXTENDS Integers, Sequences, FiniteSets

NoRound == 0
Nobody == <<>>

-----------------------------------------------------------------------------
(* Classifications.  A classification is [round, session, status, source,      *)
(* event, canonical, fastestLap, rows], a row [driver, constructor].           *)

IsClassified(status) == status \in {"final", "provisional"}

Observed(classifications) ==
  {c \in classifications : c.session = "race" /\ IsClassified(c.status)}
Rounds(classifications) == {c.round : c \in Observed(classifications)}
Facts(classifications) ==
  UNION {{[round |-> c.round, driver |-> row.driver, constructor |-> row.constructor] :
            row \in c.rows} : c \in Observed(classifications)}

-----------------------------------------------------------------------------
(* deriveDriverSeasonEntries: a span is a longest stretch of classified races  *)
(* in every one of which the driver has a row for the constructor.             *)

SeenIn(facts, d, c) == {f.round : f \in {g \in facts : g.driver = d /\ g.constructor = c}}

Unaccounted(calendarRounds, rounds) ==
  {r \in calendarRounds \ rounds : \E latest \in rounds : r <= latest}

IsFirst(rounds, r) == r \in rounds /\ \A q \in rounds : r <= q
IsLatest(rounds, r) == r \in rounds /\ \A q \in rounds : q <= r

(* An absence in between separates two rounds.                                 *)
Separated(rounds, seen, a, b) == \E q \in rounds \ seen : a < q /\ q < b

\* Faulty IsStretch: a stretch may begin after a round of the same seat.
IsStretchUnopened(rounds, seen, s, e) ==
  /\ s \in seen /\ e \in seen /\ s <= e
  /\ ~Separated(rounds, seen, s, e)
  /\ \A q \in seen : e < q => Separated(rounds, seen, e, q)

IsStretch(rounds, seen, s, e) ==
  /\ s \in seen /\ e \in seen /\ s <= e
  /\ ~Separated(rounds, seen, s, e)
  /\ \A p \in seen : p < s => Separated(rounds, seen, p, s)
  /\ \A q \in seen : e < q => Separated(rounds, seen, e, q)

Stretches(rounds, facts) ==
  {t \in [driver : {f.driver : f \in facts}, constructor : {f.constructor : f \in facts},
          start : rounds, end : rounds] :
     IsStretch(rounds, SeenIn(facts, t.driver, t.constructor), t.start, t.end)}

(* The first round opens a span and the latest leaves it open.                 *)
EntryOf(rounds, t) ==
  [driver |-> t.driver, constructor |-> t.constructor,
   startRound |-> IF IsFirst(rounds, t.start) THEN NoRound ELSE t.start,
   endRound |-> IF IsLatest(rounds, t.end) THEN NoRound ELSE t.end]

DriverEntries(rounds, facts) == {EntryOf(rounds, t) : t \in Stretches(rounds, facts)}

-----------------------------------------------------------------------------
(* The relations of participation.  An absent start is before every round, an  *)
(* absent end after every round.                                               *)

Reaches(entry, r) == entry.endRound = NoRound \/ r <= entry.endRound
Covers(entry, r) == entry.startRound <= r /\ Reaches(entry, r)

(* Ordered by start, one of two consecutive spans overlaps the other exactly   *)
(* when some two do.                                                           *)
Overlap(e, f) == e.startRound <= f.startRound /\ Reaches(e, f.startRound)
HasInvalidSpans(entries) ==
  \/ \E e \in entries : ~Reaches(e, e.startRound)
  \/ \E e, f \in entries : e # f /\ e.driver = f.driver /\ Overlap(e, f)

HasUnplaced(entries, facts) ==
  \E f \in facts :
    LET covering == {e \in entries : e.driver = f.driver /\ Covers(e, f.round)}
    IN  ~ \E e \in covering : covering = {e} /\ e.constructor = f.constructor

(* A seat whose bounds, inside or neighbours the classified races do not bear. *)
IsUnsupported(e, rounds, seen) ==
  \/ IsFirst(rounds, e.startRound) \/ IsLatest(rounds, e.endRound)
  \/ \E opening, closing \in rounds \cup {e.startRound, e.endRound} :
       /\ IF e.startRound = NoRound THEN IsFirst(rounds, opening) ELSE opening = e.startRound
       /\ IF e.endRound = NoRound THEN IsLatest(rounds, closing) ELSE closing = e.endRound
       /\ \/ opening \notin seen \/ closing \notin seen
          \/ Separated(rounds, seen, opening, closing)
          \/ \E p \in seen : IsLatest({r \in rounds : r < opening}, p)
          \/ \E q \in seen : IsFirst({r \in rounds : r > closing}, q)

HasUnsupported(entries, facts, rounds) ==
  /\ entries # {}
  /\ \/ rounds = {}
     \/ \E e \in entries : IsUnsupported(e, rounds, SeenIn(facts, e.driver, e.constructor))

-----------------------------------------------------------------------------
(* Identities.                                                                 *)

EntryId(entry) ==
  IF entry.startRound = NoRound THEN entry.driver
  ELSE Append(entry.driver, entry.startRound)

(* Two members of a set that share an identity.                                *)
Shared(id) == \E x, y \in DOMAIN id : x # y /\ id[x] = id[y]

(* Drivers, constructors and circuits are sets of identities, which no two     *)
(* members share.                                                              *)
HasDuplicateIdentity(s) ==
  \/ Shared([e \in s.calendar |-> e.id]) \/ Shared([e \in s.calendar |-> e.round])
  \/ \E e \in s.calendar : Shared([x \in e.sessions |-> x.type])
  \/ Shared([c \in s.results |-> c.round])
  \/ \E c \in s.results : Shared([row \in c.rows |-> row.driver])
  \/ Shared([row \in s.driverStandings |-> row.driver])
  \/ Shared([e \in s.driverEntries |-> EntryId(e)])
  \/ Shared([e \in s.constructorEntries |-> e.constructor])

-----------------------------------------------------------------------------
(* validateSeasonReferences: the relations a source fails.  An event is        *)
(* [round, id, canonical, circuit, status, days, sessions, hasResults]; what   *)
(* is canonical has the identity its parts give it.                            *)

EventFails(s) ==
  (IF \E e \in s.calendar : e.circuit \notin s.circuits THEN {"event-circuit"} ELSE {})
    \cup (IF \E e \in s.calendar : ~e.canonical THEN {"event-identity"} ELSE {})
    \cup (IF \E e \in s.calendar : \E x \in e.sessions : ~x.canonical
          THEN {"session-event"} ELSE {})

EntryFails(s) ==
  (IF \E e \in s.driverEntries : e.driver \notin s.drivers
   THEN {"driver-entry-driver"} ELSE {})
    \cup (IF \E e \in s.driverEntries : e.constructor \notin s.constructors
          THEN {"driver-entry-constructor"} ELSE {})
    \cup (IF HasInvalidSpans(s.driverEntries) THEN {"driver-entry-span"} ELSE {})
    \cup (IF \E e \in s.constructorEntries : e.constructor \notin s.constructors
          THEN {"constructor-entry-constructor"} ELSE {})
    \cup (IF \E e \in s.constructorEntries : ~(e.lineup \subseteq s.drivers)
          THEN {"constructor-entry-lineup"} ELSE {})

StandingFails(s) ==
  (IF \E row \in s.driverStandings : row.driver \notin s.drivers
   THEN {"driver-standing-driver"} ELSE {})
    \cup (IF \E row \in s.driverStandings :
               row.constructor \notin s.constructors \cup {Nobody}
          THEN {"driver-standing-constructor"} ELSE {})
    \cup (IF ~(s.constructorStandings \subseteq s.constructors)
          THEN {"constructor-standing-constructor"} ELSE {})

ResultFails(s) ==
  (IF \E c \in s.results : \A e \in s.calendar : e.round = c.round => e.id # c.event
   THEN {"result-event"} ELSE {})
    \cup (IF \E c \in s.results : ~c.canonical THEN {"result-identity"} ELSE {})
    \cup (IF \E c \in s.results : c.fastestLap \notin s.drivers \cup {Nobody}
          THEN {"result-fastest-lap-driver"} ELSE {})
    \cup (IF \E c \in s.results : \E row \in c.rows : row.driver \notin s.drivers
          THEN {"result-entry-driver"} ELSE {})
    \cup (IF \E c \in s.results : \E row \in c.rows : row.constructor \notin s.constructors
          THEN {"result-entry-constructor"} ELSE {})

ParticipationFails(s) ==
  LET facts == Facts(s.results)
      rounds == Rounds(s.results)
  IN  (IF \E e \in s.calendar :
            e.hasResults # (e.round \in {c.round : c \in {d \in s.results : IsClassified(d.status)}})
       THEN {"event-has-results"} ELSE {})
        \cup (IF HasUnplaced(s.driverEntries, facts) THEN {"result-entry-span"} ELSE {})
        \cup (IF HasUnsupported(s.driverEntries, facts, rounds)
              THEN {"driver-entry-support"} ELSE {})

Relations(s) ==
  EventFails(s) \cup EntryFails(s) \cup StandingFails(s) \cup ResultFails(s)
    \cup ParticipationFails(s)
    \cup (IF HasDuplicateIdentity(s) THEN {"duplicate-identity"} ELSE {})

-----------------------------------------------------------------------------
(* assembleSeasonSource.  A run is [status, unavailable, selected, calendar,   *)
(* schedules, drivers, constructors, constructorEntries, circuits,             *)
(* driverStandings, constructorStandings, classifications]: what no source     *)
(* answered, the kinds that were, and their payloads.                          *)

RequiredKinds ==
  {"season-calendar", "season-participants", "season-circuits",
   "driver-standings", "constructor-standings"}
ParticipationSources == {"jolpica"}
RequiresClassification(status) == status = "completed"

(* Both tables describe the latest classified race, or neither has a row.      *)
\* Faulty DescribesHorizon: a table of an earlier round is accepted.
DescribesAnyRound(table, rounds) ==
  IF rounds = {} THEN table.round = NoRound /\ table.rows = {}
  ELSE table.round \in rounds /\ table.rows # {}

DescribesHorizon(table, rounds) ==
  IF rounds = {} THEN table.round = NoRound /\ table.rows = {}
  ELSE IsLatest(rounds, table.round) /\ table.rows # {}

AssembledCalendar(run, rounds) ==
  {[e EXCEPT !.sessions = IF e.round \in DOMAIN run.schedules THEN run.schedules[e.round] ELSE @,
             !.hasResults = e.round \in rounds] : e \in run.calendar}

SourceOf(run) ==
  LET races == {c \in run.classifications : c.session = "race"}
      rounds == Rounds(races)
  IN  [calendar |-> AssembledCalendar(run, rounds), results |-> races,
       drivers |-> run.drivers, constructors |-> run.constructors,
       circuits |-> run.circuits,
       driverEntries |-> DriverEntries(rounds, Facts(races)),
       constructorEntries |-> run.constructorEntries,
       driverStandings |-> run.driverStandings.rows,
       constructorStandings |-> run.constructorStandings.rows]

gap(name, missing, relations) ==
  [complete |-> FALSE, gap |-> name, missing |-> missing, relations |-> relations]
Complete == [complete |-> TRUE, gap |-> "none", missing |-> {}, relations |-> {}]

Assembly(run) ==
  LET rounds == Rounds(run.classifications)
      unclassified == {e.round : e \in {f \in run.calendar :
                         RequiresClassification(f.status) /\ f.round \notin rounds}}
      unaccounted == Unaccounted({e.round : e \in run.calendar}, rounds)
      failed == Relations(SourceOf(run))
  IN  IF run.status # "completed" THEN gap("run-not-completed", {}, {})
      ELSE IF run.unavailable # {}
      THEN gap("resource-unavailable", run.unavailable, {})
      ELSE IF ~(RequiredKinds \subseteq run.selected)
      THEN gap("missing-required-resource", RequiredKinds \ run.selected, {})
      ELSE IF unclassified # {}
      THEN gap("missing-round-classification", unclassified, {})
      ELSE IF \E c \in Observed(run.classifications) : c.source \notin ParticipationSources
      THEN gap("inconsistent-references", {}, {"result-entry-span"})
      ELSE IF unaccounted # {}
      THEN gap("missing-round-classification", unaccounted, {})
      ELSE IF ~DescribesHorizon(run.driverStandings, rounds)
              \/ ~DescribesHorizon(run.constructorStandings, rounds)
      THEN gap("standings-round-incoherent", {}, {})
      ELSE IF failed # {}
      THEN gap("inconsistent-references", {}, failed)
      ELSE Complete
=============================================================================
