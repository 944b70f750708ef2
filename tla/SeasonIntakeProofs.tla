------------------------- MODULE SeasonIntakeProofs -------------------------
(***************************************************************************)
(* What is true of a season a run read and of the candidate it makes of it *)
(* (SeasonIntake), whatever Jolpica answers, whatever the curated records  *)
(* say and however the run and Jolpica interleave.                         *)
(***************************************************************************)
EXTENDS SeasonIntake, FiniteSetTheorems, SequenceTheorems,
        WellFoundedInduction, TLAPS

-----------------------------------------------------------------------------
(* Finite sets of rounds have a least and a greatest element. *)
(* A set of rounds that is not empty has a first one. *)
LEMMA LeastElement ==
  ASSUME NEW S \in SUBSET Nat, S # {}
  PROVE  \E m \in S : \A x \in S : m <= x
<1>1. PICK m \in S : \A x \in S : <<x, m>> \notin OpToRel(<, Nat)
  BY NatLessThanWellFounded, WFMin, Zenon
<1>2. \A x \in S : x \in Nat /\ m \in Nat
  OBVIOUS
<1>3. \A x \in S : ~ (x < m)
  BY <1>1, <1>2, Zenon DEF OpToRel
<1>. QED BY <1>2, <1>3
(* A bounded set of rounds that is not empty has a last one. *)
LEMMA GreatestElement ==
  ASSUME NEW n \in Nat, NEW S \in SUBSET (0 .. n), S # {}
  PROVE  \E m \in S : \A x \in S : x <= m
<1>. DEFINE rest == {x \in Nat : n - x \in S}
<1>1. \A x \in S : x \in Int /\ n - x \in Nat /\ n - (n - x) = x
  OBVIOUS
<1>2. rest \in SUBSET Nat /\ rest # {}
  <2>1. PICK x \in S : TRUE
    OBVIOUS
  <2>2. n - x \in rest
    BY <1>1
  <2>. QED BY <2>2
<1>3. PICK y \in rest : \A z \in rest : y <= z
  BY <1>2, LeastElement
<1>4. \A x \in S : y <= n - x
  BY <1>1, <1>3
<1>5. \A x \in S : x <= n - y
  BY <1>1, <1>3, <1>4
<1>. QED BY <1>3, <1>5

-----------------------------------------------------------------------------
(* The spans derived from classifications. *)

(* What the lemmas ask of the classified rounds and of the rows in them: the
   rounds are rounds, a fact is of one of them, and a driver has one row in
   each.  The relations of the season and the normalizer see to the last. *)
ArePlainRounds(rounds) == rounds \subseteq 1 .. LastRound
AreFactsOf(rounds, facts) ==
  /\ \A f \in facts : f.round \in rounds
  /\ \A f \in facts :
       f = [round |-> f.round, driver |-> f.driver, constructor |-> f.constructor]
  /\ \A f, g \in facts :
       f.driver = g.driver /\ f.round = g.round => f.constructor = g.constructor

(* A stretch begins and ends with a classified row of its seat. *)
LEMMA StretchFacts ==
  ASSUME NEW rounds, NEW facts, ArePlainRounds(rounds), AreFactsOf(rounds, facts),
         NEW t \in Stretches(rounds, facts)
  PROVE  /\ t.start \in rounds /\ t.end \in rounds
         /\ t.start \in Nat /\ t.end \in Nat /\ t.start > 0 /\ t.start <= t.end
         /\ t = [driver |-> t.driver, constructor |-> t.constructor,
                 start |-> t.start, end |-> t.end]
         /\ IsStretch(rounds, SeenIn(facts, t.driver, t.constructor), t.start, t.end)
         /\ \A r \in rounds : t.start <= r /\ r <= t.end =>
              r \in SeenIn(facts, t.driver, t.constructor)
<1>1. /\ t \in [driver : {f.driver : f \in facts}, constructor : {f.constructor : f \in facts},
                start : rounds, end : rounds]
      /\ IsStretch(rounds, SeenIn(facts, t.driver, t.constructor), t.start, t.end)
  BY DEF Stretches
<1>2. \A r \in rounds : r \in Nat /\ r > 0
  BY DEF ArePlainRounds, LastRound
<1>3. t.start \in rounds /\ t.end \in rounds
      /\ t = [driver |-> t.driver, constructor |-> t.constructor,
              start |-> t.start, end |-> t.end]
  BY <1>1
<1>4. t.start <= t.end
  BY <1>1 DEF IsStretch
<1>5. ASSUME NEW r \in rounds, t.start <= r, r <= t.end
      PROVE  r \in SeenIn(facts, t.driver, t.constructor)
  <2>1. CASE r = t.start \/ r = t.end
    BY <2>1, <1>1 DEF IsStretch
  <2>2. CASE t.start < r /\ r < t.end
    BY <2>2, <1>1 DEF IsStretch, Separated
  <2>. QED BY <1>2, <1>3, <1>5, <2>1, <2>2
<1>. QED BY <1>1, <1>2, <1>3, <1>4, <1>5

(* Two stretches of one driver that meet are one. *)
LEMMA StretchesMeet ==
  ASSUME NEW rounds, NEW facts, ArePlainRounds(rounds), AreFactsOf(rounds, facts),
         NEW t \in Stretches(rounds, facts), NEW u \in Stretches(rounds, facts),
         t.driver = u.driver, t.start <= u.start, u.start <= t.end
  PROVE  t = u
<1>. DEFINE seen == SeenIn(facts, t.driver, t.constructor)
<1>1. \A r \in rounds : r \in Nat
  BY DEF ArePlainRounds, LastRound
<1>2. t.constructor = u.constructor
  <2>1. u.start \in SeenIn(facts, t.driver, t.constructor)
    BY StretchFacts
  <2>2. u.start \in SeenIn(facts, u.driver, u.constructor)
    BY StretchFacts
  <2>. QED BY <2>1, <2>2 DEF SeenIn, AreFactsOf
<1>3. /\ IsStretch(rounds, seen, t.start, t.end)
      /\ IsStretch(rounds, seen, u.start, u.end)
      /\ t.start \in rounds /\ t.end \in rounds /\ u.start \in rounds /\ u.end \in rounds
  BY <1>2, StretchFacts
<1>. HIDE DEF seen
<1>4. t.start = u.start
  <2>1. CASE t.start < u.start
    <3>1. PICK q \in rounds \ seen : t.start < q /\ q < u.start
      BY <2>1, <1>3 DEF IsStretch, Separated
    <3>2. q < t.end
      BY <3>1, <1>1, <1>3
    <3>. QED BY <3>1, <3>2, <1>3 DEF IsStretch, Separated
  <2>. QED BY <2>1, <1>1, <1>3
<1>5. t.end = u.end
  <2>1. CASE t.end < u.end
    <3>1. PICK q \in rounds \ seen : t.end < q /\ q < u.end
      BY <2>1, <1>3 DEF IsStretch, Separated
    <3>2. u.start < q
      BY <3>1, <1>1, <1>3
    <3>. QED BY <3>1, <3>2, <1>3 DEF IsStretch, Separated
  <2>2. CASE u.end < t.end
    <3>1. PICK q \in rounds \ seen : u.end < q /\ q < t.end
      BY <2>2, <1>3 DEF IsStretch, Separated
    <3>2. t.start < q
      <4>1. u.start <= u.end
        BY <1>3 DEF IsStretch
      <4>. QED BY <3>1, <4>1, <1>1, <1>3, <1>4
    <3>. QED BY <3>1, <3>2, <1>3 DEF IsStretch, Separated
  <2>. QED BY <2>1, <2>2, <1>1, <1>3
<1>. QED BY <1>2, <1>4, <1>5, StretchFacts

(* Around every classified row there is a stretch. *)
LEMMA StretchAround ==
  ASSUME NEW rounds, NEW facts, ArePlainRounds(rounds), AreFactsOf(rounds, facts),
         NEW f \in facts
  PROVE  \E t \in Stretches(rounds, facts) :
           /\ t.driver = f.driver /\ t.constructor = f.constructor
           /\ t.start <= f.round /\ f.round <= t.end
<1>. DEFINE seen == SeenIn(facts, f.driver, f.constructor)
            before == {s \in seen : s <= f.round /\ ~Separated(rounds, seen, s, f.round)}
            after == {e \in seen : f.round <= e /\ ~Separated(rounds, seen, f.round, e)}
<1>1. f.round \in seen /\ seen \subseteq rounds
  BY DEF SeenIn, AreFactsOf
<1>2. \A r \in rounds : r \in Nat /\ r \in 0 .. LastRound
  BY DEF ArePlainRounds, LastRound
<1>. HIDE DEF seen
<1>3. ~Separated(rounds, seen, f.round, f.round)
  BY <1>1, <1>2 DEF Separated
<1>4. f.round \in before /\ f.round \in after
  BY <1>1, <1>2, <1>3
<1>5. before \in SUBSET Nat /\ after \in SUBSET (0 .. LastRound)
  BY <1>1, <1>2
<1>6. PICK s \in before : \A x \in before : s <= x
  BY <1>4, <1>5, LeastElement
<1>7. PICK e \in after : \A x \in after : x <= e
  BY <1>4, <1>5, GreatestElement DEF LastRound
<1>8. /\ s \in seen /\ e \in seen /\ s \in Nat /\ e \in Nat /\ f.round \in Nat
      /\ s <= f.round /\ f.round <= e
      /\ ~Separated(rounds, seen, s, f.round) /\ ~Separated(rounds, seen, f.round, e)
  BY <1>1, <1>2, <1>6, <1>7
<1>9. ~Separated(rounds, seen, s, e)
  <2>1. SUFFICES ASSUME NEW q \in rounds \ seen, s < q, q < e PROVE FALSE
    BY DEF Separated
  <2>2. q # f.round /\ q \in Nat
    BY <1>1, <1>2
  <2>3. CASE q < f.round
    BY <2>1, <2>3, <1>8 DEF Separated
  <2>4. CASE q > f.round
    BY <2>1, <2>4, <1>8 DEF Separated
  <2>. QED BY <2>2, <2>3, <2>4, <1>8
<1>10. ASSUME NEW p \in seen, p < s PROVE Separated(rounds, seen, p, s)
  <2>1. p \in Nat /\ p <= f.round
    BY <1>1, <1>2, <1>8, <1>10
  <2>2. p \notin before
    BY <1>6, <1>10, <1>8, <2>1
  <2>3. PICK q \in rounds \ seen : p < q /\ q < f.round
    BY <2>1, <2>2 DEF Separated
  <2>4. q # s /\ q \in Nat
    BY <1>8, <1>2
  <2>5. ~ (s < q)
    BY <1>8, <2>3 DEF Separated
  <2>. QED BY <2>3, <2>4, <2>5, <1>8 DEF Separated
<1>11. ASSUME NEW p \in seen, e < p PROVE Separated(rounds, seen, e, p)
  <2>1. p \in Nat /\ f.round <= p
    BY <1>1, <1>2, <1>8, <1>11
  <2>2. p \notin after
    BY <1>7, <1>11, <1>8, <2>1
  <2>3. PICK q \in rounds \ seen : f.round < q /\ q < p
    BY <2>1, <2>2 DEF Separated
  <2>4. q # e /\ q \in Nat
    BY <1>8, <1>2
  <2>5. ~ (q < e)
    BY <1>8, <2>3 DEF Separated
  <2>. QED BY <2>3, <2>4, <2>5, <1>8 DEF Separated
<1>12. IsStretch(rounds, seen, s, e)
  BY <1>8, <1>9, <1>10, <1>11 DEF IsStretch
<1>. DEFINE t == [driver |-> f.driver, constructor |-> f.constructor, start |-> s, end |-> e]
<1>13. t \in Stretches(rounds, facts)
  <2>1. t \in [driver : {g.driver : g \in facts}, constructor : {g.constructor : g \in facts},
               start : rounds, end : rounds]
    BY <1>1, <1>8
  <2>2. IsStretch(rounds, SeenIn(facts, t.driver, t.constructor), t.start, t.end)
    BY <1>12 DEF seen
  <2>. QED BY <2>1, <2>2 DEF Stretches
<1>. QED BY <1>13, <1>8

(* The seat a stretch becomes: it keeps its bounds, but for those it shares
   with the season, and covers the rounds of its stretch. *)
LEMMA EntryFacts ==
  ASSUME NEW rounds, NEW facts, ArePlainRounds(rounds), AreFactsOf(rounds, facts),
         NEW t \in Stretches(rounds, facts), NEW e, e = EntryOf(rounds, t)
  PROVE  /\ e.driver = t.driver /\ e.constructor = t.constructor
         /\ e.startRound \in Nat /\ e.endRound \in Nat
         /\ IsFirst(rounds, t.start) => e.startRound = NoRound
         /\ ~IsFirst(rounds, t.start) => e.startRound = t.start
         /\ IsLatest(rounds, t.end) => e.endRound = NoRound
         /\ ~IsLatest(rounds, t.end) => e.endRound = t.end
         /\ e.startRound <= t.start
         /\ \A r \in rounds : Covers(e, r) <=> t.start <= r /\ r <= t.end
<1>1. /\ t.start \in rounds /\ t.end \in rounds
      /\ t.start \in Nat /\ t.end \in Nat /\ t.start > 0 /\ t.start <= t.end
  BY StretchFacts
<1>2. /\ e.driver = t.driver /\ e.constructor = t.constructor
      /\ e.startRound = IF IsFirst(rounds, t.start) THEN NoRound ELSE t.start
      /\ e.endRound = IF IsLatest(rounds, t.end) THEN NoRound ELSE t.end
  BY DEF EntryOf
<1>3. /\ e.startRound \in Nat /\ e.endRound \in Nat /\ e.startRound <= t.start
  BY <1>1, <1>2 DEF NoRound
<1>4. \A r \in rounds : r \in Nat /\ r > 0
  BY DEF ArePlainRounds, LastRound
<1>5. \A r \in rounds : e.startRound <= r <=> t.start <= r
  BY <1>1, <1>2, <1>4 DEF IsFirst, NoRound
<1>6. \A r \in rounds : Reaches(e, r) <=> r <= t.end
  BY <1>1, <1>2, <1>4 DEF IsLatest, NoRound, Reaches
<1>. QED BY <1>2, <1>3, <1>5, <1>6 DEF Covers

(* The seats derived from the classified rows are in order and apart. *)
LEMMA DerivedSpansAreValid ==
  ASSUME NEW rounds, NEW facts, ArePlainRounds(rounds), AreFactsOf(rounds, facts)
  PROVE  ~HasInvalidSpans(DriverEntries(rounds, facts))
<1>1. ASSUME NEW t \in Stretches(rounds, facts), NEW e, e = EntryOf(rounds, t)
      PROVE  Reaches(e, e.startRound)
  <2>1. t.start <= t.end /\ t.start \in Nat /\ t.end \in Nat
    BY StretchFacts
  <2>2. e.startRound \in Nat /\ e.startRound <= t.start
        /\ (e.endRound = NoRound \/ e.endRound = t.end)
    BY <1>1, EntryFacts
  <2>. QED BY <2>1, <2>2 DEF Reaches
<1>2. ASSUME NEW t \in Stretches(rounds, facts), NEW u \in Stretches(rounds, facts),
             NEW e, e = EntryOf(rounds, t), NEW f, f = EntryOf(rounds, u),
             e.driver = f.driver, Overlap(e, f)
      PROVE  t = u
  <2>1. /\ t.start \in rounds /\ u.start \in rounds /\ t.end \in rounds
        /\ t.start \in Nat /\ u.start \in Nat /\ t.end \in Nat /\ u.start > 0 /\ t.start > 0
        /\ t.start <= t.end
    BY StretchFacts
  <2>2. /\ e.driver = t.driver /\ f.driver = u.driver
        /\ IsFirst(rounds, t.start) => e.startRound = NoRound
        /\ ~IsFirst(rounds, t.start) => e.startRound = t.start
        /\ IsLatest(rounds, t.end) => e.endRound = NoRound
        /\ ~IsLatest(rounds, t.end) => e.endRound = t.end
    BY <1>2, EntryFacts
  <2>3. /\ IsFirst(rounds, u.start) => f.startRound = NoRound
        /\ ~IsFirst(rounds, u.start) => f.startRound = u.start
    BY <1>2, EntryFacts
  <2>4. e.startRound <= f.startRound /\ Reaches(e, f.startRound)
    BY <1>2 DEF Overlap
  <2>5. CASE IsFirst(rounds, u.start)
    <3>1. IsFirst(rounds, t.start)
      BY <2>1, <2>2, <2>3, <2>4, <2>5 DEF NoRound
    <3>2. t.start <= u.start /\ u.start <= t.end
      BY <2>1, <3>1, <2>5 DEF IsFirst
    <3>. QED BY <3>2, <1>2, <2>2, StretchesMeet
  <2>6. CASE ~IsFirst(rounds, u.start)
    <3>1. t.start <= u.start
      BY <2>1, <2>2, <2>3, <2>4, <2>6 DEF IsFirst
    <3>2. u.start <= t.end
      <4>1. CASE IsLatest(rounds, t.end)
        BY <2>1, <4>1 DEF IsLatest
      <4>2. CASE ~IsLatest(rounds, t.end)
        <5>1. e.endRound = t.end /\ e.endRound # NoRound /\ f.startRound = u.start
          BY <2>1, <2>2, <2>3, <2>6, <4>2 DEF NoRound
        <5>. QED BY <2>1, <2>4, <5>1 DEF Reaches
      <4>. QED BY <4>1, <4>2
    <3>. QED BY <3>1, <3>2, <1>2, <2>2, StretchesMeet
  <2>. QED BY <2>5, <2>6
<1>3. \A e \in DriverEntries(rounds, facts) :
        \E t \in Stretches(rounds, facts) : e = EntryOf(rounds, t)
  BY DEF DriverEntries
<1>. QED BY <1>1, <1>2, <1>3 DEF HasInvalidSpans

(* Every classified row lies in one seat of its driver, and that is its own. *)
LEMMA DerivedSpansPlace ==
  ASSUME NEW rounds, NEW facts, ArePlainRounds(rounds), AreFactsOf(rounds, facts)
  PROVE  ~HasUnplaced(DriverEntries(rounds, facts), facts)
<1>1. SUFFICES ASSUME NEW f \in facts
               PROVE  LET covering == {e \in DriverEntries(rounds, facts) :
                                         e.driver = f.driver /\ Covers(e, f.round)}
                      IN  \E e \in covering : covering = {e} /\ e.constructor = f.constructor
  BY DEF HasUnplaced
<1>. DEFINE covering == {e \in DriverEntries(rounds, facts) :
                           e.driver = f.driver /\ Covers(e, f.round)}
<1>2. PICK t \in Stretches(rounds, facts) :
        /\ t.driver = f.driver /\ t.constructor = f.constructor
        /\ t.start <= f.round /\ f.round <= t.end
  BY StretchAround
<1>3. f.round \in rounds /\ f.round \in Nat
  <2>1. f.round \in rounds
    BY DEF AreFactsOf
  <2>2. \A r \in rounds : r \in Nat
    BY DEF ArePlainRounds, LastRound
  <2>. QED BY <2>1, <2>2
<1>4. PICK e : e = EntryOf(rounds, t)
  OBVIOUS
<1>5. e.driver = f.driver /\ e.constructor = f.constructor /\ Covers(e, f.round)
  BY <1>2, <1>3, <1>4, EntryFacts
<1>6. e \in covering
  BY <1>4, <1>5 DEF DriverEntries
<1>7. ASSUME NEW g \in covering PROVE g = e
  <2>1. PICK u \in Stretches(rounds, facts) : g = EntryOf(rounds, u)
    BY DEF DriverEntries
  <2>2. u.driver = t.driver /\ u.start <= f.round /\ f.round <= u.end
    BY <1>2, <1>3, <2>1, EntryFacts
  <2>3. t.start \in Nat /\ u.start \in Nat /\ t.end \in Nat /\ u.end \in Nat
    BY StretchFacts
  <2>4. CASE t.start <= u.start
    <3>1. u.start <= t.end
      BY <1>2, <1>3, <2>2, <2>3
    <3>2. t = u
      BY <2>2, <2>4, <3>1, StretchesMeet
    <3>. QED BY <3>2, <2>1, <1>4
  <2>5. CASE u.start <= t.start
    <3>1. t.start <= u.end
      BY <1>2, <1>3, <2>2, <2>3
    <3>2. u = t
      BY <2>2, <2>5, <3>1, StretchesMeet
    <3>. QED BY <3>2, <2>1, <1>4
  <2>. QED BY <2>3, <2>4, <2>5
<1>8. covering = {e}
  BY <1>6, <1>7
<1>. QED BY <1>5, <1>6, <1>8

(* The classified races bear every seat: its bounds, its inside and the races
   next to it. *)
LEMMA DerivedSpansAreSupported ==
  ASSUME NEW rounds, NEW facts, ArePlainRounds(rounds), AreFactsOf(rounds, facts)
  PROVE  ~HasUnsupported(DriverEntries(rounds, facts), facts, rounds)
<1>1. ASSUME NEW t \in Stretches(rounds, facts), NEW e, e = EntryOf(rounds, t)
      PROVE  ~IsUnsupported(e, rounds, SeenIn(facts, e.driver, e.constructor))
  <2>. DEFINE seen == SeenIn(facts, t.driver, t.constructor)
  <2>1. /\ t.start \in rounds /\ t.end \in rounds
        /\ t.start \in Nat /\ t.end \in Nat /\ t.start > 0 /\ t.start <= t.end
        /\ IsStretch(rounds, seen, t.start, t.end)
    BY StretchFacts
  <2>2. /\ e.driver = t.driver /\ e.constructor = t.constructor
        /\ IsFirst(rounds, t.start) => e.startRound = NoRound
        /\ ~IsFirst(rounds, t.start) => e.startRound = t.start
        /\ IsLatest(rounds, t.end) => e.endRound = NoRound
        /\ ~IsLatest(rounds, t.end) => e.endRound = t.end
    BY <1>1, EntryFacts
  <2>3. \A r \in rounds : r \in Nat /\ r > 0
    BY DEF ArePlainRounds, LastRound
  <2>4. seen \subseteq rounds
    BY DEF SeenIn, AreFactsOf
  <2>. HIDE DEF seen
  <2>5. ~IsFirst(rounds, e.startRound) /\ ~IsLatest(rounds, e.endRound)
    BY <2>2, <2>3 DEF IsFirst, IsLatest, NoRound
  <2>6. ASSUME NEW opening,
               IF e.startRound = NoRound THEN IsFirst(rounds, opening)
               ELSE opening = e.startRound
        PROVE  opening = t.start
    <3>1. CASE IsFirst(rounds, t.start)
      <4>1. IsFirst(rounds, opening)
        BY <2>2, <2>6, <3>1
      <4>2. opening \in Nat /\ opening <= t.start /\ t.start <= opening
        BY <2>1, <2>3, <3>1, <4>1 DEF IsFirst
      <4>. QED BY <2>1, <4>2
    <3>2. CASE ~IsFirst(rounds, t.start)
      BY <2>1, <2>2, <2>6, <3>2 DEF NoRound
    <3>. QED BY <3>1, <3>2
  <2>7. ASSUME NEW closing,
               IF e.endRound = NoRound THEN IsLatest(rounds, closing)
               ELSE closing = e.endRound
        PROVE  closing = t.end
    <3>1. CASE IsLatest(rounds, t.end)
      <4>1. IsLatest(rounds, closing)
        BY <2>2, <2>7, <3>1
      <4>2. closing \in Nat /\ closing <= t.end /\ t.end <= closing
        BY <2>1, <2>3, <3>1, <4>1 DEF IsLatest
      <4>. QED BY <2>1, <4>2
    <3>2. CASE ~IsLatest(rounds, t.end)
      BY <2>1, <2>2, <2>3, <2>7, <3>2 DEF NoRound
    <3>. QED BY <3>1, <3>2
  <2>8. t.start \in seen /\ t.end \in seen /\ ~Separated(rounds, seen, t.start, t.end)
    BY <2>1 DEF IsStretch
  <2>9. ASSUME NEW p \in seen, IsLatest({r \in rounds : r < t.start}, p) PROVE FALSE
    <3>1. p < t.start
      BY <2>9 DEF IsLatest
    <3>2. PICK q \in rounds \ seen : p < q /\ q < t.start
      BY <2>1, <3>1 DEF IsStretch, Separated
    <3>3. q <= p
      BY <2>9, <3>2 DEF IsLatest
    <3>. QED BY <2>3, <2>4, <3>2, <3>3
  <2>10. ASSUME NEW p \in seen, IsFirst({r \in rounds : r > t.end}, p) PROVE FALSE
    <3>1. t.end < p /\ p \in Nat
      BY <2>1, <2>3, <2>4, <2>10 DEF IsFirst
    <3>2. PICK q \in rounds \ seen : t.end < q /\ q < p
      BY <2>1, <3>1 DEF IsStretch, Separated
    <3>3. q > t.end
      BY <2>1, <2>3, <3>2
    <3>4. p <= q
      BY <2>10, <3>2, <3>3 DEF IsFirst
    <3>. QED BY <2>3, <3>1, <3>2, <3>4
  <2>11. ~IsUnsupported(e, rounds, seen)
    BY <2>5, <2>6, <2>7, <2>8, <2>9, <2>10 DEF IsUnsupported
  <2>. QED BY <2>2, <2>11 DEF seen
<1>2. \A e \in DriverEntries(rounds, facts) :
        \E t \in Stretches(rounds, facts) : e = EntryOf(rounds, t) /\ t.start \in rounds
  BY StretchFacts DEF DriverEntries
<1>. QED BY <1>1, <1>2 DEF HasUnsupported

(* A set no two members of which differ has at most one. *)
LEMMA AtMostOne ==
  ASSUME NEW S, \A x, y \in S : x = y
  PROVE  /\ IsFiniteSet(S) /\ Cardinality(S) \in Nat /\ Cardinality(S) <= 1
         /\ S # {} => Cardinality(S) = 1
<1>1. CASE S = {}
  BY <1>1, FS_EmptySet
<1>2. CASE S # {}
  <2>1. PICK x \in S : S = {x}
    BY <1>2
  <2>2. IsFiniteSet(S) /\ Cardinality(S) = 1
    BY <2>1, FS_Singleton, Zenon
  <2>. QED BY <2>2
<1>. QED BY <1>1, <1>2

(* Seats of one driver that end alike, or begin alike, are one. *)
LEMMA SeatsDiffer ==
  ASSUME NEW rounds, NEW facts, ArePlainRounds(rounds), AreFactsOf(rounds, facts),
         NEW e \in DriverEntries(rounds, facts), NEW f \in DriverEntries(rounds, facts),
         e.driver = f.driver,
         \/ e.endRound = NoRound /\ f.endRound = NoRound
         \/ e.startRound = f.startRound
  PROVE  e = f
<1>1. PICK t \in Stretches(rounds, facts) : e = EntryOf(rounds, t)
  BY DEF DriverEntries
<1>2. PICK u \in Stretches(rounds, facts) : f = EntryOf(rounds, u)
  BY DEF DriverEntries
<1>3. /\ t.start \in rounds /\ t.end \in rounds /\ u.start \in rounds /\ u.end \in rounds
      /\ t.start \in Nat /\ t.end \in Nat /\ u.start \in Nat /\ u.end \in Nat
      /\ t.start <= t.end /\ u.start <= u.end /\ t.start > 0 /\ u.start > 0
  BY StretchFacts
<1>4. t.driver = u.driver
  BY <1>1, <1>2, EntryFacts
<1>5. SUFFICES t = u
  BY <1>1, <1>2
<1>6. CASE e.endRound = NoRound /\ f.endRound = NoRound
  <2>1. IsLatest(rounds, t.end) /\ IsLatest(rounds, u.end)
    <3>1. ~IsLatest(rounds, t.end) => e.endRound = t.end
      BY <1>1, EntryFacts
    <3>2. ~IsLatest(rounds, u.end) => f.endRound = u.end
      BY <1>2, EntryFacts
    <3>. QED BY <3>1, <3>2, <1>3, <1>6 DEF NoRound
  <2>2. t.end = u.end
    BY <1>3, <2>1 DEF IsLatest
  <2>3. CASE t.start <= u.start
    BY <1>3, <1>4, <2>2, <2>3, StretchesMeet
  <2>4. CASE u.start <= t.start
    BY <1>3, <1>4, <2>2, <2>4, StretchesMeet
  <2>. QED BY <1>3, <2>3, <2>4
<1>7. CASE e.startRound = f.startRound
  <2>1. /\ IsFirst(rounds, t.start) => e.startRound = NoRound
        /\ ~IsFirst(rounds, t.start) => e.startRound = t.start
    BY <1>1, EntryFacts
  <2>2. /\ IsFirst(rounds, u.start) => f.startRound = NoRound
        /\ ~IsFirst(rounds, u.start) => f.startRound = u.start
    BY <1>2, EntryFacts
  <2>3. t.start = u.start
    BY <1>3, <1>7, <2>1, <2>2 DEF IsFirst, NoRound
  <2>. QED BY <1>3, <1>4, <2>3, StretchesMeet
<1>. QED BY <1>6, <1>7

(* No driver's document has two seats to choose from. *)
LEMMA NeverAmbiguous ==
  ASSUME NEW rounds, NEW facts, ArePlainRounds(rounds), AreFactsOf(rounds, facts), NEW d
  PROVE  ~IsAmbiguous(DriverEntries(rounds, facts), d)
<1>. DEFINE entries == DriverEntries(rounds, facts)
<1>1. \A e \in entries : e.startRound \in Nat
  <2>1. ASSUME NEW e \in entries PROVE e.startRound \in Nat
    <3>1. PICK t \in Stretches(rounds, facts) : e = EntryOf(rounds, t)
      BY DEF DriverEntries
    <3>. QED BY <3>1, EntryFacts
  <2>. QED BY <2>1
<1>2. \A e, f \in OpenSpans(entries, d) : e = f
  BY SeatsDiffer DEF OpenSpans, SpansOf
<1>3. \A e, f \in LatestSpans(entries, d) : e = f
  <2>1. SUFFICES ASSUME NEW e \in LatestSpans(entries, d), NEW f \in LatestSpans(entries, d)
                 PROVE  e = f
    OBVIOUS
  <2>2. /\ e \in entries /\ f \in entries /\ e.driver = d /\ f.driver = d
        /\ e.startRound <= f.startRound /\ f.startRound <= e.startRound
    BY DEF LatestSpans, SpansOf
  <2>3. e.startRound = f.startRound
    BY <1>1, <2>2
  <2>. QED BY <2>2, <2>3, SeatsDiffer
<1>4. Cardinality(OpenSpans(entries, d)) <= 1 /\ Cardinality(OpenSpans(entries, d)) \in Nat
  BY <1>2, AtMostOne
<1>5. Cardinality(LatestSpans(entries, d)) <= 1 /\ Cardinality(LatestSpans(entries, d)) \in Nat
  BY <1>3, AtMostOne
<1>. QED BY <1>4, <1>5 DEF IsAmbiguous

(* The current seat of a driver is that of the last of his classified rows. *)
IsSeatOf(current, last, rounds) ==
  \/ current = {} /\ last = {}
  \/ \E e, f :
       /\ current = {e} /\ last = {f}
       /\ e.constructor = f.constructor
       /\ (e.endRound = NoRound) <=> IsLatest(rounds, f.round)
(* The seat a driver's document shows is that of his last classified row, open
   when that row is of the latest round; a driver without a row shows none. *)
LEMMA CurrentSeat ==
  ASSUME NEW rounds, NEW facts, ArePlainRounds(rounds), AreFactsOf(rounds, facts), NEW d,
         NEW entries, entries = DriverEntries(rounds, facts),
         NEW own, own = {f \in facts : f.driver = d},
         NEW last, last = {f \in own : \A g \in own : g.round <= f.round}
  PROVE  IsSeatOf(CurrentEntry(entries, d), last, rounds)
<1>. SUFFICES \/ CurrentEntry(entries, d) = {} /\ last = {}
              \/ \E e, f :
                   /\ CurrentEntry(entries, d) = {e} /\ last = {f}
                   /\ e.constructor = f.constructor
                   /\ (e.endRound = NoRound) <=> IsLatest(rounds, f.round)
  BY DEF IsSeatOf
<1>1. ASSUME NEW t \in Stretches(rounds, facts), t.driver = d
      PROVE  \E f \in own : f.round = t.end /\ f.constructor = t.constructor
  <2>1. t.end \in SeenIn(facts, t.driver, t.constructor)
    BY StretchFacts DEF IsStretch
  <2>. QED BY <1>1, <2>1 DEF SeenIn
<1>2. \A f \in own : f.round \in rounds
  BY DEF AreFactsOf
<1>3. \A r \in rounds : r \in Nat /\ r > 0 /\ r \in 0 .. LastRound
  BY DEF ArePlainRounds, LastRound
<1>4. CASE own = {}
  <2>1. SpansOf(entries, d) = {}
    <3>1. SUFFICES ASSUME NEW e \in entries, e.driver = d PROVE FALSE
      BY DEF SpansOf
    <3>2. PICK t \in Stretches(rounds, facts) : e = EntryOf(rounds, t)
      BY DEF DriverEntries
    <3>3. t.driver = d
      BY <3>1, <3>2, EntryFacts
    <3>. QED BY <1>1, <1>4, <3>3
  <2>. QED BY <1>4, <2>1 DEF CurrentEntry, OpenSpans, LatestSpans
<1>5. CASE own # {}
  <2>1. {f.round : f \in own} \in SUBSET (0 .. LastRound) /\ {f.round : f \in own} # {}
    BY <1>2, <1>3, <1>5
  <2>2. PICK m \in {f.round : f \in own} : \A r \in {f.round : f \in own} : r <= m
    BY <2>1, GreatestElement DEF LastRound
  <2>3. PICK f \in own : f.round = m
    BY <2>2
  <2>4. f \in last /\ f \in facts /\ f.driver = d /\ f.round \in rounds
    BY <1>2, <2>2, <2>3
  <2>5. ASSUME NEW g \in last PROVE g = f
    <3>1. g.round <= f.round /\ f.round <= g.round /\ g \in facts /\ g.driver = d
      BY <2>4
    <3>2. g.round \in Nat /\ f.round \in Nat
      BY <1>2, <1>3, <2>4
    <3>3. g.round = f.round
      BY <3>1, <3>2
    <3>4. g.constructor = f.constructor
      BY <2>4, <3>1, <3>3 DEF AreFactsOf
    <3>. QED BY <2>4, <3>1, <3>3, <3>4 DEF AreFactsOf
  <2>6. last = {f}
    BY <2>4, <2>5
  <2>7. PICK t \in Stretches(rounds, facts) :
          /\ t.driver = d /\ t.constructor = f.constructor
          /\ t.start <= f.round /\ f.round <= t.end
    BY <2>4, StretchAround
  <2>8. PICK e : e = EntryOf(rounds, t)
    OBVIOUS
  <2>9. e \in entries /\ e.driver = d /\ e.constructor = f.constructor
    BY <2>7, <2>8, EntryFacts DEF DriverEntries
  <2>10. ASSUME NEW u \in Stretches(rounds, facts), u.driver = d
         PROVE  u.end <= f.round /\ u.end \in Nat /\ u.start \in Nat /\ u.start <= u.end
                /\ u.start \in rounds /\ u.end \in rounds /\ u.start > 0
    <3>1. PICK g \in own : g.round = u.end
      BY <1>1, <2>10
    <3>. QED BY <2>2, <2>3, <3>1, StretchFacts
  <2>11. t.end = f.round /\ f.round \in Nat
    <3>1. t.end <= f.round /\ t.end \in Nat
      BY <2>7, <2>10
    <3>2. f.round \in Nat
      BY <1>3, <2>4
    <3>. QED BY <3>1, <3>2, <2>7
  <2>12. (e.endRound = NoRound) = IsLatest(rounds, f.round)
    <3>1. /\ IsLatest(rounds, t.end) => e.endRound = NoRound
          /\ ~IsLatest(rounds, t.end) => e.endRound = t.end
      BY <2>8, EntryFacts
    <3>2. t.end # NoRound
      BY <1>3, <2>4, <2>11 DEF NoRound
    <3>3. e.endRound = NoRound <=> IsLatest(rounds, f.round)
      BY <3>1, <3>2, <2>11
    <3>. QED BY <3>3 DEF IsLatest
  <2>13. CurrentEntry(entries, d) = {e}
    <3>1. CASE IsLatest(rounds, f.round)
      <4>1. e \in OpenSpans(entries, d)
        BY <2>9, <2>12, <3>1 DEF OpenSpans, SpansOf
      <4>2. \A g \in OpenSpans(entries, d) : g = e
        BY <4>1, SeatsDiffer DEF OpenSpans, SpansOf
      <4>. QED BY <4>1, <4>2 DEF CurrentEntry
    <3>2. CASE ~IsLatest(rounds, f.round)
      <4>1. ASSUME NEW g \in entries, g.driver = d
            PROVE  g.endRound # NoRound /\ g.startRound <= e.startRound
                   /\ g.startRound \in Nat /\ e.startRound \in Nat
        <5>1. PICK u \in Stretches(rounds, facts) : g = EntryOf(rounds, u)
          BY <4>1 DEF DriverEntries
        <5>2. u.driver = d
          BY <4>1, <5>1, EntryFacts
        <5>3. /\ u.end <= f.round /\ u.end \in Nat /\ u.start \in Nat /\ u.start <= u.end
              /\ u.start \in rounds /\ u.end \in rounds /\ u.start > 0
          BY <2>10, <5>2
        <5>4. /\ IsFirst(rounds, u.start) => g.startRound = NoRound
              /\ ~IsFirst(rounds, u.start) => g.startRound = u.start
              /\ ~IsLatest(rounds, u.end) => g.endRound = u.end
              /\ g.startRound \in Nat
          BY <5>1, EntryFacts
        <5>5. /\ IsFirst(rounds, t.start) => e.startRound = NoRound
              /\ ~IsFirst(rounds, t.start) => e.startRound = t.start
              /\ e.startRound \in Nat
          BY <2>8, EntryFacts
        <5>6. ~IsLatest(rounds, u.end)
          <6>1. SUFFICES ASSUME IsLatest(rounds, u.end) PROVE FALSE
            OBVIOUS
          <6>2. f.round <= u.end
            BY <2>4, <6>1 DEF IsLatest
          <6>3. f.round = u.end
            BY <2>11, <5>3, <6>2
          <6>. QED BY <3>2, <6>1, <6>3
        <5>7. g.endRound # NoRound
          BY <5>3, <5>4, <5>6, <1>3 DEF NoRound
        <5>8. t.start \in Nat /\ t.start \in rounds
          BY StretchFacts
        <5>9. u.start <= t.start
          <6>1. SUFFICES ASSUME t.start <= u.start PROVE u.start <= t.start
            BY <5>3, <5>8
          <6>2. u.start <= t.end
            BY <2>11, <5>3
          <6>3. t = u
            BY <2>7, <5>2, <6>1, <6>2, StretchesMeet
          <6>. QED BY <5>8, <6>3
        <5>10. g.startRound <= e.startRound
          <6>1. CASE IsFirst(rounds, t.start)
            <7>1. u.start = t.start
              BY <5>3, <5>8, <5>9, <6>1 DEF IsFirst
            <7>. QED BY <5>4, <5>5, <6>1, <7>1
          <6>2. CASE ~IsFirst(rounds, t.start)
            <7>1. e.startRound = t.start
              BY <5>5, <6>2
            <7>2. g.startRound = NoRound \/ g.startRound = u.start
              BY <5>4
            <7>. QED BY <5>3, <5>8, <5>9, <7>1, <7>2 DEF NoRound
          <6>. QED BY <6>1, <6>2
        <5>. QED BY <5>4, <5>5, <5>7, <5>10
      <4>2. OpenSpans(entries, d) = {}
        BY <4>1 DEF OpenSpans, SpansOf
      <4>3. e \in LatestSpans(entries, d)
        BY <2>9, <4>1 DEF LatestSpans, SpansOf
      <4>4. \A g \in LatestSpans(entries, d) : g = e
        <5>1. SUFFICES ASSUME NEW g \in LatestSpans(entries, d) PROVE g = e
          OBVIOUS
        <5>2. g \in entries /\ g.driver = d /\ e.startRound <= g.startRound
          BY <2>9 DEF LatestSpans, SpansOf
        <5>3. g.startRound = e.startRound
          BY <4>1, <5>2
        <5>. QED BY <2>9, <5>2, <5>3, SeatsDiffer
      <4>. QED BY <4>2, <4>3, <4>4 DEF CurrentEntry
    <3>. QED BY <3>1, <3>2
  <2>. QED BY <2>6, <2>9, <2>12, <2>13
<1>. QED BY <1>4, <1>5

(* As many things as there are names for them, when no two share one. *)
LEMMA ImageCardinality ==
  ASSUME NEW S, IsFiniteSet(S), NEW f, f = [x \in S |-> f[x]],
         \A x, y \in S : f[x] = f[y] => x = y
  PROVE  /\ IsFiniteSet({f[x] : x \in S})
         /\ Cardinality({f[x] : x \in S}) = Cardinality(S)
<1>. DEFINE T == {f[x] : x \in S}
<1>1. f \in [S -> T]
  OBVIOUS
<1>2. f \in Surjection(S, T) /\ f \in Injection(S, T)
  BY <1>1 DEF Surjection, Injection, IsInjective
<1>. QED BY <1>2, FS_Surjection
(* An answer has as many rows as its length says. *)
LEMMA ListedCardinality ==
  ASSUME NEW rows, IsListed(rows)
  PROVE  /\ IsFiniteSet(DOMAIN rows) /\ Cardinality(DOMAIN rows) = Len(rows)
         /\ DOMAIN rows = 1 .. Len(rows) /\ Len(rows) \in Nat
<1>1. DOMAIN rows = 1 .. Len(rows) /\ Len(rows) \in Nat
  BY DEF IsListed
<1>2. PICK n \in Nat : n = Len(rows)
  BY <1>1
<1>3. IsFiniteSet(1 .. n) /\ Cardinality(1 .. n) = IF 1 > n THEN 0 ELSE n - 1 + 1
  BY FS_Interval
<1>4. Cardinality(1 .. n) = n
  BY <1>3
<1>. QED BY <1>1, <1>2, <1>3, <1>4

(* A round appended to an identity is read back from what comes of it. *)
LEMMA AppendedIdentity ==
  ASSUME NEW x, NEW y, IsListed(x), IsListed(y), NEW a, NEW b,
         Append(x, a) = Append(y, b)
  PROVE  x = y /\ a = b
<1>. DEFINE S == {x[i] : i \in 1 .. Len(x)} \cup {y[i] : i \in 1 .. Len(y)} \cup {a, b}
<1>1. x \in Seq(S)
  <2>1. x \in [1 .. Len(x) -> S] /\ Len(x) \in Nat
    BY DEF IsListed
  <2>. QED BY <2>1
<1>2. y \in Seq(S)
  <2>1. y \in [1 .. Len(y) -> S] /\ Len(y) \in Nat
    BY DEF IsListed
  <2>. QED BY <2>1
<1>3. a \in S /\ b \in S
  OBVIOUS
<1>. HIDE DEF S
<1>4. /\ Len(Append(x, a)) = Len(x) + 1 /\ Len(Append(y, b)) = Len(y) + 1
      /\ Append(x, a)[Len(x) + 1] = a /\ Append(y, b)[Len(y) + 1] = b
      /\ \A i \in 1 .. Len(x) : Append(x, a)[i] = x[i]
      /\ \A i \in 1 .. Len(y) : Append(y, b)[i] = y[i]
  BY <1>1, <1>2, <1>3, AppendProperties
<1>5. Len(x) = Len(y) /\ a = b
  BY <1>1, <1>2, <1>4
<1>6. \A i \in 1 .. Len(x) : x[i] = y[i]
  BY <1>4, <1>5
<1>. QED BY <1>5, <1>6 DEF IsListed

(* Two seats share an identity only where one driver's is another's followed
   by the round a seat of his starts in. *)
LEMMA LookalikeSeats ==
  ASSUME NEW rounds, NEW facts, ArePlainRounds(rounds), AreFactsOf(rounds, facts),
         \A g \in facts : IsListed(g.driver),
         NEW entries, entries = DriverEntries(rounds, facts),
         NEW e \in entries, NEW f \in entries, e # f, EntryId(e) = EntryId(f)
  PROVE  \E x, y \in entries :
           y.startRound # NoRound /\ x.driver = Append(y.driver, y.startRound)
<1>1. ASSUME NEW x \in entries PROVE IsListed(x.driver)
  <2>1. PICK t \in Stretches(rounds, facts) : x = EntryOf(rounds, t)
    BY DEF DriverEntries
  <2>2. x.driver = t.driver /\ \E g \in facts : g.driver = t.driver
    <3>1. t.start \in SeenIn(facts, t.driver, t.constructor)
      BY StretchFacts DEF IsStretch
    <3>. QED BY <2>1, <3>1, EntryFacts DEF SeenIn
  <2>. QED BY <2>2
<1>2. CASE e.startRound = NoRound /\ f.startRound = NoRound
  BY <1>2, SeatsDiffer DEF EntryId
<1>3. CASE e.startRound = NoRound /\ f.startRound # NoRound
  BY <1>3 DEF EntryId
<1>4. CASE e.startRound # NoRound /\ f.startRound = NoRound
  BY <1>4 DEF EntryId
<1>5. CASE e.startRound # NoRound /\ f.startRound # NoRound
  <2>1. Append(e.driver, e.startRound) = Append(f.driver, f.startRound)
    BY <1>5 DEF EntryId
  <2>2. e.driver = f.driver /\ e.startRound = f.startRound
    BY <1>1, <2>1, AppendedIdentity
  <2>. QED BY <2>2, SeatsDiffer
<1>. QED BY <1>2, <1>3, <1>4, <1>5

-----------------------------------------------------------------------------
(* What a registry resolves. *)

(* A value that resolves is a key with one meaning, an identity of the
   canonical content. *)
LEMMA ResolvedFacts ==
  ASSUME NEW documents, NEW canonical, NEW registry, registry = Build(documents, canonical),
         NEW s, NEW entity, NEW value, Resolved(registry, s, entity, value) # {}
  PROVE  /\ Resolved(registry, s, entity, value)
              = {TheOne(Resolved(registry, s, entity, value))}
         /\ TheOne(Resolved(registry, s, entity, value)) \in canonical[entity]
         /\ IsKey(JolpicaKey(s, entity, value))
         /\ KeysAreUnambiguous(documents)
<1>. DEFINE key == JolpicaKey(s, entity, value)
            names == Resolved(registry, s, entity, value)
<1>1. IsKey(key) /\ registry.valid = TRUE
      /\ names = {entry.target : entry \in {e \in registry.index : e.key = key}}
  <2>1. registry.valid = TRUE \/ registry.valid = FALSE
    BY DEF Build, NoRegistry
  <2>. QED BY <2>1 DEF Resolved, Resolve
<1>2. /\ registry.index = {[key |-> KeyAt(documents, p), target |-> RecordAt(documents, p).target] :
                             p \in Places(documents)}
      /\ KeysAreUnambiguous(documents)
      /\ \A p \in Places(documents) : RecordIsSound(documents, canonical, p)
  BY <1>1 DEF Build, NoRegistry
<1>3. key.entity = entity
  BY DEF JolpicaKey
<1>. HIDE DEF key
<1>4. ASSUME NEW x \in names
      PROVE  \E p \in Places(documents) :
               KeyAt(documents, p) = key /\ RecordAt(documents, p).target = x
  <2>1. PICK entry \in registry.index : entry.key = key /\ entry.target = x
    BY <1>1, <1>4
  <2>2. PICK p \in Places(documents) :
          entry = [key |-> KeyAt(documents, p), target |-> RecordAt(documents, p).target]
    BY <1>2, <2>1
  <2>. QED BY <2>1, <2>2
<1>5. \A x, y \in names : x = y
  <2>1. SUFFICES ASSUME NEW x \in names, NEW y \in names PROVE x = y
    OBVIOUS
  <2>2. PICK p \in Places(documents) :
          KeyAt(documents, p) = key /\ RecordAt(documents, p).target = x
    BY <1>4
  <2>3. PICK q \in Places(documents) :
          KeyAt(documents, q) = key /\ RecordAt(documents, q).target = y
    BY <1>4
  <2>4. p = q
    BY <1>2, <2>2, <2>3 DEF KeysAreUnambiguous
  <2>. QED BY <2>2, <2>3, <2>4
<1>6. TheOne(names) \in names
  BY DEF TheOne
<1>. HIDE DEF names
<1>7. names = {TheOne(names)}
  BY <1>5, <1>6
<1>8. TheOne(names) \in canonical[entity]
  <2>1. PICK p \in Places(documents) :
          KeyAt(documents, p) = key /\ RecordAt(documents, p).target = TheOne(names)
    BY <1>4, <1>6
  <2>2. RecordAt(documents, p).target \in canonical[RecordAt(documents, p).entity]
    BY <1>2 DEF RecordIsSound
  <2>3. KeyAt(documents, p).entity = RecordAt(documents, p).entity
    BY DEF KeyAt, KeyOf
  <2>. QED BY <1>3, <2>1, <2>2, <2>3
<1>. QED BY <1>1, <1>2, <1>7, <1>8 DEF key, names

(* The round of an event that resolves is one of a season. *)
LEMMA ResolvedRound ==
  ASSUME NEW documents, NEW canonical, NEW registry, registry = Build(documents, canonical),
         NEW s, NEW race, Resolved(registry, s, "event", EventLocator(race)) # {}
  PROVE  race.round \in 1 .. LastRound
<1>1. IsKey(JolpicaKey(s, "event", EventLocator(race)))
  BY ResolvedFacts
<1>2. ValueIsWellFormed([type |-> "locator", value |-> EventLocator(race)])
  BY <1>1 DEF IsKey, JolpicaKey
<1>. QED BY <1>2 DEF ValueIsWellFormed, EventLocator

-----------------------------------------------------------------------------
(* What a reading that is normalized holds. *)

(* A calendar: one event for every row, of a round of its own, which nothing
   says has been raced. *)
IsEvent(e) ==
  /\ e = [round |-> e.round, id |-> e.id, circuit |-> e.circuit, canonical |-> TRUE,
          status |-> "unknown", format |-> e.format, startDay |-> 0, endDay |-> 0,
          sessions |-> e.sessions, hasResults |-> FALSE]
  /\ e.round \in 1 .. LastRound
  /\ \A x, y \in e.sessions : x.type = y.type => x = y

HasKnownBlocks(rows) ==
  \A i \in DOMAIN rows : DOMAIN rows[i].sessions \subseteq DOMAIN SessionTypes

IsCalendarOf(events, answer) ==
  /\ \A e \in events : IsEvent(e)
  /\ \A x, y \in events : x.round = y.round => x = y
  /\ \A e \in events : \E i \in DOMAIN answer.rows : e.round = answer.rows[i].round
  /\ \A i \in DOMAIN answer.rows : \E e \in events : e.round = answer.rows[i].round
  /\ Cardinality(events) = answer.total
(* A calendar that is read names every round of the answer once, and is as long
   as the provider counted. *)
LEMMA CalendarReads ==
  ASSUME NEW documents, NEW canonical, NEW registry, registry = Build(documents, canonical),
         NEW answer, IsListed(answer.rows), NEW s, NEW requested,
         HasKnownBlocks(answer.rows),
         NEW reading, reading = ReadCalendar(answer, s, requested, registry),
         reading.reading = "normalized"
  PROVE  IsCalendarOf(reading.payload, answer)
<1>. DEFINE rows == answer.rows
            eventOf == [i \in DOMAIN rows |-> EventOf(rows[i], s, registry)]
<1>1. /\ DecodesCalendar(answer, s, requested)
      /\ \A i \in DOMAIN rows : Resolved(registry, s, "event", EventLocator(rows[i])) # {}
      /\ reading.payload = {EventOf(row, s, registry) : row \in RowsOf(answer)}
  BY DEF ReadCalendar, Unreadable, Unmapped, Normalized
<1>2. reading.payload = {eventOf[i] : i \in DOMAIN rows}
  BY <1>1, ZenonT(60) DEF RowsOf
<1>3. ASSUME NEW i \in DOMAIN rows
      PROVE  eventOf[i].round = rows[i].round /\ IsEvent(eventOf[i])
  <2>1. PICK e : e = EventOf(rows[i], s, registry)
    OBVIOUS
  <2>2. /\ e = [round |-> e.round, id |-> e.id, circuit |-> e.circuit, canonical |-> TRUE,
                status |-> "unknown", format |-> e.format, startDay |-> 0, endDay |-> 0,
                sessions |-> e.sessions, hasResults |-> FALSE]
        /\ e.round = rows[i].round /\ e.sessions = SessionsFor(rows[i])
    BY <2>1 DEF EventOf
  <2>3. e.round \in 1 .. LastRound
    BY <1>1, <2>2, ResolvedRound
  <2>4. \A x, y \in SessionsFor(rows[i]) : x.type = y.type => x = y
    <3>1. \A b, c \in DOMAIN SessionTypes :
            SessionTypes[b] # "race" /\ (SessionTypes[b] = SessionTypes[c] => b = c)
      BY DEF SessionTypes
    <3>2. DOMAIN rows[i].sessions \subseteq DOMAIN SessionTypes
      BY DEF HasKnownBlocks
    <3>3. ASSUME NEW x \in SessionsFor(rows[i])
          PROVE  \/ /\ x.type = "race"
                    /\ x = [type |-> "race", start |-> rows[i].start, status |-> "unknown",
                            canonical |-> TRUE]
                 \/ \E block \in DOMAIN rows[i].sessions :
                      /\ x.type = SessionTypes[block]
                      /\ x = [type |-> SessionTypes[block], start |-> rows[i].sessions[block],
                              status |-> "unknown", canonical |-> TRUE]
      BY <3>3 DEF SessionsFor
    <3>4. SUFFICES ASSUME NEW x \in SessionsFor(rows[i]), NEW y \in SessionsFor(rows[i]),
                          x.type = y.type
                   PROVE  x = y
      OBVIOUS
    <3>5. CASE x.type = "race"
      BY <3>1, <3>2, <3>3, <3>4, <3>5
    <3>6. CASE x.type # "race"
      <4>1. PICK b \in DOMAIN rows[i].sessions :
              /\ x.type = SessionTypes[b]
              /\ x = [type |-> SessionTypes[b], start |-> rows[i].sessions[b],
                      status |-> "unknown", canonical |-> TRUE]
        BY <3>3, <3>6
      <4>2. PICK c \in DOMAIN rows[i].sessions :
              /\ y.type = SessionTypes[c]
              /\ y = [type |-> SessionTypes[c], start |-> rows[i].sessions[c],
                      status |-> "unknown", canonical |-> TRUE]
        BY <3>3, <3>4, <3>6
      <4>3. b = c
        BY <3>1, <3>2, <3>4, <4>1, <4>2
      <4>. QED BY <4>1, <4>2, <4>3
    <3>. QED BY <3>5, <3>6
  <2>. QED BY <2>1, <2>2, <2>3, <2>4, ZenonT(60) DEF IsEvent
<1>4. \A i, j \in DOMAIN rows : rows[i].round = rows[j].round => i = j
  BY <1>1 DEF DecodesCalendar, Distinct
<1>5. \A i, j \in DOMAIN rows : eventOf[i].round = eventOf[j].round => i = j
  BY <1>3, <1>4
<1>6. /\ \A e \in reading.payload : \E i \in DOMAIN rows : e.round = rows[i].round
      /\ \A i \in DOMAIN rows : \E e \in reading.payload : e.round = rows[i].round
  <2>1. \A i \in DOMAIN rows : eventOf[i].round = rows[i].round
    BY <1>3
  <2>. HIDE DEF eventOf, rows
  <2>. QED BY <1>2, <2>1
<1>7. Cardinality(reading.payload) = Cardinality(DOMAIN rows)
  <2>1. IsFiniteSet(DOMAIN rows) /\ eventOf = [i \in DOMAIN rows |-> eventOf[i]]
    BY ListedCardinality
  <2>2. \A i, j \in DOMAIN rows : eventOf[i] = eventOf[j] => i = j
    BY <1>5
  <2>3. PICK S : S = DOMAIN rows
    OBVIOUS
  <2>. HIDE DEF eventOf, rows
  <2>4. Cardinality({eventOf[i] : i \in S}) = Cardinality(S)
    BY <2>1, <2>2, <2>3, ImageCardinality
  <2>. QED BY <1>2, <2>3, <2>4
<1>8. Len(rows) = answer.total
  BY <1>1 DEF DecodesCalendar, IsWholeTable, IsWholePage
<1>9. Cardinality(reading.payload) = answer.total
  BY <1>7, <1>8, ListedCardinality
<1>10. \A e \in reading.payload : IsEvent(e)
  <2>. HIDE DEF eventOf
  <2>. QED BY <1>2, <1>3
<1>11. \A x, y \in reading.payload : x.round = y.round => x = y
  <2>. HIDE DEF eventOf
  <2>. QED BY <1>2, <1>5
<1>. QED BY <1>6, <1>9, <1>10, <1>11 DEF IsCalendarOf

(* A calendar that is read names no event twice, whatever the rounds. *)
LEMMA EventsReadOnce ==
  ASSUME NEW answer, NEW s, NEW requested, NEW registry, NEW reading,
         reading = ReadCalendar(answer, s, requested, registry),
         reading.reading = "normalized",
         NEW i \in DOMAIN answer.rows, NEW j \in DOMAIN answer.rows,
         answer.rows[i].raceName = answer.rows[j].raceName,
         answer.rows[i].circuitId = answer.rows[j].circuitId
  PROVE  i = j
<1>. DEFINE key == [k \in DOMAIN answer.rows |-> eventKey(answer.rows[k])]
<1>1. DecodesCalendar(answer, s, requested)
  BY DEF ReadCalendar, Unreadable
<1>2. Distinct(key)
  BY <1>1 DEF DecodesCalendar
<1>3. key[i] = key[j]
  BY DEF eventKey
<1>. QED BY <1>2, <1>3 DEF Distinct

(* Identities: one for every row, and as many as the provider counts. *)
LEMMA IdentitiesRead ==
  ASSUME NEW answer, IsListed(answer.rows), NEW s, NEW requested, NEW entity, NEW registry,
         NEW curated, NEW reading,
         reading = ReadIdentities(answer, s, requested, entity, registry, curated),
         reading.reading = "normalized"
  PROVE  Cardinality(reading.payload) = answer.total
<1>. DEFINE rows == answer.rows
            name == [i \in DOMAIN rows |-> TheOne(Resolved(registry, s, entity, rows[i]))]
            troubled == {i \in DOMAIN rows : (\E j \in 1 .. (i - 1) : name[j] = name[i])
                                             \/ name[i] \notin curated}
<1>1. /\ DecodesIdentities(answer, s, requested)
      /\ reading = NormalizeIdentities(rows, s, entity, registry, curated)
  BY DEF ReadIdentities, Unreadable
<1>2. /\ FirstTrouble(rows, s, entity, registry, curated) \notin {"duplicate", "missing"}
      /\ reading.payload = {TheOne(Resolved(registry, s, entity, rows[i])) : i \in DOMAIN rows}
  BY <1>1 DEF NormalizeIdentities, Unreadable, Unmapped, Normalized
<1>3. troubled = {}
  BY <1>2, Zenon DEF FirstTrouble
<1>4. \A i, j \in DOMAIN rows : name[i] = name[j] => i = j
  <2>1. DOMAIN rows = 1 .. Len(rows) /\ Len(rows) \in Nat
    BY ListedCardinality
  <2>2. \A i \in DOMAIN rows : \A j \in 1 .. (i - 1) : name[j] # name[i]
    BY <1>3
  <2>. HIDE DEF name
  <2>3. ASSUME NEW i \in DOMAIN rows, NEW j \in DOMAIN rows, name[i] = name[j], i < j
        PROVE  FALSE
    <3>1. i \in 1 .. (j - 1)
      BY <2>1, <2>3
    <3>. QED BY <2>2, <2>3, <3>1
  <2>4. \A i, j \in DOMAIN rows : i < j \/ j < i \/ i = j
    BY <2>1
  <2>. QED BY <2>3, <2>4
<1>5. reading.payload = {name[i] : i \in DOMAIN rows}
  BY <1>2
<1>6. Cardinality(reading.payload) = Cardinality(DOMAIN rows)
  <2>1. IsFiniteSet(DOMAIN rows) /\ name = [i \in DOMAIN rows |-> name[i]]
    BY ListedCardinality
  <2>. HIDE DEF name
  <2>. QED BY <1>4, <1>5, <2>1, ImageCardinality
<1>7. Len(rows) = answer.total
  BY <1>1 DEF DecodesIdentities, IsWholeTable, IsWholePage
<1>. QED BY <1>6, <1>7, ListedCardinality

(* A table of drivers: no two rows of one driver. *)
LEMMA DriverStandingsRead ==
  ASSUME NEW documents, NEW canonical, NEW registry, registry = Build(documents, canonical),
         NEW answer, NEW s, NEW requested, NEW reading,
         reading = ReadStandings(answer, s, "driver-standings", requested, registry),
         reading.reading = "normalized"
  PROVE  \A x, y \in reading.payload.rows : x.driver = y.driver => x = y
<1>. DEFINE rows == answer.rows
            driverOf(i) == Resolved(registry, s, "driver", rows[i].name)
<1>1. reading = NormalizeDriverStandings(answer, s, registry)
  BY DEF ReadStandings, Unreadable
<1>2. /\ \A i \in DOMAIN rows : driverOf(i) # {}
      /\ \A i, j \in DOMAIN rows : driverOf(i) = driverOf(j) => i = j
      /\ reading = Normalized([round |-> answer.round,
                               rows |-> {DriverStandingOf(rows[i], s, registry) :
                                           i \in DOMAIN rows}])
  <2>. DEFINE teamsOf(row) == [j \in DOMAIN row.constructors |->
                               Resolved(registry, s, "constructor", row.constructors[j])]
              unmapped == \E i \in DOMAIN rows :
                            \/ Resolved(registry, s, "driver", rows[i].name) = {}
                            \/ {} \in {teamsOf(rows[i])[j] : j \in DOMAIN rows[i].constructors}
              contradictory ==
                \/ ~Distinct([i \in DOMAIN rows |-> Resolved(registry, s, "driver", rows[i].name)])
                \/ \E i \in DOMAIN rows : ~Distinct(teamsOf(rows[i]))
              table == [round |-> answer.round,
                        rows |-> {DriverStandingOf(rows[i], s, registry) : i \in DOMAIN rows}]
  <2>1. reading = IF unmapped THEN Unmapped
                  ELSE IF contradictory THEN Unreadable ELSE Normalized(table)
    BY <1>1, Zenon DEF NormalizeDriverStandings
  <2>2. Unmapped.reading # "normalized" /\ Unreadable.reading # "normalized"
    BY DEF Unmapped, Unreadable
  <2>3. ~unmapped /\ ~contradictory /\ reading = Normalized(table)
    <3>. HIDE DEF unmapped, contradictory, table
    <3>. QED BY <2>1, <2>2
  <2>4. Distinct([i \in DOMAIN rows |-> driverOf(i)])
    BY <2>3
  <2>5. \A i, j \in DOMAIN rows : driverOf(i) = driverOf(j) => i = j
    <3>. HIDE DEF driverOf
    <3>. QED BY <2>4 DEF Distinct
  <2>. QED BY <2>3, <2>5
<1>3. reading.payload.rows = {DriverStandingOf(rows[i], s, registry) : i \in DOMAIN rows}
  BY <1>2 DEF Normalized
<1>4. \A i \in DOMAIN rows :
        /\ DriverStandingOf(rows[i], s, registry).driver = TheOne(driverOf(i))
        /\ driverOf(i) = {TheOne(driverOf(i))}
  <2>1. \A i \in DOMAIN rows : driverOf(i) = {TheOne(driverOf(i))}
    BY <1>2, ResolvedFacts
  <2>. QED BY <2>1 DEF DriverStandingOf
<1>. HIDE DEF driverOf
<1>5. SUFFICES ASSUME NEW x \in reading.payload.rows, NEW y \in reading.payload.rows,
                      x.driver = y.driver
               PROVE  x = y
  OBVIOUS
<1>6. PICK i \in DOMAIN rows : x = DriverStandingOf(rows[i], s, registry)
  BY <1>3
<1>7. PICK j \in DOMAIN rows : y = DriverStandingOf(rows[j], s, registry)
  BY <1>3
<1>8. driverOf(i) = driverOf(j)
  BY <1>4, <1>5, <1>6, <1>7
<1>. QED BY <1>2, <1>6, <1>7, <1>8

(* The rows of a race that read: one winner, who is classified and has a time,
   no two alike positions, and the classified ones first. *)
LEMMA RaceRows ==
  ASSUME NEW rows, IsListed(rows), rows # <<>>, \A i \in DOMAIN rows : ReadsRow(rows[i]),
         ChecksRows(rows)
  PROVE  /\ DOMAIN rows = 1 .. Len(rows) /\ Len(rows) \in Nat
         /\ Winner(rows) \in DOMAIN rows
         /\ \A i \in DOMAIN rows : rows[i].position = 1 <=> i = Winner(rows)
         /\ IsClassifiedRow(rows[Winner(rows)])
         /\ rows[Winner(rows)].time # Absent
         /\ \A i, j \in DOMAIN rows : rows[i].position = rows[j].position => i = j
         /\ \A i \in DOMAIN rows : rows[i].position \in 1 .. Len(rows)
         /\ \A p \in 1 .. Len(rows) : \E i \in DOMAIN rows : rows[i].position = p
<1>1. DOMAIN rows = 1 .. Len(rows) /\ Len(rows) \in Nat
  BY ListedCardinality
<1>2. Len(rows) # 0
  <2>1. SUFFICES ASSUME Len(rows) = 0 PROVE FALSE
    OBVIOUS
  <2>2. rows = <<>>
    BY <2>1 DEF IsListed
  <2>. QED BY <2>2
<1>3. /\ {rows[i].position : i \in DOMAIN rows} = 1 .. Len(rows)
      /\ Distinct([i \in DOMAIN rows |-> rows[i].position])
      /\ RowClass(rows[Winner(rows)]) = "finished" /\ rows[Winner(rows)].time # Absent
  BY DEF ChecksRows
<1>4. \A i, j \in DOMAIN rows : rows[i].position = rows[j].position => i = j
  BY <1>3 DEF Distinct
<1>5. \A i \in DOMAIN rows : rows[i].position \in 1 .. Len(rows)
  BY <1>3
<1>6. \A p \in 1 .. Len(rows) : \E i \in DOMAIN rows : rows[i].position = p
  BY <1>3
<1>7. \E i \in DOMAIN rows : rows[i].position = 1
  BY <1>1, <1>2, <1>6
<1>8. Winner(rows) \in DOMAIN rows /\ rows[Winner(rows)].position = 1
  BY <1>7 DEF Winner
<1>9. IsClassifiedRow(rows[Winner(rows)])
  BY <1>3 DEF IsClassifiedRow, ClassifiedRowClasses
<1>. QED BY <1>1, <1>3, <1>4, <1>5, <1>6, <1>8, <1>9

(* What the entry of a row says of it. *)
LEMMA EntryOfRow ==
  ASSUME NEW rows, IsListed(rows), rows # <<>>, \A i \in DOMAIN rows : ReadsRow(rows[i]),
         \A i \in DOMAIN rows : rows[i].laps \in Nat, ChecksRows(rows),
         NEW i \in DOMAIN rows, NEW s, NEW registry,
         NEW e, e = NormalizedEntry(rows[i], rows, s, registry)
  PROVE  /\ e.driver = DriverOf(rows[i], s, registry)
         /\ e.constructor = ConstructorOf(rows[i], s, registry)
         /\ IsClassifiedRow(rows[i]) => e.position = rows[i].position
         /\ ~IsClassifiedRow(rows[i]) => e.position = NoPosition
         /\ (e.time # Absent) = (e.position = 1)
         /\ (e.status = "lapped") = (e.lapsBehind > 0)
         /\ e.fastest => i \in Fastest(rows)
<1>. DEFINE w == Winner(rows)
<1>1. /\ w \in DOMAIN rows
      /\ \A k \in DOMAIN rows : rows[k].position = 1 <=> k = w
      /\ IsClassifiedRow(rows[w]) /\ rows[w].time # Absent
      /\ rows[i].position \in Nat
  <2>1. DOMAIN rows = 1 .. Len(rows) /\ Len(rows) \in Nat /\ rows[i].position \in 1 .. Len(rows)
    BY RaceRows
  <2>. QED BY <2>1, RaceRows, SMTT(60)
<1>2. e = [driver |-> DriverOf(rows[i], s, registry),
           constructor |-> ConstructorOf(rows[i], s, registry),
           position |-> IF IsClassifiedRow(rows[i]) THEN rows[i].position ELSE NoPosition,
           status |-> FinishStatuses[RowClass(rows[i])], laps |-> rows[i].laps,
           time |-> IF rows[i] = rows[w] THEN rows[i].time ELSE Absent,
           lapsBehind |-> IF IsLapped(rows[i]) THEN rows[w].laps - rows[i].laps ELSE 0,
           fastest |-> HasLaps(rows) /\ rows[i].fastest.rank = 1]
  BY DEF NormalizedEntry
<1>3. RowClass(rows[i]) \in RowClasses
  <2>1. HasRowClass(rows[i])
    BY DEF ReadsRow
  <2>. DEFINE entry == CHOOSE x \in ResultStatusTable :
                         x[1] = rows[i].status /\ x[2] = rows[i].text
  <2>2. entry \in ResultStatusTable /\ RowClass(rows[i]) = entry[3]
    <3>1. \E x \in ResultStatusTable : x[1] = rows[i].status /\ x[2] = rows[i].text
      BY <2>1 DEF HasRowClass
    <3>2. entry \in ResultStatusTable
      BY <3>1
    <3>. QED BY <3>2, Zenon DEF RowClass
  <2>. HIDE DEF entry
  <2>3. \A x \in ResultStatusTable : x[3] \in RowClasses
    <3>1. /\ <<"Finished", "numeric", "finished">>[3] = "finished"
          /\ <<"Lapped", "numeric", "lapped">>[3] = "lapped"
          /\ <<"Lapped", "R", "lapped-display-retired">>[3] = "lapped-display-retired"
          /\ <<"Retired", "numeric", "retired-classified">>[3] = "retired-classified"
          /\ <<"Retired", "R", "retired">>[3] = "retired"
          /\ <<"Did not start", "W", "did-not-start">>[3] = "did-not-start"
      OBVIOUS
    <3>. QED BY <3>1, Zenon DEF ResultStatusTable, RowClasses
  <2>. QED BY <2>2, <2>3
<1>. HIDE DEF w
<1>4. e.time # Absent <=> e.position = 1
  <2>1. CASE i = w
    BY <1>1, <1>2, <2>1
  <2>2. CASE i # w
    <3>1. rows[i].position # 1 /\ rows[i] # rows[w]
      BY <1>1, <2>2
    <3>. QED BY <1>1, <1>2, <3>1 DEF NoPosition
  <2>. QED BY <2>1, <2>2
<1>5. FinishStatuses[RowClass(rows[i])] = "lapped" <=> IsLapped(rows[i])
  BY <1>3 DEF FinishStatuses, IsLapped, LappedRowClasses, RowClasses
<1>6. e.status = "lapped" <=> e.lapsBehind > 0
  <2>1. IsLapped(rows[i]) => rows[i].laps < rows[w].laps
    BY DEF ChecksRows, LapsAgree, w
  <2>2. rows[i].laps \in Nat /\ rows[w].laps \in Nat
    BY <1>1
  <2>. QED BY <1>2, <1>5, <2>1, <2>2
<1>7. e.fastest => i \in Fastest(rows)
  <2>1. e.fastest = (HasLaps(rows) /\ rows[i].fastest.rank = 1)
    BY <1>2
  <2>. QED BY <2>1, Zenon DEF Fastest
<1>. QED BY <1>2, <1>4, <1>6, <1>7

(* A result is the whole of the rows it is read from. *)
LEMMA WholeResult ==
  ASSUME NEW rows, IsListed(rows), rows # <<>>, \A i \in DOMAIN rows : ReadsRow(rows[i]),
         \A i \in DOMAIN rows : rows[i].laps \in Nat, ChecksRows(rows),
         NEW s, NEW registry,
         \A i, j \in DOMAIN rows :
           DriverOf(rows[i], s, registry) = DriverOf(rows[j], s, registry) => i = j,
         NEW entries,
         entries = {NormalizedEntry(rows[i], rows, s, registry) : i \in DOMAIN rows}
  PROVE  IsWholeResult(entries, Len(rows))
<1>. DEFINE entryOf == [i \in DOMAIN rows |-> NormalizedEntry(rows[i], rows, s, registry)]
            driverOf == [i \in DOMAIN rows |-> DriverOf(rows[i], s, registry)]
            classified == {row \in entries : row.position # NoPosition}
            positions == {row.position : row \in classified}
<1>1. /\ entries = {entryOf[i] : i \in DOMAIN rows}
      /\ \A i \in DOMAIN rows : entryOf[i] = NormalizedEntry(rows[i], rows, s, registry)
      /\ entryOf = [i \in DOMAIN rows |-> entryOf[i]]
  OBVIOUS
<1>. HIDE DEF entryOf
<1>2. \A i \in DOMAIN rows :
        /\ entryOf[i].driver = driverOf[i]
        /\ IsClassifiedRow(rows[i]) => entryOf[i].position = rows[i].position
        /\ ~IsClassifiedRow(rows[i]) => entryOf[i].position = NoPosition
        /\ (entryOf[i].time # Absent) = (entryOf[i].position = 1)
        /\ (entryOf[i].status = "lapped") = (entryOf[i].lapsBehind > 0)
        /\ entryOf[i].fastest => i \in Fastest(rows)
  BY <1>1, EntryOfRow
<1>3. /\ DOMAIN rows = 1 .. Len(rows) /\ Len(rows) \in Nat
      /\ \A i, j \in DOMAIN rows : rows[i].position = rows[j].position => i = j
      /\ \A i \in DOMAIN rows : rows[i].position \in 1 .. Len(rows)
      /\ \A p \in 1 .. Len(rows) : \E i \in DOMAIN rows : rows[i].position = p
      /\ IsFiniteSet(DOMAIN rows) /\ Cardinality(DOMAIN rows) = Len(rows)
  BY RaceRows, ListedCardinality
<1>4. Cardinality({row.driver : row \in entries}) = Len(rows)
  <2>1. {row.driver : row \in entries} = {driverOf[i] : i \in DOMAIN rows}
    <3>1. \A i \in DOMAIN rows : entryOf[i].driver = driverOf[i]
      BY <1>2
    <3>. HIDE DEF driverOf
    <3>. QED BY <1>1, <3>1
  <2>2. \A i, j \in DOMAIN rows : driverOf[i] = driverOf[j] => i = j
    OBVIOUS
  <2>3. driverOf = [i \in DOMAIN rows |-> driverOf[i]]
    OBVIOUS
  <2>. HIDE DEF driverOf
  <2>4. IsFiniteSet(DOMAIN rows)
    BY <1>3
  <2>5. Cardinality({driverOf[i] : i \in DOMAIN rows}) = Cardinality(DOMAIN rows)
    BY <2>2, <2>3, <2>4, ImageCardinality
  <2>. QED BY <1>3, <2>1, <2>5
<1>. HIDE DEF driverOf
<1>5. positions = {rows[i].position : i \in {k \in DOMAIN rows : IsClassifiedRow(rows[k])}}
  <2>1. \A i \in DOMAIN rows : rows[i].position # NoPosition
    BY <1>3 DEF NoPosition
  <2>2. ASSUME NEW p \in positions
        PROVE  p \in {rows[i].position : i \in {k \in DOMAIN rows : IsClassifiedRow(rows[k])}}
    <3>1. PICK i \in DOMAIN rows : entryOf[i].position = p /\ p # NoPosition
      BY <1>1, <2>2
    <3>. QED BY <1>2, <3>1
  <2>3. ASSUME NEW i \in DOMAIN rows, IsClassifiedRow(rows[i])
        PROVE  rows[i].position \in positions
    <3>1. entryOf[i] \in classified /\ entryOf[i].position = rows[i].position
      BY <1>1, <1>2, <2>1, <2>3
    <3>. QED BY <3>1
  <2>. QED BY <2>2, <2>3, ZenonT(60)
<1>6. \E m \in Nat : positions = 1 .. m
  <2>. HIDE DEF positions
  <2>1. \A p \in positions : p \in 1 .. Len(rows)
    <3>1. SUFFICES ASSUME NEW p \in positions PROVE p \in 1 .. Len(rows)
      OBVIOUS
    <3>2. PICK i \in DOMAIN rows : p = rows[i].position
      BY <1>5
    <3>. QED BY <1>3, <3>2
  <2>2. \A i, j \in DOMAIN rows :
          IsClassifiedRow(rows[i]) /\ ~IsClassifiedRow(rows[j]) =>
            rows[i].position < rows[j].position
    BY DEF ChecksRows, ClassifiedComeFirst
  <2>3. CASE positions = {}
    <3>1. positions = 1 .. 0
      BY <2>3
    <3>. QED BY <3>1
  <2>4. CASE positions # {}
    <3>0. PICK n \in Nat : n = Len(rows)
      BY <1>3
    <3>1. PICK m \in positions : \A x \in positions : x <= m
      <4>1. positions \in SUBSET (0 .. n)
        BY <2>1, <3>0
      <4>. QED BY <2>4, <4>1, GreatestElement
    <3>2. PICK k \in DOMAIN rows : IsClassifiedRow(rows[k]) /\ rows[k].position = m
      BY <1>5, <3>1
    <3>3. m \in 1 .. Len(rows)
      BY <1>3, <3>2
    <3>4. ASSUME NEW p \in 1 .. m PROVE p \in positions
      <4>1. p \in 1 .. Len(rows) /\ m \in Nat /\ p \in Nat /\ p <= m
        BY <3>0, <3>3
      <4>2. PICK j \in DOMAIN rows : rows[j].position = p
        BY <1>3, <4>1
      <4>3. IsClassifiedRow(rows[j])
        BY <2>2, <3>2, <4>1, <4>2
      <4>. QED BY <1>5, <4>2, <4>3
    <3>5. \A p \in positions : p \in 1 .. m
      <4>1. SUFFICES ASSUME NEW p \in positions PROVE p \in 1 .. m
        OBVIOUS
      <4>2. p <= m /\ p \in 1 .. n
        BY <2>1, <3>0, <3>1
      <4>3. m \in 1 .. n
        BY <3>0, <3>3
      <4>. QED BY <4>2, <4>3
    <3>6. positions = 1 .. m
      BY <3>4, <3>5
    <3>. QED BY <1>3, <3>3, <3>6
  <2>. QED BY <2>3, <2>4
<1>7. positions = 1 .. Cardinality(classified)
  <2>1. PICK m \in Nat : positions = 1 .. m
    BY <1>6
  <2>2. IsFiniteSet(entries)
    <3>1. entryOf \in Surjection(DOMAIN rows, entries)
      BY <1>1 DEF Surjection
    <3>. QED BY <1>3, <3>1, FS_Surjection
  <2>3. IsFiniteSet(classified)
    BY <2>2, FS_Subset
  <2>. DEFINE pos == [row \in classified |-> row.position]
  <2>4. \A x, y \in classified : pos[x] = pos[y] => x = y
    <3>1. SUFFICES ASSUME NEW x \in classified, NEW y \in classified, x.position = y.position
                   PROVE  x = y
      OBVIOUS
    <3>2. PICK i \in DOMAIN rows : x = entryOf[i] /\ x.position # NoPosition
      BY <1>1
    <3>3. PICK j \in DOMAIN rows : y = entryOf[j] /\ y.position # NoPosition
      BY <1>1
    <3>4. rows[i].position = rows[j].position
      BY <1>2, <3>1, <3>2, <3>3
    <3>. QED BY <1>3, <3>2, <3>3, <3>4
  <2>5. pos = [row \in classified |-> pos[row]] /\ positions = {pos[row] : row \in classified}
    OBVIOUS
  <2>. HIDE DEF pos, positions, classified
  <2>6. Cardinality(positions) = Cardinality(classified)
    BY <2>3, <2>4, <2>5, ImageCardinality
  <2>7. Cardinality(1 .. m) = m
    BY FS_Interval
  <2>. QED BY <2>1, <2>6, <2>7
<1>8. Cardinality({row \in entries : row.fastest}) <= 1
  <2>1. \A i, j \in Fastest(rows) : i = j
    <3>1. SUFFICES ASSUME NEW i \in Fastest(rows), NEW j \in Fastest(rows) PROVE i = j
      OBVIOUS
    <3>2. /\ i \in DOMAIN rows /\ rows[i].fastest.rank = 1
          /\ j \in DOMAIN rows /\ rows[j].fastest.rank = 1
      BY DEF Fastest
    <3>3. rows[i].fastest # NoLap
      BY <3>2 DEF NoLap
    <3>. QED BY <3>2, <3>3 DEF ChecksRows
  <2>2. \A x, y \in {row \in entries : row.fastest} : x = y
    <3>1. SUFFICES ASSUME NEW x \in entries, x.fastest, NEW y \in entries, y.fastest
                   PROVE  x = y
      OBVIOUS
    <3>2. PICK i \in DOMAIN rows : x = entryOf[i]
      BY <1>1
    <3>3. PICK j \in DOMAIN rows : y = entryOf[j]
      BY <1>1
    <3>. QED BY <1>2, <2>1, <3>1, <3>2, <3>3
  <2>. QED BY <2>2, AtMostOne
<1>9. /\ \A row \in entries : (row.time # Absent) = (row.position = 1)
      /\ \A row \in entries : (row.status = "lapped") = (row.lapsBehind > 0)
  BY <1>1, <1>2
<1>. QED BY <1>4, <1>7, <1>8, <1>9 DEF IsWholeResult

(* A classification: of the round asked for, one row for each driver, and the
   whole of its answer. *)
LEMMA ClassificationReads ==
  ASSUME NEW documents, NEW canonical, NEW registry, registry = Build(documents, canonical),
         NEW answer, HoldsRaces(answer), NEW s, NEW round, NEW requested, NEW reading,
         reading = ReadClassification(answer, s, round, requested, registry),
         reading.reading = "normalized"
  PROVE  /\ answer.races # <<>>
         /\ reading.result.round = round /\ round \in 1 .. LastRound
         /\ reading.result.session = "race" /\ reading.result.status = "final"
         /\ \A x, y \in reading.result.entries : x.driver = y.driver => x = y
         /\ \A x \in reading.result.entries : x.driver \in canonical["driver"]
         /\ IsWholeResult(reading.result.entries, answer.total)
<1>. DEFINE race == answer.races[1]
            rows == race.rows
<1>1. /\ DecodesRace(answer, s, round, requested)
      /\ ~Unresolved(race, s, registry) /\ ~Contradictory(race, s, registry)
      /\ reading.result = RaceResult(race, s, registry)
  BY DEF ReadClassification
<1>2. /\ Len(answer.races) = 1 /\ ReadsRace(race, s, round)
      /\ Len(rows) = answer.total
  BY <1>1 DEF DecodesRace, IsWholePage
<1>3. 1 \in DOMAIN answer.races /\ answer.races # <<>>
  <2>1. DOMAIN answer.races = 1 .. 1
    BY <1>2 DEF HoldsRaces, IsListed
  <2>2. 1 \in DOMAIN answer.races
    BY <2>1
  <2>. QED BY <2>2
<1>4. IsListed(rows) /\ \A k \in DOMAIN rows : rows[k].laps \in Nat
  BY <1>3 DEF HoldsRaces
<1>5. /\ race.round = round /\ rows # <<>> /\ ChecksRows(rows)
      /\ \A i \in DOMAIN rows : ReadsRow(rows[i])
  BY <1>2 DEF ReadsRace
<1>6. race.round \in 1 .. LastRound
  BY <1>1, ResolvedRound DEF Unresolved
<1>7. /\ reading.result.round = race.round
      /\ reading.result.session = "race" /\ reading.result.status = "final"
      /\ reading.result.entries
           = {NormalizedEntry(rows[i], rows, s, registry) : i \in DOMAIN rows}
  BY <1>1 DEF RaceResult
<1>8. \A i, j \in DOMAIN rows :
        DriverOf(rows[i], s, registry) = DriverOf(rows[j], s, registry) => i = j
  BY <1>1 DEF Contradictory, Distinct
<1>9. \A i \in DOMAIN rows : DriverOf(rows[i], s, registry) \in canonical["driver"]
  BY <1>1, ResolvedFacts DEF Unresolved, DriverOf
<1>. HIDE DEF race, rows
<1>10. \A i \in DOMAIN rows :
         NormalizedEntry(rows[i], rows, s, registry).driver = DriverOf(rows[i], s, registry)
  BY DEF NormalizedEntry
<1>11. \A x \in reading.result.entries : \E i \in DOMAIN rows :
         /\ x = NormalizedEntry(rows[i], rows, s, registry)
         /\ x.driver = DriverOf(rows[i], s, registry)
  BY <1>7, <1>10
<1>12. /\ \A x, y \in reading.result.entries : x.driver = y.driver => x = y
       /\ \A x \in reading.result.entries : x.driver \in canonical["driver"]
  BY <1>8, <1>9, <1>11
<1>13. IsWholeResult(reading.result.entries, answer.total)
  <2>1. PICK entries : entries = {NormalizedEntry(rows[i], rows, s, registry) :
                                    i \in DOMAIN rows}
    OBVIOUS
  <2>2. IsWholeResult(entries, Len(rows))
    BY <1>4, <1>5, <1>8, <2>1, WholeResult
  <2>. QED BY <1>2, <1>7, <2>1, <2>2 DEF rows, race
<1>. QED BY <1>3, <1>5, <1>6, <1>7, <1>12, <1>13

-----------------------------------------------------------------------------
(* The invariant.  What a property says of a candidate is said of the run that
   holds its readings: a reading that is normalized is what its request would
   be answered now, but for the tables, which move on, and what came of the
   run is what the assembly says of what it holds. *)

Requests ==
  {SeasonResources[i] : i \in DOMAIN SeasonResources}
    \cup {<<"session-classification", r>> : r \in CalendarRounds}

IsReading(request, reading) ==
  /\ request[1] \in Tables =>
       \E answer : reading = ReadStandings(answer, Season, request[1], PageLimit, Registry)
  /\ request[1] \notin Tables /\ reading.reading = "normalized" => reading = Reading(request)

WorldInv ==
  /\ season \in Seasons
  /\ DOMAIN races = CalendarRounds /\ races = [r \in CalendarRounds |-> races[r]]
  /\ \A r \in CalendarRounds : races[r] \in RaceAnswers[r] \cup {NothingYet(r)}
  /\ DOMAIN tables = Tables /\ tables = [t \in Tables |-> tables[t]]

RunInv ==
  /\ run = [todo |-> run.todo, readings |-> run.readings, status |-> run.status,
            stage |-> run.stage, gap |-> run.gap, relations |-> run.relations, at |-> run.at]
  /\ run.todo \in Seq(Requests)
  /\ run.stage \in Stages

ReadingsInv ==
  \A q \in DOMAIN run.readings : q \in Requests /\ IsReading(q, run.readings[q])

OutcomeInv ==
  /\ run.stage \in {"season", "checks"} => run.gap = "none" /\ run.relations = {}
  /\ run.stage \in {"withheld", "prepared"} =>
       /\ run.gap = GapOf(Assembly(Gathered))
       /\ run.relations = Assembly(Gathered).relations
       /\ run.todo = <<>>
       /\ run.stage = "prepared" <=> run.gap = "none"
  /\ run.stage = "prepared" => run.at \in Nat

IntakeInv == WorldInv /\ RunInv /\ ReadingsInv /\ OutcomeInv

(* A request names its kind; that of a classification also its round. *)
LEMMA RequestFacts ==
  ASSUME NEW q \in Requests
  PROVE  \/ q = <<"season-calendar">> /\ q[1] = "season-calendar"
         \/ q = <<"season-participants">> /\ q[1] = "season-participants"
         \/ q = <<"season-circuits">> /\ q[1] = "season-circuits"
         \/ q = <<"driver-standings">> /\ q[1] = "driver-standings"
         \/ q = <<"constructor-standings">> /\ q[1] = "constructor-standings"
         \/ \E r \in CalendarRounds :
              /\ q = <<"session-classification", r>>
              /\ q[1] = "session-classification" /\ q[2] = r
<1>1. CASE q \in {SeasonResources[i] : i \in DOMAIN SeasonResources}
  BY <1>1 DEF SeasonResources
<1>2. CASE \E r \in CalendarRounds : q = <<"session-classification", r>>
  BY <1>2
<1>. QED BY <1>1, <1>2 DEF Requests

(* What is read for a request. *)
LEMMA ReadingFacts ==
  /\ Reading(<<"season-calendar">>) = ReadCalendar(season.calendar, Season, PageLimit, Registry)
  /\ Reading(<<"season-participants">>)
       = ReadParticipants(season.drivers, season.constructors, Season, PageLimit, Registry,
                          season.curated)
  /\ Reading(<<"season-circuits">>)
       = ReadCircuits(season.circuits, Season, PageLimit, Registry, season.curated)
  /\ \A t \in Tables :
       Reading(<<t>>) = ReadStandings(tables[t], Season, t, PageLimit, Registry)
  /\ \A r : Reading(<<"session-classification", r>>)
              = ReadClassification(races[r], Season, r, PageLimit, Registry)
<1>1. Reading(<<"season-calendar">>) = ReadCalendar(season.calendar, Season, PageLimit, Registry)
  BY DEF Reading, Tables
<1>2. Reading(<<"season-participants">>)
        = ReadParticipants(season.drivers, season.constructors, Season, PageLimit, Registry,
                           season.curated)
  BY DEF Reading, Tables
<1>3. Reading(<<"season-circuits">>)
        = ReadCircuits(season.circuits, Season, PageLimit, Registry, season.curated)
  BY DEF Reading, Tables
<1>4. \A t \in Tables :
        Reading(<<t>>) = ReadStandings(tables[t], Season, t, PageLimit, Registry)
  BY DEF Reading, Tables
<1>5. \A r : Reading(<<"session-classification", r>>)
               = ReadClassification(races[r], Season, r, PageLimit, Registry)
  BY DEF Reading, Tables
<1>. QED BY <1>1, <1>2, <1>3, <1>4, <1>5

-----------------------------------------------------------------------------
(* The invariant holds initially and at every step. *)
(* The rounds of the season are finitely many, and their answers well formed. *)
LEMMA CalendarRoundsFacts ==
  ASSUME season \in Seasons
  PROVE  /\ IsFiniteSet(CalendarRounds) /\ CalendarRounds \subseteq Nat
         /\ \A r \in CalendarRounds : \A answer \in RaceAnswers[r] : HoldsRaces(answer)
<1>. DEFINE rows == season.calendar.rows
<1>1. IsListed(rows)
  BY IntakeAssumption
<1>2. CalendarRounds = {rows[i].round : i \in DOMAIN rows}
  BY DEF CalendarRounds, RowsOf
<1>3. IsFiniteSet(DOMAIN rows)
  BY <1>1, ListedCardinality
<1>. DEFINE roundOf == [i \in DOMAIN rows |-> rows[i].round]
<1>4. roundOf \in Surjection(DOMAIN rows, CalendarRounds)
  BY <1>2 DEF Surjection
<1>5. IsFiniteSet(CalendarRounds)
  BY <1>3, <1>4, FS_Surjection
<1>6. \A r \in CalendarRounds : \A answer \in RaceAnswers[r] : HoldsRaces(answer)
  BY <1>2, IntakeAssumption
<1>7. CalendarRounds \subseteq Nat
  BY <1>2, IntakeAssumption
<1>. QED BY <1>5, <1>6, <1>7

(* The answers to a round's classification are read as they come. *)
LEMMA RaceAnswerFacts ==
  ASSUME WorldInv, NEW r \in CalendarRounds
  PROVE  HoldsRaces(races[r])
<1>1. CASE races[r] = NothingYet(r)
  <2>1. races[r].races = <<>>
    BY <1>1 DEF NothingYet
  <2>2. Len(<<>>) = 0 /\ <<>> = [i \in 1 .. 0 |-> <<>>[i]] /\ DOMAIN <<>> = {}
    OBVIOUS
  <2>. QED BY <2>1, <2>2 DEF HoldsRaces, IsListed
<1>2. CASE races[r] \in RaceAnswers[r]
  BY <1>2, CalendarRoundsFacts DEF WorldInv
<1>. QED BY <1>1, <1>2 DEF WorldInv
(* The invariant holds before the run has read anything. *)
LEMMA InitIntake ==
  Init => IntakeInv
<1>1. SUFFICES ASSUME Init PROVE IntakeInv
  OBVIOUS
<1>2. WorldInv
  BY <1>1 DEF Init, WorldInv
<1>3. SeasonResources \in Seq(Requests)
  <2>1. /\ <<"season-calendar">> \in Requests /\ <<"season-participants">> \in Requests
        /\ <<"season-circuits">> \in Requests /\ <<"driver-standings">> \in Requests
        /\ <<"constructor-standings">> \in Requests
    BY DEF Requests, SeasonResources
  <2>. QED BY <2>1 DEF SeasonResources
<1>4. /\ run.todo = SeasonResources /\ run.readings = <<>> /\ run.stage = "season"
      /\ run.gap = "none" /\ run.relations = {}
      /\ run = [todo |-> run.todo, readings |-> run.readings, status |-> run.status,
                stage |-> run.stage, gap |-> run.gap, relations |-> run.relations,
                at |-> run.at]
  BY <1>1 DEF Init, Begun
<1>5. RunInv
  BY <1>3, <1>4 DEF RunInv, Stages
<1>6. ReadingsInv
  BY <1>4 DEF ReadingsInv
<1>7. OutcomeInv
  BY <1>4 DEF OutcomeInv
<1>. QED BY <1>2, <1>5, <1>6, <1>7 DEF IntakeInv

(* Jolpica moves on: what a run read stays what it was, and what it holds is
   gathered as it was. *)
LEMMA GatheredStays ==
  ASSUME UNCHANGED <<season, run>>, OutcomeInv
  PROVE  OutcomeInv'
<1>1. Gathered' = Gathered
  BY DEF Gathered, PayloadOf, ReadAs
<1>2. GapOf(Assembly(Gathered))' = GapOf(Assembly(Gathered))
  BY <1>1 DEF GapOf
<1>3. Assembly(Gathered)' = Assembly(Gathered)
  BY <1>1
<1>. QED BY <1>2, <1>3 DEF OutcomeInv
(* Jolpica publishes a classification: what was read of a race stays an answer
   to it. *)
LEMMA ClassifyStep ==
  ASSUME IntakeInv, NEW r \in CalendarRounds, Classify(r)
  PROVE  IntakeInv'
<1>1. PICK answer \in RaceAnswers[r] : races' = [races EXCEPT ![r] = answer]
  BY DEF Classify
<1>2. season' = season /\ tables' = tables /\ run' = run
  BY DEF Classify
<1>3. CalendarRounds' = CalendarRounds /\ Registry' = Registry /\ Requests' = Requests
  BY <1>2 DEF CalendarRounds, Registry, Requests
<1>4. WorldInv'
  BY <1>1, <1>2, <1>3 DEF IntakeInv, WorldInv
<1>5. RunInv'
  BY <1>2, <1>3 DEF IntakeInv, RunInv
<1>6. ASSUME NEW q \in Requests, NEW reading, IsReading(q, reading)
      PROVE  IsReading(q, reading)'
  <2>1. q[1] \in Tables => IsReading(q, reading)'
    BY <1>2, <1>3, <1>6 DEF IsReading
  <2>2. SUFFICES ASSUME q[1] \notin Tables, reading.reading = "normalized"
                 PROVE  Reading(q)' = reading
    BY <2>1 DEF IsReading
  <2>3. reading = Reading(q)
    BY <1>6, <2>2 DEF IsReading
  <2>4. CASE \E k \in CalendarRounds : q = <<"session-classification", k>>
    <3>1. PICK k \in CalendarRounds : q = <<"session-classification", k>>
      BY <2>4
    <3>2. reading = ReadClassification(races[k], Season, k, PageLimit, Registry)
      BY <2>3, <3>1, ReadingFacts
    <3>3. HoldsRaces(races[k])
      BY RaceAnswerFacts DEF IntakeInv
    <3>4. Published(k)
      BY <2>2, <3>2, <3>3, ClassificationReads DEF Registry, Published
    <3>5. k # r
      BY <3>4 DEF Classify
    <3>6. races'[k] = races[k]
      BY <1>1, <3>5 DEF IntakeInv, WorldInv
    <3>7. Reading(q)' = ReadClassification(races'[k], Season, k, PageLimit, Registry')
      BY <3>1 DEF Reading, Tables
    <3>. QED BY <1>3, <3>1, <3>2, <3>6, <3>7
  <2>5. CASE q \in {<<"season-calendar">>, <<"season-participants">>, <<"season-circuits">>}
    <3>1. season' = season /\ Registry' = Registry
      BY <1>2, <1>3
    <3>2. Reading(q)' = Reading(q)
      <4>1. CASE q = <<"season-calendar">>
        BY <3>1, <4>1 DEF Reading, Tables
      <4>2. CASE q = <<"season-participants">>
        BY <3>1, <4>2 DEF Reading, Tables
      <4>3. CASE q = <<"season-circuits">>
        BY <3>1, <4>3 DEF Reading, Tables
      <4>. QED BY <2>5, <4>1, <4>2, <4>3
    <3>. QED BY <2>3, <3>2
  <2>. QED BY <2>2, <2>4, <2>5, RequestFacts DEF Tables
<1>7. ReadingsInv'
  BY <1>2, <1>3, <1>6 DEF IntakeInv, ReadingsInv
<1>8. OutcomeInv'
  BY <1>2, GatheredStays DEF IntakeInv
<1>. QED BY <1>4, <1>5, <1>7, <1>8 DEF IntakeInv

(* Jolpica's tables move on; a reading of one stays a reading of some answer. *)
LEMMA MoveOnStep ==
  ASSUME IntakeInv, NEW t \in Tables, MoveOn(t)
  PROVE  IntakeInv'
<1>1. PICK answer : tables' = [tables EXCEPT ![t] = answer]
  BY DEF MoveOn
<1>2. season' = season /\ races' = races /\ run' = run
  BY DEF MoveOn
<1>3. CalendarRounds' = CalendarRounds /\ Registry' = Registry /\ Requests' = Requests
  BY <1>2 DEF CalendarRounds, Registry, Requests
<1>4. WorldInv'
  BY <1>1, <1>2, <1>3 DEF IntakeInv, WorldInv
<1>5. RunInv'
  BY <1>2, <1>3 DEF IntakeInv, RunInv
<1>6. ASSUME NEW q \in Requests, NEW reading, IsReading(q, reading)
      PROVE  IsReading(q, reading)'
  <2>1. CASE q[1] \in Tables
    BY <1>3, <1>6, <2>1 DEF IsReading
  <2>2. CASE q[1] \notin Tables
    <3>1. Reading(q)' = Reading(q)
      BY <1>2, <1>3, <2>2 DEF Reading, Tables
    <3>. QED BY <1>6, <2>2, <3>1 DEF IsReading
  <2>. QED BY <2>1, <2>2
<1>7. ReadingsInv'
  BY <1>2, <1>3, <1>6 DEF IntakeInv, ReadingsInv
<1>8. OutcomeInv'
  BY <1>2, GatheredStays DEF IntakeInv
<1>. QED BY <1>4, <1>5, <1>7, <1>8 DEF IntakeInv

(* What the run alone changes leaves the season, and every reading, what it is. *)
LEMMA RunAlone ==
  ASSUME WorldInv, UNCHANGED <<season, races, tables>>
  PROVE  /\ WorldInv' /\ Requests' = Requests
         /\ \A q, reading : IsReading(q, reading) => IsReading(q, reading)'
<1>1. CalendarRounds' = CalendarRounds /\ Registry' = Registry
  BY DEF CalendarRounds, Registry
<1>2. WorldInv' /\ Requests' = Requests
  BY <1>1 DEF WorldInv, Requests
<1>3. \A q : Reading(q)' = Reading(q)
  BY <1>1 DEF Reading
<1>4. \A q, reading : IsReading(q, reading) => IsReading(q, reading)'
  BY <1>1, <1>3 DEF IsReading
<1>. QED BY <1>2, <1>4

(* What is read for a request is a reading of it. *)
LEMMA ReadingIsReading ==
  ASSUME NEW q \in Requests
  PROVE  IsReading(q, Reading(q))
<1>1. CASE q[1] \in Tables
  <2>1. q = <<q[1]>>
    BY <1>1, RequestFacts DEF Tables
  <2>2. Reading(q) = ReadStandings(tables[q[1]], Season, q[1], PageLimit, Registry)
    BY <1>1, <2>1, ReadingFacts
  <2>. QED BY <1>1, <2>2 DEF IsReading
<1>2. CASE q[1] \notin Tables
  BY <1>2 DEF IsReading
<1>. QED BY <1>1, <1>2
(* The run reads the next resource: the reading is what is answered now. *)
LEMMA ReadStep ==
  ASSUME IntakeInv, Read
  PROVE  IntakeInv'
<1>. DEFINE q == Head(run.todo)
            next == [todo |-> Tail(run.todo), readings |-> ReadingsWith(q),
                     status |-> run.status, stage |-> run.stage, gap |-> run.gap,
                     relations |-> run.relations, at |-> run.at]
<1>1. run.todo # <<>> /\ UNCHANGED <<season, races, tables>>
  BY DEF Read
<1>2. q \in Requests /\ Tail(run.todo) \in Seq(Requests)
  BY <1>1, HeadTailProperties DEF IntakeInv, RunInv
<1>3. run' = next
  <2>1. run' = [run EXCEPT !.todo = Tail(run.todo), !.readings = ReadingsWith(q)]
    BY DEF Read
  <2>. QED BY <2>1 DEF IntakeInv, RunInv
<1>. HIDE DEF q, next
<1>4. /\ run'.todo = Tail(run.todo) /\ run'.readings = ReadingsWith(q)
      /\ run'.stage = run.stage /\ run'.gap = run.gap /\ run'.relations = run.relations
      /\ run' = [todo |-> run'.todo, readings |-> run'.readings, status |-> run'.status,
                 stage |-> run'.stage, gap |-> run'.gap, relations |-> run'.relations,
                 at |-> run'.at]
  BY <1>3 DEF next
<1>5. WorldInv' /\ Requests' = Requests
  BY <1>1, RunAlone DEF IntakeInv
<1>6. RunInv'
  BY <1>2, <1>4, <1>5 DEF IntakeInv, RunInv
<1>7. ASSUME NEW p \in DOMAIN run'.readings
      PROVE  p \in Requests /\ IsReading(p, run'.readings[p])
  <2>1. /\ p \in DOMAIN run.readings \cup {q}
        /\ run'.readings[p] = IF p = q THEN Reading(q) ELSE run.readings[p]
    BY <1>4, <1>7 DEF ReadingsWith
  <2>2. CASE p = q
    BY <1>2, <2>1, <2>2, ReadingIsReading
  <2>3. CASE p # q
    BY <2>1, <2>3 DEF IntakeInv, ReadingsInv
  <2>. QED BY <2>2, <2>3
<1>8. ReadingsInv'
  <2>1. \A x, reading : IsReading(x, reading) => IsReading(x, reading)'
    BY <1>1, RunAlone DEF IntakeInv
  <2>2. PICK readings : readings = run'.readings
    OBVIOUS
  <2>3. \A p \in DOMAIN readings : p \in Requests' /\ IsReading(p, readings[p])'
    BY <1>5, <1>7, <2>1, <2>2
  <2>. QED BY <2>2, <2>3 DEF ReadingsInv
<1>9. run.stage \in {"season", "checks"}
  BY <1>1 DEF IntakeInv, RunInv, OutcomeInv, Stages
<1>10. OutcomeInv'
  BY <1>4, <1>9 DEF IntakeInv, OutcomeInv
<1>. QED BY <1>5, <1>6, <1>8, <1>10 DEF IntakeInv

(* Of finitely many rounds, exactly one has a given number of them before it,
   so that the rounds to check can be asked for in order. *)
LEMMA RoundOfRank ==
  ASSUME NEW S \in SUBSET Nat, IsFiniteSet(S), NEW n \in 1 .. Cardinality(S)
  PROVE  \E r \in S : Cardinality({q \in S : q < r}) = n - 1
<1>. DEFINE before(r) == {q \in S : q < r}
            rank == [r \in S |-> Cardinality(before(r))]
            top == Cardinality(S)
<1>1. top \in Nat
  BY FS_CardinalityType
<1>2. \A r \in S : r \in Nat
  OBVIOUS
<1>3. ASSUME NEW r \in S
      PROVE  /\ IsFiniteSet(before(r)) /\ Cardinality(before(r)) \in Nat
             /\ Cardinality(before(r)) < top
  <2>1. before(r) \in SUBSET S /\ r \notin before(r)
    BY <1>2
  <2>2. IsFiniteSet(before(r)) /\ Cardinality(before(r)) <= top
    BY <2>1, FS_Subset
  <2>3. Cardinality(before(r)) # top
    BY <2>1, FS_Subset
  <2>4. Cardinality(before(r)) \in Nat
    BY <2>2, FS_CardinalityType
  <2>. QED BY <1>1, <2>2, <2>3, <2>4
<1>4. ASSUME NEW r \in S, NEW q \in S, q < r
      PROVE  Cardinality(before(q)) < Cardinality(before(r))
  <2>1. before(q) \in SUBSET before(r) /\ q \in before(r) /\ q \notin before(q)
    <3>1. \A p \in S : p < q => p < r
      <4>1. q \in Int /\ r \in Int /\ \A p \in S : p \in Int
        BY <1>2
      <4>. QED BY <1>4, <4>1
    <3>2. ~(q < q)
      BY <1>2
    <3>. QED BY <1>4, <3>1, <3>2
  <2>2. /\ Cardinality(before(q)) <= Cardinality(before(r))
        /\ Cardinality(before(q)) # Cardinality(before(r))
    <3>1. before(q) # before(r)
      BY <2>1
    <3>2. IsFiniteSet(before(r))
      BY <1>3
    <3>. HIDE DEF before
    <3>. QED BY <2>1, <3>1, <3>2, FS_Subset
  <2>. QED BY <1>3, <2>2
<1>5. \A q, r \in S : rank[q] = rank[r] => q = r
  <2>1. SUFFICES ASSUME NEW q \in S, NEW r \in S, q # r PROVE rank[q] # rank[r]
    OBVIOUS
  <2>2. q < r \/ r < q
    BY <1>2, <2>1
  <2>. QED BY <1>3, <1>4, <2>2
<1>. DEFINE ranks == {rank[r] : r \in S}
<1>6. IsFiniteSet(ranks) /\ Cardinality(ranks) = top
  <2>1. rank = [r \in S |-> rank[r]]
    OBVIOUS
  <2>. HIDE DEF rank
  <2>. QED BY <1>5, <2>1, ImageCardinality
<1>7. ranks \in SUBSET (0 .. (top - 1))
  <2>1. \A r \in S : rank[r] \in 0 .. (top - 1)
    BY <1>1, <1>3
  <2>. HIDE DEF rank
  <2>. QED BY <2>1
<1>8. IsFiniteSet(0 .. (top - 1)) /\ Cardinality(0 .. (top - 1)) = top
  <2>1. PICK m \in Nat : m = top
    BY <1>1
  <2>2. IsFiniteSet(0 .. (m - 1)) /\ Cardinality(0 .. (m - 1)) = IF 0 > m - 1 THEN 0 ELSE m - 1 - 0 + 1
    BY FS_Interval
  <2>. QED BY <2>1, <2>2
<1>9. ranks = 0 .. (top - 1)
  <2>. HIDE DEF ranks, top
  <2>. QED BY <1>6, <1>7, <1>8, FS_Subset
<1>10. n - 1 \in ranks
  <2>1. PICK m \in Nat : m = top
    BY <1>1
  <2>2. n \in 1 .. m => n - 1 \in 0 .. (m - 1)
    OBVIOUS
  <2>. HIDE DEF ranks
  <2>. QED BY <1>9, <2>1, <2>2
<1>. QED BY <1>10

(* The rounds to check are asked for, and nothing else. *)
LEMMA PlannedChecks ==
  ASSUME WorldInv, NEW rounds \in SUBSET CalendarRounds
  PROVE  Checks(rounds) \in Seq(Requests)
<1>1. rounds \in SUBSET Nat /\ IsFiniteSet(rounds)
  BY CalendarRoundsFacts, FS_Subset DEF WorldInv
<1>2. Cardinality(rounds) \in Nat
  BY <1>1, FS_CardinalityType
<1>3. ASSUME NEW n \in 1 .. Cardinality(rounds)
      PROVE  <<"session-classification",
               CHOOSE r \in rounds : Cardinality({q \in rounds : q < r}) = n - 1>> \in Requests
  <2>1. \E r \in rounds : Cardinality({q \in rounds : q < r}) = n - 1
    BY <1>1, RoundOfRank
  <2>2. (CHOOSE r \in rounds : Cardinality({q \in rounds : q < r}) = n - 1) \in rounds
    BY <2>1
  <2>. QED BY <2>2 DEF Requests
<1>4. PICK m \in Nat : m = Cardinality(rounds)
  BY <1>2
<1>5. Checks(rounds) \in [1 .. m -> Requests]
  BY <1>3, <1>4 DEF Checks
<1>. QED BY <1>5
(* The run plans the classifications it asks for. *)
LEMMA PlanChecksStep ==
  ASSUME IntakeInv, PlanChecks
  PROVE  IntakeInv'
<1>1. PICK rounds \in SUBSET CalendarRounds :
        run' = [run EXCEPT !.stage = "checks", !.todo = Checks(rounds)]
  BY DEF PlanChecks
<1>2. run.stage = "season" /\ UNCHANGED <<season, races, tables>>
  BY DEF PlanChecks
<1>. DEFINE next == [todo |-> Checks(rounds), readings |-> run.readings,
                     status |-> run.status, stage |-> "checks", gap |-> run.gap,
                     relations |-> run.relations, at |-> run.at]
<1>3. run' = next
  BY <1>1 DEF IntakeInv, RunInv
<1>. HIDE DEF next
<1>4. /\ run'.todo = Checks(rounds) /\ run'.readings = run.readings
      /\ run'.stage = "checks" /\ run'.gap = run.gap /\ run'.relations = run.relations
      /\ run' = [todo |-> run'.todo, readings |-> run'.readings, status |-> run'.status,
                 stage |-> run'.stage, gap |-> run'.gap, relations |-> run'.relations,
                 at |-> run'.at]
  BY <1>3 DEF next
<1>5. WorldInv' /\ Requests' = Requests
  BY <1>2, RunAlone DEF IntakeInv
<1>6. RunInv'
  BY <1>4, <1>5, PlannedChecks DEF IntakeInv, RunInv, Stages
<1>7. ReadingsInv'
  <2>1. \A q, reading : IsReading(q, reading) => IsReading(q, reading)'
    BY <1>2, RunAlone DEF IntakeInv
  <2>. QED BY <1>4, <1>5, <2>1 DEF IntakeInv, ReadingsInv
<1>8. OutcomeInv'
  BY <1>2, <1>4 DEF IntakeInv, OutcomeInv
<1>. QED BY <1>5, <1>6, <1>7, <1>8 DEF IntakeInv
(* An aborted run drops what it read. *)
LEMMA CancelStep ==
  ASSUME IntakeInv, Cancel
  PROVE  IntakeInv'
<1>1. /\ run' = [run EXCEPT !.status = "cancelled", !.stage = "checks", !.todo = <<>>,
                            !.readings = <<>>]
      /\ run.todo # <<>> /\ UNCHANGED <<season, races, tables>>
  BY DEF Cancel
<1>. DEFINE next == [todo |-> <<>>, readings |-> <<>>, status |-> "cancelled",
                     stage |-> "checks", gap |-> run.gap, relations |-> run.relations,
                     at |-> run.at]
<1>2. run' = next
  BY <1>1 DEF IntakeInv, RunInv
<1>. HIDE DEF next
<1>3. /\ run'.todo = <<>> /\ run'.readings = <<>> /\ run'.stage = "checks"
      /\ run'.gap = run.gap /\ run'.relations = run.relations
      /\ run' = [todo |-> run'.todo, readings |-> run'.readings, status |-> run'.status,
                 stage |-> run'.stage, gap |-> run'.gap, relations |-> run'.relations,
                 at |-> run'.at]
  BY <1>2 DEF next
<1>4. WorldInv' /\ Requests' = Requests
  BY <1>1, RunAlone DEF IntakeInv
<1>5. RunInv'
  BY <1>3 DEF RunInv, Stages
<1>6. ReadingsInv'
  BY <1>3 DEF ReadingsInv
<1>7. run.stage \in {"season", "checks"}
  BY <1>1 DEF IntakeInv, RunInv, OutcomeInv, Stages
<1>8. OutcomeInv'
  BY <1>3, <1>7 DEF IntakeInv, OutcomeInv
<1>. QED BY <1>4, <1>5, <1>6, <1>8 DEF IntakeInv
(* The outcome of a run is what the assembly of its readings says. *)
LEMMA PrepareStep ==
  ASSUME IntakeInv, NEW at \in Instants, Prepare(at)
  PROVE  IntakeInv'
<1>. DEFINE assembly == Assembly(Gathered)
            name == GapOf(assembly)
            stage == IF name = "none" THEN "prepared" ELSE "withheld"
<1>1. /\ run.stage = "checks" /\ run.todo = <<>>
      /\ run' = [run EXCEPT !.stage = stage, !.gap = name, !.relations = assembly.relations,
                            !.at = IF name = "none" THEN at ELSE 0]
      /\ UNCHANGED <<season, races, tables>>
  BY DEF Prepare
<1>. HIDE DEF assembly, name
<1>2. PICK moment : moment = IF name = "none" THEN at ELSE 0
  OBVIOUS
<1>. DEFINE next == [todo |-> run.todo, readings |-> run.readings, status |-> run.status,
                     stage |-> stage, gap |-> name, relations |-> assembly.relations,
                     at |-> moment]
<1>3. run' = next
  BY <1>1, <1>2 DEF IntakeInv, RunInv
<1>. HIDE DEF next
<1>4. /\ run'.todo = run.todo /\ run'.readings = run.readings /\ run'.status = run.status
      /\ run'.stage = stage /\ run'.gap = name /\ run'.relations = assembly.relations
      /\ run'.at = moment
      /\ run' = [todo |-> run'.todo, readings |-> run'.readings, status |-> run'.status,
                 stage |-> run'.stage, gap |-> run'.gap, relations |-> run'.relations,
                 at |-> run'.at]
  BY <1>3 DEF next
<1>5. WorldInv' /\ Requests' = Requests
  BY <1>1, RunAlone DEF IntakeInv
<1>6. RunInv'
  BY <1>4, <1>5 DEF IntakeInv, RunInv, Stages
<1>7. ReadingsInv'
  <2>1. \A q, reading : IsReading(q, reading) => IsReading(q, reading)'
    BY <1>1, RunAlone DEF IntakeInv
  <2>. QED BY <1>4, <1>5, <2>1 DEF IntakeInv, ReadingsInv
<1>8. Gathered' = Gathered
  BY <1>1, <1>4 DEF Gathered, PayloadOf, ReadAs
<1>9. /\ assembly = Assembly(Gathered') /\ name = GapOf(Assembly(Gathered))'
  <2>1. GapOf(Assembly(Gathered))' = GapOf(Assembly(Gathered))
    BY <1>8 DEF GapOf
  <2>. QED BY <1>8, <2>1 DEF assembly, name
<1>10. stage = "prepared" => moment \in Nat
  BY <1>2, IntakeAssumption
<1>11. OutcomeInv'
  BY <1>1, <1>4, <1>9, <1>10 DEF OutcomeInv
<1>. QED BY <1>5, <1>6, <1>7, <1>11 DEF IntakeInv
(* The next run begins with nothing read. *)
LEMMA BeginStep ==
  ASSUME IntakeInv, Begin
  PROVE  IntakeInv'
<1>1. run' = Begun /\ UNCHANGED <<season, races, tables>>
  BY DEF Begin
<1>2. WorldInv' /\ Requests' = Requests
  BY <1>1, RunAlone DEF IntakeInv
<1>3. SeasonResources \in Seq(Requests)
  <2>1. /\ <<"season-calendar">> \in Requests /\ <<"season-participants">> \in Requests
        /\ <<"season-circuits">> \in Requests /\ <<"driver-standings">> \in Requests
        /\ <<"constructor-standings">> \in Requests
    BY DEF Requests, SeasonResources
  <2>. QED BY <2>1 DEF SeasonResources
<1>4. /\ run'.todo = SeasonResources /\ run'.readings = <<>> /\ run'.stage = "season"
      /\ run'.gap = "none" /\ run'.relations = {}
      /\ run' = [todo |-> run'.todo, readings |-> run'.readings, status |-> run'.status,
                 stage |-> run'.stage, gap |-> run'.gap, relations |-> run'.relations,
                 at |-> run'.at]
  BY <1>1 DEF Begun
<1>5. RunInv'
  BY <1>2, <1>3, <1>4 DEF RunInv, Stages
<1>6. ReadingsInv'
  BY <1>4 DEF ReadingsInv
<1>7. OutcomeInv'
  BY <1>4 DEF OutcomeInv
<1>. QED BY <1>2, <1>5, <1>6, <1>7 DEF IntakeInv

(* A run that changes nothing. *)
LEMMA IntakeStutter ==
  ASSUME IntakeInv, UNCHANGED vars
  PROVE  IntakeInv'
<1>1. UNCHANGED <<season, races, tables, run>>
  BY DEF vars
<1>2. WorldInv' /\ Requests' = Requests
  BY <1>1, RunAlone DEF IntakeInv
<1>3. RunInv'
  BY <1>1, <1>2 DEF IntakeInv, RunInv
<1>4. ReadingsInv'
  <2>1. \A q, reading : IsReading(q, reading) => IsReading(q, reading)'
    BY <1>1, RunAlone DEF IntakeInv
  <2>. QED BY <1>1, <1>2, <2>1 DEF IntakeInv, ReadingsInv
<1>5. OutcomeInv'
  BY <1>1, GatheredStays DEF IntakeInv
<1>. QED BY <1>2, <1>3, <1>4, <1>5 DEF IntakeInv

(* What a run read is what Jolpica answered it, however far Jolpica has moved on
   since, and its outcome is what the assembly says of it. *)
THEOREM IntakeInvariant ==
  Spec => []IntakeInv
<1>1. IntakeInv /\ [Next]_vars => IntakeInv'
  <2>1. SUFFICES ASSUME IntakeInv, [Next]_vars PROVE IntakeInv'
    OBVIOUS
  <2>2. CASE UNCHANGED vars
    BY <2>1, <2>2, IntakeStutter
  <2>3. CASE \E r \in CalendarRounds : Classify(r)
    BY <2>1, <2>3, ClassifyStep
  <2>4. CASE \E t \in Tables : MoveOn(t)
    BY <2>1, <2>4, MoveOnStep
  <2>5. CASE Read
    BY <2>1, <2>5, ReadStep
  <2>6. CASE PlanChecks
    BY <2>1, <2>6, PlanChecksStep
  <2>7. CASE Cancel
    BY <2>1, <2>7, CancelStep
  <2>8. CASE Begin
    BY <2>1, <2>8, BeginStep
  <2>9. CASE \E at \in Instants : Prepare(at)
    BY <2>1, <2>9, PrepareStep
  <2>. QED BY <2>1, <2>2, <2>3, <2>4, <2>5, <2>6, <2>7, <2>8, <2>9 DEF Next
<1>. QED BY <1>1, InitIntake, PTL DEF Spec

-----------------------------------------------------------------------------
(* What a run has gathered. *)

(* A classification a run holds: of a round of the calendar, one row for each
   driver, and the whole of Jolpica's answer. *)
IsClassification(c) ==
  /\ c.round \in CalendarRounds /\ c.round \in 1 .. LastRound
  /\ c.session = "race" /\ c.status = "final" /\ c.source = "jolpica" /\ c.canonical = TRUE
  /\ \A x, y \in c.rows : x.driver = y.driver => x = y
  /\ \A x \in c.rows : IsListed(x.driver)
  /\ IsWholeResult(c.rows, races[c.round].total)

(* A reading that is normalized is what its request is answered. *)
LEMMA NormalizedReading ==
  ASSUME IntakeInv, NEW q \in ReadAs("normalized")
  PROVE  /\ q \in Requests /\ q \in DOMAIN run.readings
         /\ run.readings[q].reading = "normalized"
         /\ q[1] \notin Tables => run.readings[q] = Reading(q)
         /\ q[1] \in Tables =>
              \E answer : run.readings[q]
                            = ReadStandings(answer, Season, q[1], PageLimit, Registry)
<1>1. q \in DOMAIN run.readings /\ run.readings[q].reading = "normalized"
  BY DEF ReadAs
<1>2. q \in Requests /\ IsReading(q, run.readings[q])
  BY <1>1 DEF IntakeInv, ReadingsInv
<1>. QED BY <1>1, <1>2 DEF IsReading
(* A classification that was read is of the round it was asked for. *)
LEMMA ClassificationFacts ==
  ASSUME IntakeInv, NEW q \in ReadAs("normalized"), q[1] = "session-classification",
         NEW c, c = Classified(run.readings[q].result)
  PROVE  /\ q = <<"session-classification", c.round>>
         /\ IsClassification(c)
<1>1. PICK r \in CalendarRounds : q = <<"session-classification", r>>
  BY NormalizedReading, RequestFacts
<1>2. PICK reading : reading = run.readings[q]
  OBVIOUS
<1>3. /\ reading = ReadClassification(races[r], Season, r, PageLimit, Registry)
      /\ reading.reading = "normalized"
  BY <1>1, <1>2, NormalizedReading, ReadingFacts DEF Tables
<1>4. HoldsRaces(races[r])
  BY RaceAnswerFacts DEF IntakeInv
<1>5. /\ reading.result.round = r /\ r \in 1 .. LastRound
      /\ reading.result.session = "race" /\ reading.result.status = "final"
      /\ \A x, y \in reading.result.entries : x.driver = y.driver => x = y
      /\ \A x \in reading.result.entries : x.driver \in season.canonical["driver"]
      /\ IsWholeResult(reading.result.entries, races[r].total)
  BY <1>3, <1>4, ClassificationReads DEF Registry
<1>6. /\ c.round = reading.result.round /\ c.session = reading.result.session
      /\ c.status = reading.result.status /\ c.source = "jolpica" /\ c.canonical = TRUE
      /\ c.rows = reading.result.entries
  BY <1>2 DEF Classified
<1>7. \A driver \in season.canonical["driver"] : IsListed(driver)
  BY IntakeAssumption DEF IntakeInv, WorldInv
<1>. QED BY <1>1, <1>5, <1>6, <1>7 DEF IsClassification

(* The classifications a run holds are the results of its source: one for a
   round, and the rounds and rows the seats are derived from. *)
LEMMA GatheredResults ==
  ASSUME IntakeInv, NEW C, C = Gathered.classifications
  PROVE  /\ \A c \in C : IsClassification(c)
         /\ \A c, d \in C : c.round = d.round => c = d
         /\ Observed(C) = C /\ SourceOf(Gathered).results = C
         /\ Rounds(C) = {c.round : c \in C}
         /\ ArePlainRounds(Rounds(C)) /\ AreFactsOf(Rounds(C), Facts(C))
         /\ \A f \in Facts(C) : IsListed(f.driver)
<1>1. C = {Classified(run.readings[q].result) :
             q \in {p \in ReadAs("normalized") : p[1] = "session-classification"}}
  BY DEF Gathered
<1>2. ASSUME NEW c \in C
      PROVE  /\ IsClassification(c)
             /\ c = Classified(run.readings[<<"session-classification", c.round>>].result)
  <2>1. PICK q \in ReadAs("normalized") :
          q[1] = "session-classification" /\ c = Classified(run.readings[q].result)
    BY <1>1
  <2>2. q = <<"session-classification", c.round>> /\ IsClassification(c)
    BY <2>1, ClassificationFacts
  <2>. QED BY <2>1, <2>2
<1>3. \A c \in C : IsClassification(c)
  BY <1>2
<1>4. \A c, d \in C : c.round = d.round => c = d
  BY <1>2
<1>5. \A c \in C : c.session = "race" /\ IsClassified(c.status)
  BY <1>3 DEF IsClassification, IsClassified
<1>6. Observed(C) = C
  BY <1>5 DEF Observed
<1>7. SourceOf(Gathered).results = C
  <2>1. SourceOf(Gathered).results = {c \in Gathered.classifications : c.session = "race"}
    BY DEF SourceOf
  <2>. QED BY <1>5, <2>1
<1>8. Rounds(C) = {c.round : c \in C}
  BY <1>6 DEF Rounds
<1>9. ArePlainRounds(Rounds(C))
  BY <1>3, <1>8 DEF ArePlainRounds, IsClassification
<1>10. ASSUME NEW f \in Facts(C)
       PROVE  \E c \in C : \E row \in c.rows :
                f = [round |-> c.round, driver |-> row.driver, constructor |-> row.constructor]
  BY <1>6 DEF Facts
<1>11. \A f \in Facts(C) :
         /\ f.round \in Rounds(C)
         /\ f = [round |-> f.round, driver |-> f.driver, constructor |-> f.constructor]
         /\ IsListed(f.driver)
  <2>1. SUFFICES ASSUME NEW f \in Facts(C)
                 PROVE  /\ f.round \in Rounds(C)
                        /\ f = [round |-> f.round, driver |-> f.driver,
                                constructor |-> f.constructor]
                        /\ IsListed(f.driver)
    OBVIOUS
  <2>2. PICK c \in C : \E row \in c.rows :
          f = [round |-> c.round, driver |-> row.driver, constructor |-> row.constructor]
    BY <1>10
  <2>3. PICK row \in c.rows :
          f = [round |-> c.round, driver |-> row.driver, constructor |-> row.constructor]
    BY <2>2
  <2>4. IsListed(row.driver)
    BY <1>3 DEF IsClassification
  <2>. QED BY <1>8, <2>3, <2>4
<1>12. \A f, g \in Facts(C) :
         f.driver = g.driver /\ f.round = g.round => f.constructor = g.constructor
  <2>1. SUFFICES ASSUME NEW f \in Facts(C), NEW g \in Facts(C), f.driver = g.driver,
                        f.round = g.round
                 PROVE  f.constructor = g.constructor
    OBVIOUS
  <2>2. PICK c \in C : \E row \in c.rows :
          f = [round |-> c.round, driver |-> row.driver, constructor |-> row.constructor]
    BY <1>10
  <2>3. PICK row \in c.rows :
          f = [round |-> c.round, driver |-> row.driver, constructor |-> row.constructor]
    BY <2>2
  <2>4. PICK d \in C : \E other \in d.rows :
          g = [round |-> d.round, driver |-> other.driver, constructor |-> other.constructor]
    BY <1>10
  <2>5. PICK other \in d.rows :
          g = [round |-> d.round, driver |-> other.driver, constructor |-> other.constructor]
    BY <2>4
  <2>6. c = d /\ row.driver = other.driver
    BY <1>4, <2>1, <2>3, <2>5
  <2>7. row = other
    BY <1>3, <2>6 DEF IsClassification
  <2>. QED BY <2>3, <2>5, <2>7
<1>13. AreFactsOf(Rounds(C), Facts(C))
  BY <1>11, <1>12 DEF AreFactsOf
<1>. QED BY <1>3, <1>4, <1>6, <1>7, <1>8, <1>9, <1>11, <1>13

(* A payload a run holds is that of the one request of its kind. *)
LEMMA HeldPayload ==
  ASSUME IntakeInv, NEW kind \in RequiredKinds, kind \in Gathered.selected
  PROVE  /\ <<kind>> \in ReadAs("normalized")
         /\ \A otherwise : PayloadOf(kind, otherwise) = run.readings[<<kind>>].payload
<1>1. PICK q \in ReadAs("normalized") : q[1] = kind
  BY DEF Gathered
<1>2. q = <<kind>>
  BY <1>1, NormalizedReading, RequestFacts DEF RequiredKinds
<1>. QED BY <1>1, <1>2 DEF PayloadOf

-----------------------------------------------------------------------------
(* What an assembly says. *)

(* A complete assembly has passed every check, a gap names the first it failed,
   and only the relations of the source, or a classification of a foreign
   source, are ever named. *)
LEMMA AssemblyFacts ==
  ASSUME NEW g, NEW assembly, assembly = Assembly(g)
  PROVE  /\ assembly.complete \in BOOLEAN
         /\ assembly.complete = TRUE =>
              /\ assembly.gap = "none" /\ assembly.relations = {}
              /\ RequiredKinds \subseteq g.selected
              /\ Unaccounted({e.round : e \in g.calendar}, Rounds(g.classifications)) = {}
              /\ DescribesHorizon(g.driverStandings, Rounds(g.classifications))
              /\ DescribesHorizon(g.constructorStandings, Rounds(g.classifications))
              /\ Relations(SourceOf(g)) = {}
         /\ assembly.complete = FALSE =>
              assembly.gap \in Gaps \ {"none", "generation-failed"}
         /\ \/ assembly.relations = {}
            \/ assembly.relations = Relations(SourceOf(g))
            \/ /\ assembly.relations = {"result-entry-span"}
               /\ \E c \in Observed(g.classifications) : c.source \notin ParticipationSources
<1>. DEFINE rounds == Rounds(g.classifications)
            unclassified == {e.round : e \in {f \in g.calendar :
                               RequiresClassification(f.status) /\ f.round \notin rounds}}
            unaccounted == Unaccounted({e.round : e \in g.calendar}, rounds)
            failed == Relations(SourceOf(g))
            foreign == \E c \in Observed(g.classifications) : c.source \notin ParticipationSources
            apart == ~DescribesHorizon(g.driverStandings, rounds)
                       \/ ~DescribesHorizon(g.constructorStandings, rounds)
<1>1. Assembly(g) =
        IF g.status # "completed" THEN gap("run-not-completed", {}, {})
        ELSE IF g.unavailable # {} THEN gap("resource-unavailable", g.unavailable, {})
        ELSE IF ~(RequiredKinds \subseteq g.selected)
        THEN gap("missing-required-resource", RequiredKinds \ g.selected, {})
        ELSE IF unclassified # {} THEN gap("missing-round-classification", unclassified, {})
        ELSE IF foreign THEN gap("inconsistent-references", {}, {"result-entry-span"})
        ELSE IF unaccounted # {} THEN gap("missing-round-classification", unaccounted, {})
        ELSE IF apart THEN gap("standings-round-incoherent", {}, {})
        ELSE IF failed # {} THEN gap("inconsistent-references", {}, failed)
        ELSE Complete
  BY Zenon DEF Assembly
<1>. HIDE DEF rounds, unclassified, unaccounted, failed, foreign, apart
<1>3. /\ {"run-not-completed", "resource-unavailable", "missing-required-resource",
          "missing-round-classification", "inconsistent-references",
          "standings-round-incoherent"} \subseteq Gaps \ {"none", "generation-failed"}
  BY DEF Gaps
<1>4. CASE g.status # "completed"
  <2>1. assembly = gap("run-not-completed", {}, {})
    BY <1>1, <1>4
  <2>2. /\ assembly.complete = FALSE /\ assembly.relations = {}
        /\ assembly.gap \in Gaps \ {"none", "generation-failed"}
    BY <1>3, <2>1 DEF gap
  <2>. QED BY <2>2
<1>5. CASE g.status = "completed" /\ g.unavailable # {}
  <2>1. assembly = gap("resource-unavailable", g.unavailable, {})
    BY <1>1, <1>5
  <2>2. /\ assembly.complete = FALSE /\ assembly.relations = {}
        /\ assembly.gap \in Gaps \ {"none", "generation-failed"}
    BY <1>3, <2>1 DEF gap
  <2>. QED BY <2>2
<1>6. CASE g.status = "completed" /\ g.unavailable = {} /\ ~(RequiredKinds \subseteq g.selected)
  <2>1. assembly = gap("missing-required-resource", RequiredKinds \ g.selected, {})
    BY <1>1, <1>6, Zenon
  <2>2. /\ assembly.complete = FALSE /\ assembly.relations = {}
        /\ assembly.gap \in Gaps \ {"none", "generation-failed"}
    BY <1>3, <2>1 DEF gap
  <2>. QED BY <2>2
<1>. DEFINE supplied == /\ g.status = "completed" /\ g.unavailable = {}
                        /\ RequiredKinds \subseteq g.selected
<1>7. CASE supplied /\ unclassified # {}
  <2>1. assembly = gap("missing-round-classification", unclassified, {})
    BY <1>1, <1>7, Zenon
  <2>2. /\ assembly.complete = FALSE /\ assembly.relations = {}
        /\ assembly.gap \in Gaps \ {"none", "generation-failed"}
    BY <1>3, <2>1 DEF gap
  <2>. QED BY <2>2
<1>8. CASE supplied /\ unclassified = {} /\ foreign
  <2>1. assembly = gap("inconsistent-references", {}, {"result-entry-span"})
    BY <1>1, <1>8, Zenon
  <2>2. /\ assembly.complete = FALSE /\ assembly.relations = {"result-entry-span"}
        /\ assembly.gap \in Gaps \ {"none", "generation-failed"}
    BY <1>3, <2>1 DEF gap
  <2>. QED BY <2>2, <1>8 DEF foreign
<1>9. CASE supplied /\ unclassified = {} /\ ~foreign /\ unaccounted # {}
  <2>1. assembly = gap("missing-round-classification", unaccounted, {})
    BY <1>1, <1>9, Zenon
  <2>2. /\ assembly.complete = FALSE /\ assembly.relations = {}
        /\ assembly.gap \in Gaps \ {"none", "generation-failed"}
    BY <1>3, <2>1 DEF gap
  <2>. QED BY <2>2
<1>10. CASE supplied /\ unclassified = {} /\ ~foreign /\ unaccounted = {} /\ apart
  <2>1. assembly = gap("standings-round-incoherent", {}, {})
    BY <1>1, <1>10, Zenon
  <2>2. /\ assembly.complete = FALSE /\ assembly.relations = {}
        /\ assembly.gap \in Gaps \ {"none", "generation-failed"}
    BY <1>3, <2>1 DEF gap
  <2>. QED BY <2>2
<1>11. CASE supplied /\ unclassified = {} /\ ~foreign /\ unaccounted = {} /\ ~apart
              /\ failed # {}
  <2>1. assembly = gap("inconsistent-references", {}, failed)
    BY <1>1, <1>11, Zenon
  <2>2. /\ assembly.complete = FALSE /\ assembly.relations = failed
        /\ assembly.gap \in Gaps \ {"none", "generation-failed"}
    BY <1>3, <2>1 DEF gap
  <2>. QED BY <2>2 DEF failed
<1>12. CASE supplied /\ unclassified = {} /\ ~foreign /\ unaccounted = {} /\ ~apart
              /\ failed = {}
  <2>1. assembly = Complete
    BY <1>1, <1>12, Zenon
  <2>2. assembly.complete = TRUE /\ assembly.gap = "none" /\ assembly.relations = {}
    BY <2>1 DEF Complete
  <2>. QED BY <1>12, <2>2 DEF rounds, unaccounted, failed, apart
<1>. QED BY <1>4, <1>5, <1>6, <1>7, <1>8, <1>9, <1>10, <1>11, <1>12

(* What a named relation says of a source, and what a source that fails none
   satisfies. *)
LEMMA RelationFacts ==
  ASSUME NEW s
  PROVE  /\ Relations(s) \subseteq RelationNames
         /\ "driver-entry-span" \in Relations(s) => HasInvalidSpans(s.driverEntries)
         /\ "result-entry-span" \in Relations(s)
              => HasUnplaced(s.driverEntries, Facts(s.results))
         /\ "driver-entry-support" \in Relations(s)
              => HasUnsupported(s.driverEntries, Facts(s.results), Rounds(s.results))
         /\ "duplicate-identity" \in Relations(s) => HasDuplicateIdentity(s)
         /\ Relations(s) = {} =>
              /\ \A e \in s.calendar : e.circuit \in s.circuits
              /\ \A e \in s.driverEntries : e.driver \in s.drivers
              /\ \A e \in s.constructorEntries :
                   e.constructor \in s.constructors /\ e.lineup \subseteq s.drivers
              /\ \A c \in s.results : \A row \in c.rows :
                   row.driver \in s.drivers /\ row.constructor \in s.constructors
<1>1. /\ EventFails(s) \subseteq {"event-circuit", "event-identity", "session-event"}
      /\ EventFails(s) = {} => \A e \in s.calendar : e.circuit \in s.circuits
  BY DEF EventFails
<1>2. /\ EntryFails(s) \subseteq {"driver-entry-driver", "driver-entry-constructor",
                                  "driver-entry-span", "constructor-entry-constructor",
                                  "constructor-entry-lineup"}
      /\ "driver-entry-span" \in EntryFails(s) => HasInvalidSpans(s.driverEntries)
      /\ EntryFails(s) = {} =>
           /\ \A e \in s.driverEntries : e.driver \in s.drivers
           /\ \A e \in s.constructorEntries :
                e.constructor \in s.constructors /\ e.lineup \subseteq s.drivers
  BY DEF EntryFails
<1>3. StandingFails(s) \subseteq {"driver-standing-driver", "driver-standing-constructor",
                                  "constructor-standing-constructor"}
  BY DEF StandingFails
<1>4. /\ ResultFails(s) \subseteq {"result-event", "result-identity",
                                   "result-fastest-lap-driver", "result-entry-driver",
                                   "result-entry-constructor"}
      /\ ResultFails(s) = {} =>
           \A c \in s.results : \A row \in c.rows :
             row.driver \in s.drivers /\ row.constructor \in s.constructors
  BY DEF ResultFails
<1>5. /\ ParticipationFails(s) \subseteq {"event-has-results", "result-entry-span",
                                          "driver-entry-support"}
      /\ "result-entry-span" \in ParticipationFails(s)
           => HasUnplaced(s.driverEntries, Facts(s.results))
      /\ "driver-entry-support" \in ParticipationFails(s)
           => HasUnsupported(s.driverEntries, Facts(s.results), Rounds(s.results))
  BY DEF ParticipationFails
<1>6. PICK twice : /\ twice = IF HasDuplicateIdentity(s) THEN {"duplicate-identity"} ELSE {}
                   /\ Relations(s) = EventFails(s) \cup EntryFails(s) \cup StandingFails(s)
                        \cup ResultFails(s) \cup ParticipationFails(s) \cup twice
  BY DEF Relations
<1>7. Relations(s) \subseteq RelationNames
  BY <1>1, <1>2, <1>3, <1>4, <1>5, <1>6 DEF RelationNames
<1>8. /\ "driver-entry-span" \in Relations(s) => "driver-entry-span" \in EntryFails(s)
      /\ "result-entry-span" \in Relations(s) => "result-entry-span" \in ParticipationFails(s)
      /\ "driver-entry-support" \in Relations(s)
           => "driver-entry-support" \in ParticipationFails(s)
      /\ "duplicate-identity" \in Relations(s) => HasDuplicateIdentity(s)
  BY <1>1, <1>2, <1>3, <1>4, <1>5, <1>6
<1>9. Relations(s) = {} => EventFails(s) = {} /\ EntryFails(s) = {} /\ ResultFails(s) = {}
  BY <1>6
<1>. QED BY <1>1, <1>2, <1>4, <1>5, <1>7, <1>8, <1>9

(* The calendar a run holds, and the calendar of its source: the same rounds,
   one event for each, which has results exactly when its round is classified. *)
LEMMA GatheredCalendar ==
  ASSUME IntakeInv
  PROVE  /\ \A e \in Gathered.calendar : IsEvent(e)
         /\ \A x, y \in Gathered.calendar : x.round = y.round => x = y
         /\ "season-calendar" \in Gathered.selected =>
              /\ {e.round : e \in Gathered.calendar} = CalendarRounds
              /\ Cardinality(Gathered.calendar) = season.calendar.total
<1>1. Gathered.calendar = PayloadOf("season-calendar", {})
  BY DEF Gathered
<1>2. CASE <<"season-calendar">> \in ReadAs("normalized")
  <2>1. PICK reading, answer, documents, canonical, registry :
          /\ documents = season.documents /\ canonical = season.canonical
          /\ reading = run.readings[<<"season-calendar">>] /\ answer = season.calendar
          /\ registry = Registry
    OBVIOUS
  <2>2. reading.reading = "normalized" /\ reading = ReadCalendar(answer, Season, PageLimit, registry)
    BY <1>2, <2>1, NormalizedReading, ReadingFacts DEF Tables
  <2>3. IsListed(answer.rows) /\ HasKnownBlocks(answer.rows)
    BY <2>1, IntakeAssumption DEF IntakeInv, WorldInv, HasKnownBlocks
  <2>4. /\ \A e \in reading.payload : IsEvent(e)
        /\ \A x, y \in reading.payload : x.round = y.round => x = y
        /\ \A e \in reading.payload : \E i \in DOMAIN answer.rows : e.round = answer.rows[i].round
        /\ \A i \in DOMAIN answer.rows : \E e \in reading.payload : e.round = answer.rows[i].round
        /\ Cardinality(reading.payload) = answer.total
    <3>1. registry = Build(documents, canonical)
      BY <2>1 DEF Registry
    <3>2. IsCalendarOf(reading.payload, answer)
      BY <2>2, <2>3, <3>1, CalendarReads
    <3>. QED BY <3>2 DEF IsCalendarOf
  <2>5. Gathered.calendar = reading.payload
    BY <1>1, <1>2, <2>1 DEF PayloadOf
  <2>6. {e.round : e \in Gathered.calendar} = CalendarRounds
    <3>1. CalendarRounds = {answer.rows[i].round : i \in DOMAIN answer.rows}
      BY <2>1 DEF CalendarRounds, RowsOf
    <3>. QED BY <2>4, <2>5, <3>1
  <2>. QED BY <2>1, <2>4, <2>5, <2>6
<1>3. CASE <<"season-calendar">> \notin ReadAs("normalized")
  <2>1. Gathered.calendar = {}
    BY <1>1, <1>3 DEF PayloadOf
  <2>2. "season-calendar" \notin Gathered.selected
    BY <1>3, HeldPayload DEF RequiredKinds
  <2>. QED BY <2>1, <2>2
<1>. QED BY <1>2, <1>3
(* Every event of the assembled calendar is a round of the calendar read, settled
   by its results alone. *)
LEMMA SourceCalendar ==
  ASSUME IntakeInv, NEW calendar, calendar = SourceOf(Gathered).calendar
  PROVE  /\ \A e \in calendar : \E x \in Gathered.calendar :
              /\ e.round = x.round /\ e.round \in 1 .. LastRound /\ e.status = "unknown"
              /\ e.startDay = 0 /\ e.endDay = 0
              /\ e.hasResults = (e.round \in Rounds(Gathered.classifications))
              /\ e.sessions = IF e.round \in DOMAIN season.schedules
                              THEN season.schedules[e.round] ELSE x.sessions
         /\ \A e, f \in calendar : e.round = f.round => e = f
         /\ {e.round : e \in calendar} = {e.round : e \in Gathered.calendar}
         /\ Cardinality(calendar) = Cardinality(Gathered.calendar)
         /\ IsFiniteSet(calendar)
<1>. DEFINE held == Gathered.calendar
            rounds == Rounds(Gathered.classifications)
            sessionsOf(x) == IF x.round \in DOMAIN season.schedules
                             THEN season.schedules[x.round] ELSE x.sessions
            assembled == [x \in held |->
                            [x EXCEPT !.sessions = sessionsOf(x), !.hasResults = x.round \in rounds]]
<1>1. /\ \A e \in held : IsEvent(e)
      /\ \A x, y \in held : x.round = y.round => x = y
  BY GatheredCalendar
<1>2. calendar = {assembled[x] : x \in held}
  <2>1. Gathered.schedules = season.schedules
    BY DEF Gathered
  <2>2. \A c \in Observed(Gathered.classifications) : c.session = "race"
    BY DEF Observed
  <2>3. rounds = Rounds({c \in Gathered.classifications : c.session = "race"})
    BY DEF Rounds, Observed
  <2>4. calendar = AssembledCalendar(Gathered, Rounds({c \in Gathered.classifications :
                                                         c.session = "race"}))
    BY DEF SourceOf
  <2>. QED BY <2>1, <2>3, <2>4 DEF AssembledCalendar
<1>3. ASSUME NEW x \in held
      PROVE  /\ assembled[x].round = x.round /\ x.round \in 1 .. LastRound
             /\ assembled[x].status = "unknown"
             /\ assembled[x].startDay = 0 /\ assembled[x].endDay = 0
             /\ assembled[x].hasResults = (x.round \in rounds)
             /\ assembled[x].sessions = sessionsOf(x)
  <2>1. PICK given : given = (x.round \in rounds)
    OBVIOUS
  <2>2. PICK sessions : sessions = sessionsOf(x)
    OBVIOUS
  <2>3. PICK e : e = assembled[x] /\ e = [x EXCEPT !.sessions = sessions, !.hasResults = given]
    BY <2>1, <2>2
  <2>4. IsEvent(x)
    BY <1>1
  <2>. HIDE DEF assembled
  <2>5. /\ e.round = x.round /\ e.status = "unknown" /\ e.startDay = 0 /\ e.endDay = 0
        /\ e.hasResults = given /\ e.sessions = sessions
    <3>1. PICK round, id, circuit, format, own :
            x = [round |-> round, id |-> id, circuit |-> circuit, canonical |-> TRUE,
                 status |-> "unknown", format |-> format, startDay |-> 0, endDay |-> 0,
                 sessions |-> own, hasResults |-> FALSE]
      BY <2>4, Zenon DEF IsEvent
    <3>2. e = [round |-> round, id |-> id, circuit |-> circuit, canonical |-> TRUE,
               status |-> "unknown", format |-> format, startDay |-> 0, endDay |-> 0,
               sessions |-> sessions, hasResults |-> given]
      BY <2>3, <3>1, ZenonT(60)
    <3>. QED BY <3>1, <3>2
  <2>6. /\ assembled[x].round = x.round /\ assembled[x].status = "unknown"
        /\ assembled[x].startDay = 0 /\ assembled[x].endDay = 0
        /\ assembled[x].hasResults = given /\ assembled[x].sessions = sessions
    BY <2>3, <2>5
  <2>. QED BY <2>1, <2>2, <2>4, <2>6 DEF IsEvent
<1>4. assembled = [x \in held |-> assembled[x]]
  OBVIOUS
<1>. HIDE DEF assembled
<1>5. \A x, y \in held : assembled[x] = assembled[y] => x = y
  BY <1>1, <1>3
<1>6. IsFiniteSet(held)
  <2>. DEFINE roundOf == [x \in held |-> x.round]
  <2>1. roundOf \in Injection(held, 1 .. LastRound)
    <3>1. roundOf \in [held -> 1 .. LastRound]
      BY <1>3
    <3>2. \A x, y \in held : roundOf[x] = roundOf[y] => x = y
      BY <1>1
    <3>3. PICK T : T = 1 .. LastRound
      OBVIOUS
    <3>4. roundOf \in [held -> T]
      BY <3>1, <3>3
    <3>. HIDE DEF roundOf, held
    <3>5. roundOf \in Injection(held, T)
      BY <3>2, <3>4 DEF Injection, IsInjective
    <3>. QED BY <3>3, <3>5
  <2>2. IsFiniteSet(1 .. LastRound)
    <3>1. PICK n \in Nat : n = LastRound
      BY DEF LastRound
    <3>2. IsFiniteSet(1 .. n)
      BY FS_Interval
    <3>. QED BY <3>1, <3>2
  <2>. QED BY <2>1, <2>2, FS_Injection
<1>7. Cardinality(calendar) = Cardinality(held) /\ IsFiniteSet(calendar)
  <2>. HIDE DEF held
  <2>. QED BY <1>2, <1>4, <1>5, <1>6, ImageCardinality
<1>8. {e.round : e \in calendar} = {e.round : e \in held}
  BY <1>2, <1>3
<1>9. \A e, f \in calendar : e.round = f.round => e = f
  BY <1>1, <1>2, <1>3
<1>10. \A e \in calendar : \E x \in held :
         /\ e.round = x.round /\ e.round \in 1 .. LastRound /\ e.status = "unknown"
         /\ e.startDay = 0 /\ e.endDay = 0
         /\ e.hasResults = (e.round \in rounds)
         /\ e.sessions = sessionsOf(x)
  BY <1>2, <1>3
<1>. QED BY <1>7, <1>8, <1>9, <1>10

(* A season that is prepared passed the assembly, and its generator does not
   throw. *)
LEMMA PreparedFacts ==
  ASSUME IntakeInv, Prepared, NEW rounds, rounds = Rounds(Gathered.classifications)
  PROVE  /\ RequiredKinds \subseteq Gathered.selected
         /\ Unaccounted({e.round : e \in Gathered.calendar}, rounds) = {}
         /\ DescribesHorizon(Gathered.driverStandings, rounds)
         /\ DescribesHorizon(Gathered.constructorStandings, rounds)
         /\ Relations(SourceOf(Gathered)) = {}
<1>1. PICK assembly : assembly = Assembly(Gathered)
  OBVIOUS
<1>2. GapOf(assembly) = "none"
  BY <1>1 DEF Prepared, IntakeInv, OutcomeInv
<1>3. /\ assembly.complete \in BOOLEAN
      /\ assembly.complete = FALSE => assembly.gap # "none"
  BY <1>1, AssemblyFacts
<1>4. assembly.complete = TRUE
  BY <1>2, <1>3 DEF GapOf
<1>. QED BY <1>1, <1>4, AssemblyFacts
(* The relations a complete assembly passed bind its results to both tables. *)
LEMMA OneHorizonHolds ==
  ASSUME IntakeInv
  PROVE  OneHorizon
<1>1. SUFFICES ASSUME Prepared, NEW t \in Tables
               PROVE  {e.round : e \in {x \in Source.calendar : IsSettled(x)}}
                        = {r \in CalendarRounds : r <= run.readings[<<t>>].payload.round}
  BY DEF OneHorizon
<1>. DEFINE rounds == Rounds(Gathered.classifications)
            table == run.readings[<<t>>].payload
<1>2. /\ RequiredKinds \subseteq Gathered.selected
      /\ Unaccounted({e.round : e \in Gathered.calendar}, rounds) = {}
      /\ DescribesHorizon(Gathered.driverStandings, rounds)
      /\ DescribesHorizon(Gathered.constructorStandings, rounds)
  BY <1>1, PreparedFacts
<1>3. DescribesHorizon(table, rounds)
  <2>1. t \in RequiredKinds /\ t \in Gathered.selected
    BY <1>2 DEF Tables, RequiredKinds
  <2>2. PayloadOf(t, NoTable) = table
    BY <2>1, HeldPayload
  <2>3. \/ t = "driver-standings" /\ Gathered.driverStandings = table
        \/ t = "constructor-standings" /\ Gathered.constructorStandings = table
    BY <2>2 DEF Gathered, Tables
  <2>. QED BY <1>2, <2>3
<1>4. {e.round : e \in Gathered.calendar} = CalendarRounds
  <2>1. "season-calendar" \in Gathered.selected
    BY <1>2 DEF RequiredKinds
  <2>. QED BY <2>1, GatheredCalendar
<1>5. /\ rounds \subseteq CalendarRounds /\ \A r \in rounds : r \in Nat /\ r > 0
      /\ \A r \in CalendarRounds : r \in Nat /\ r > 0
  <2>1. \A c \in Gathered.classifications : c.round \in CalendarRounds
    BY GatheredResults DEF IsClassification
  <2>2. rounds = {c.round : c \in Gathered.classifications}
    BY GatheredResults
  <2>3. \A e \in Gathered.calendar : e.round \in 1 .. LastRound
    BY GatheredCalendar DEF IsEvent
  <2>4. \A r \in CalendarRounds : r \in 1 .. LastRound
    BY <1>4, <2>3
  <2>. QED BY <2>1, <2>2, <2>4 DEF LastRound
<1>6. {e.round : e \in {x \in Source.calendar : IsSettled(x)}} = rounds
  <2>1. PICK calendar : calendar = Source.calendar
    OBVIOUS
  <2>2. \A e \in calendar : e.status = "unknown" /\ e.hasResults = (e.round \in rounds)
    BY <2>1, SourceCalendar DEF Source
  <2>3. {e.round : e \in calendar} = CalendarRounds
    BY <1>4, <2>1, SourceCalendar DEF Source
  <2>4. \A e \in calendar : IsSettled(e) <=> e.round \in rounds
    BY <2>2 DEF IsSettled
  <2>. HIDE DEF rounds
  <2>. QED BY <1>5, <2>1, <2>3, <2>4
<1>7. rounds = {r \in CalendarRounds : r <= table.round}
  <2>1. \A r \in CalendarRounds \ rounds : \A latest \in rounds : ~(r <= latest)
    BY <1>2, <1>4 DEF Unaccounted
  <2>. HIDE DEF rounds, table
  <2>2. CASE rounds = {}
    BY <1>3, <1>5, <2>2 DEF DescribesHorizon, NoRound
  <2>3. CASE rounds # {}
    <3>1. table.round \in rounds /\ \A q \in rounds : q <= table.round
      BY <1>3, <2>3 DEF DescribesHorizon, IsLatest
    <3>. QED BY <1>5, <2>1, <3>1
  <2>. QED BY <2>2, <2>3
<1>. QED BY <1>6, <1>7

(* What is prepared is one state of the season: the rounds with results are
   exactly those up to the round both tables count. *)
THEOREM CandidateHasOneHorizon ==
  Spec => []OneHorizon
<1>1. IntakeInv => OneHorizon
  BY OneHorizonHolds
<1>. QED BY <1>1, IntakeInvariant, PTL

(* Whatever a run has read, the seats derived from it fail no relation. *)
LEMMA DerivedSpansHoldInside ==
  ASSUME IntakeInv
  PROVE  DerivedSpansHold
<1>. DEFINE C == Gathered.classifications
            source == SourceOf(Gathered)
            spanNames == {"driver-entry-span", "result-entry-span", "driver-entry-support"}
<1>1. /\ Observed(C) = C /\ source.results = C
      /\ ArePlainRounds(Rounds(C)) /\ AreFactsOf(Rounds(C), Facts(C))
      /\ \A c \in C : c.source = "jolpica"
  BY GatheredResults DEF IsClassification
<1>2. source.driverEntries = DriverEntries(Rounds(C), Facts(C))
  BY <1>1 DEF SourceOf
<1>3. /\ ~HasInvalidSpans(source.driverEntries)
      /\ ~HasUnplaced(source.driverEntries, Facts(source.results))
      /\ ~HasUnsupported(source.driverEntries, Facts(source.results), Rounds(source.results))
  BY <1>1, <1>2, DerivedSpansAreValid, DerivedSpansPlace, DerivedSpansAreSupported
<1>4. \A name \in spanNames : name \notin Relations(source)
  BY <1>3, RelationFacts
<1>5. \A c \in Observed(C) : c.source \in ParticipationSources
  BY <1>1 DEF ParticipationSources
<1>. HIDE DEF C, source
<1>6. Assembly(Gathered).relations = {} \/ Assembly(Gathered).relations = Relations(source)
  BY <1>5, AssemblyFacts DEF C, source
<1>7. run.relations = {} \/ run.relations = Relations(source)
  BY <1>6 DEF IntakeInv, RunInv, OutcomeInv, Stages
<1>. QED BY <1>4, <1>7 DEF DerivedSpansHold

(* The current seat of every driver is that of his last classified race. *)
LEMMA CurrentSeatIsLatestInside ==
  ASSUME IntakeInv
  PROVE  CurrentSeatIsLatest
<1>1. SUFFICES ASSUME Prepared, NEW d \in Source.drivers,
                      NEW current, current = CurrentEntry(Source.driverEntries, d),
                      NEW last, last = LastFacts(d)
               PROVE  ShowsLast(current, last)
  BY DEF CurrentSeatIsLatest
<1>2. PICK C, rounds, facts :
        /\ C = Gathered.classifications /\ rounds = Rounds(C) /\ facts = Facts(C)
  OBVIOUS
<1>3. /\ Observed(C) = C /\ Source.results = C
      /\ ArePlainRounds(rounds) /\ AreFactsOf(rounds, facts)
  BY <1>2, GatheredResults DEF Source
<1>4. Source.driverEntries = DriverEntries(rounds, facts)
  BY <1>2, <1>3 DEF SourceOf, Source
<1>5. PICK own : own = {f \in facts : f.driver = d}
  OBVIOUS
<1>6. last = {f \in own : \A g \in own : g.round <= f.round}
  BY <1>1, <1>2, <1>3, <1>5 DEF Participation, LastFacts
<1>7. IsSeatOf(current, last, rounds)
  BY <1>1, <1>3, <1>4, <1>5, <1>6, CurrentSeat
<1>8. Rounds(Source.results) = rounds
  BY <1>2, <1>3
<1>9. CASE current = {} /\ last = {}
  BY <1>9 DEF ShowsLast
<1>10. CASE \E e, f : /\ current = {e} /\ last = {f}
                      /\ e.constructor = f.constructor
                      /\ (e.endRound = NoRound) <=> IsLatest(rounds, f.round)
  <2>1. PICK e, f : /\ current = {e} /\ last = {f}
                    /\ e.constructor = f.constructor
                    /\ (e.endRound = NoRound) <=> IsLatest(rounds, f.round)
    BY <1>10
  <2>2. Cardinality(current) = 1 /\ Cardinality(last) = 1
    BY <2>1, FS_Singleton, Zenon
  <2>3. \A x \in current : (x.endRound = NoRound) <=> \E y \in last : IsLatest(rounds, y.round)
    BY <2>1
  <2>4. {x.constructor : x \in current} = {y.constructor : y \in last}
    BY <2>1
  <2>. QED BY <1>8, <2>2, <2>3, <2>4 DEF ShowsLast
<1>. QED BY <1>7, <1>9, <1>10 DEF IsSeatOf

(* The seat a driver's document shows is that of his last classified race, open
   exactly when that is the latest race of the season. *)
THEOREM SeatShownIsLatest ==
  Spec => []CurrentSeatIsLatest
<1>1. IntakeInv => CurrentSeatIsLatest
  BY CurrentSeatIsLatestInside
<1>. QED BY <1>1, IntakeInvariant, PTL

-----------------------------------------------------------------------------
(* The preflight. *)

(* The participants a run holds: every constructor enters once, and no identity
   of a whole table is read under a name with two meanings. *)
LEMMA GatheredEntries ==
  ASSUME IntakeInv
  PROVE  \A x, y \in Gathered.constructorEntries : x.constructor = y.constructor => x = y
<1>. DEFINE q == <<"season-participants">>
<1>1. Gathered.constructorEntries = PayloadOf("season-participants", NoParticipants).entries
  BY DEF Gathered
<1>2. CASE q \notin ReadAs("normalized")
  <2>1. Gathered.constructorEntries = {}
    BY <1>1, <1>2 DEF PayloadOf, NoParticipants
  <2>. QED BY <2>1
<1>3. CASE q \in ReadAs("normalized")
  <2>1. PICK reading : reading = run.readings[q]
    OBVIOUS
  <2>2. /\ reading.reading = "normalized"
        /\ reading = ReadParticipants(season.drivers, season.constructors, Season, PageLimit,
                                      Registry, season.curated)
    BY <1>3, <2>1, NormalizedReading, ReadingFacts DEF Tables
  <2>3. \E constructors : reading.payload.entries = ConstructorSeasonEntries(constructors)
    <3>1. PICK first, second :
            /\ first = ReadIdentities(season.drivers, Season, PageLimit, "driver", Registry,
                                      season.curated)
            /\ second = ReadIdentities(season.constructors, Season, PageLimit, "constructor",
                                       Registry, season.curated)
      OBVIOUS
    <3>2. reading = IF first.reading # "normalized" THEN first
                    ELSE IF second.reading # "normalized" THEN second
                    ELSE Normalized([drivers |-> first.payload, constructors |-> second.payload,
                                     entries |-> ConstructorSeasonEntries(second.payload)])
      BY <2>2, <3>1 DEF ReadParticipants
    <3>3. reading = Normalized([drivers |-> first.payload, constructors |-> second.payload,
                                entries |-> ConstructorSeasonEntries(second.payload)])
      BY <2>2, <3>2
    <3>. QED BY <3>3 DEF Normalized
  <2>4. Gathered.constructorEntries = reading.payload.entries
    BY <1>1, <1>3, <2>1 DEF PayloadOf
  <2>5. PICK constructors :
          Gathered.constructorEntries = {[constructor |-> c, lineup |-> {}] : c \in constructors}
    BY <2>3, <2>4 DEF ConstructorSeasonEntries
  <2>6. \A x \in Gathered.constructorEntries : x = [constructor |-> x.constructor, lineup |-> {}]
    BY <2>5
  <2>. QED BY <2>6
<1>. QED BY <1>2, <1>3

(* No driver has two rows in the table a run holds. *)
LEMMA GatheredStandings ==
  ASSUME IntakeInv
  PROVE  \A x, y \in Gathered.driverStandings.rows : x.driver = y.driver => x = y
<1>. DEFINE q == <<"driver-standings">>
<1>1. Gathered.driverStandings = PayloadOf("driver-standings", NoTable)
  BY DEF Gathered
<1>2. CASE q \notin ReadAs("normalized")
  <2>1. Gathered.driverStandings.rows = {}
    BY <1>1, <1>2 DEF PayloadOf, NoTable
  <2>. QED BY <2>1
<1>3. CASE q \in ReadAs("normalized")
  <2>1. PICK reading : reading = run.readings[q]
    OBVIOUS
  <2>2. reading.reading = "normalized"
    BY <1>3, <2>1, NormalizedReading
  <2>3. PICK answer :
          reading = ReadStandings(answer, Season, "driver-standings", PageLimit, Registry)
    BY <1>3, <2>1, NormalizedReading DEF Tables
  <2>4. \A x, y \in reading.payload.rows : x.driver = y.driver => x = y
    BY <2>2, <2>3, DriverStandingsRead DEF Registry
  <2>5. Gathered.driverStandings = reading.payload
    BY <1>1, <1>3, <2>1 DEF PayloadOf
  <2>. QED BY <2>4, <2>5
<1>. QED BY <1>2, <1>3

(* Two members of a set share an identity. *)
LEMMA SharedFacts ==
  ASSUME NEW S, NEW id, DOMAIN id = S, Shared(id)
  PROVE  \E x, y \in S : x # y /\ id[x] = id[y]
BY DEF Shared
(* Identities coincide only for what looks alike, or was curated or listed twice. *)
LEMMA OnlyLookalikesCollideInside ==
  ASSUME IntakeInv
  PROVE  OnlyLookalikesCollide
<1>. DEFINE C == Gathered.classifications
<1>1. PICK source : source = SourceOf(Gathered)
  OBVIOUS
<1>2. SUFFICES ASSUME HasDuplicateIdentity(source)
               PROVE  \/ \E e, f \in source.driverEntries :
                           f.startRound # NoRound /\ e.driver = Append(f.driver, f.startRound)
                      \/ \E e, f \in source.calendar : e # f /\ e.id = f.id
                      \/ \E r \in DOMAIN season.schedules :
                           \E x, y \in season.schedules[r] : x # y /\ x.type = y.type
  <2>1. ASSUME "duplicate-identity" \in run.relations
        PROVE  HasDuplicateIdentity(source)
    <3>1. run.relations = Assembly(Gathered).relations
      BY <2>1 DEF IntakeInv, RunInv, OutcomeInv, Stages
    <3>2. run.relations = Relations(source)
      <4>1. PICK assembly : assembly = Assembly(Gathered)
        OBVIOUS
      <4>2. \/ assembly.relations = {} \/ assembly.relations = Relations(SourceOf(Gathered))
            \/ assembly.relations = {"result-entry-span"}
        BY <4>1, AssemblyFacts
      <4>. QED BY <1>1, <2>1, <3>1, <4>1, <4>2
    <3>. QED BY <2>1, <3>2, RelationFacts
  <2>. QED BY <1>1, <2>1 DEF OnlyLookalikesCollide, Source
<1>3. /\ source.results = C
      /\ source.driverEntries = DriverEntries(Rounds(C), Facts(C))
      /\ source.driverStandings = Gathered.driverStandings.rows
      /\ source.constructorEntries = Gathered.constructorEntries
  <2>1. Observed(C) = C /\ source.results = C
    BY <1>1, GatheredResults
  <2>. QED BY <1>1, <2>1 DEF SourceOf
<1>4. CASE Shared([e \in source.calendar |-> e.id])
  BY <1>4 DEF Shared
<1>5. CASE Shared([e \in source.calendar |-> e.round])
  <2>1. \A e, f \in source.calendar : e.round = f.round => e = f
    BY <1>1, SourceCalendar
  <2>. QED BY <1>5, <2>1 DEF Shared
<1>6. CASE \E e \in source.calendar : Shared([x \in e.sessions |-> x.type])
  <2>1. PICK e \in source.calendar : Shared([x \in e.sessions |-> x.type])
    BY <1>6
  <2>2. PICK x \in e.sessions, y \in e.sessions : x # y /\ x.type = y.type
    BY <2>1 DEF Shared
  <2>3. PICK held \in Gathered.calendar :
          e.sessions = IF e.round \in DOMAIN season.schedules
                       THEN season.schedules[e.round] ELSE held.sessions
    BY <1>1, SourceCalendar
  <2>4. \A a, b \in held.sessions : a.type = b.type => a = b
    BY GatheredCalendar DEF IsEvent
  <2>5. e.round \in DOMAIN season.schedules /\ e.sessions = season.schedules[e.round]
    BY <2>2, <2>3, <2>4
  <2>. QED BY <2>2, <2>5
<1>7. CASE Shared([c \in source.results |-> c.round])
  <2>1. \A c, d \in C : c.round = d.round => c = d
    BY GatheredResults
  <2>. HIDE DEF C
  <2>. QED BY <1>3, <1>7, <2>1 DEF Shared
<1>8. CASE \E c \in source.results : Shared([row \in c.rows |-> row.driver])
  <2>1. PICK c \in C : Shared([row \in c.rows |-> row.driver])
    BY <1>3, <1>8
  <2>2. \A x, y \in c.rows : x.driver = y.driver => x = y
    BY GatheredResults DEF IsClassification
  <2>. QED BY <2>1, <2>2 DEF Shared
<1>9. CASE Shared([row \in source.driverStandings |-> row.driver])
  <2>1. \A x, y \in source.driverStandings : x.driver = y.driver => x = y
    BY <1>3, GatheredStandings
  <2>. QED BY <1>9, <2>1 DEF Shared
<1>10. CASE Shared([e \in source.driverEntries |-> EntryId(e)])
  <2>1. PICK e \in source.driverEntries, f \in source.driverEntries :
          e # f /\ EntryId(e) = EntryId(f)
    BY <1>10 DEF Shared
  <2>2. PICK rounds, facts : rounds = Rounds(C) /\ facts = Facts(C)
    OBVIOUS
  <2>3. /\ ArePlainRounds(rounds) /\ AreFactsOf(rounds, facts)
        /\ \A g \in facts : IsListed(g.driver)
    BY <2>2, GatheredResults
  <2>4. PICK entries : entries = source.driverEntries /\ entries = DriverEntries(rounds, facts)
    BY <1>3, <2>2
  <2>5. \E x, y \in entries : y.startRound # NoRound /\ x.driver = Append(y.driver, y.startRound)
    BY <2>1, <2>3, <2>4, LookalikeSeats
  <2>. QED BY <2>4, <2>5
<1>11. CASE Shared([e \in source.constructorEntries |-> e.constructor])
  <2>1. \A x, y \in source.constructorEntries : x.constructor = y.constructor => x = y
    BY <1>3, GatheredEntries
  <2>. QED BY <1>11, <2>1 DEF Shared
<1>. QED BY <1>2, <1>4, <1>5, <1>6, <1>7, <1>8, <1>9, <1>10, <1>11 DEF HasDuplicateIdentity

(* What fails no relation can be generated. *)
LEMMA NothingThrows ==
  ASSUME IntakeInv, Relations(SourceOf(Gathered)) = {}
  PROVE  ~Throws(SourceOf(Gathered))
<1>. DEFINE C == Gathered.classifications
<1>1. PICK source : source = SourceOf(Gathered)
  OBVIOUS
<1>2. /\ \A e \in source.calendar : e.circuit \in source.circuits
      /\ \A e \in source.driverEntries : e.driver \in source.drivers
      /\ \A e \in source.constructorEntries :
           e.constructor \in source.constructors /\ e.lineup \subseteq source.drivers
  BY <1>1, RelationFacts
<1>3. \A d : ~IsAmbiguous(source.driverEntries, d)
  <2>1. /\ Observed(C) = C /\ source.results = C
        /\ ArePlainRounds(Rounds(C)) /\ AreFactsOf(Rounds(C), Facts(C))
    BY <1>1, GatheredResults
  <2>2. source.driverEntries = DriverEntries(Rounds(C), Facts(C))
    BY <1>1, <2>1 DEF SourceOf
  <2>. QED BY <2>1, <2>2, NeverAmbiguous
<1>. QED BY <1>1, <1>2, <1>3 DEF Throws
(* The generator never throws on what the preflight let through. *)
LEMMA GenerationNeverFailsInside ==
  ASSUME IntakeInv
  PROVE  GenerationNeverFails
<1>1. PICK assembly : assembly = Assembly(Gathered)
  OBVIOUS
<1>2. /\ assembly.complete \in BOOLEAN
      /\ assembly.complete = TRUE => Relations(SourceOf(Gathered)) = {}
      /\ assembly.complete = FALSE => assembly.gap # "generation-failed"
  BY <1>1, AssemblyFacts
<1>3. GapOf(assembly) # "generation-failed"
  BY <1>2, NothingThrows DEF GapOf
<1>. QED BY <1>1, <1>3 DEF GenerationNeverFails, IntakeInv, RunInv, OutcomeInv, Stages

(* A season is withheld only for what it lacks: the derived seats fail no
   relation, only lookalikes and curated repetitions share an identity, and the
   generator never throws on what the preflight let through. *)
THEOREM PreflightNeverMisjudges ==
  Spec => []PreflightIsSound
<1>1. IntakeInv => PreflightIsSound
  BY DerivedSpansHoldInside, OnlyLookalikesCollideInside, GenerationNeverFailsInside
     DEF PreflightIsSound
<1>. QED BY <1>1, IntakeInvariant, PTL

-----------------------------------------------------------------------------
(* The candidate. *)

(* Identities are read under names with one meaning, when any is read. *)
LEMMA IdentitiesResolve ==
  ASSUME NEW documents, NEW canonical, NEW registry, registry = Build(documents, canonical),
         NEW answer, NEW s, NEW requested, NEW entity, NEW curated, NEW reading,
         reading = ReadIdentities(answer, s, requested, entity, registry, curated),
         reading.reading = "normalized", reading.payload # {}
  PROVE  KeysAreUnambiguous(documents)
<1>. DEFINE rows == answer.rows
<1>1. reading = NormalizeIdentities(rows, s, entity, registry, curated)
  BY DEF ReadIdentities, Unreadable
<1>2. /\ \A i \in DOMAIN rows : Resolved(registry, s, entity, rows[i]) # {}
      /\ reading.payload = {TheOne(Resolved(registry, s, entity, rows[i])) : i \in DOMAIN rows}
  BY <1>1 DEF NormalizeIdentities, Unreadable, Unmapped, Normalized
<1>3. PICK i \in DOMAIN rows : TRUE
  BY <1>2
<1>. QED BY <1>2, <1>3, ResolvedFacts

(* The identities of one table: as many as were counted, and under names with
   one meaning. *)
IsWholeTableOf(identities, answer, documents) ==
  /\ Cardinality(identities) = answer.total
  /\ identities # {} => KeysAreUnambiguous(documents)
(* A table of identities that is read has as many as the provider counted, under
   names of one meaning. *)
LEMMA TableRead ==
  ASSUME NEW documents, NEW canonical, NEW registry, registry = Build(documents, canonical),
         NEW answer, IsListed(answer.rows), NEW s, NEW requested, NEW entity, NEW curated,
         NEW reading,
         reading = ReadIdentities(answer, s, requested, entity, registry, curated),
         reading.reading = "normalized"
  PROVE  IsWholeTableOf(reading.payload, answer, documents)
<1>1. Cardinality(reading.payload) = answer.total
  BY IdentitiesRead
<1>2. reading.payload # {} => KeysAreUnambiguous(documents)
  BY IdentitiesResolve
<1>. QED BY <1>1, <1>2 DEF IsWholeTableOf

(* What a run holds of a season is all that was counted of it. *)
LEMMA GatheredTables ==
  ASSUME IntakeInv, RequiredKinds \subseteq Gathered.selected
  PROVE  /\ IsWholeTableOf(Gathered.drivers, season.drivers, season.documents)
         /\ IsWholeTableOf(Gathered.constructors, season.constructors, season.documents)
         /\ IsWholeTableOf(Gathered.circuits, season.circuits, season.documents)
<1>1. PICK documents, canonical, registry :
        /\ documents = season.documents /\ canonical = season.canonical
        /\ registry = Registry /\ registry = Build(documents, canonical)
  BY DEF Registry
<1>2. /\ IsListed(season.drivers.rows) /\ IsListed(season.constructors.rows)
      /\ IsListed(season.circuits.rows)
  BY IntakeAssumption DEF IntakeInv, WorldInv
<1>3. IsWholeTableOf(Gathered.circuits, season.circuits, season.documents)
  <2>1. PICK reading : reading = run.readings[<<"season-circuits">>]
    OBVIOUS
  <2>2. /\ <<"season-circuits">> \in ReadAs("normalized")
        /\ PayloadOf("season-circuits", {}) = reading.payload
    BY <2>1, HeldPayload DEF RequiredKinds
  <2>3. /\ reading.reading = "normalized"
        /\ reading = ReadIdentities(season.circuits, Season, PageLimit, "circuit", registry,
                                    season.curated)
    BY <1>1, <2>1, <2>2, NormalizedReading, ReadingFacts DEF Tables, ReadCircuits
  <2>4. IsWholeTableOf(reading.payload, season.circuits, documents)
    BY <1>1, <1>2, <2>3, TableRead
  <2>5. Gathered.circuits = reading.payload
    BY <2>2 DEF Gathered
  <2>. QED BY <1>1, <2>4, <2>5
<1>4. /\ IsWholeTableOf(Gathered.drivers, season.drivers, season.documents)
      /\ IsWholeTableOf(Gathered.constructors, season.constructors, season.documents)
  <2>1. PICK reading : reading = run.readings[<<"season-participants">>]
    OBVIOUS
  <2>2. /\ <<"season-participants">> \in ReadAs("normalized")
        /\ PayloadOf("season-participants", NoParticipants) = reading.payload
    BY <2>1, HeldPayload DEF RequiredKinds
  <2>3. /\ reading.reading = "normalized"
        /\ reading = ReadParticipants(season.drivers, season.constructors, Season, PageLimit,
                                      registry, season.curated)
    BY <1>1, <2>1, <2>2, NormalizedReading, ReadingFacts DEF Tables
  <2>4. PICK first, second :
          /\ first = ReadIdentities(season.drivers, Season, PageLimit, "driver", registry,
                                    season.curated)
          /\ second = ReadIdentities(season.constructors, Season, PageLimit, "constructor",
                                     registry, season.curated)
    OBVIOUS
  <2>5. reading = IF first.reading # "normalized" THEN first
                  ELSE IF second.reading # "normalized" THEN second
                  ELSE Normalized([drivers |-> first.payload, constructors |-> second.payload,
                                   entries |-> ConstructorSeasonEntries(second.payload)])
    BY <2>3, <2>4 DEF ReadParticipants
  <2>6. /\ first.reading = "normalized" /\ second.reading = "normalized"
        /\ reading.payload.drivers = first.payload
        /\ reading.payload.constructors = second.payload
    BY <2>3, <2>5 DEF Normalized
  <2>7. Gathered.drivers = first.payload /\ Gathered.constructors = second.payload
    BY <2>2, <2>6 DEF Gathered
  <2>8. IsWholeTableOf(first.payload, season.drivers, documents)
    BY <1>1, <1>2, <2>4, <2>6, TableRead
  <2>9. IsWholeTableOf(second.payload, season.constructors, documents)
    BY <1>1, <1>2, <2>4, <2>6, TableRead
  <2>. QED BY <1>1, <2>7, <2>8, <2>9
<1>. QED BY <1>3, <1>4
(* A prepared season has all the provider counted, under names of one meaning. *)
LEMMA SeasonIsWholeInside ==
  ASSUME IntakeInv
  PROVE  SeasonIsWhole /\ NamesHaveOneMeaning
<1>1. SUFFICES ASSUME Prepared
               PROVE  SeasonIsWhole /\ NamesHaveOneMeaning
  BY DEF SeasonIsWhole, NamesHaveOneMeaning
<1>2. RequiredKinds \subseteq Gathered.selected
  BY <1>1, PreparedFacts
<1>3. /\ IsWholeTableOf(Source.drivers, season.drivers, season.documents)
      /\ IsWholeTableOf(Source.constructors, season.constructors, season.documents)
      /\ IsWholeTableOf(Source.circuits, season.circuits, season.documents)
  <2>1. /\ Source.drivers = Gathered.drivers /\ Source.constructors = Gathered.constructors
        /\ Source.circuits = Gathered.circuits
    BY DEF Source, SourceOf
  <2>. QED BY <1>2, <2>1, GatheredTables
<1>4. Cardinality(Source.calendar) = season.calendar.total
  <2>1. "season-calendar" \in Gathered.selected
    BY <1>2 DEF RequiredKinds
  <2>2. Cardinality(Gathered.calendar) = season.calendar.total
    BY <2>1, GatheredCalendar
  <2>3. PICK calendar : calendar = Source.calendar
    OBVIOUS
  <2>4. Cardinality(calendar) = Cardinality(Gathered.calendar)
    BY <2>3, SourceCalendar DEF Source
  <2>. QED BY <2>2, <2>3, <2>4
<1>5. SeasonIsWhole
  BY <1>3, <1>4 DEF SeasonIsWhole, IsWholeTableOf
<1>6. ASSUME Source.drivers \cup Source.constructors \cup Source.circuits # {}
      PROVE  KeysAreUnambiguous(season.documents)
  BY <1>3, <1>6 DEF IsWholeTableOf
<1>7. NamesHaveOneMeaning
  BY <1>6 DEF NamesHaveOneMeaning, KeysAreUnambiguous
<1>. QED BY <1>5, <1>7
(* A prepared season was read from a calendar that names every event once. *)
LEMMA EventsStandOnceInside ==
  ASSUME IntakeInv
  PROVE  EventsStandOnce
<1>1. SUFFICES ASSUME Prepared,
                      NEW i \in DOMAIN season.calendar.rows,
                      NEW j \in DOMAIN season.calendar.rows,
                      season.calendar.rows[i].raceName = season.calendar.rows[j].raceName,
                      season.calendar.rows[i].circuitId = season.calendar.rows[j].circuitId
               PROVE  i = j
  BY DEF EventsStandOnce
<1>2. PICK reading, registry :
        reading = run.readings[<<"season-calendar">>] /\ registry = Registry
  OBVIOUS
<1>3. <<"season-calendar">> \in ReadAs("normalized")
  <2>1. "season-calendar" \in RequiredKinds /\ RequiredKinds \subseteq Gathered.selected
    BY <1>1, PreparedFacts DEF RequiredKinds
  <2>. QED BY <2>1, HeldPayload
<1>4. /\ reading.reading = "normalized"
      /\ reading = ReadCalendar(season.calendar, Season, PageLimit, registry)
  BY <1>2, <1>3, NormalizedReading, ReadingFacts DEF Tables
<1>. QED BY <1>1, <1>4, EventsReadOnce

(* Every result of a candidate has all the rows the provider counted. *)
LEMMA ResultsAreWholeInside ==
  ASSUME IntakeInv
  PROVE  ResultsAreWhole
<1>1. Source.results = Gathered.classifications
  BY GatheredResults DEF Source
<1>2. \A c \in Gathered.classifications : IsWholeResult(c.rows, races[c.round].total)
  BY GatheredResults DEF IsClassification
<1>. QED BY <1>1, <1>2 DEF ResultsAreWhole

(* Tuples of different lengths are not each other. *)
LEMMA DocumentNames ==
  /\ \A a, b, c, d : <<a>> # <<b, c, d>>
  /\ \A a, b, c, d, e : <<a, b>> # <<c, d, e>>
  /\ \A a, b, c, d, e, f : <<a, b, c>> = <<d, e, f>> => a = d /\ b = e /\ c = f
<1>1. \A a, b, c, d : <<a>> # <<b, c, d>>
  OBVIOUS
<1>2. \A a, b, c, d, e : <<a, b>> # <<c, d, e>>
  OBVIOUS
<1>3. \A a, b, c, d, e, f : <<a, b, c>> = <<d, e, f>> => a = d /\ b = e /\ c = f
  OBVIOUS
<1>. QED BY <1>1, <1>2, <1>3

(* The results documents of a source are those of the rounds with results. *)
LEMMA ResultsDocuments ==
  ASSUME NEW source, NEW e \in source.calendar
  PROVE  <<"grand-prix", e.round, "results">> \in Documents(source)
           <=> \E c \in source.results : c.round = e.round
<1>. DEFINE name == <<"grand-prix", e.round, "results">>
<1>1. ASSUME NEW c \in source.results, c.round = e.round
      PROVE  name \in Documents(source)
  <2>1. name = <<"grand-prix", c.round, "results">>
        /\ c \in {d \in source.results : \E x \in source.calendar : x.round = d.round}
    BY <1>1
  <2>. QED BY <2>1 DEF Documents
<1>2. ASSUME name \in Documents(source)
      PROVE  \E c \in source.results : c.round = e.round
  <2>1. \/ \E x : name = <<x>>
        \/ \E x, y : name = <<x, y>>
        \/ \E c \in source.results : name = <<"grand-prix", c.round, "results">>
    BY <1>2 DEF Documents
  <2>. QED BY <2>1, DocumentNames
<1>. QED BY <1>1, <1>2
(* The documents of a candidate are those its flags announce. *)
LEMMA DocumentsFollowFlagsInside ==
  ASSUME IntakeInv
  PROVE  DocumentsFollowFlags
<1>1. SUFFICES ASSUME Prepared
               PROVE  DocumentsFollowFlags
  BY DEF DocumentsFollowFlags
<1>2. PICK source, C, rounds :
        source = Source /\ C = Gathered.classifications /\ rounds = Rounds(C)
  OBVIOUS
<1>3. Relations(source) = {}
  BY <1>1, <1>2, PreparedFacts DEF Source
<1>4. /\ \A e \in source.calendar : e.circuit \in source.circuits
      /\ \A c \in source.results : \A row \in c.rows :
           row.driver \in source.drivers /\ row.constructor \in source.constructors
  BY <1>3, RelationFacts
<1>5. /\ source.results = C /\ Observed(C) = C /\ rounds = {c.round : c \in C}
  BY <1>2, GatheredResults DEF Source
<1>6. ASSUME NEW e \in source.calendar
      PROVE  /\ e.hasResults = (<<"grand-prix", e.round, "results">> \in Documents(source))
             /\ <<"circuit", e.circuit>> \in Documents(source)
  <2>1. PICK calendar : calendar = source.calendar
    OBVIOUS
  <2>2. e.hasResults = (e.round \in rounds)
    BY <1>2, <2>1, SourceCalendar DEF Source
  <2>3. <<"grand-prix", e.round, "results">> \in Documents(source) <=> e.round \in rounds
    BY <1>5, ResultsDocuments
  <2>4. <<"circuit", e.circuit>> \in Documents(source)
    BY <1>4 DEF Documents
  <2>. QED BY <2>2, <2>3, <2>4
<1>7. ASSUME NEW f \in Facts(source.results)
      PROVE  {<<"driver", f.driver>>, <<"constructor", f.constructor>>} \subseteq Documents(source)
  <2>1. \E c \in source.results : \E row \in c.rows :
          f = [round |-> c.round, driver |-> row.driver, constructor |-> row.constructor]
    BY <1>5, <1>7 DEF Facts
  <2>2. f.driver \in source.drivers /\ f.constructor \in source.constructors
    BY <1>4, <2>1
  <2>. QED BY <2>2 DEF Documents
<1>. QED BY <1>2, <1>6, <1>7 DEF DocumentsFollowFlags
(* The types of the run and of its outcome. *)
LEMMA TypeOKInside ==
  ASSUME IntakeInv
  PROVE  TypeOK
<1>1. PICK assembly : assembly = Assembly(Gathered)
  OBVIOUS
<1>2. /\ assembly.complete \in BOOLEAN
      /\ assembly.complete = FALSE => assembly.gap \in Gaps
      /\ assembly.relations \subseteq RelationNames
  <2>1. Relations(SourceOf(Gathered)) \subseteq RelationNames
    BY RelationFacts
  <2>2. "result-entry-span" \in RelationNames
    BY DEF RelationNames
  <2>. QED BY <1>1, <2>1, <2>2, AssemblyFacts
<1>3. GapOf(assembly) \in Gaps
  BY <1>2 DEF GapOf, Gaps
<1>4. run.gap \in Gaps /\ run.relations \subseteq RelationNames /\ run.stage \in Stages
  BY <1>1, <1>2, <1>3 DEF IntakeInv, RunInv, OutcomeInv, Stages, Gaps
<1>5. run.gap # "none" <=> run.stage = "withheld"
  BY DEF IntakeInv, RunInv, OutcomeInv, Stages
<1>. QED BY <1>4, <1>5 DEF TypeOK, IntakeInv, WorldInv

(* A candidate is everything the provider counted, every event once, its results
   are whole, its documents are those its flags announce, under names of one meaning. *)
THEOREM CandidateStaysWhole ==
  Spec => []CandidateIsWhole
<1>1. IntakeInv => CandidateIsWhole
  BY TypeOKInside, SeasonIsWholeInside, EventsStandOnceInside, ResultsAreWholeInside,
     DocumentsFollowFlagsInside DEF CandidateIsWhole
<1>. QED BY <1>1, IntakeInvariant, PTL

-----------------------------------------------------------------------------
(* The chronology of a season. *)

(* What a chronology is made of: finitely many events, each of a round of its
   own, whose days are counted. *)
IsTimetable(events) ==
  /\ IsFiniteSet(events)
  /\ \A e \in events : e.round \in Nat /\ StartDay(e) \in Nat
  /\ \A e, f \in events : e.round = f.round => e = f

(* In the order of their rounds every event has a place, and a later place is a
   later round. *)
LEMMA RoundOrder ==
  ASSUME NEW R, IsTimetable(R), NEW D, D = InRoundOrder(R), NEW N, N = Cardinality(R)
  PROVE  /\ N \in Nat /\ DOMAIN D = 1 .. N
         /\ \A n \in 1 .. N : D[n] \in R
         /\ \A m, n \in 1 .. N : m < n => D[m].round < D[n].round
         /\ \A e \in R : \E n \in 1 .. N : D[n] = e
<1>. DEFINE S == {e.round : e \in R}
            before(e) == {f \in R : f.round < e.round}
<1>1. N \in Nat
  BY FS_CardinalityType DEF IsTimetable
<1>2. DOMAIN D = 1 .. N /\ \A n \in 1 .. N : D[n] = CHOOSE e \in R : Cardinality(before(e)) = n - 1
  BY DEF InRoundOrder
<1>3. S \in SUBSET Nat /\ IsFiniteSet(S) /\ Cardinality(S) = N
  <2>. DEFINE roundOf == [e \in R |-> e.round]
  <2>1. \A x, y \in R : roundOf[x] = roundOf[y] => x = y
    BY DEF IsTimetable
  <2>2. S = {roundOf[e] : e \in R} /\ roundOf = [e \in R |-> roundOf[e]] /\ S \in SUBSET Nat
    BY DEF IsTimetable
  <2>. HIDE DEF roundOf, S
  <2>. QED BY <2>1, <2>2, ImageCardinality DEF IsTimetable
<1>4. ASSUME NEW e \in R
      PROVE  /\ IsFiniteSet(before(e))
             /\ Cardinality(before(e)) = Cardinality({q \in S : q < e.round})
  <2>. DEFINE roundOf == [f \in before(e) |-> f.round]
  <2>1. IsFiniteSet(before(e))
    BY FS_Subset DEF IsTimetable
  <2>2. \A x, y \in before(e) : roundOf[x] = roundOf[y] => x = y
    BY DEF IsTimetable
  <2>3. /\ {q \in S : q < e.round} = {roundOf[f] : f \in before(e)}
        /\ roundOf = [f \in before(e) |-> roundOf[f]]
    OBVIOUS
  <2>. HIDE DEF roundOf, before
  <2>. QED BY <2>1, <2>2, <2>3, ImageCardinality
<1>5. ASSUME NEW n \in 1 .. N
      PROVE  D[n] \in R /\ Cardinality(before(D[n])) = n - 1
  <2>1. PICK r \in S : Cardinality({q \in S : q < r}) = n - 1
    <3>. HIDE DEF S
    <3>. QED BY <1>3, RoundOfRank
  <2>2. PICK e \in R : e.round = r
    OBVIOUS
  <2>3. Cardinality(before(e)) = n - 1
    BY <1>4, <2>1, <2>2
  <2>. HIDE DEF before
  <2>. QED BY <1>2, <2>3
<1>6. ASSUME NEW m \in 1 .. N, NEW n \in 1 .. N, m < n
      PROVE  D[m].round < D[n].round
  <2>1. SUFFICES ASSUME ~(D[m].round < D[n].round) PROVE FALSE
    OBVIOUS
  <2>2. D[m].round \in Nat /\ D[n].round \in Nat /\ \A f \in R : f.round \in Nat
    BY <1>5 DEF IsTimetable
  <2>3. before(D[n]) \in SUBSET before(D[m])
    BY <2>1, <2>2
  <2>4. Cardinality(before(D[n])) <= Cardinality(before(D[m]))
    <3>1. IsFiniteSet(before(D[m]))
      BY <1>4, <1>5
    <3>. HIDE DEF before
    <3>. QED BY <2>3, <3>1, FS_Subset
  <2>5. n - 1 <= m - 1
    BY <1>5, <2>4
  <2>. QED BY <1>1, <1>6, <2>5
<1>7. ASSUME NEW e \in R
      PROVE  \E n \in 1 .. N : D[n] = e
  <2>. DEFINE placed == {D[n] : n \in 1 .. N}
  <2>1. IsFiniteSet(1 .. N) /\ Cardinality(1 .. N) = N
    <3>1. PICK m \in Nat : m = N
      BY <1>1
    <3>2. IsFiniteSet(1 .. m) /\ Cardinality(1 .. m) = IF 1 > m THEN 0 ELSE m - 1 + 1
      BY FS_Interval
    <3>. QED BY <3>1, <3>2
  <2>2. \A m, n \in 1 .. N : D[m] = D[n] => m = n
    <3>1. SUFFICES ASSUME NEW m \in 1 .. N, NEW n \in 1 .. N, m # n PROVE D[m] # D[n]
      OBVIOUS
    <3>2. m < n \/ n < m
      BY <1>1, <3>1
    <3>3. D[m].round \in Nat /\ D[n].round \in Nat
      BY <1>5 DEF IsTimetable
    <3>. QED BY <1>6, <3>2, <3>3
  <2>3. D = [n \in 1 .. N |-> D[n]]
    BY <1>2 DEF InRoundOrder
  <2>4. Cardinality(placed) = N
    <3>1. PICK P : P = 1 .. N
      OBVIOUS
    <3>2. IsFiniteSet(P) /\ Cardinality(P) = N /\ D = [n \in P |-> D[n]]
          /\ \A m, n \in P : D[m] = D[n] => m = n
      BY <2>1, <2>2, <2>3, <3>1
    <3>3. Cardinality({D[n] : n \in P}) = Cardinality(P)
      BY <3>2, ImageCardinality
    <3>. QED BY <3>1, <3>2, <3>3
  <2>5. placed \in SUBSET R
    BY <1>5
  <2>6. placed = R
    <3>. HIDE DEF placed
    <3>. QED BY <2>4, <2>5, FS_Subset DEF IsTimetable
  <2>. QED BY <2>6
<1>. QED BY <1>1, <1>2, <1>5, <1>6, <1>7

(* A pass over the first of the events is defined: what is kept at a place
   depends on what was kept at the place before. *)
IsPass(pick, D, N) ==
  pick = [n \in 1 .. N |->
            IF n > 1 /\ ~StartsBefore(D[n], pick[n - 1]) THEN pick[n - 1] ELSE D[n]]
LEMMA PassExists ==
  ASSUME NEW N \in Nat, NEW D
  PROVE  \E pick : IsPass(pick, D, N)
<1>. DEFINE undefined == {k \in Nat : ~ \E f : IsPass(f, D, k)}
<1>1. SUFFICES ASSUME undefined # {} PROVE FALSE
  OBVIOUS
<1>2. PICK k \in undefined : \A j \in undefined : k <= j
  <2>1. undefined \in SUBSET Nat
    OBVIOUS
  <2>. HIDE DEF undefined
  <2>. QED BY <1>1, <2>1, LeastElement
<1>3. k # 0
  <2>1. IsPass([n \in 1 .. 0 |-> n], D, 0)
    BY DEF IsPass
  <2>. QED BY <2>1
<1>4. PICK g : IsPass(g, D, k - 1)
  <2>1. k - 1 \in Nat /\ ~(k <= k - 1)
    BY <1>3
  <2>2. k - 1 \notin undefined
    <3>. HIDE DEF undefined
    <3>. QED BY <1>2, <2>1
  <2>. QED BY <2>1, <2>2
<1>. DEFINE last == IF k > 1 /\ ~StartsBefore(D[k], g[k - 1]) THEN g[k - 1] ELSE D[k]
            f == [n \in 1 .. k |-> IF n = k THEN last ELSE g[n]]
<1>5. \A n \in 1 .. k : n # k => n \in 1 .. (k - 1) /\ f[n] = g[n]
  <2>. HIDE DEF last
  <2>. QED OBVIOUS
<1>6. f[k] = last
  <2>1. k \in 1 .. k
    BY <1>3
  <2>. HIDE DEF last
  <2>. QED BY <2>1
<1>7. \A n \in 1 .. k : n > 1 => f[n - 1] = g[n - 1]
  <2>1. \A n \in 1 .. k : n > 1 => n - 1 \in 1 .. k /\ n - 1 # k
    OBVIOUS
  <2>. HIDE DEF f
  <2>. QED BY <1>5, <2>1
<1>8. \A n \in 1 .. (k - 1) :
        g[n] = IF n > 1 /\ ~StartsBefore(D[n], g[n - 1]) THEN g[n - 1] ELSE D[n]
  BY <1>4 DEF IsPass
<1>9. ASSUME NEW n \in 1 .. k
      PROVE  f[n] = IF n > 1 /\ ~StartsBefore(D[n], f[n - 1]) THEN f[n - 1] ELSE D[n]
  <2>. HIDE DEF f
  <2>1. CASE n = k
    BY <1>6, <1>7, <2>1
  <2>2. CASE n # k
    BY <1>5, <1>7, <1>8, <2>2
  <2>. QED BY <2>1, <2>2
<1>10. f = [n \in 1 .. k |-> f[n]]
  OBVIOUS
<1>11. IsPass(f, D, k)
  <2>. HIDE DEF f
  <2>. QED BY <1>9, <1>10 DEF IsPass
<1>. QED BY <1>11

(* The pass is the one the definition makes. *)
LEMMA PickedUnfolds ==
  ASSUME NEW R, IsTimetable(R), NEW D, D = InRoundOrder(R), NEW N, N = Cardinality(R)
  PROVE  \E pick : IsPass(pick, D, N) /\ Picked(R) = pick[N]
<1>. DEFINE pass == CHOOSE f : IsPass(f, D, N)
<1>1. N \in Nat /\ DOMAIN D = 1 .. N
  BY RoundOrder
<1>2. \E f : IsPass(f, D, N)
  BY <1>1, PassExists
<1>3. IsPass(pass, D, N)
  BY <1>2
<1>4. Picked(R) = pass[N]
  BY <1>1 DEF Picked, IsPass
<1>. HIDE DEF pass
<1>. QED BY <1>3, <1>4

(* What a pass ends with is one of those it went over, and when it has a day no
   other has an earlier one: an event without a day is only ever kept when it is
   the first. *)
LEMMA PickedIsEarliest ==
  ASSUME NEW R, IsTimetable(R), R # {}
  PROVE  /\ Picked(R) \in R
         /\ \A e \in R : StartDay(Picked(R)) # NoDay /\ StartDay(e) # NoDay
                           => StartDay(Picked(R)) <= StartDay(e)
<1>1. PICK D, N : D = InRoundOrder(R) /\ N = Cardinality(R)
  OBVIOUS
<1>2. /\ N \in Nat /\ N # 0
      /\ \A n \in 1 .. N : D[n] \in R
      /\ \A m, n \in 1 .. N : m < n => D[m].round < D[n].round
      /\ \A e \in R : \E n \in 1 .. N : D[n] = e
  <2>1. N # 0
    BY <1>1, FS_EmptySet DEF IsTimetable
  <2>. QED BY <1>1, <2>1, RoundOrder
<1>3. PICK pick : IsPass(pick, D, N) /\ Picked(R) = pick[N]
  BY <1>1, PickedUnfolds
<1>. DEFINE keeps(n) == /\ \E m \in 1 .. n : pick[n] = D[m]
                        /\ StartDay(pick[n]) # NoDay =>
                             \A m \in 1 .. n : StartDay(D[m]) # NoDay =>
                               StartDay(pick[n]) <= StartDay(D[m])
                        /\ StartDay(pick[n]) = NoDay => pick[n] = D[1]
            wrong == {n \in 1 .. N : ~keeps(n)}
<1>4. wrong = {}
  <2>1. SUFFICES ASSUME wrong # {} PROVE FALSE
    OBVIOUS
  <2>2. PICK n \in wrong : \A m \in wrong : n <= m
    <3>1. wrong \in SUBSET Nat
      BY <1>2
    <3>. HIDE DEF wrong
    <3>. QED BY <2>1, <3>1, LeastElement
  <2>3. n \in 1 .. N /\ ~keeps(n) /\ n \in Nat
    BY <1>2
  <2>4. \A m \in 1 .. N : StartDay(D[m]) \in Nat /\ D[m].round \in Nat
    BY <1>2 DEF IsTimetable
  <2>5. pick[n] = IF n > 1 /\ ~StartsBefore(D[n], pick[n - 1]) THEN pick[n - 1] ELSE D[n]
    BY <1>3, <2>3 DEF IsPass
  <2>6. n # 1
    <3>1. SUFFICES ASSUME n = 1 PROVE keeps(1)
      BY <2>3
    <3>2. pick[1] = D[1]
      BY <2>5, <3>1
    <3>3. \A m \in 1 .. 1 : m = 1
      OBVIOUS
    <3>4. StartDay(D[1]) \in Nat
      BY <1>2, <2>4
    <3>. QED BY <3>2, <3>3, <3>4
  <2>7. n - 1 \in 1 .. N /\ n > 1 /\ \A m \in 1 .. (n - 1) : m \in 1 .. N /\ m < n /\ m \in 1 .. n
    BY <1>2, <2>3, <2>6
  <2>8. keeps(n - 1)
    <3>1. n - 1 \notin wrong
      BY <2>2, <2>3
    <3>. HIDE DEF keeps
    <3>. QED BY <2>7, <3>1
  <2>9. PICK k \in 1 .. (n - 1) : pick[n - 1] = D[k]
    BY <2>8
  <2>10. /\ StartDay(D[n]) \in Nat /\ StartDay(D[k]) \in Nat
         /\ D[k].round < D[n].round /\ D[k].round \in Nat /\ D[n].round \in Nat
    BY <1>2, <2>3, <2>4, <2>7
  <2>11. ~(D[n].round < D[k].round)
    BY <2>10
  <2>12. \A m \in 1 .. n : m = n \/ m \in 1 .. (n - 1)
    BY <2>3
  <2>13. \A m \in 1 .. n : StartDay(D[m]) \in Nat
    BY <2>4, <2>7, <2>12
  <2>14. CASE StartsBefore(D[n], pick[n - 1])
    <3>1. pick[n] = D[n]
      BY <2>5, <2>14
    <3>2. /\ StartDay(D[n]) # NoDay /\ StartDay(D[k]) # NoDay
          /\ StartDay(D[n]) < StartDay(D[k])
      BY <2>9, <2>11, <2>14 DEF StartsBefore, Precedes
    <3>3. \A m \in 1 .. (n - 1) : StartDay(D[m]) # NoDay => StartDay(D[k]) <= StartDay(D[m])
      BY <2>8, <2>9, <3>2
    <3>4. \A m \in 1 .. n : StartDay(D[m]) # NoDay => StartDay(D[n]) <= StartDay(D[m])
      BY <2>10, <2>12, <2>13, <3>2, <3>3
    <3>. QED BY <2>3, <3>1, <3>2, <3>4
  <2>15. CASE ~StartsBefore(D[n], pick[n - 1])
    <3>1. pick[n] = D[k]
      BY <2>5, <2>7, <2>9, <2>15
    <3>2. StartDay(D[n]) # NoDay /\ StartDay(D[k]) # NoDay => StartDay(D[k]) <= StartDay(D[n])
      BY <2>9, <2>10, <2>15 DEF StartsBefore, Precedes
    <3>3. StartDay(D[k]) # NoDay => \A m \in 1 .. n : StartDay(D[m]) # NoDay =>
                                      StartDay(D[k]) <= StartDay(D[m])
      BY <2>8, <2>9, <2>12, <3>2
    <3>4. StartDay(D[k]) = NoDay => D[k] = D[1]
      BY <2>8, <2>9
    <3>5. \E m \in 1 .. n : pick[n] = D[m]
      BY <2>7, <3>1
    <3>. QED BY <2>3, <3>1, <3>3, <3>4, <3>5
  <2>. QED BY <2>14, <2>15
<1>5. keeps(N)
  <2>1. N \in 1 .. N
    BY <1>2
  <2>. HIDE DEF keeps
  <2>. QED BY <1>4, <2>1
<1>. QED BY <1>2, <1>3, <1>5

(* Fewer events are a timetable, too. *)
LEMMA FewerEvents ==
  ASSUME NEW R, IsTimetable(R), NEW T \in SUBSET R
  PROVE  IsTimetable(T)
BY FS_Subset DEF IsTimetable

(* One pass after the other is defined: a pass goes over what those before have
   left. *)
IsRest(rest, C, N) ==
  rest = [n \in 1 .. N |-> IF n = 1 THEN C ELSE rest[n - 1] \ {Picked(rest[n - 1])}]
LEMMA RestExists ==
  ASSUME NEW C, NEW N \in Nat
  PROVE  \E rest : IsRest(rest, C, N)
<1>. DEFINE undefined == {k \in Nat : ~ \E f : IsRest(f, C, k)}
<1>1. SUFFICES ASSUME undefined # {} PROVE FALSE
  OBVIOUS
<1>2. PICK k \in undefined : \A j \in undefined : k <= j
  <2>1. undefined \in SUBSET Nat
    OBVIOUS
  <2>. HIDE DEF undefined
  <2>. QED BY <1>1, <2>1, LeastElement
<1>3. k # 0
  <2>1. IsRest([n \in 1 .. 0 |-> n], C, 0)
    BY DEF IsRest
  <2>. QED BY <2>1
<1>4. PICK g : IsRest(g, C, k - 1)
  <2>1. k - 1 \in Nat /\ ~(k <= k - 1)
    BY <1>3
  <2>2. k - 1 \notin undefined
    <3>. HIDE DEF undefined
    <3>. QED BY <1>2, <2>1
  <2>. QED BY <2>1, <2>2
<1>. DEFINE last == IF k = 1 THEN C ELSE g[k - 1] \ {Picked(g[k - 1])}
            f == [n \in 1 .. k |-> IF n = k THEN last ELSE g[n]]
<1>5. \A n \in 1 .. k : n # k => n \in 1 .. (k - 1) /\ f[n] = g[n]
  <2>. HIDE DEF last
  <2>. QED OBVIOUS
<1>6. f[k] = last
  <2>1. k \in 1 .. k
    BY <1>3
  <2>. HIDE DEF last
  <2>. QED BY <2>1
<1>7. \A n \in 1 .. k : n # 1 => f[n - 1] = g[n - 1]
  <2>1. \A n \in 1 .. k : n # 1 => n - 1 \in 1 .. k /\ n - 1 # k
    OBVIOUS
  <2>. HIDE DEF f
  <2>. QED BY <1>5, <2>1
<1>8. \A n \in 1 .. (k - 1) : g[n] = IF n = 1 THEN C ELSE g[n - 1] \ {Picked(g[n - 1])}
  BY <1>4 DEF IsRest
<1>9. ASSUME NEW n \in 1 .. k
      PROVE  f[n] = IF n = 1 THEN C ELSE f[n - 1] \ {Picked(f[n - 1])}
  <2>. HIDE DEF f
  <2>1. CASE n = k
    BY <1>6, <1>7, <2>1
  <2>2. CASE n # k
    BY <1>5, <1>7, <1>8, <2>2
  <2>. QED BY <2>1, <2>2
<1>10. f = [n \in 1 .. k |-> f[n]]
  OBVIOUS
<1>11. IsRest(f, C, k)
  <2>. HIDE DEF f
  <2>. QED BY <1>9, <1>10 DEF IsRest
<1>. QED BY <1>11

(* The passes are those the definition makes. *)
LEMMA OrderUnfolds ==
  ASSUME NEW C, NEW N \in Nat, N = Cardinality(C)
  PROVE  \E rest : IsRest(rest, C, N) /\ OrderByStart(C) = [n \in 1 .. N |-> Picked(rest[n])]
<1>. DEFINE rest == CHOOSE f : IsRest(f, C, N)
<1>1. \E f : IsRest(f, C, N)
  BY RestExists
<1>2. IsRest(rest, C, N)
  BY <1>1
<1>3. OrderByStart(C) = [n \in 1 .. N |-> Picked(rest[n])]
  BY DEF OrderByStart, IsRest
<1>. HIDE DEF rest
<1>. QED BY <1>2, <1>3

(* The order has every event once and for all, and of two events with a day the
   earlier stands first. *)
LEMMA OrderedByStart ==
  ASSUME NEW C, IsTimetable(C), NEW order, order = OrderByStart(C)
  PROVE  /\ order \in Seq(C)
         /\ \A i, j \in DOMAIN order :
              i < j /\ StartDay(order[i]) # NoDay /\ StartDay(order[j]) # NoDay
                => StartDay(order[i]) <= StartDay(order[j])
         /\ \A e \in C : \E i \in DOMAIN order : order[i] = e
<1>1. PICK N \in Nat : N = Cardinality(C)
  BY FS_CardinalityType DEF IsTimetable
<1>2. PICK rest :
        /\ IsRest(rest, C, N)
        /\ order = [n \in 1 .. N |-> Picked(rest[n])]
  BY <1>1, OrderUnfolds
<1>3. \A n \in 1 .. N : /\ rest[n] = IF n = 1 THEN C ELSE rest[n - 1] \ {Picked(rest[n - 1])}
                        /\ order[n] = Picked(rest[n])
  BY <1>2 DEF IsRest
<1>. DEFINE left(n) == /\ rest[n] \in SUBSET C
                       /\ Cardinality(rest[n]) = N - n + 1
                       /\ \A m \in 1 .. n : rest[n] \in SUBSET rest[m]
                       /\ \A e \in C \ rest[n] : \E m \in 1 .. (n - 1) : order[m] = e
            wrong == {n \in 1 .. N : ~left(n)}
<1>4. \A n \in 1 .. N : left(n) => /\ IsTimetable(rest[n]) /\ rest[n] # {}
                                   /\ order[n] \in rest[n] /\ order[n] \in C
  <2>1. SUFFICES ASSUME NEW n \in 1 .. N, left(n)
                 PROVE  /\ IsTimetable(rest[n]) /\ rest[n] # {}
                        /\ order[n] \in rest[n] /\ order[n] \in C
    OBVIOUS
  <2>2. IsTimetable(rest[n])
    BY <2>1, FewerEvents
  <2>3. rest[n] # {}
    BY <2>1, FS_EmptySet
  <2>. HIDE DEF left
  <2>4. order[n] \in rest[n]
    <3>1. Picked(rest[n]) \in rest[n]
      BY <2>2, <2>3, PickedIsEarliest
    <3>. QED BY <1>3, <2>1, <3>1
  <2>. QED BY <2>1, <2>2, <2>3, <2>4 DEF left
<1>5. wrong = {}
  <2>1. SUFFICES ASSUME wrong # {} PROVE FALSE
    OBVIOUS
  <2>2. PICK n \in wrong : \A m \in wrong : n <= m
    <3>1. wrong \in SUBSET Nat
      OBVIOUS
    <3>. HIDE DEF wrong
    <3>. QED BY <2>1, <3>1, LeastElement
  <2>3. n \in 1 .. N /\ ~left(n) /\ n \in Nat
    <3>. HIDE DEF left
    <3>. QED OBVIOUS
  <2>. HIDE DEF wrong
  <2>4. n # 1
    <3>1. SUFFICES ASSUME n = 1 PROVE left(1)
      BY <2>3
    <3>2. rest[1] = C
      BY <1>3, <2>3, <3>1
    <3>3. \A m \in 1 .. 1 : m = 1
      OBVIOUS
    <3>. QED BY <1>1, <3>2, <3>3
  <2>5. PICK k \in 1 .. N : k = n - 1 /\ k \in Nat /\ n = k + 1
    BY <2>3, <2>4
  <2>6. left(k)
    <3>1. k \notin wrong
      BY <2>2, <2>5
    <3>. HIDE DEF left
    <3>. QED BY <3>1 DEF wrong
  <2>7. /\ IsTimetable(rest[k]) /\ order[k] \in rest[k] /\ order[k] \in C
    <3>. HIDE DEF left
    <3>. QED BY <1>4, <2>6
  <2>8. rest[n] = rest[k] \ {order[k]}
    BY <1>3, <2>3, <2>4, <2>5
  <2>9. Cardinality(rest[n]) = N - n + 1
    <3>1. Cardinality(rest[n]) = Cardinality(rest[k]) - 1
      BY <2>7, <2>8, FS_RemoveElement DEF IsTimetable
    <3>2. Cardinality(rest[k]) = N - k + 1
      BY <2>6
    <3>3. N - k + 1 - 1 = N - n + 1
      BY <2>5
    <3>. QED BY <3>1, <3>2, <3>3
  <2>10. \A m \in 1 .. n : rest[n] \in SUBSET rest[m]
    <3>1. \A m \in 1 .. k : rest[k] \in SUBSET rest[m]
      BY <2>6
    <3>2. \A m \in 1 .. n : m = n \/ m \in 1 .. k
      BY <2>5
    <3>. QED BY <2>8, <3>1, <3>2
  <2>11. \A e \in C \ rest[n] : \E m \in 1 .. (n - 1) : order[m] = e
    <3>1. \A e \in C \ rest[k] : \E m \in 1 .. (k - 1) : order[m] = e
      BY <2>6
    <3>2. k \in 1 .. (n - 1) /\ \A m \in 1 .. (k - 1) : m \in 1 .. (n - 1)
      BY <2>5
    <3>. QED BY <2>8, <3>1, <3>2
  <2>12. rest[n] \in SUBSET C
    BY <2>6, <2>8
  <2>. QED BY <2>3, <2>9, <2>10, <2>11, <2>12
<1>6. \A n \in 1 .. N : left(n)
  <2>. HIDE DEF left
  <2>. QED BY <1>5
<1>7. \A n \in 1 .. N : /\ IsTimetable(rest[n]) /\ rest[n] # {}
                        /\ order[n] \in rest[n] /\ order[n] \in C
  <2>. HIDE DEF left
  <2>. QED BY <1>4, <1>6
<1>8. order \in Seq(C) /\ DOMAIN order = 1 .. N
  <2>1. DOMAIN order = 1 .. N /\ order = [n \in 1 .. N |-> order[n]]
    BY <1>2
  <2>2. \A n \in 1 .. N : order[n] \in C
    BY <1>7
  <2>. QED BY <2>1, <2>2
<1>9. ASSUME NEW i \in 1 .. N, NEW j \in 1 .. N, i < j,
             StartDay(order[i]) # NoDay, StartDay(order[j]) # NoDay
      PROVE  StartDay(order[i]) <= StartDay(order[j])
  <2>1. i \in 1 .. j
    BY <1>9
  <2>2. order[j] \in rest[i]
    BY <1>6, <1>7, <2>1
  <2>3. order[i] = Picked(rest[i]) /\ IsTimetable(rest[i]) /\ rest[i] # {}
    BY <1>3, <1>7
  <2>. QED BY <1>9, <2>2, <2>3, PickedIsEarliest
<1>10. ASSUME NEW e \in C
       PROVE  \E i \in 1 .. N : order[i] = e
  <2>1. N # 0
    BY <1>1, FS_EmptySet DEF IsTimetable
  <2>2. N \in 1 .. N /\ N - N + 1 = 1 /\ \A m \in 1 .. (N - 1) : m \in 1 .. N
    BY <1>1, <2>1
  <2>3. CASE e \in rest[N]
    <3>1. Cardinality(rest[N]) = 1 /\ IsFiniteSet(rest[N])
      BY <1>6, <1>7, <2>2 DEF IsTimetable
    <3>2. PICK x : rest[N] = {x}
      BY <3>1, FS_Singleton
    <3>3. order[N] \in rest[N]
      BY <1>7, <2>2
    <3>. QED BY <2>2, <2>3, <3>2, <3>3
  <2>4. CASE e \notin rest[N]
    <3>1. \E m \in 1 .. (N - 1) : order[m] = e
      BY <1>6, <2>2, <2>4
    <3>. QED BY <2>2, <3>1
  <2>. QED BY <2>3, <2>4
<1>. QED BY <1>8, <1>9, <1>10

(* The starts of the sessions of a calendar that is read are counted. *)
HasCountedStarts(rows) ==
  \A i \in DOMAIN rows :
    rows[i].start \in Nat /\ \A block \in DOMAIN rows[i].sessions : rows[i].sessions[block] \in Nat
LEMMA StartsRead ==
  ASSUME NEW answer, NEW s, NEW requested, NEW registry, HasCountedStarts(answer.rows),
         NEW reading, reading = ReadCalendar(answer, s, requested, registry),
         reading.reading = "normalized", NEW e \in reading.payload, NEW x \in e.sessions
  PROVE  x.start \in Nat
<1>1. reading.payload = {EventOf(row, s, registry) : row \in RowsOf(answer)}
  BY DEF ReadCalendar, Unreadable, Unmapped, Normalized
<1>2. PICK row \in RowsOf(answer) : e = EventOf(row, s, registry)
  BY <1>1
<1>3. row.start \in Nat /\ \A block \in DOMAIN row.sessions : row.sessions[block] \in Nat
  BY DEF RowsOf, HasCountedStarts
<1>4. x \in SessionsFor(row)
  BY <1>2 DEF EventOf
<1>. QED BY <1>3, <1>4 DEF SessionsFor

(* The calendar of a source is a timetable: its sessions are those of a curated
   schedule or of the calendar read, and no event comes with days of its own. *)
LEMMA SourceTimetable ==
  ASSUME IntakeInv, NEW calendar, calendar = Source.calendar
  PROVE  /\ IsTimetable(calendar)
         /\ \A e \in calendar : RaceStart(e) \in Nat
<1>1. ASSUME NEW e \in Gathered.calendar, NEW x \in e.sessions
      PROVE  x.start \in Nat
  <2>1. <<"season-calendar">> \in ReadAs("normalized")
    BY <1>1 DEF Gathered, PayloadOf
  <2>2. PICK reading, answer, registry :
          /\ reading = run.readings[<<"season-calendar">>] /\ answer = season.calendar
          /\ registry = Registry
    OBVIOUS
  <2>3. reading.reading = "normalized" /\ reading = ReadCalendar(answer, Season, PageLimit, registry)
    BY <2>1, <2>2, NormalizedReading, ReadingFacts DEF Tables
  <2>4. HasCountedStarts(answer.rows)
    BY <2>2, IntakeAssumption DEF IntakeInv, WorldInv, HasCountedStarts
  <2>5. Gathered.calendar = reading.payload
    BY <2>1, <2>2 DEF Gathered, PayloadOf
  <2>. QED BY <1>1, <2>3, <2>4, <2>5, StartsRead
<1>2. \A r \in DOMAIN season.schedules : \A x \in season.schedules[r] : x.start \in Nat
  BY IntakeAssumption DEF IntakeInv, WorldInv
<1>3. /\ \A e \in calendar : /\ e.round \in 1 .. LastRound /\ e.startDay = 0 /\ e.endDay = 0
                             /\ \A x \in e.sessions : x.start \in Nat
      /\ \A e, f \in calendar : e.round = f.round => e = f
      /\ IsFiniteSet(calendar)
  <2>1. calendar = SourceOf(Gathered).calendar
    BY DEF Source
  <2>2. ASSUME NEW e \in calendar
        PROVE  /\ e.round \in 1 .. LastRound /\ e.startDay = 0 /\ e.endDay = 0
               /\ \A x \in e.sessions : x.start \in Nat
    <3>1. PICK x \in Gathered.calendar :
            /\ e.round \in 1 .. LastRound /\ e.startDay = 0 /\ e.endDay = 0
            /\ e.sessions = IF e.round \in DOMAIN season.schedules
                            THEN season.schedules[e.round] ELSE x.sessions
      BY <2>1, SourceCalendar
    <3>. QED BY <1>1, <1>2, <3>1
  <2>. QED BY <2>1, <2>2, SourceCalendar
<1>4. ASSUME NEW e \in calendar
      PROVE  RaceStart(e) \in Nat /\ StartDay(e) \in Nat
  <2>. DEFINE startable == {x \in e.sessions :
                              x.type = "race" /\ x.status # "cancelled" /\ x.start # NoStart}
  <2>1. RaceStart(e) = IF startable = {} THEN NoStart ELSE (CHOOSE x \in startable : TRUE).start
    BY DEF RaceStart
  <2>2. RaceStart(e) \in Nat
    <3>1. CASE startable = {}
      BY <2>1, <3>1 DEF NoStart
    <3>2. CASE startable # {}
      <4>1. (CHOOSE x \in startable : TRUE) \in startable
        BY <3>2
      <4>. QED BY <1>3, <2>1, <3>2, <4>1
    <3>. QED BY <3>1, <3>2
  <2>3. StartDay(e) = IF RaceStart(e) # NoStart THEN RaceStart(e) \div 2 ELSE 0
    BY <1>3 DEF StartDay, DayOf, NoDay
  <2>4. \A n \in Nat : n \div 2 \in Nat
    OBVIOUS
  <2>. HIDE DEF startable
  <2>. QED BY <2>2, <2>3, <2>4
<1>5. \A e \in calendar : e.round \in Nat
  BY <1>3
<1>. QED BY <1>3, <1>4, <1>5 DEF IsTimetable

(* The events ahead are those of the calendar that are, in order, and none is
   settled. *)
LEMMA TimelineFacts ==
  ASSUME IntakeInv, NEW calendar, calendar = Source.calendar
  PROVE  \E candidates \in SUBSET calendar :
           /\ Timeline.ahead = OrderByStart(candidates)
           /\ IsTimetable(candidates)
           /\ \A e \in candidates : ~IsSettled(e)
           /\ \A e \in calendar : ~IsSettled(e) /\ RaceStart(e) # NoStart /\ RaceStart(e) > run.at
                                    => e \in candidates
           /\ Timeline.ahead # <<>> => Timeline.featured = <<Head(Timeline.ahead)>>
<1>. DEFINE horizon == HorizonRound(calendar, run.at)
            candidates == {e \in calendar :
                             ~IsSettled(e) /\ (e.status # "unknown" \/ IsAhead(e, run.at, horizon))}
<1>1. Timeline.ahead = OrderByStart(candidates)
  BY DEF Timeline, Chronology
<1>2. Timeline.ahead # <<>> => Timeline.featured = <<Head(Timeline.ahead)>>
  BY DEF Timeline, Chronology
<1>3. \A e \in calendar : ~IsSettled(e) /\ RaceStart(e) # NoStart /\ RaceStart(e) > run.at
                            => e \in candidates
  BY DEF IsAhead
<1>4. candidates \in SUBSET calendar /\ \A e \in candidates : ~IsSettled(e)
  OBVIOUS
<1>. HIDE DEF candidates
<1>5. IsTimetable(candidates)
  BY <1>4, SourceTimetable, FewerEvents
<1>. QED BY <1>1, <1>2, <1>3, <1>4, <1>5

(* The chronology of a candidate is in order and complete. *)
LEMMA ChronologyHoldsInside ==
  ASSUME IntakeInv
  PROVE  ChronologyHolds
<1>1. PICK calendar, ahead : calendar = Source.calendar /\ ahead = Timeline.ahead
  OBVIOUS
<1>2. PICK candidates \in SUBSET calendar :
        /\ ahead = OrderByStart(candidates)
        /\ IsTimetable(candidates)
        /\ \A e \in candidates : ~IsSettled(e)
        /\ \A e \in calendar : ~IsSettled(e) /\ RaceStart(e) # NoStart /\ RaceStart(e) > run.at
                                 => e \in candidates
        /\ ahead # <<>> => Timeline.featured = <<Head(ahead)>>
  BY <1>1, TimelineFacts
<1>3. /\ ahead \in Seq(candidates)
      /\ \A i, j \in DOMAIN ahead :
           i < j /\ StartDay(ahead[i]) # NoDay /\ StartDay(ahead[j]) # NoDay
             => StartDay(ahead[i]) <= StartDay(ahead[j])
      /\ \A e \in candidates : \E i \in DOMAIN ahead : ahead[i] = e
  BY <1>2, OrderedByStart
<1>4. AheadInDateOrder
  BY <1>1, <1>3 DEF AheadInDateOrder
<1>5. NothingIsLost
  <2>1. SUFFICES ASSUME Prepared
                 PROVE  /\ \A e \in calendar :
                             \/ IsSettled(e) \/ IsBehind(e, run.at) \/ RaceStart(e) = NoStart
                             \/ \E i \in DOMAIN ahead : ahead[i] = e
                        /\ ahead # <<>> => ~IsSettled(Timeline.featured[1])
    BY <1>1 DEF NothingIsLost
  <2>2. run.at \in Nat
    BY <2>1 DEF Prepared, IntakeInv, OutcomeInv
  <2>3. ASSUME NEW e \in calendar, ~IsSettled(e), ~IsBehind(e, run.at), RaceStart(e) # NoStart
        PROVE  \E i \in DOMAIN ahead : ahead[i] = e
    <3>1. ~(RaceStart(e) <= run.at)
      BY <2>3 DEF IsBehind
    <3>2. RaceStart(e) > run.at
      BY <1>1, <2>2, <3>1, SourceTimetable
    <3>. QED BY <1>2, <1>3, <2>3, <3>2
  <2>4. ASSUME ahead # <<>>
        PROVE  ~IsSettled(Timeline.featured[1])
    <3>1. Head(ahead) \in candidates
      BY <1>3, <2>4
    <3>2. Timeline.featured[1] = Head(ahead)
      BY <1>2, <2>4
    <3>. QED BY <1>2, <3>1, <3>2
  <2>. QED BY <2>3, <2>4
<1>. QED BY <1>4, <1>5 DEF ChronologyHolds

(* The events ahead of a candidate stand in the order of their days, whatever the
   rounds, and none with a start that is still to come is left out. *)
THEOREM TimelineIsInOrder ==
  Spec => []ChronologyHolds
<1>1. IntakeInv => ChronologyHolds
  BY ChronologyHoldsInside
<1>. QED BY <1>1, IntakeInvariant, PTL
=============================================================================
