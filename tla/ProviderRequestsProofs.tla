------------------------ MODULE ProviderRequestsProofs ------------------------
(* The reservation engine is exact for every set of windows, and the object    *)
(* that runs it holds every run to its windows and its holds.  What the object *)
(* has pruned is outside every window, and a request leaves only on a grant    *)
(* nothing else can use.  The answers of a run claim exactly the requests that *)
(* left it, so the coordinator's account of them is exact and its checks are   *)
(* of requests the run made.                                                   *)
EXTENDS ProviderRequests, FiniteSetTheorems, SequenceTheorems, WellFoundedInduction, TLAPS

-----------------------------------------------------------------------------
(* Sets of integers and their cardinalities.                                   *)

LEMMA GreatestOfFinite ==
  ASSUME NEW S, S \subseteq Int, IsFiniteSet(S), S # {}
  PROVE  \E m \in S : \A k \in S : k <= m
<1> DEFINE above(i) == {j \in S : j > i}
           T == {above(i) : i \in S}
<1>1. IsWellFoundedOn(StrictSubsetOrdering(S), FiniteSubsetsOf(S))
  BY FS_StrictSubsetOrderingWellFounded
<1>2. FiniteSubsetsOf(S) = SUBSET S
  BY FS_FiniteSubsetsOfFinite
<1>3. T \subseteq SUBSET S /\ T # {}
  OBVIOUS
<1>4. PICK X \in T : \A Y \in T : ~ (<<Y, X>> \in StrictSubsetOrdering(S))
  <2>1. IsWellFoundedOn(StrictSubsetOrdering(S), SUBSET S)
    BY <1>1, <1>2
  <2> HIDE DEF T
  <2>. QED BY <2>1, <1>3, WFMin
<1>5. PICK i \in S : X = above(i)
  BY <1>4
<1>6. ASSUME NEW j \in S, ~(j <= i) PROVE FALSE
  <2>0. i \in Int /\ j \in Int /\ j > i /\ ~(j > j)
    BY <1>6
  <2>1. j \in above(i) /\ j \notin above(j)
    BY <1>6, <2>0
  <2>2. \A k \in S : k > j => k > i
    BY <2>0
  <2>3. above(j) \subseteq above(i) /\ above(i) \subseteq S
    BY <2>2
  <2>4. above(j) \in T
    BY <1>6
  <2> HIDE DEF above, T
  <2>5. <<above(j), above(i)>> \in StrictSubsetOrdering(S)
    BY <2>1, <2>3 DEF StrictSubsetOrdering
  <2>. QED BY <1>4, <1>5, <2>4, <2>5
<1>. QED BY <1>5, <1>6

(* What one more element makes of a sequence.                                  *)
LEMMA AppendFacts ==
  ASSUME NEW S, NEW s \in Seq(S), NEW e \in S
  PROVE  /\ Append(s, e) \in Seq(S) /\ Len(Append(s, e)) = Len(s) + 1 /\ Len(s) \in Nat
         /\ DOMAIN s = 1 .. Len(s) /\ DOMAIN Append(s, e) = 1 .. (Len(s) + 1)
         /\ \A i \in 1 .. Len(s) : Append(s, e)[i] = s[i]
         /\ Append(s, e)[Len(s) + 1] = e
         /\ SubSeq(Append(s, e), 1, Len(s)) = s
<1> DEFINE t == Append(s, e)
           n == Len(s)
           front == SubSeq(t, 1, n)
<1>1. /\ t \in Seq(S) /\ Len(t) = n + 1
      /\ \A i \in 1 .. n : t[i] = s[i]
      /\ t[n + 1] = e
  BY AppendProperties
<1>2. n \in Nat /\ DOMAIN s = 1 .. n
  BY LenProperties
<1>3. DOMAIN t = 1 .. Len(t)
  <2> HIDE DEF t
  <2>. QED BY <1>1, LenProperties
<1>4. \A i \in 1 .. n : s[i] \in S
  BY ElementOfSeq
<1>5. \A i \in 1 .. n : t[i] \in S
  <2> HIDE DEF t, n
  <2>. QED BY <1>1, <1>4
<1> HIDE DEF t, n
<1>6. front \in Seq(S) /\ Len(front) = n /\ \A i \in 1 .. n : front[i] = t[i]
  <2>1. 1 \in Int /\ n \in Int
    BY <1>2
  <2>2. /\ front \in Seq(S) /\ Len(front) = IF 1 <= n THEN n - 1 + 1 ELSE 0
        /\ \A i \in 1 .. n - 1 + 1 : front[i] = t[1 + i - 1]
    BY <1>5, <2>1, SubSeqProperties
  <2> HIDE DEF front
  <2>. QED BY <1>2, <2>2
<1>7. front = s
  <2>1. \A i \in 1 .. n : front[i] = s[i]
    BY <1>1, <1>6
  <2>2. Len(s) = n
    BY DEF n
  <2> HIDE DEF front
  <2>. QED BY <1>6, <2>1, <2>2, SeqEqual
<1>. QED BY <1>1, <1>2, <1>3, <1>7 DEF t, n

LEMMA LongestWindow ==
  Longest \in Nat /\ \A w \in Windows : w.duration <= Longest
<1> DEFINE D == {w.duration : w \in Windows}
           f == [w \in Windows |-> w.duration]
<1>1. f \in Surjection(Windows, D)
  BY DEF Surjection
<1>2. IsFiniteSet(D) /\ D # {} /\ D \subseteq Int
  <2>1. D # {} /\ D \subseteq Int
    BY ProviderAssumption
  <2> HIDE DEF f, D
  <2>. QED BY <1>1, <2>1, ProviderAssumption, FS_Surjection
<1>3. PICK m \in D : \A k \in D : k <= m
  <2> HIDE DEF D
  <2>. QED BY <1>2, GreatestOfFinite
<1>4. Longest \in D /\ \A w \in Windows : w.duration <= Longest
  <2>1. \E d \in D : \A w \in Windows : w.duration <= d
    BY <1>3
  <2>. QED BY <2>1 DEF Longest
<1>. QED BY <1>4, ProviderAssumption

-----------------------------------------------------------------------------
(* The reservation engine.                                                     *)

(* What a record is at an instant.                                             *)
IsRecord(R, t) == IsFiniteSet(R) /\ \A g \in R : g.at \in 1 .. t

(* What leaves the longest window leaves every window.                         *)
LEMMA PrunedWindow ==
  ASSUME NEW t \in Nat, NEW R, IsRecord(R, t), NEW s \in Nat, s <= t, NEW w \in Windows
  PROVE  InWindow(Pruned(R, s), w, t) = InWindow(R, w, t)
<1>1. w.duration \in Nat /\ w.duration <= Longest /\ Longest \in Nat
  BY ProviderAssumption, LongestWindow
<1>2. \A g \in R : g.at \in Nat
  BY DEF IsRecord
<1>. QED BY <1>1, <1>2 DEF InWindow, Pruned

LEMMA WindowIsFinite ==
  ASSUME NEW t \in Nat, NEW R, IsRecord(R, t), NEW w \in Windows, NEW u \in Nat, t <= u
  PROVE  /\ IsFiniteSet(InWindow(R, w, u)) /\ Cardinality(InWindow(R, w, u)) \in Nat
         /\ InWindow(R, w, u) \subseteq InWindow(R, w, t)
         /\ Cardinality(InWindow(R, w, u)) <= Cardinality(InWindow(R, w, t))
<1>1. \A g \in R : g.at \in Nat
  BY DEF IsRecord
<1>2. w.duration \in Nat
  BY ProviderAssumption
<1>3. InWindow(R, w, u) \subseteq InWindow(R, w, t) /\ InWindow(R, w, t) \in SUBSET R
  BY <1>1, <1>2 DEF InWindow
<1>4. IsFiniteSet(InWindow(R, w, t))
  BY <1>3, FS_Subset DEF IsRecord
<1>. QED BY <1>3, <1>4, FS_Subset, FS_CardinalityType

(* The reservation whose expiry makes room exists.                             *)
LEMMA SomeReservationBlocks ==
  ASSUME NEW t \in Nat, NEW R, IsRecord(R, t), NEW surplus \in Nat, surplus < Cardinality(R)
  PROVE  \E g \in R : /\ Cardinality({h \in R : h.at < g.at}) <= surplus
                      /\ Cardinality({h \in R : h.at <= g.at}) > surplus
<1> DEFINE upTo(a) == {h \in R : h.at <= a}
           few == {a \in 0 .. t : Cardinality(upTo(a)) <= surplus}
<1>1. \A a : IsFiniteSet(upTo(a)) /\ Cardinality(upTo(a)) \in Nat
  BY FS_Subset, FS_CardinalityType DEF IsRecord
<1>2. 0 \in few
  <2>1. upTo(0) = {}
    BY DEF IsRecord
  <2>. QED BY <2>1, FS_EmptySet
<1>3. PICK m \in few : \A a \in few : a <= m
  <2>1. few \subseteq Int /\ few \in SUBSET (0 .. t) /\ few # {}
    <3> HIDE DEF upTo
    <3>. QED BY <1>2
  <2>2. IsFiniteSet(few)
    <3>1. IsFiniteSet(0 .. t)
      BY FS_Interval
    <3> HIDE DEF few
    <3>. QED BY <2>1, <3>1, FS_Subset
  <2> HIDE DEF few
  <2>. QED BY <2>1, <2>2, GreatestOfFinite
<1>4. m \in 0 .. t /\ Cardinality(upTo(m)) <= surplus
  BY <1>3
<1>5. m < t
  <2>1. upTo(t) = R
    BY DEF IsRecord
  <2>2. Cardinality(R) \in Nat
    BY FS_CardinalityType DEF IsRecord
  <2>3. m # t
    BY <1>4, <2>1, <2>2
  <2>. QED BY <1>4, <2>3
<1>6. ~(Cardinality(upTo(m + 1)) <= surplus)
  <2>1. m + 1 \in 0 .. t /\ ~(m + 1 <= m)
    BY <1>4, <1>5
  <2>2. m + 1 \notin few
    <3> HIDE DEF few
    <3>. QED BY <1>3, <2>1
  <2>. QED BY <2>1, <2>2
<1>7. PICK g \in R : g.at = m + 1
  <2> SUFFICES ASSUME \A g \in R : g.at # m + 1 PROVE FALSE
    OBVIOUS
  <2>1. upTo(m + 1) = upTo(m)
    BY <1>4 DEF IsRecord
  <2> HIDE DEF upTo
  <2>. QED BY <1>4, <1>6, <2>1
<1>8. {h \in R : h.at < g.at} = upTo(m) /\ {h \in R : h.at <= g.at} = upTo(m + 1)
  BY <1>4, <1>7 DEF IsRecord
<1>9. Cardinality(upTo(m + 1)) > surplus
  <2> HIDE DEF upTo
  <2>. QED BY <1>1, <1>6
<1>. QED
  <2> HIDE DEF upTo
  <2>. QED BY <1>4, <1>7, <1>8, <1>9

(* A window is exhausted until it has room again, and not from then on.        *)
LEMMA RoomAgainIsExact ==
  ASSUME NEW t \in Nat, NEW R, IsRecord(R, t), NEW w \in Limiting(R, t)
  PROVE  /\ RoomAgainAt(R, w, t) \in Nat /\ RoomAgainAt(R, w, t) > t
         /\ \A u \in Nat : t <= u => (Exhausted(R, w, u) <=> u < RoomAgainAt(R, w, t))
<1> DEFINE W == InWindow(R, w, t)
           surplus == Cardinality(W) - w.limit
           blocks(g) == /\ Cardinality({h \in W : h.at < g.at}) <= surplus
                        /\ Cardinality({h \in W : h.at <= g.at}) > surplus
           b == CHOOSE g \in W : blocks(g)
<1>1. w \in Windows /\ Exhausted(R, w, t) /\ w.duration \in Nat \ {0} /\ w.limit \in Nat \ {0}
  BY ProviderAssumption DEF Limiting
<1>2. IsFiniteSet(W) /\ Cardinality(W) \in Nat
  BY <1>1, WindowIsFinite
<1>3. Cardinality(W) >= w.limit
  BY <1>1 DEF Exhausted
<1>4. surplus \in Nat /\ surplus < Cardinality(W)
  BY <1>1, <1>2, <1>3
<1>5. IsRecord(W, t)
  BY <1>2 DEF IsRecord, InWindow
<1>6. \E g \in W : blocks(g)
  <2> HIDE DEF surplus, W
  <2>. QED BY <1>4, <1>5, SomeReservationBlocks
<1>7. b \in W /\ blocks(b)
  <2> HIDE DEF blocks, W
  <2>. QED BY <1>6
<1>8. RoomAgainAt(R, w, t) = b.at + w.duration
  BY DEF RoomAgainAt
<1> DEFINE before == {h \in W : h.at < b.at}
           upTo == {h \in W : h.at <= b.at}
<1>9. /\ Cardinality(before) \in Nat /\ Cardinality(before) <= surplus
      /\ Cardinality(upTo) \in Nat /\ Cardinality(upTo) > surplus
  <2>1. before \in SUBSET W /\ upTo \in SUBSET W
    OBVIOUS
  <2>2. IsFiniteSet(before) /\ IsFiniteSet(upTo)
    <3> HIDE DEF before, upTo, W
    <3>. QED BY <2>1, <1>2, FS_Subset
  <2>3. Cardinality(before) <= surplus /\ Cardinality(upTo) > surplus
    BY <1>7
  <2> HIDE DEF before, upTo, W
  <2>. QED BY <2>2, <2>3, FS_CardinalityType
<1>10. b.at \in Nat /\ b.at > t - w.duration /\ b.at <= t
  <2>1. b.at \in 1 .. t
    <3> HIDE DEF b, W
    <3>. QED BY <1>5, <1>7 DEF IsRecord
  <2>2. b \in InWindow(R, w, t)
    BY <1>7
  <2>. QED
    <3> HIDE DEF b, W
    <3>. QED BY <2>1, <2>2 DEF InWindow
<1>11. Cardinality(W \ before) = Cardinality(W) - Cardinality(before)
       /\ Cardinality(W \ upTo) = Cardinality(W) - Cardinality(upTo)
       /\ IsFiniteSet(W \ before) /\ IsFiniteSet(W \ upTo)
  <2>1. W \cap before = before /\ W \cap upTo = upTo
    OBVIOUS
  <2> HIDE DEF W, before, upTo
  <2>2. /\ IsFiniteSet(W \ before)
        /\ Cardinality(W \ before) = Cardinality(W) - Cardinality(W \cap before)
    BY <1>2, FS_Difference
  <2>3. /\ IsFiniteSet(W \ upTo)
        /\ Cardinality(W \ upTo) = Cardinality(W) - Cardinality(W \cap upTo)
    BY <1>2, FS_Difference
  <2>. QED BY <2>1, <2>2, <2>3
<1>12. ASSUME NEW u \in Nat, t <= u PROVE Exhausted(R, w, u) <=> u < b.at + w.duration
  <2> DEFINE V == InWindow(R, w, u)
  <2>1. IsFiniteSet(V) /\ Cardinality(V) \in Nat /\ V \subseteq W
    BY <1>1, <1>12, WindowIsFinite
  <2>2. \A h \in R : h.at \in Nat
    BY DEF IsRecord
  <2>3. CASE u < b.at + w.duration
    <3>1. W \ before \in SUBSET V
      <4>1. SUFFICES ASSUME NEW h \in W, ~(h.at < b.at) PROVE h \in V
        OBVIOUS
      <4>2. h \in R /\ h.at \in Nat
        BY <2>2 DEF InWindow
      <4>3. h.at > u - w.duration
        <5> HIDE DEF b, W
        <5>. QED BY <4>1, <4>2, <1>1, <1>10, <2>3
      <4>. QED BY <4>2, <4>3 DEF InWindow
    <3>2. Cardinality(W \ before) <= Cardinality(V) /\ Cardinality(W \ before) \in Nat
      <4> HIDE DEF V, W, before
      <4>. QED BY <2>1, <3>1, <1>11, FS_Subset, FS_CardinalityType
    <3>3. Cardinality(V) >= w.limit
      <4> HIDE DEF V, W, before
      <4>. QED BY <1>1, <1>2, <1>9, <1>11, <2>1, <3>2
    <3>. QED BY <2>3, <3>3 DEF Exhausted
  <2>4. CASE ~(u < b.at + w.duration)
    <3>1. V \in SUBSET (W \ upTo)
      <4>1. SUFFICES ASSUME NEW h \in V PROVE h \in W /\ ~(h.at <= b.at)
        OBVIOUS
      <4>2. h \in R /\ h.at \in Nat /\ h.at > u - w.duration
        BY <2>2 DEF InWindow
      <4>3. ~(h.at <= b.at)
        <5> HIDE DEF b
        <5>. QED BY <4>2, <1>1, <1>10, <2>4
      <4>. QED BY <4>3, <2>1
    <3>2. Cardinality(V) <= Cardinality(W \ upTo)
      <4> HIDE DEF V, W, upTo
      <4>. QED BY <3>1, <1>11, FS_Subset
    <3>3. ~(Cardinality(V) >= w.limit)
      <4> HIDE DEF V, W, upTo
      <4>. QED BY <1>1, <1>2, <1>9, <1>11, <2>1, <3>2
    <3>. QED BY <2>4, <3>3 DEF Exhausted
  <2>. QED BY <2>3, <2>4
<1>. QED
  <2> HIDE DEF b
  <2>. QED BY <1>1, <1>8, <1>10, <1>12

(* A deferral names the first instant at which the same record admits again.   *)
LEMMA RetryIsExact ==
  ASSUME NEW t \in Nat, NEW R, IsRecord(R, t), Limiting(R, t) # {}
  PROVE  LET retryAt == RetryAt(Pruned(R, t), t)
         IN  /\ retryAt \in Nat /\ retryAt > t
             /\ \A u \in Nat : t <= u => (Limiting(Pruned(R, u), u) = {} <=> retryAt <= u)
<1> DEFINE P == Pruned(R, t)
           room(w) == RoomAgainAt(P, w, t)
           instants == {room(w) : w \in Limiting(P, t)}
           f == [w \in Limiting(P, t) |-> room(w)]
<1>1. IsRecord(P, t)
  <2>1. P \in SUBSET R
    BY DEF Pruned
  <2>. QED BY <2>1, FS_Subset DEF IsRecord
<1>2. ASSUME NEW u \in Nat, t <= u, NEW w \in Windows
      PROVE  Exhausted(Pruned(R, u), w, u) <=> Exhausted(P, w, u)
  <2>1. IsRecord(R, u)
    BY <1>2 DEF IsRecord
  <2>2. InWindow(Pruned(R, u), w, u) = InWindow(R, w, u) /\ InWindow(P, w, u) = InWindow(R, w, u)
    BY <1>2, <2>1, PrunedWindow
  <2>. QED BY <2>2 DEF Exhausted
<1>3. Limiting(P, t) = Limiting(R, t)
  <2>1. \A w \in Windows : InWindow(P, w, t) = InWindow(R, w, t)
    BY PrunedWindow
  <2>. QED BY <2>1 DEF Limiting, Exhausted
<1>4. \A w \in Limiting(P, t) :
        /\ room(w) \in Nat /\ room(w) > t
        /\ \A u \in Nat : t <= u => (Exhausted(P, w, u) <=> u < room(w))
  <2> HIDE DEF P
  <2>. QED BY <1>1, RoomAgainIsExact
<1>5. IsFiniteSet(instants) /\ instants \subseteq Int /\ instants # {}
  <2>1. Limiting(P, t) \in SUBSET Windows
    BY DEF Limiting
  <2>2. IsFiniteSet(Limiting(P, t))
    BY <2>1, ProviderAssumption, FS_Subset
  <2>3. f \in Surjection(Limiting(P, t), instants)
    BY DEF Surjection
  <2>4. instants \subseteq Int
    <3> HIDE DEF room
    <3>. QED BY <1>4
  <2>5. instants # {}
    BY <1>3
  <2>6. IsFiniteSet(instants)
    <3> HIDE DEF f, instants
    <3>. QED BY <2>2, <2>3, FS_Surjection
  <2>. QED BY <2>4, <2>5, <2>6
<1>6. PICK m \in instants : \A k \in instants : k <= m
  <2> HIDE DEF instants
  <2>. QED BY <1>5, GreatestOfFinite
<1> DEFINE retryAt == RetryAt(P, t)
<1>7. retryAt \in instants /\ \A k \in instants : k <= retryAt
  BY <1>6 DEF RetryAt
<1>8. PICK last \in Limiting(P, t) : retryAt = room(last)
  <2> HIDE DEF retryAt, room
  <2>. QED BY <1>7
<1>9. ASSUME NEW u \in Nat, t <= u
      PROVE  Limiting(Pruned(R, u), u) = {} <=> retryAt <= u
  <2>1. Limiting(Pruned(R, u), u) = {w \in Windows : Exhausted(P, w, u)}
    BY <1>2, <1>9 DEF Limiting
  <2>2. \A w \in Windows : Exhausted(P, w, u) => w \in Limiting(P, t)
    <3> SUFFICES ASSUME NEW w \in Windows, Exhausted(P, w, u) PROVE Exhausted(P, w, t)
      BY DEF Limiting
    <3>1. Cardinality(InWindow(P, w, u)) <= Cardinality(InWindow(P, w, t))
          /\ Cardinality(InWindow(P, w, u)) \in Nat
      BY <1>1, <1>9, WindowIsFinite
    <3>2. Cardinality(InWindow(P, w, t)) \in Nat
      BY <1>1, WindowIsFinite
    <3>3. w.limit \in Nat
      BY ProviderAssumption
    <3> HIDE DEF P
    <3>. QED BY <3>1, <3>2, <3>3 DEF Exhausted
  <2>3. Limiting(P, t) \subseteq Windows
    BY DEF Limiting
  <2>4. \A w \in Limiting(P, t) : room(w) <= retryAt /\ room(w) \in Nat
    <3> HIDE DEF retryAt, room
    <3>. QED BY <1>4, <1>7
  <2>5. CASE retryAt <= u
    <3>1. \A w \in Limiting(P, t) : ~Exhausted(P, w, u)
      <4> HIDE DEF retryAt, room, P
      <4>. QED BY <1>4, <1>8, <1>9, <2>4, <2>5
    <3>. QED BY <2>1, <2>2, <2>5, <3>1
  <2>6. CASE ~(retryAt <= u)
    <3>1. Exhausted(P, last, u)
      <4> HIDE DEF retryAt, room, P
      <4>. QED BY <1>4, <1>8, <1>9, <2>6
    <3>. QED BY <1>8, <2>1, <2>3, <2>6, <3>1
  <2>. QED BY <2>5, <2>6
<1>10. retryAt \in Nat /\ retryAt > t
  <2> HIDE DEF retryAt, room
  <2>. QED BY <1>4, <1>8
<1>. QED BY <1>9, <1>10

-----------------------------------------------------------------------------
(* The invariant of the object and its runs.                                   *)

Kinds == Capabilities("jolpica")
Attempts == Seq([reference : Kinds \X Nat, outcome : Endings])
Variants ==
  {"candidate", "mapping-failure", "not-attempted", "failed", "interrupted", "not-executed"}
Reasons ==
  NotAttemptedReasons
    \cup {"provider-rate-limited", "provider-unavailable", "invalid-payload", NoReason}
Outcomes ==
  [outcome : Variants, attempts : Attempts, reason : Reasons, hint : Nat,
   payload : {"none", "fits"}]
Replies == [outcome : {"none", "allowed", "deferred", "unavailable"}, retryAt : Nat]
RunRecords ==
  [pc : Places, startedAt : Nat, aborted : BOOLEAN, answers : Seq(Outcomes),
   late : SUBSET Kinds, attempts : Attempts, lastReservationAt : Nat, heldUntil : Nat,
   reply : Replies, retryAfter : Nat]

(* A resource of the plan is being asked for.                                  *)
Underway == {"pace", "asked", "answered", "sent", "report"}

ClockOK == now \in 1 .. MaxTime + 1 /\ hold \in Nat /\ failures \in 0 .. MaxFailures

(* The object's record is what was granted and is in some window still.        *)
GrantsOK ==
  /\ IsFiniteSet(granted) /\ ledger \subseteq granted
  /\ \A g \in granted :
       /\ g.id \in 1 .. Cardinality(granted) /\ g.at \in 1 .. now
       /\ g.run \in Runs \cup {"elsewhere"}
       /\ g.at > now - Longest => g \in ledger

(* A hold is kept by whom it was taken by.                                     *)
HoldOK(h) ==
  /\ h.run \in Runs \cup {"elsewhere"}
  /\ h.after \in 0 .. Cardinality(granted) /\ h.until \in Nat
  /\ h.scope = "object" => h.until <= hold
  /\ h.scope # "object" =>
       h.run \in Runs /\ (runs[h.run].pc = "ended" \/ h.until <= runs[h.run].heldUntil)
HoldsOK == \A h \in held : HoldOK(h)

(* The grant a run has and has not used.                                       *)
Unused(run) == IF run.pc = "answered" /\ run.reply.outcome = "allowed" THEN 1 ELSE 0
GrantsOf(r) == {g \in granted : g.run = r}

(* A run asks for its plan in order, not under a hold of its own, and has sent *)
(* at most the n requests it was granted.                                      *)
Fits(r, run, requests, t, n) ==
  /\ run \in RunRecords /\ run.lastReservationAt <= t
  /\ Len(run.answers) <= Len(Plan[r])
  /\ run.pc \in Underway => Len(run.answers) < Len(Plan[r])
  /\ run.pc \in {"pace", "asked"} => run.heldUntil <= t
  /\ requests \in Seq(Endings) /\ Len(requests) + Unused(run) <= n
RunFits(r, run, requests) == Fits(r, run, requests, now, Cardinality(GrantsOf(r)))

RunsOK ==
  /\ DOMAIN runs = Runs /\ DOMAIN sent = Runs
  /\ runs = [r \in Runs |-> runs[r]] /\ sent = [r \in Runs |-> sent[r]]
  /\ \A r \in Runs : RunFits(r, runs[r], sent[r])

ProviderInv ==
  /\ ClockOK /\ GrantsOK /\ HoldsOK /\ RunsOK
  /\ WindowsRespected /\ HoldsAreHonoured

-----------------------------------------------------------------------------
(* Steps of one run.                                                           *)

(* Run r becomes `run`, with its requests so far, and gives up no hold.        *)
Becomes(r, run, requests) ==
  /\ runs' = [runs EXCEPT ![r] = run] /\ sent' = [sent EXCEPT ![r] = requests]
  /\ runs[r].pc # "ended" /\ (run.pc = "ended" \/ runs[r].heldUntil <= run.heldUntil)

LEMMA RunsAfter ==
  ASSUME ProviderInv, NEW r \in Runs, NEW run, NEW requests, Becomes(r, run, requests),
         Fits(r, run, requests, now', Cardinality(GrantsOf(r)')),
         \A q \in Runs \ {r} : Fits(q, runs[q], sent[q], now', Cardinality(GrantsOf(q)'))
  PROVE  RunsOK'
<1>1. runs'[r] = run /\ sent'[r] = requests
      /\ \A q \in Runs \ {r} : runs'[q] = runs[q] /\ sent'[q] = sent[q]
  BY DEF ProviderInv, RunsOK, Becomes
<1>2. \A q \in Runs : Fits(q, runs'[q], sent'[q], now', Cardinality(GrantsOf(q)'))
  BY <1>1
<1>3. /\ DOMAIN runs' = Runs /\ DOMAIN sent' = Runs
      /\ runs' = [q \in Runs |-> runs'[q]] /\ sent' = [q \in Runs |-> sent'[q]]
  BY DEF ProviderInv, RunsOK, Becomes
<1>. QED BY <1>2, <1>3 DEF RunsOK, RunFits

LEMMA HoldsAfter ==
  ASSUME ProviderInv, NEW r \in Runs, NEW run \in RunRecords, NEW requests,
         Becomes(r, run, requests), hold' \in Nat, hold <= hold',
         Cardinality(granted') \in Nat, Cardinality(granted) <= Cardinality(granted'),
         Cardinality(granted) \in Nat
  PROVE  \A h \in held : HoldOK(h)'
<1>1. runs'[r] = run /\ \A q \in Runs \ {r} : runs'[q] = runs[q]
  BY DEF ProviderInv, RunsOK, Becomes
<1>2. SUFFICES ASSUME NEW h \in held
      PROVE /\ h.after \in 0 .. Cardinality(granted')
            /\ h.scope = "object" => h.until <= hold'
            /\ h.scope # "object" => runs'[h.run].pc = "ended"
                                     \/ h.until <= runs'[h.run].heldUntil
  BY DEF ProviderInv, HoldsOK, HoldOK
<1>3. HoldOK(h)
  BY DEF ProviderInv, HoldsOK
<1>4. hold \in Nat
  BY DEF ProviderInv, ClockOK
<1>5. ASSUME h.scope # "object"
      PROVE  runs'[h.run].pc = "ended" \/ h.until <= runs'[h.run].heldUntil
  <2>1. CASE h.run # r
    BY <1>1, <1>3, <1>5, <2>1 DEF HoldOK
  <2>2. CASE h.run = r
    <3>1. runs[r].heldUntil \in Nat /\ run.heldUntil \in Nat
      BY DEF ProviderInv, RunsOK, RunFits, Fits, RunRecords
    <3>2. h.until <= runs[r].heldUntil
      BY <1>3, <1>5, <2>2 DEF Becomes, HoldOK
    <3>3. CASE run.pc = "ended"
      BY <1>1, <2>2, <3>3
    <3>4. CASE runs[r].heldUntil <= run.heldUntil
      BY <1>1, <1>3, <2>2, <3>1, <3>2, <3>4 DEF HoldOK
    <3>. QED BY <3>3, <3>4 DEF Becomes
  <2>. QED BY <2>1, <2>2
<1>6. h.scope = "object" => h.until <= hold'
  BY <1>3, <1>4 DEF HoldOK
<1>. QED BY <1>3, <1>5, <1>6 DEF HoldOK

(* A step that grants nothing, and may take a hold.                            *)
NewHolds ==
  /\ held \subseteq held'
  /\ \A h \in held' \ held : HoldOK(h)' /\ h.after = Cardinality(granted)

LEMMA GrantsStay ==
  ASSUME ProviderInv, UNCHANGED <<now, ledger, granted>>, NewHolds
  PROVE  /\ GrantsOK' /\ WindowsRespected' /\ HoldsAreHonoured'
         /\ Cardinality(granted) \in Nat
<1>1. GrantsOK' /\ WindowsRespected'
  BY DEF ProviderInv, GrantsOK, WindowsRespected
<1>2. Cardinality(granted) \in Nat
  BY FS_CardinalityType DEF ProviderInv, GrantsOK
<1>3. \A h \in held' \ held, g \in granted : ~(g.id > h.after)
  BY <1>2 DEF NewHolds, ProviderInv, GrantsOK
<1>4. HoldsAreHonoured'
  BY <1>3 DEF ProviderInv, HoldsAreHonoured
<1>. QED BY <1>1, <1>2, <1>4

LEMMA MoveInv ==
  ASSUME ProviderInv, NEW r \in Runs, NEW run, NEW requests,
         Becomes(r, run, requests), RunFits(r, run, requests),
         UNCHANGED <<now, ledger, granted>>, failures' \in 0 .. MaxFailures,
         hold' \in Nat, hold <= hold', NewHolds
  PROVE  ProviderInv'
<1>1. ClockOK'
  BY DEF ProviderInv, ClockOK
<1>2. /\ GrantsOK' /\ WindowsRespected' /\ HoldsAreHonoured'
      /\ Cardinality(granted) \in Nat /\ Cardinality(granted') \in Nat
      /\ Cardinality(granted) <= Cardinality(granted')
  BY GrantsStay
<1>3. run \in RunRecords
  BY DEF RunFits, Fits
<1>4. HoldsOK'
  BY <1>2, <1>3, HoldsAfter DEF HoldsOK, NewHolds
<1>5. /\ Fits(r, run, requests, now', Cardinality(GrantsOf(r)'))
      /\ \A q \in Runs \ {r} : Fits(q, runs[q], sent[q], now', Cardinality(GrantsOf(q)'))
  BY DEF RunFits, GrantsOf, ProviderInv, RunsOK
<1>6. RunsOK'
  BY <1>5, RunsAfter
<1>. QED BY <1>1, <1>2, <1>4, <1>6 DEF ProviderInv

(* What one call of a port answers with is an outcome.                         *)
LEMMA KindIsPlanned ==
  ASSUME NEW r \in Runs, runs[r] \in RunRecords, Len(runs[r].answers) < Len(Plan[r])
  PROVE  kindOf(r) \in Kinds
<1>1. Plan[r] \in Seq(Kinds) /\ runs[r].answers \in Seq(Outcomes)
  BY ProviderAssumption DEF RunRecords, Kinds
<1>2. Len(runs[r].answers) + 1 \in 1 .. Len(Plan[r])
  BY <1>1
<1>. QED BY <1>1, <1>2 DEF kindOf

LEMMA NotSentType ==
  ASSUME NEW earlier \in Attempts, NEW reason \in NotAttemptedReasons, NEW hint \in Nat
  PROVE  NotSent(earlier, reason, hint) \in Outcomes
<1>1. <<>> \in Attempts
  BY DEF Attempts
<1>2. reason \in Reasons
  BY DEF Reasons
<1>. QED BY <1>1, <1>2 DEF NotSent, NotAttempted, outcomeOf, Outcomes, Variants

LEMMA AttemptType ==
  ASSUME NEW earlier \in Attempts, NEW kind \in Kinds, NEW ending
  PROVE  /\ Append(earlier, Attempt(kind, Len(earlier) + 1, ending)) \in Attempts
         /\ AttemptOutcomeFor(ending) \in Endings
<1>1. AttemptOutcomeFor(ending) \in Endings
  <2>1. CASE ending = "provider-rate-limited"
    BY <2>1 DEF AttemptOutcomeFor, Endings, PolicyRejections
  <2>2. CASE ending \in PolicyRejections \cup {"completed"} /\ ending # "provider-rate-limited"
    BY <2>2 DEF AttemptOutcomeFor, Endings
  <2>3. CASE ending \notin PolicyRejections \cup {"completed"} /\ ending # "provider-rate-limited"
    BY <2>3 DEF AttemptOutcomeFor, Endings
  <2>. QED BY <2>1, <2>2, <2>3
<1>2. Len(earlier) + 1 \in Nat
  BY DEF Attempts
<1>3. Attempt(kind, Len(earlier) + 1, ending) \in [reference : Kinds \X Nat, outcome : Endings]
  BY <1>1, <1>2 DEF Attempt
<1>. QED BY <1>1, <1>3 DEF Attempts

LEMMA TransportFailureType ==
  ASSUME NEW earlier \in Attempts, NEW kind \in Kinds, NEW ending, NEW hint \in Nat
  PROVE  TransportFailure(kind, earlier, ending, hint) \in Outcomes
<1> DEFINE attempts == Append(earlier, Attempt(kind, Len(earlier) + 1, ending))
<1>1. attempts \in Attempts
  BY AttemptType
<1>2. {"provider-rate-limited", "provider-unavailable"} \subseteq Reasons /\ "failed" \in Variants
  BY DEF Reasons, Variants
<1>3. TransportFailure(kind, earlier, ending, hint) =
        IF ending = "provider-rate-limited"
        THEN outcomeOf("failed", attempts, "provider-rate-limited", hint)
        ELSE outcomeOf("failed", attempts, "provider-unavailable", NoInstant)
  BY DEF TransportFailure
<1> HIDE DEF attempts
<1>. QED BY <1>1, <1>2, <1>3 DEF outcomeOf, Outcomes, NoInstant

LEMMA ReadOutcomeType ==
  ASSUME NEW attempts \in Attempts, NEW kind, NEW reading \in Readings(kind)
  PROVE  ReadOutcome(attempts, reading) \in Outcomes
<1>1. reading \in {"normalized", "invalid-payload", "mapping-failure", "no-classification"}
  <2>1. Readings(kind) \in {CalendarReadings, CircuitsReadings, ParticipantsReadings,
                            ResultsReadings, StandingsReadings}
    BY Zenon DEF Readings
  <2>. QED BY <2>1 DEF CalendarReadings, CircuitsReadings, ParticipantsReadings,
                       ResultsReadings, StandingsReadings
<1>2. /\ {"provider-unavailable", "invalid-payload", NoReason} \subseteq Reasons
      /\ {"failed", "candidate", "mapping-failure"} \subseteq Variants
  BY DEF Reasons, Variants, NoReason
<1>3. CASE reading = "normalized"
  BY <1>2, <1>3 DEF ReadOutcome, Candidate, outcomeOf, Outcomes, NoInstant
<1>4. CASE reading = "invalid-payload"
  BY <1>2, <1>4 DEF ReadOutcome, outcomeOf, Outcomes, NoInstant
<1>5. CASE reading = "mapping-failure"
  BY <1>2, <1>5 DEF ReadOutcome, outcomeOf, Outcomes, NoInstant
<1>6. CASE reading = "no-classification"
  BY <1>2, <1>6 DEF ReadOutcome, outcomeOf, Outcomes, NoInstant
<1>. QED BY <1>1, <1>3, <1>4, <1>5, <1>6

(* A resource that was answered, or not asked for, leaves its run between two. *)
LEMMA AnsweredFits ==
  ASSUME ProviderInv, NEW r \in Runs, NEW outcome \in Outcomes,
         NEW run \in RunRecords, run.lastReservationAt <= now,
         run.answers = runs[r].answers, Len(run.answers) < Len(Plan[r]),
         NEW requests \in Seq(Endings), Len(requests) <= Cardinality(GrantsOf(r))
  PROVE  /\ RunFits(r, Answered(r, run, outcome), requests)
         /\ Answered(r, run, outcome).heldUntil = run.heldUntil
<1>1. runs[r] \in RunRecords
  BY DEF ProviderInv, RunsOK, RunFits, Fits
<1>2. kindOf(r) \in Kinds
  BY <1>1, KindIsPlanned
<1>3. /\ Append(run.answers, outcome) \in Seq(Outcomes)
      /\ Len(Append(run.answers, outcome)) = Len(run.answers) + 1
      /\ Len(Append(run.answers, outcome)) \in Nat /\ Len(Plan[r]) \in Nat
  BY ProviderAssumption DEF RunRecords
<1> DEFINE late == IF run.aborted THEN run.late \cup {kindOf(r)} ELSE run.late
           answers == Append(run.answers, outcome)
           after == [run EXCEPT !.pc = "next", !.attempts = <<>>, !.retryAfter = NoInstant,
                                !.reply = idle.reply, !.answers = answers, !.late = late]
<1>4. late \in SUBSET Kinds /\ answers \in Seq(Outcomes)
  BY <1>2, <1>3 DEF RunRecords
<1>5. <<>> \in Attempts /\ idle.reply \in Replies /\ "next" \in Places /\ NoInstant \in Nat
  BY DEF Attempts, idle, Replies, Places, NoInstant
<1>6. after = Answered(r, run, outcome)
  BY DEF Answered
<1> HIDE DEF late, answers
<1>7. /\ after.pc = "next" /\ after.answers = answers
      /\ after.heldUntil = run.heldUntil /\ after.lastReservationAt = run.lastReservationAt
      /\ after \in RunRecords
  BY <1>4, <1>5 DEF RunRecords
<1> HIDE DEF after
<1>8. Len(run.answers) + 1 <= Len(Plan[r])
  BY <1>3 DEF RunRecords
<1>9. Len(requests) + 0 <= Cardinality(GrantsOf(r))
  OBVIOUS
<1>10. Unused(after) = 0
  BY <1>7 DEF Unused
<1>11. Len(after.answers) = Len(run.answers) + 1
  BY <1>3, <1>7 DEF answers
<1>12. RunFits(r, after, requests)
  BY <1>7, <1>8, <1>9, <1>10, <1>11 DEF RunFits, Fits, Underway
<1>. QED BY <1>7, <1>6, <1>12

(* So does a request that was refused before it was made.                      *)
LEMMA RequestFits ==
  ASSUME ProviderInv, NEW r \in Runs,
         NEW run \in RunRecords, run.lastReservationAt <= now,
         run.answers = runs[r].answers, Len(run.answers) < Len(Plan[r]),
         NEW requests \in Seq(Endings), Len(requests) <= Cardinality(GrantsOf(r))
  PROVE  /\ RunFits(r, Request(r, run), requests)
         /\ Request(r, run).heldUntil = run.heldUntil
<1>1. run.attempts \in Attempts /\ run.heldUntil \in Nat /\ run.aborted \in BOOLEAN
  BY DEF RunRecords
<1>2. CASE run.aborted
  <2>1. NotSent(run.attempts, "cancelled", NoInstant) \in Outcomes
    BY <1>1, NotSentType DEF NoInstant, NotAttemptedReasons
  <2>. QED BY <1>2, <2>1, AnsweredFits DEF Request
<1>3. CASE ~run.aborted /\ run.heldUntil > now
  <2>1. NotSent(run.attempts, "rate-limit-deferred", run.heldUntil) \in Outcomes
    BY <1>1, NotSentType DEF NotAttemptedReasons
  <2>. QED BY <1>3, <2>1, AnsweredFits DEF Request
<1>4. CASE ~run.aborted /\ ~(run.heldUntil > now)
  <2> DEFINE paced == [run EXCEPT !.pc = "pace"]
  <2>1. /\ paced \in RunRecords /\ paced.pc = "pace" /\ paced.answers = run.answers
        /\ paced.heldUntil = run.heldUntil /\ paced.lastReservationAt = run.lastReservationAt
    BY DEF RunRecords, Places
  <2>2. Request(r, run) = paced
    BY <1>4 DEF Request
  <2> HIDE DEF paced
  <2>3. now \in Nat
    BY ProviderAssumption DEF ProviderInv, ClockOK
  <2>4. paced.heldUntil <= now /\ Unused(paced) = 0
    BY <1>1, <1>4, <2>1, <2>3 DEF Unused
  <2>5. Len(paced.answers) <= Len(Plan[r])
    BY <2>1, ProviderAssumption DEF RunRecords
  <2>6. Len(requests) + 0 <= Cardinality(GrantsOf(r))
    OBVIOUS
  <2>. QED BY <2>1, <2>2, <2>4, <2>5, <2>6 DEF RunFits, Fits
<1>. QED BY <1>1, <1>2, <1>3, <1>4

-----------------------------------------------------------------------------
(* The object's decision.                                                      *)

LEMMA AllowedMeansRoom ==
  ASSUME ProviderInv, Decision(ledger, hold, now).outcome = "allowed"
  PROVE  /\ hold <= now
         /\ \A w \in Windows : ~Exhausted(granted, w, now)
<1>1. now \in Nat /\ hold \in Nat
  BY ProviderAssumption DEF ProviderInv, ClockOK
<1>2. hold <= now /\ Limiting(Pruned(ledger, now), now) = {}
  BY <1>1 DEF Decision
<1>3. ASSUME NEW w \in Windows PROVE ~Exhausted(granted, w, now)
  <2>1. InWindow(Pruned(ledger, now), w, now) = InWindow(granted, w, now)
    <3>1. Longest \in Nat /\ w.duration \in Nat /\ w.duration <= Longest
      BY ProviderAssumption, LongestWindow
    <3>2. \A g \in granted : g.at \in Nat /\ (g.at > now - Longest => g \in ledger)
      BY DEF ProviderInv, GrantsOK
    <3>3. ledger \subseteq granted
      BY DEF ProviderInv, GrantsOK
    <3>. QED BY <1>1, <3>1, <3>2, <3>3 DEF InWindow, Pruned
  <2>2. ~Exhausted(Pruned(ledger, now), w, now)
    BY <1>2 DEF Limiting
  <2>. QED BY <2>1, <2>2 DEF Exhausted
<1>. QED BY <1>2, <1>3

(* The reservation a run, of these or elsewhere, is granted.                   *)
Granted(who) == [id |-> Cardinality(granted) + 1, at |-> now, run |-> who]

LEMMA GrantCounts ==
  ASSUME ProviderInv, NEW who, granted' = granted \cup {Granted(who)}
  PROVE  /\ Granted(who) \notin granted /\ IsFiniteSet(granted')
         /\ Cardinality(granted) \in Nat /\ Cardinality(granted') = Cardinality(granted) + 1
         /\ \A r : /\ Cardinality(GrantsOf(r)) \in Nat
                   /\ Cardinality(GrantsOf(r)') =
                        Cardinality(GrantsOf(r)) + (IF r = who THEN 1 ELSE 0)
<1>1. Cardinality(granted) \in Nat /\ IsFiniteSet(granted)
  BY FS_CardinalityType DEF ProviderInv, GrantsOK
<1>2. Granted(who) \notin granted
  <2>1. Granted(who).id = Cardinality(granted) + 1 /\ Granted(who).run = who
    BY DEF Granted
  <2>. QED BY <1>1, <2>1 DEF ProviderInv, GrantsOK
<1>3. IsFiniteSet(granted') /\ Cardinality(granted') = Cardinality(granted) + 1
  BY <1>1, <1>2, FS_AddElement
<1>4. ASSUME NEW r
      PROVE  /\ Cardinality(GrantsOf(r)) \in Nat
             /\ Cardinality(GrantsOf(r)') = Cardinality(GrantsOf(r)) + (IF r = who THEN 1 ELSE 0)
  <2>1. GrantsOf(r) \in SUBSET granted
    BY DEF GrantsOf
  <2>2. IsFiniteSet(GrantsOf(r))
    BY <1>1, <2>1, FS_Subset
  <2>3. Cardinality(GrantsOf(r)) \in Nat
    BY <2>2, FS_CardinalityType
  <2>4. Granted(who).run = who
    BY DEF Granted
  <2>5. CASE r = who
    <3>1. GrantsOf(r)' = GrantsOf(r) \cup {Granted(who)} /\ Granted(who) \notin GrantsOf(r)
      BY <1>2, <2>4, <2>5 DEF GrantsOf
    <3>. QED BY <2>2, <2>3, <2>5, <3>1, FS_AddElement
  <2>6. CASE r # who
    <3>1. GrantsOf(r)' = GrantsOf(r)
      BY <2>4, <2>6 DEF GrantsOf
    <3>. QED BY <2>3, <2>6, <3>1
  <2>. QED BY <2>5, <2>6
<1>. QED BY <1>1, <1>2, <1>3, <1>4

(* What is granted is within every window, and under no hold of whom it is     *)
(* granted to.                                                                 *)
LEMMA GrantsAfter ==
  ASSUME ProviderInv, NEW who \in Runs \cup {"elsewhere"},
         who \in Runs => runs[who].pc = "asked",
         Decision(ledger, hold, now).outcome = "allowed", UNCHANGED <<now, held>>,
         granted' = granted \cup {Granted(who)},
         ledger' = Pruned(ledger, now) \cup {Granted(who)}
  PROVE  GrantsOK' /\ WindowsRespected' /\ HoldsAreHonoured'
<1>1. now \in Nat \ {0} /\ hold \in Nat
  BY ProviderAssumption DEF ProviderInv, ClockOK
<1>2. Longest \in Nat /\ \A w \in Windows : w.duration \in Nat \ {0} /\ w.limit \in Nat \ {0}
  BY ProviderAssumption, LongestWindow
<1>3. /\ Granted(who).id = Cardinality(granted) + 1 /\ Granted(who).at = now
      /\ Granted(who).run = who
  BY DEF Granted
<1>4. /\ Granted(who) \notin granted /\ IsFiniteSet(granted')
      /\ Cardinality(granted) \in Nat /\ Cardinality(granted') = Cardinality(granted) + 1
  BY GrantCounts
<1>5. \A g \in granted : /\ g.id \in 1 .. Cardinality(granted) /\ g.at \in 1 .. now
                         /\ g.run \in Runs \cup {"elsewhere"}
                         /\ g.at > now - Longest => g \in ledger
  BY DEF ProviderInv, GrantsOK
<1>6. GrantsOK'
  <2>1. ledger' \subseteq granted'
    BY DEF Pruned, ProviderInv, GrantsOK
  <2>2. ASSUME NEW g \in granted'
        PROVE  /\ g.id \in 1 .. Cardinality(granted') /\ g.at \in 1 .. now
               /\ g.run \in Runs \cup {"elsewhere"} /\ (g.at > now - Longest => g \in ledger')
    <3>1. CASE g \in granted
      <4>1. g.id \in 1 .. Cardinality(granted') /\ g.at \in 1 .. now
        BY <1>4, <1>5, <3>1
      <4>. QED BY <1>5, <3>1, <4>1 DEF Pruned
    <3>2. CASE g = Granted(who)
      BY <1>1, <1>3, <1>4, <3>2
    <3>. QED BY <3>1, <3>2
  <2>. QED BY <1>4, <2>1, <2>2 DEF GrantsOK
<1>7. WindowsRespected'
  <2>1. SUFFICES ASSUME NEW w \in Windows, NEW g \in granted'
        PROVE  Cardinality({h \in granted' : h.at \in (g.at - w.duration + 1) .. g.at}) <= w.limit
    BY DEF WindowsRespected
  <2> DEFINE window == {h \in granted : h.at \in (g.at - w.duration + 1) .. g.at}
             window_ == {h \in granted' : h.at \in (g.at - w.duration + 1) .. g.at}
  <2>2. g.at \in 1 .. now
    BY <1>1, <1>3, <1>5
  <2>3. CASE g.at = now
    <3>1. window = InWindow(granted, w, now)
      BY <1>1, <1>2, <1>5, <2>3 DEF InWindow
    <3>2. window_ = window \cup {Granted(who)}
      BY <1>1, <1>2, <1>3, <2>3
    <3>3. ~(Cardinality(window) >= w.limit)
      BY <3>1, AllowedMeansRoom DEF Exhausted
    <3>4. window \in SUBSET granted
      OBVIOUS
    <3>5. IsFiniteSet(window) /\ Granted(who) \notin window
      <4> HIDE DEF window
      <4>. QED BY <3>4, <1>4, FS_Subset DEF ProviderInv, GrantsOK
    <3>6. Cardinality(window_) = Cardinality(window) + 1 /\ Cardinality(window) \in Nat
      <4> HIDE DEF window, window_
      <4>. QED BY <3>2, <3>5, FS_AddElement, FS_CardinalityType
    <3>7. Cardinality(window_) <= w.limit
      <4> HIDE DEF window, window_
      <4>. QED BY <1>2, <3>3, <3>6
    <3>. QED BY <3>7
  <2>4. CASE g.at # now
    <3>1. g \in granted
      BY <1>3, <2>4
    <3>2. window_ = window
      BY <1>1, <1>2, <1>3, <2>2, <2>4
    <3>3. Cardinality(window) <= w.limit
      BY <3>1 DEF ProviderInv, WindowsRespected
    <3>4. Cardinality(window_) <= w.limit
      <4> HIDE DEF window, window_
      <4>. QED BY <3>2, <3>3
    <3>. QED BY <3>4
  <2>. QED BY <2>3, <2>4
<1>8. HoldsAreHonoured'
  <2>1. SUFFICES ASSUME NEW h \in held, h.scope = "object" \/ h.run = who
        PROVE  now >= h.until
    BY <1>3 DEF HoldsAreHonoured, ProviderInv
  <2>2. HoldOK(h)
    BY DEF ProviderInv, HoldsOK
  <2>3. CASE h.scope = "object"
    BY <1>1, <2>2, <2>3, AllowedMeansRoom DEF HoldOK
  <2>4. CASE h.scope # "object"
    <3>1. who \in Runs /\ h.run = who
      BY <2>1, <2>2, <2>4 DEF HoldOK
    <3>2. runs[who].heldUntil <= now /\ runs[who].heldUntil \in Nat
      BY <3>1 DEF ProviderInv, RunsOK, RunFits, Fits, RunRecords
    <3>3. h.until <= runs[who].heldUntil /\ h.until \in Nat
      BY <2>2, <2>4, <3>1 DEF HoldOK
    <3>. QED BY <1>1, <3>2, <3>3
  <2>. QED BY <2>3, <2>4
<1>. QED BY <1>6, <1>7, <1>8

-----------------------------------------------------------------------------
(* One lemma per action.                                                       *)

(* What the invariant says of one run.                                         *)
LEMMA RunFacts ==
  ASSUME ProviderInv, NEW r \in Runs
  PROVE  /\ Fits(r, runs[r], sent[r], now, Cardinality(GrantsOf(r)))
         /\ runs[r] \in RunRecords /\ runs[r].lastReservationAt <= now
         /\ runs[r].attempts \in Attempts /\ runs[r].heldUntil \in Nat
         /\ runs[r].answers \in Seq(Outcomes) /\ Len(runs[r].answers) \in Nat
         /\ sent[r] \in Seq(Endings) /\ Len(sent[r]) \in Nat
         /\ Cardinality(GrantsOf(r)) \in Nat /\ Len(sent[r]) <= Cardinality(GrantsOf(r))
         /\ now \in Nat \ {0} /\ hold \in Nat /\ failures \in 0 .. MaxFailures
         /\ Len(Plan[r]) \in Nat /\ MaxFailures \in Nat
         /\ sent = [sent EXCEPT ![r] = sent[r]]
<1>1. Fits(r, runs[r], sent[r], now, Cardinality(GrantsOf(r)))
  BY DEF ProviderInv, RunsOK, RunFits
<1>2. GrantsOf(r) \in SUBSET granted /\ IsFiniteSet(granted)
  BY DEF GrantsOf, ProviderInv, GrantsOK
<1>3. Cardinality(GrantsOf(r)) \in Nat
  BY <1>2, FS_Subset, FS_CardinalityType
<1>4. now \in Nat \ {0} /\ hold \in Nat /\ failures \in 0 .. MaxFailures
  BY ProviderAssumption DEF ProviderInv, ClockOK
<1>5. Len(Plan[r]) \in Nat /\ MaxFailures \in Nat
  BY ProviderAssumption
<1>6. sent = [sent EXCEPT ![r] = sent[r]]
  BY DEF ProviderInv, RunsOK
<1>7. Unused(runs[r]) \in {0, 1}
  BY DEF Unused
<1>. QED BY <1>1, <1>3, <1>4, <1>5, <1>6, <1>7, SMTT(60) DEF Fits, RunRecords

LEMMA NoNewHolds ==
  ASSUME UNCHANGED held PROVE NewHolds
BY DEF NewHolds

LEMMA TickInv ==
  ASSUME ProviderInv, Tick PROVE ProviderInv'
<1>1. now \in Nat /\ now' = now + 1 /\ now < MaxTime /\ MaxTime \in Nat
  BY ProviderAssumption DEF ProviderInv, ClockOK, Tick
<1>2. ClockOK'
  BY <1>1 DEF ProviderInv, ClockOK, Tick
<1>3. GrantsOK'
  BY <1>1, LongestWindow DEF ProviderInv, GrantsOK, Tick
<1>4. HoldsOK'
  BY DEF ProviderInv, HoldsOK, HoldOK, Tick
<1>5. ASSUME NEW r \in Runs PROVE Fits(r, runs[r], sent[r], now', Cardinality(GrantsOf(r)))
  <2>1. Fits(r, runs[r], sent[r], now, Cardinality(GrantsOf(r)))
        /\ runs[r].lastReservationAt \in Nat /\ runs[r].heldUntil \in Nat
    BY RunFacts DEF RunRecords
  <2>. QED BY <1>1, <2>1 DEF Fits
<1>6. RunsOK'
  BY <1>5 DEF ProviderInv, RunsOK, RunFits, GrantsOf, Tick
<1>7. WindowsRespected' /\ HoldsAreHonoured'
  BY DEF ProviderInv, WindowsRespected, HoldsAreHonoured, Tick
<1>. QED BY <1>2, <1>3, <1>4, <1>6, <1>7 DEF ProviderInv

(* A step that only moves its run.                                             *)
LEMMA OwnStepInv ==
  ASSUME ProviderInv, NEW r \in Runs, NEW run, NEW requests,
         runs' = [runs EXCEPT ![r] = run], sent' = [sent EXCEPT ![r] = requests],
         runs[r].pc # "ended", run.pc = "ended" \/ runs[r].heldUntil <= run.heldUntil,
         RunFits(r, run, requests), failures' \in 0 .. MaxFailures,
         UNCHANGED <<now, ledger, hold, granted, held>>
  PROVE  ProviderInv'
<1>1. hold' \in Nat /\ hold <= hold'
  BY DEF ProviderInv, ClockOK
<1>2. Becomes(r, run, requests) /\ NewHolds
  BY NoNewHolds DEF Becomes
<1>. QED BY <1>1, <1>2, MoveInv

LEMMA QuietStepInv ==
  ASSUME ProviderInv, NEW r \in Runs, NEW run, runs' = [runs EXCEPT ![r] = run],
         runs[r].pc # "ended", run.pc = "ended" \/ runs[r].heldUntil <= run.heldUntil,
         RunFits(r, run, sent[r]), failures' \in 0 .. MaxFailures,
         UNCHANGED <<now, ledger, hold, granted, held, sent>>
  PROVE  ProviderInv'
<1>1. sent' = [sent EXCEPT ![r] = sent[r]]
  BY RunFacts
<1>. QED BY <1>1, OwnStepInv

LEMMA LeaseInv ==
  ASSUME ProviderInv, NEW r \in Runs, Lease(r) PROVE ProviderInv'
<1> DEFINE run == [runs[r] EXCEPT !.pc = "leased", !.startedAt = now]
<1>1. /\ run \in RunRecords /\ run.pc = "leased" /\ run.answers = runs[r].answers
      /\ run.heldUntil = runs[r].heldUntil
      /\ run.lastReservationAt = runs[r].lastReservationAt
  BY RunFacts DEF RunRecords, Places
<1>2. runs' = [runs EXCEPT ![r] = run] /\ runs[r].pc = "idle"
  BY DEF Lease, goes, at
<1> HIDE DEF run
<1>3. RunFits(r, run, sent[r])
  BY <1>1, <1>2, RunFacts DEF RunFits, Fits, Unused, Underway
<1>4. /\ UNCHANGED <<now, ledger, hold, granted, held, sent>>
      /\ failures' = failures /\ runs[r].heldUntil <= run.heldUntil
  BY <1>1, RunFacts DEF Lease
<1>. QED BY <1>1, <1>2, <1>3, <1>4, RunFacts, QuietStepInv

LEMMA EnterCoordinationInv ==
  ASSUME ProviderInv, NEW r \in Runs, EnterCoordination(r) PROVE ProviderInv'
<1>1. PICK aborted \in BOOLEAN :
        runs' = [runs EXCEPT ![r] = [runs[r] EXCEPT !.pc = "next", !.aborted = aborted]]
  <2> DEFINE late == runs[r].aborted \/ now >= runs[r].startedAt + Deadline
  <2>1. runs' = [runs EXCEPT ![r] = [runs[r] EXCEPT !.pc = "next", !.aborted = late]]
    BY DEF EnterCoordination, goes
  <2>2. late \in BOOLEAN
    OBVIOUS
  <2> HIDE DEF late
  <2>. QED BY <2>1, <2>2
<1> DEFINE run == [runs[r] EXCEPT !.pc = "next", !.aborted = aborted]
<1>2. /\ run \in RunRecords /\ run.pc = "next" /\ run.answers = runs[r].answers
      /\ run.heldUntil = runs[r].heldUntil
      /\ run.lastReservationAt = runs[r].lastReservationAt
  BY RunFacts, ZenonT(60) DEF RunRecords, Places
<1>3. runs' = [runs EXCEPT ![r] = run] /\ runs[r].pc = "leased"
  BY <1>1 DEF EnterCoordination, at
<1> HIDE DEF run
<1>4. RunFits(r, run, sent[r])
  BY <1>2, <1>3, RunFacts DEF RunFits, Fits, Unused, Underway
<1>5. /\ UNCHANGED <<now, ledger, hold, granted, held, sent>>
      /\ failures' = failures /\ runs[r].heldUntil <= run.heldUntil
  BY <1>2, RunFacts DEF EnterCoordination
<1>. QED BY <1>2, <1>3, <1>4, <1>5, RunFacts, QuietStepInv

LEMMA ExpireInv ==
  ASSUME ProviderInv, NEW r \in Runs, Expire(r) PROVE ProviderInv'
<1> DEFINE run == [runs[r] EXCEPT !.aborted = TRUE]
<1>1. /\ run \in RunRecords /\ run.pc = runs[r].pc /\ run.answers = runs[r].answers
      /\ run.heldUntil = runs[r].heldUntil /\ run.reply = runs[r].reply
      /\ run.lastReservationAt = runs[r].lastReservationAt
  BY RunFacts DEF RunRecords
<1>2. runs' = [runs EXCEPT ![r] = run] /\ runs[r].pc # "ended"
  BY DEF Expire, goes
<1> HIDE DEF run
<1>3. RunFits(r, run, sent[r])
  BY <1>1, <1>2, RunFacts DEF RunFits, Fits, Unused
<1>4. /\ UNCHANGED <<now, ledger, hold, granted, held, sent>>
      /\ failures' = failures /\ runs[r].heldUntil <= run.heldUntil
  BY <1>1, RunFacts DEF Expire
<1>. QED BY <1>1, <1>2, <1>3, <1>4, RunFacts, QuietStepInv

LEMMA NextOperationInv ==
  ASSUME ProviderInv, NEW r \in Runs, NextOperation(r) PROVE ProviderInv'
<1>1. runs[r].pc = "next" /\ UNCHANGED <<now, ledger, hold, granted, held, failures, sent>>
  BY DEF NextOperation, at
<1>2. CASE Len(runs[r].answers) = Len(Plan[r]) \/ runs[r].aborted
  <2> DEFINE answers == [n \in DOMAIN Plan[r] |->
                           IF n \in DOMAIN runs[r].answers
                           THEN runs[r].answers[n] ELSE NotExecuted]
             run == [idle EXCEPT !.pc = "ended", !.late = runs[r].late, !.answers = answers]
  <2>1. answers \in Seq(Outcomes) /\ Len(answers) = Len(Plan[r])
    <3>1. Plan[r] \in Seq(Kinds)
      BY ProviderAssumption DEF Kinds
    <3>2. NotExecuted \in Outcomes
      BY SMTT(30) DEF NotExecuted, outcomeOf, Outcomes, Variants, Reasons, NotAttemptedReasons, NoInstant,
             Attempts
    <3>3. \A n \in DOMAIN runs[r].answers : runs[r].answers[n] \in Outcomes
      BY RunFacts
    <3>4. DOMAIN Plan[r] = 1 .. Len(Plan[r])
      BY <3>1
    <3>5. answers \in [1 .. Len(Plan[r]) -> Outcomes]
      BY <3>2, <3>3, <3>4
    <3>6. PICK m \in Nat : m = Len(Plan[r])
      BY <3>1
    <3> HIDE DEF answers
    <3>7. answers \in [1 .. m -> Outcomes]
      BY <3>5, <3>6
    <3>8. answers \in Seq(Outcomes) /\ Len(answers) = m
      BY <3>7
    <3>. QED BY <3>6, <3>8
  <2>2. runs' = [runs EXCEPT ![r] = run]
    BY <1>2 DEF NextOperation, goes
  <2> HIDE DEF answers
  <2>3. /\ idle \in RunRecords /\ idle.lastReservationAt = 0
        /\ runs[r].late \in SUBSET Kinds /\ "ended" \in Places
    BY RunFacts, SMTT(60) DEF RunRecords, Places, idle, Replies, Attempts, NoInstant
  <2>4. /\ run \in RunRecords /\ run.pc = "ended" /\ run.answers = answers
        /\ run.lastReservationAt = 0
    BY <2>1, <2>3 DEF RunRecords
  <2> HIDE DEF run
  <2>5. Unused(run) = 0 /\ run.pc \notin Underway \cup {"pace", "asked"}
    BY <2>4 DEF Unused, Underway
  <2>6. RunFits(r, run, sent[r])
    BY <2>1, <2>4, <2>5, RunFacts DEF RunFits, Fits
  <2>. QED BY <1>1, <2>2, <2>4, <2>6, RunFacts, QuietStepInv
<1>3. CASE ~(Len(runs[r].answers) = Len(Plan[r]) \/ runs[r].aborted)
  <2>1. Len(runs[r].answers) < Len(Plan[r])
    BY <1>3, RunFacts, SMTT(60) DEF Fits
  <2>2. runs' = [runs EXCEPT ![r] = Request(r, runs[r])]
    BY <1>3 DEF NextOperation, goes
  <2>3. /\ RunFits(r, Request(r, runs[r]), sent[r])
        /\ Request(r, runs[r]).heldUntil = runs[r].heldUntil
    BY <2>1, RunFacts, RequestFits
  <2>4. runs[r].heldUntil <= Request(r, runs[r]).heldUntil /\ failures' \in 0 .. MaxFailures
    BY <1>1, <2>3, RunFacts
  <2>. QED BY <1>1, <2>2, <2>3, <2>4, QuietStepInv
<1>. QED BY <1>2, <1>3

LEMMA AskInv ==
  ASSUME ProviderInv, NEW r \in Runs, Ask(r) PROVE ProviderInv'
<1> DEFINE run == [runs[r] EXCEPT !.pc = "asked", !.lastReservationAt = now]
<1>1. /\ run \in RunRecords /\ run.pc = "asked" /\ run.answers = runs[r].answers
      /\ run.heldUntil = runs[r].heldUntil /\ run.lastReservationAt = now
  BY RunFacts DEF RunRecords, Places
<1>2. runs' = [runs EXCEPT ![r] = run] /\ runs[r].pc = "pace"
  BY DEF Ask, goes, at
<1> HIDE DEF run
<1>3. /\ Fits(r, runs[r], sent[r], now, Cardinality(GrantsOf(r)))
      /\ runs[r].pc = "pace" /\ now \in Nat /\ Unused(runs[r]) = 0 /\ Unused(run) = 0
  BY <1>1, <1>2, RunFacts DEF Unused
<1>4. RunFits(r, run, sent[r])
  BY <1>1, <1>3 DEF RunFits, Fits, Underway
<1>5. /\ UNCHANGED <<now, ledger, hold, granted, held, sent>>
      /\ failures' = failures /\ runs[r].heldUntil <= run.heldUntil
  BY <1>1, RunFacts DEF Ask
<1>. QED BY <1>1, <1>2, <1>4, <1>5, RunFacts, QuietStepInv

LEMMA LedgerIsRecord ==
  ASSUME ProviderInv
  PROVE  now \in Nat /\ IsRecord(ledger, now)
<1>1. IsFiniteSet(ledger)
  BY FS_Subset DEF ProviderInv, GrantsOK
<1>2. now \in Nat
  BY ProviderAssumption DEF ProviderInv, ClockOK
<1>. QED BY <1>1, <1>2 DEF IsRecord, ProviderInv, GrantsOK

LEMMA LimitingWhenPruned ==
  ASSUME NEW t \in Nat, NEW R, IsRecord(R, t)
  PROVE  Limiting(Pruned(R, t), t) = Limiting(R, t)
<1>1. \A w \in Windows : InWindow(Pruned(R, t), w, t) = InWindow(R, w, t)
  BY PrunedWindow
<1>. QED BY <1>1 DEF Limiting, Exhausted

LEMMA DecisionType ==
  ASSUME ProviderInv
  PROVE  /\ Decision(ledger, hold, now) \in Replies
         /\ Decision(ledger, hold, now).outcome \in {"allowed", "deferred"}
<1>1. hold \in Nat /\ now \in Nat /\ IsRecord(ledger, now)
  BY LedgerIsRecord DEF ProviderInv, ClockOK
<1>2. CASE hold > now
  BY <1>1, <1>2 DEF Decision, Replies
<1>3. CASE ~(hold > now) /\ Limiting(Pruned(ledger, now), now) # {}
  <2>1. Limiting(ledger, now) # {}
    BY <1>1, <1>3, LimitingWhenPruned
  <2>2. RetryAt(Pruned(ledger, now), now) \in Nat
    BY <1>1, <2>1, RetryIsExact
  <2>. QED BY <1>3, <2>2 DEF Decision, Replies
<1>4. CASE ~(hold > now) /\ Limiting(Pruned(ledger, now), now) = {}
  BY <1>4 DEF Decision, Replies, NoInstant
<1>. QED BY <1>2, <1>3, <1>4

LEMMA ReserveInv ==
  ASSUME ProviderInv, NEW r \in Runs, Reserve(r) PROVE ProviderInv'
<1>1. runs[r].pc = "asked" /\ UNCHANGED <<now, hold, held, sent>>
  BY DEF Reserve, at
<1>2. PICK reply \in Replies :
        /\ runs' = [runs EXCEPT ![r] = [runs[r] EXCEPT !.pc = "answered", !.reply = reply]]
        /\ failures' \in 0 .. MaxFailures
        /\ reply.outcome = "allowed" => Decision(ledger, hold, now).outcome = "allowed"
  <2> DEFINE lost == [outcome |-> "unavailable", retryAt |-> NoInstant]
  <2>1. lost \in Replies /\ lost.outcome # "allowed"
    BY DEF Replies, NoInstant
  <2>2. failures \in 0 .. MaxFailures /\ MaxFailures \in Nat
    BY RunFacts
  <2>3. \/ /\ runs' = [runs EXCEPT ![r] = [runs[r] EXCEPT !.pc = "answered",
                                             !.reply = Decision(ledger, hold, now)]]
           /\ failures' = failures
        \/ /\ runs' = [runs EXCEPT ![r] = [runs[r] EXCEPT !.pc = "answered", !.reply = lost]]
           /\ failures < MaxFailures /\ failures' = failures + 1
    BY DEF Reserve, goes
  <2> HIDE DEF lost
  <2>4. CASE failures' = failures
    BY <2>1, <2>2, <2>3, <2>4, DecisionType
  <2>5. CASE failures' # failures
    <3>1. runs' = [runs EXCEPT ![r] = [runs[r] EXCEPT !.pc = "answered", !.reply = lost]]
      BY <2>3, <2>5
    <3>2. failures' \in 0 .. MaxFailures
      BY <2>2, <2>3, <2>5
    <3>. QED BY <2>1, <3>1, <3>2
  <2>. QED BY <2>4, <2>5
<1> DEFINE run == [runs[r] EXCEPT !.pc = "answered", !.reply = reply]
<1>3. /\ run \in RunRecords /\ run.pc = "answered" /\ run.answers = runs[r].answers
      /\ run.heldUntil = runs[r].heldUntil /\ run.reply = reply
      /\ run.lastReservationAt = runs[r].lastReservationAt
  BY RunFacts DEF RunRecords, Places
<1>4. runs' = [runs EXCEPT ![r] = run]
  BY <1>2
<1> HIDE DEF run
<1>5. CASE Decision(ledger, hold, now).outcome = "allowed"
  <2>1. /\ granted' = granted \cup {Granted(r)}
        /\ ledger' = Pruned(ledger, now) \cup {Granted(r)}
    BY <1>5 DEF Reserve, Granted
  <2>2. GrantsOK' /\ WindowsRespected' /\ HoldsAreHonoured'
    BY <1>1, <1>5, <2>1, GrantsAfter
  <2>3. /\ Cardinality(granted) \in Nat /\ Cardinality(granted') = Cardinality(granted) + 1
        /\ \A q : /\ Cardinality(GrantsOf(q)) \in Nat
                  /\ Cardinality(GrantsOf(q)') =
                       Cardinality(GrantsOf(q)) + (IF q = r THEN 1 ELSE 0)
    BY <2>1, GrantCounts
  <2>4. Becomes(r, run, sent[r])
    BY <1>1, <1>3, <1>4, RunFacts DEF Becomes
  <2>5. Fits(r, run, sent[r], now', Cardinality(GrantsOf(r)'))
    <3>1. Len(sent[r]) + Unused(run) <= Cardinality(GrantsOf(r)')
      <4>1. Cardinality(GrantsOf(r)') = Cardinality(GrantsOf(r)) + 1
        BY <2>3
      <4>2. Unused(run) \in {0, 1}
        BY DEF Unused
      <4>3. /\ Len(sent[r]) \in Nat /\ Cardinality(GrantsOf(r)) \in Nat
            /\ Len(sent[r]) <= Cardinality(GrantsOf(r))
        BY RunFacts
      <4>. QED BY <4>1, <4>2, <4>3
    <3>2. Len(runs[r].answers) < Len(Plan[r])
      BY <1>1, RunFacts DEF Fits, Underway
    <3>. QED BY <1>1, <1>3, <3>1, <3>2, RunFacts DEF Fits
  <2>6. ASSUME NEW q \in Runs \ {r}
        PROVE  Fits(q, runs[q], sent[q], now', Cardinality(GrantsOf(q)'))
    <3>1. Cardinality(GrantsOf(q)') = Cardinality(GrantsOf(q))
      BY <2>3, <2>6
    <3>. QED BY <1>1, <3>1, RunFacts
  <2>7. RunsOK'
    BY <2>4, <2>5, <2>6, RunsAfter
  <2>8. HoldsOK'
    <3>1. hold' \in Nat /\ hold <= hold' /\ Cardinality(granted') \in Nat
          /\ Cardinality(granted) <= Cardinality(granted')
      BY <1>1, <2>3, RunFacts
    <3>2. \A h \in held : HoldOK(h)'
      BY <1>3, <2>3, <2>4, <3>1, HoldsAfter
    <3>. QED BY <1>1, <3>2 DEF HoldsOK
  <2>9. ClockOK'
    BY <1>1, <1>2 DEF ProviderInv, ClockOK
  <2>. QED BY <2>2, <2>7, <2>8, <2>9 DEF ProviderInv
<1>6. CASE Decision(ledger, hold, now).outcome # "allowed"
  <2>1. UNCHANGED <<ledger, granted>>
    BY <1>6 DEF Reserve
  <2>2. Unused(run) = 0
    BY <1>2, <1>3, <1>6 DEF Unused
  <2>3. Len(runs[r].answers) < Len(Plan[r])
    BY <1>1, RunFacts DEF Fits, Underway
  <2>4. RunFits(r, run, sent[r])
    BY <1>3, <2>2, <2>3, RunFacts DEF RunFits, Fits
  <2>5. runs[r].heldUntil <= run.heldUntil
    BY <1>3, RunFacts
  <2>. QED BY <1>1, <1>2, <1>4, <2>1, <2>4, <2>5, QuietStepInv
<1>. QED BY <1>5, <1>6

LEMMA ElsewhereReserveInv ==
  ASSUME ProviderInv, ElsewhereReserve PROVE ProviderInv'
<1>1. /\ UNCHANGED <<now, hold, held, runs, sent, failures>>
      /\ Decision(ledger, hold, now).outcome = "allowed"
      /\ granted' = granted \cup {Granted("elsewhere")}
      /\ ledger' = Pruned(ledger, now) \cup {Granted("elsewhere")}
  BY DEF ElsewhereReserve, Granted
<1>2. GrantsOK' /\ WindowsRespected' /\ HoldsAreHonoured'
  BY <1>1, ProviderAssumption, GrantsAfter
<1>3. /\ Cardinality(granted) \in Nat /\ Cardinality(granted') = Cardinality(granted) + 1
      /\ \A q \in Runs : Cardinality(GrantsOf(q)') = Cardinality(GrantsOf(q))
  <2>1. \A q : /\ Cardinality(GrantsOf(q)) \in Nat
               /\ Cardinality(GrantsOf(q)') =
                    Cardinality(GrantsOf(q)) + (IF q = "elsewhere" THEN 1 ELSE 0)
    BY <1>1, GrantCounts
  <2>2. \A q \in Runs : q # "elsewhere"
    BY ProviderAssumption
  <2>3. \A q \in Runs : Cardinality(GrantsOf(q)') = Cardinality(GrantsOf(q)) + 0
    BY <2>1, <2>2
  <2>4. Cardinality(granted) \in Nat /\ Cardinality(granted') = Cardinality(granted) + 1
    BY <1>1, GrantCounts
  <2>. QED BY <2>1, <2>3, <2>4
<1>4. RunsOK'
  BY <1>1, <1>3 DEF ProviderInv, RunsOK, RunFits
<1>5. HoldsOK'
  BY <1>1, <1>3 DEF ProviderInv, HoldsOK, HoldOK
<1>6. ClockOK'
  BY <1>1 DEF ProviderInv, ClockOK
<1>. QED BY <1>2, <1>4, <1>5, <1>6 DEF ProviderInv

LEMMA UnreachableInv ==
  ASSUME ProviderInv, NEW r \in Runs, Unreachable(r) PROVE ProviderInv'
<1> DEFINE lost == [outcome |-> "unavailable", retryAt |-> NoInstant]
           run == [runs[r] EXCEPT !.pc = "answered", !.reply = lost]
<1>1. lost \in Replies /\ lost.outcome # "allowed"
  BY DEF Replies, NoInstant
<1>2. runs' = [runs EXCEPT ![r] = run]
  BY DEF Unreachable, goes
<1> HIDE DEF lost
<1>3. /\ run \in RunRecords /\ run.pc = "answered" /\ run.answers = runs[r].answers
      /\ run.heldUntil = runs[r].heldUntil /\ run.reply = lost
      /\ run.lastReservationAt = runs[r].lastReservationAt
  BY <1>1, RunFacts DEF RunRecords, Places
<1> HIDE DEF run
<1>4. /\ runs[r].pc = "asked" /\ failures' \in 0 .. MaxFailures
      /\ UNCHANGED <<now, ledger, hold, granted, held, sent>>
  BY RunFacts DEF Unreachable, at
<1>5. Unused(run) = 0 /\ Len(runs[r].answers) < Len(Plan[r])
  BY <1>1, <1>3, <1>4, RunFacts DEF Unused, Fits, Underway
<1>6. RunFits(r, run, sent[r]) /\ runs[r].heldUntil <= run.heldUntil
  BY <1>3, <1>5, RunFacts DEF RunFits, Fits
<1>. QED BY <1>2, <1>4, <1>6, QuietStepInv

LEMMA SendInv ==
  ASSUME ProviderInv, NEW r \in Runs, Send(r) PROVE ProviderInv'
<1> DEFINE run == [runs[r] EXCEPT !.pc = "sent"]
<1>1. /\ runs' = [runs EXCEPT ![r] = run] /\ sent' = [sent EXCEPT ![r] = Append(sent[r], "out")]
      /\ runs[r].pc = "answered" /\ runs[r].reply.outcome = "allowed"
      /\ UNCHANGED <<now, ledger, hold, granted, held, failures>>
  BY DEF Send, goes, at
<1>2. /\ run \in RunRecords /\ run.pc = "sent" /\ run.answers = runs[r].answers
      /\ run.heldUntil = runs[r].heldUntil
      /\ run.lastReservationAt = runs[r].lastReservationAt
  BY RunFacts DEF RunRecords, Places
<1> HIDE DEF run
<1>3. /\ Append(sent[r], "out") \in Seq(Endings)
      /\ Len(Append(sent[r], "out")) = Len(sent[r]) + 1
  BY RunFacts DEF Endings
<1>4. Unused(runs[r]) = 1 /\ Unused(run) = 0 /\ Len(runs[r].answers) < Len(Plan[r])
  BY <1>1, <1>2, RunFacts DEF Unused, Fits, Underway
<1>5. Len(sent[r]) + 1 <= Cardinality(GrantsOf(r))
  BY <1>4, RunFacts DEF Fits
<1>6. RunFits(r, run, Append(sent[r], "out")) /\ runs[r].heldUntil <= run.heldUntil
  BY <1>2, <1>3, <1>4, <1>5, RunFacts DEF RunFits, Fits
<1>. QED BY <1>1, <1>6, RunFacts, OwnStepInv

(* A run that asks for a resource is answered by nothing it was not granted.   *)
LEMMA UnderwayFacts ==
  ASSUME ProviderInv, NEW r \in Runs, runs[r].pc \in Underway
  PROVE  /\ Len(runs[r].answers) < Len(Plan[r]) /\ kindOf(r) \in Kinds
         /\ runs[r].pc # "ended"
BY RunFacts, KindIsPlanned DEF Fits, Underway

LEMMA RefuseInv ==
  ASSUME ProviderInv, NEW r \in Runs, Refuse(r) PROVE ProviderInv'
<1>1. /\ runs[r].pc = "answered" /\ failures' = failures
      /\ UNCHANGED <<now, ledger, hold, granted, held, sent>>
  BY DEF Refuse, at
<1>2. PICK reason \in NotAttemptedReasons, hint \in Nat :
        runs' = [runs EXCEPT ![r] = Answered(r, runs[r],
                                             NotSent(runs[r].attempts, reason, hint))]
  <2>1. runs[r].reply.retryAt \in Nat
    BY RunFacts DEF RunRecords, Replies
  <2>2. /\ {"limiter-unavailable", "rate-limit-deferred", "cancelled"} \subseteq NotAttemptedReasons
        /\ NoInstant \in Nat
    BY DEF NotAttemptedReasons, NoInstant
  <2>3. \/ runs' = [runs EXCEPT ![r] = Answered(r, runs[r],
                      NotSent(runs[r].attempts, "limiter-unavailable", NoInstant))]
        \/ runs' = [runs EXCEPT ![r] = Answered(r, runs[r],
                      NotSent(runs[r].attempts, "rate-limit-deferred", runs[r].reply.retryAt))]
        \/ runs' = [runs EXCEPT ![r] = Answered(r, runs[r],
                      NotSent(runs[r].attempts, "cancelled", NoInstant))]
    BY DEF Refuse, goes
  <2>. QED BY <2>1, <2>2, <2>3
<1> DEFINE outcome == NotSent(runs[r].attempts, reason, hint)
<1>3. outcome \in Outcomes
  BY RunFacts, NotSentType
<1>4. Len(runs[r].answers) < Len(Plan[r])
  BY <1>1, UnderwayFacts DEF Underway
<1> HIDE DEF outcome
<1>5. RunFits(r, Answered(r, runs[r], outcome), sent[r])
      /\ Answered(r, runs[r], outcome).heldUntil = runs[r].heldUntil
  BY <1>3, <1>4, RunFacts, AnsweredFits
<1>6. runs' = [runs EXCEPT ![r] = Answered(r, runs[r], outcome)]
  BY <1>2 DEF outcome
<1>7. runs[r].heldUntil <= Answered(r, runs[r], outcome).heldUntil
      /\ failures' \in 0 .. MaxFailures
  BY <1>1, <1>5, RunFacts
<1>. QED BY <1>1, <1>5, <1>6, <1>7, QuietStepInv

(* How a request ended takes the place of its being out.                       *)
LEMMA EndsRequests ==
  ASSUME ProviderInv, NEW r \in Runs, NEW ending, ends(r, ending)
  PROVE  \E requests \in Seq(Endings) :
           /\ sent' = [sent EXCEPT ![r] = requests]
           /\ Len(requests) = Len(sent[r]) /\ Len(requests) <= Cardinality(GrantsOf(r))
<1> DEFINE requests == [sent[r] EXCEPT ![Len(sent[r])] = AttemptOutcomeFor(ending)]
<1>1. sent[r] \in Seq(Endings) /\ Len(sent[r]) <= Cardinality(GrantsOf(r))
  BY RunFacts
<1>2. AttemptOutcomeFor(ending) \in Endings
  <2>1. <<>> \in Attempts /\ "season-calendar" \in Kinds
    BY DEF Attempts, Kinds, Capabilities
  <2>. QED BY <2>1, AttemptType
<1>3. requests \in Seq(Endings) /\ Len(requests) = Len(sent[r])
  <2>1. sent[r] \in [1 .. Len(sent[r]) -> Endings] /\ Len(sent[r]) \in Nat
    BY <1>1
  <2>2. requests \in [1 .. Len(sent[r]) -> Endings]
    BY <1>2, <2>1
  <2> HIDE DEF requests
  <2>. QED BY <2>1, <2>2
<1>4. sent' = [sent EXCEPT ![r] = requests]
  BY DEF ends
<1> HIDE DEF requests
<1>. QED BY <1>1, <1>3, <1>4

LEMMA CompleteInv ==
  ASSUME ProviderInv, NEW r \in Runs, Complete(r) PROVE ProviderInv'
<1>1. /\ runs[r].pc = "sent" /\ ends(r, "completed")
      /\ UNCHANGED <<now, ledger, hold, granted, held, failures>>
  BY DEF Complete, at
<1>2. PICK requests \in Seq(Endings) :
        /\ sent' = [sent EXCEPT ![r] = requests]
        /\ Len(requests) <= Cardinality(GrantsOf(r))
  BY <1>1, EndsRequests
<1>3. /\ Len(runs[r].answers) < Len(Plan[r]) /\ kindOf(r) \in Kinds /\ runs[r].pc # "ended"
  BY <1>1, UnderwayFacts DEF Underway
<1> DEFINE attempts == Append(runs[r].attempts,
                              Attempt(kindOf(r), Len(runs[r].attempts) + 1, "completed"))
           more == [runs[r] EXCEPT !.attempts = attempts]
<1>4. attempts \in Attempts
  BY <1>3, RunFacts, AttemptType
<1>5. PICK reading \in Readings(kindOf(r)) :
        \/ runs' = [runs EXCEPT ![r] = Request(r, more)]
        \/ runs' = [runs EXCEPT ![r] = Answered(r, runs[r], ReadOutcome(attempts, reading))]
  BY DEF Complete, goes
<1> HIDE DEF attempts
<1>6. /\ more \in RunRecords /\ more.answers = runs[r].answers
      /\ more.heldUntil = runs[r].heldUntil
      /\ more.lastReservationAt = runs[r].lastReservationAt
  BY <1>4, RunFacts DEF RunRecords
<1> HIDE DEF more
<1>7. RunFits(r, Request(r, more), requests) /\ Request(r, more).heldUntil = runs[r].heldUntil
  BY <1>2, <1>3, <1>6, RunFacts, RequestFits
<1>8. ReadOutcome(attempts, reading) \in Outcomes
  BY <1>4, ReadOutcomeType
<1> DEFINE outcome == ReadOutcome(attempts, reading)
<1> HIDE DEF outcome
<1>9. RunFits(r, Answered(r, runs[r], outcome), requests)
      /\ Answered(r, runs[r], outcome).heldUntil = runs[r].heldUntil
  BY <1>2, <1>3, <1>8, RunFacts, AnsweredFits DEF outcome
<1>10. PICK run : /\ runs' = [runs EXCEPT ![r] = run]
                  /\ RunFits(r, run, requests) /\ run.heldUntil = runs[r].heldUntil
  BY <1>5, <1>7, <1>9 DEF outcome
<1>11. runs[r].heldUntil <= run.heldUntil /\ failures' \in 0 .. MaxFailures
  BY <1>1, <1>10, RunFacts
<1>. QED BY <1>1, <1>2, <1>3, <1>10, <1>11, OwnStepInv

LEMMA FailInv ==
  ASSUME ProviderInv, NEW r \in Runs, Fail(r) PROVE ProviderInv'
<1>1. PICK ending :
        /\ ends(r, ending)
        /\ runs' = [runs EXCEPT ![r] = Answered(r, runs[r],
                      TransportFailure(kindOf(r), runs[r].attempts, ending, NoInstant))]
  BY DEF Fail, goes
<1>2. runs[r].pc = "sent" /\ UNCHANGED <<now, ledger, hold, granted, held, failures>>
  BY DEF Fail, at
<1>3. PICK requests \in Seq(Endings) :
        /\ sent' = [sent EXCEPT ![r] = requests]
        /\ Len(requests) <= Cardinality(GrantsOf(r))
  BY <1>1, EndsRequests
<1>4. /\ Len(runs[r].answers) < Len(Plan[r]) /\ kindOf(r) \in Kinds /\ runs[r].pc # "ended"
  BY <1>2, UnderwayFacts DEF Underway
<1> DEFINE outcome == TransportFailure(kindOf(r), runs[r].attempts, ending, NoInstant)
<1>5. outcome \in Outcomes
  BY <1>4, RunFacts, TransportFailureType DEF NoInstant
<1>6. runs' = [runs EXCEPT ![r] = Answered(r, runs[r], outcome)]
  BY <1>1
<1> HIDE DEF outcome
<1>7. RunFits(r, Answered(r, runs[r], outcome), requests)
      /\ Answered(r, runs[r], outcome).heldUntil = runs[r].heldUntil
  BY <1>3, <1>4, <1>5, RunFacts, AnsweredFits
<1>8. runs[r].heldUntil <= Answered(r, runs[r], outcome).heldUntil
      /\ failures' \in 0 .. MaxFailures
  BY <1>2, <1>7, RunFacts
<1>. QED BY <1>2, <1>3, <1>4, <1>6, <1>7, <1>8, OwnStepInv

-----------------------------------------------------------------------------
(* The steps that take a hold.                                                 *)

LEMMA LaterFacts ==
  ASSUME NEW a \in Nat, NEW b \in Nat
  PROVE  Later(a, b) \in Nat /\ a <= Later(a, b) /\ b <= Later(a, b)
BY DEF Later

LEMMA HoldUntilType ==
  ASSUME NEW t \in Nat, NEW retryAfter \in Nat
  PROVE  UpstreamHoldUntil(t, retryAfter) \in Nat
BY ProviderAssumption DEF UpstreamHoldUntil

LEMMA RateLimitedInv ==
  ASSUME ProviderInv, NEW r \in Runs, RateLimited(r) PROVE ProviderInv'
<1>1. PICK retryAfter \in RetryAfters :
        /\ runs' = [runs EXCEPT ![r] =
             [runs[r] EXCEPT !.pc = "report", !.retryAfter = retryAfter,
                !.heldUntil = Later(@, UpstreamHoldUntil(now, retryAfter))]]
        /\ holds(r, "run", UpstreamHoldUntil(now, retryAfter))
  BY DEF RateLimited, goes
<1>2. /\ runs[r].pc = "sent" /\ ends(r, "provider-rate-limited")
      /\ UNCHANGED <<now, ledger, hold, granted, failures>>
  BY DEF RateLimited, at
<1> DEFINE until == UpstreamHoldUntil(now, retryAfter)
           extended == Later(runs[r].heldUntil, until)
           run == [runs[r] EXCEPT !.pc = "report", !.retryAfter = retryAfter,
                                  !.heldUntil = extended]
<1>3. retryAfter \in Nat /\ until \in Nat
  BY ProviderAssumption, RunFacts, HoldUntilType
<1>4. runs' = [runs EXCEPT ![r] = run]
  BY <1>1
<1>5. PICK new : /\ held' = held \cup {new} /\ new.run = r /\ new.scope = "run"
                  /\ new.after = Cardinality(granted) /\ new.until = until
  <2>1. PICK new \in {[run |-> r, scope |-> "run", after |-> Cardinality(granted),
                      until |-> until]} : held' = held \cup {new}
    BY <1>1 DEF holds
  <2>. QED BY <2>1
<1> HIDE DEF until
<1>6. extended \in Nat /\ runs[r].heldUntil <= extended /\ until <= extended
  BY <1>3, RunFacts, LaterFacts
<1> HIDE DEF extended
<1>7. /\ run \in RunRecords /\ run.pc = "report" /\ run.answers = runs[r].answers
      /\ run.heldUntil = extended
      /\ run.lastReservationAt = runs[r].lastReservationAt
  BY <1>3, <1>6, RunFacts DEF RunRecords, Places
<1> HIDE DEF run
<1>8. PICK requests \in Seq(Endings) :
        /\ sent' = [sent EXCEPT ![r] = requests]
        /\ Len(requests) <= Cardinality(GrantsOf(r))
  BY <1>2, EndsRequests
<1>9. /\ Len(runs[r].answers) < Len(Plan[r]) /\ runs[r].pc # "ended" /\ Unused(run) = 0
  BY <1>2, <1>7, UnderwayFacts DEF Underway, Unused
<1>10. Len(requests) + 0 <= Cardinality(GrantsOf(r))
  BY <1>8
<1>11. RunFits(r, run, requests)
  BY <1>7, <1>9, <1>10, RunFacts DEF RunFits, Fits
<1>12. Cardinality(granted) \in Nat
  BY FS_CardinalityType DEF ProviderInv, GrantsOK
<1>13. NewHolds
  <2>1. runs'[r] = run
    BY <1>4 DEF ProviderInv, RunsOK
  <2>2. HoldOK(new)'
    BY <1>2, <1>3, <1>6, <1>7, <1>12, <1>5, <2>1 DEF HoldOK
  <2>. QED BY <1>5, <2>2 DEF NewHolds
<1>14. Becomes(r, run, requests)
  BY <1>4, <1>6, <1>7, <1>8, <1>9 DEF Becomes
<1>15. hold' \in Nat /\ hold <= hold' /\ failures' \in 0 .. MaxFailures
  BY <1>2, RunFacts
<1>. QED BY <1>2, <1>11, <1>13, <1>14, <1>15, MoveInv

(* The resource a 429 ended is answered once the report is made or lost.       *)
LEMMA ReportedFits ==
  ASSUME ProviderInv, NEW r \in Runs, runs[r].pc = "report", reported(r)
  PROVE  \E run : /\ runs' = [runs EXCEPT ![r] = run] /\ RunFits(r, run, sent[r])
                  /\ run.heldUntil = runs[r].heldUntil
<1> DEFINE outcome == TransportFailure(kindOf(r), runs[r].attempts, "provider-rate-limited",
                                       runs[r].retryAfter)
<1>1. /\ Len(runs[r].answers) < Len(Plan[r]) /\ kindOf(r) \in Kinds
  BY UnderwayFacts DEF Underway
<1>2. outcome \in Outcomes
  BY <1>1, RunFacts, TransportFailureType DEF RunRecords
<1>3. runs' = [runs EXCEPT ![r] = Answered(r, runs[r], outcome)]
  BY DEF reported, goes
<1> HIDE DEF outcome
<1>4. RunFits(r, Answered(r, runs[r], outcome), sent[r])
      /\ Answered(r, runs[r], outcome).heldUntil = runs[r].heldUntil
  BY <1>1, <1>2, RunFacts, AnsweredFits
<1>. QED BY <1>3, <1>4

LEMMA RecordRateLimitInv ==
  ASSUME ProviderInv, NEW r \in Runs, RecordRateLimit(r) PROVE ProviderInv'
<1> DEFINE until == UpstreamHoldUntil(now, runs[r].retryAfter)
<1>1. PICK new : /\ held' = held \cup {new} /\ new.run = r /\ new.scope = "object"
                  /\ new.after = Cardinality(granted) /\ new.until = until
  <2>1. PICK new \in {[run |-> r, scope |-> "object", after |-> Cardinality(granted),
                      until |-> until]} : held' = held \cup {new}
    BY DEF RecordRateLimit, holds
  <2>. QED BY <2>1
<1>2. /\ runs[r].pc = "report" /\ hold' = Later(hold, until) /\ reported(r)
      /\ UNCHANGED <<now, ledger, granted, failures, sent>>
  BY DEF RecordRateLimit, at
<1>3. until \in Nat
  BY RunFacts, HoldUntilType DEF RunRecords
<1> HIDE DEF until
<1>4. hold' \in Nat /\ hold <= hold' /\ until <= hold' /\ failures' \in 0 .. MaxFailures
  BY <1>2, <1>3, RunFacts, LaterFacts
<1>5. PICK run : /\ runs' = [runs EXCEPT ![r] = run] /\ RunFits(r, run, sent[r])
                 /\ run.heldUntil = runs[r].heldUntil
  BY <1>2, ReportedFits
<1>6. Cardinality(granted) \in Nat
  BY FS_CardinalityType DEF ProviderInv, GrantsOK
<1>7. NewHolds
  <2>1. HoldOK(new)'
    BY <1>2, <1>3, <1>4, <1>6, <1>1 DEF HoldOK
  <2>. QED BY <1>1, <2>1 DEF NewHolds
<1>8. Becomes(r, run, sent[r])
  BY <1>2, <1>5, RunFacts DEF Becomes
<1>. QED BY <1>2, <1>4, <1>5, <1>7, <1>8, MoveInv

LEMMA LoseReportInv ==
  ASSUME ProviderInv, NEW r \in Runs, LoseReport(r) PROVE ProviderInv'
<1>1. /\ runs[r].pc = "report" /\ reported(r) /\ failures' \in 0 .. MaxFailures
      /\ UNCHANGED <<now, ledger, hold, granted, held, sent>>
  BY RunFacts DEF LoseReport, at
<1>2. PICK run : /\ runs' = [runs EXCEPT ![r] = run] /\ RunFits(r, run, sent[r])
                 /\ run.heldUntil = runs[r].heldUntil
  BY <1>1, ReportedFits
<1>3. runs[r].heldUntil <= run.heldUntil
  BY <1>2, RunFacts
<1>. QED BY <1>1, <1>2, <1>3, QuietStepInv

LEMMA ElsewhereReportInv ==
  ASSUME ProviderInv, ElsewhereReport PROVE ProviderInv'
<1>1. PICK retryAfter \in RetryAfters :
        /\ hold' = Later(hold, UpstreamHoldUntil(now, retryAfter))
        /\ holds("elsewhere", "object", UpstreamHoldUntil(now, retryAfter))
  BY DEF ElsewhereReport
<1> DEFINE until == UpstreamHoldUntil(now, retryAfter)
<1>2. PICK new : /\ held' = held \cup {new} /\ new.run = "elsewhere" /\ new.scope = "object"
                  /\ new.after = Cardinality(granted) /\ new.until = until
  <2>1. PICK new \in {[run |-> "elsewhere", scope |-> "object", after |-> Cardinality(granted),
                      until |-> until]} : held' = held \cup {new}
    BY <1>1 DEF holds
  <2>. QED BY <2>1
<1>3. /\ hold' = Later(hold, until)
      /\ UNCHANGED <<now, ledger, runs, failures, granted, sent>>
  BY <1>1 DEF ElsewhereReport
<1>4. now \in Nat /\ hold \in Nat /\ failures \in 0 .. MaxFailures
  BY ProviderAssumption DEF ProviderInv, ClockOK
<1>5. until \in Nat
  BY <1>4, ProviderAssumption, HoldUntilType
<1> HIDE DEF until
<1>6. hold' \in Nat /\ hold <= hold' /\ until <= hold'
  BY <1>3, <1>4, <1>5, LaterFacts
<1>7. Cardinality(granted) \in Nat
  BY FS_CardinalityType DEF ProviderInv, GrantsOK
<1>8. NewHolds
  <2>1. HoldOK(new)'
    BY <1>3, <1>5, <1>6, <1>7, <1>2 DEF HoldOK
  <2>. QED BY <1>2, <2>1 DEF NewHolds
<1>9. GrantsOK' /\ WindowsRespected' /\ HoldsAreHonoured'
  BY <1>3, <1>8, GrantsStay
<1>10. ClockOK' /\ RunsOK'
  BY <1>3, <1>6 DEF ProviderInv, ClockOK, RunsOK, RunFits, GrantsOf
<1>11. HoldsOK'
  <2>1. ASSUME NEW h \in held PROVE HoldOK(h)'
    <3>1. HoldOK(h)
      BY DEF ProviderInv, HoldsOK
    <3>. QED BY <1>3, <1>4, <1>6, <3>1 DEF HoldOK
  <2>. QED BY <1>8, <2>1 DEF HoldsOK, NewHolds
<1>. QED BY <1>9, <1>10, <1>11 DEF ProviderInv

-----------------------------------------------------------------------------
(* The invariant and what it gives.                                            *)

LEMMA InitProviderInv ==
  ASSUME Init PROVE ProviderInv
<1>1. ClockOK
  BY ProviderAssumption DEF Init, ClockOK, NoInstant
<1>2. IsFiniteSet({}) /\ Cardinality({}) = 0
  BY FS_EmptySet
<1>3. GrantsOK /\ HoldsOK /\ WindowsRespected /\ HoldsAreHonoured
  BY <1>2 DEF Init, GrantsOK, HoldsOK, WindowsRespected, HoldsAreHonoured
<1>4. idle \in RunRecords /\ idle.answers = <<>> /\ idle.pc = "idle"
      /\ idle.lastReservationAt = 0
  BY DEF idle, RunRecords, Places, Replies, Attempts, NoInstant
<1>5. ASSUME NEW r \in Runs PROVE RunFits(r, idle, <<>>)
  <2>1. GrantsOf(r) = {}
    BY DEF Init, GrantsOf
  <2>2. Unused(idle) = 0 /\ idle.pc \notin Underway \cup {"pace", "asked"}
    BY <1>4 DEF Unused, Underway
  <2>3. Len(Plan[r]) \in Nat /\ <<>> \in Seq(Endings) /\ Len(<<>>) = 0 /\ now = 1
    BY ProviderAssumption DEF Init
  <2>4. Cardinality(GrantsOf(r)) = 0
    BY <1>2, <2>1
  <2> HIDE DEF idle
  <2>. QED BY <1>4, <2>2, <2>3, <2>4 DEF RunFits, Fits
<1>6. RunsOK
  BY <1>5 DEF Init, RunsOK
<1>. QED BY <1>1, <1>3, <1>6 DEF ProviderInv

LEMMA NextProviderInv ==
  ASSUME ProviderInv, [Next]_vars PROVE ProviderInv'
<1>1. CASE UNCHANGED vars
  BY <1>1 DEF vars, ProviderInv, ClockOK, GrantsOK, HoldsOK, HoldOK, RunsOK, RunFits, GrantsOf,
              WindowsRespected, HoldsAreHonoured
<1>2. CASE Tick
  BY <1>2, TickInv
<1>3. CASE ElsewhereReserve
  BY <1>3, ElsewhereReserveInv
<1>4. CASE ElsewhereReport
  BY <1>4, ElsewhereReportInv
<1>5. ASSUME NEW r \in Runs,
             \/ Lease(r) \/ EnterCoordination(r) \/ Expire(r) \/ NextOperation(r)
             \/ Ask(r) \/ Reserve(r) \/ Unreachable(r) \/ Send(r) \/ Refuse(r)
             \/ Complete(r) \/ Fail(r) \/ RateLimited(r) \/ RecordRateLimit(r)
             \/ LoseReport(r)
      PROVE  ProviderInv'
  BY <1>5, LeaseInv, EnterCoordinationInv, ExpireInv, NextOperationInv, AskInv, ReserveInv,
     UnreachableInv, SendInv, RefuseInv, CompleteInv, FailInv, RateLimitedInv,
     RecordRateLimitInv, LoseReportInv
<1>. QED BY <1>1, <1>2, <1>3, <1>4, <1>5 DEF Next

(* The invariant of the limiter and its runs holds for every set of runs, of   *)
(* plans and of windows (providers/http/limiter).                              *)
THEOREM ProviderSafe == Spec => []ProviderInv
<1>1. Init => ProviderInv
  BY InitProviderInv
<1>2. ProviderInv /\ [Next]_vars => ProviderInv'
  BY NextProviderInv
<1>. QED BY <1>1, <1>2, PTL DEF Spec

LEMMA TypesAreKept ==
  ASSUME ProviderInv PROVE TypeOK
<1>1. now \in 1 .. MaxTime + 1 /\ hold \in Nat /\ failures \in 0 .. MaxFailures
      /\ ledger \subseteq granted
  BY DEF ProviderInv, ClockOK, GrantsOK
<1>2. \A g \in granted : g.id \in Nat /\ g.at \in 1 .. now /\ g.run \in Runs \cup {"elsewhere"}
  BY DEF ProviderInv, GrantsOK
<1>3. \A h \in held : h.run \in Runs \cup {"elsewhere"} /\ h.after \in Nat /\ h.until \in Nat
  BY DEF ProviderInv, HoldsOK, HoldOK
<1>4. ASSUME NEW r \in Runs
      PROVE  /\ runs[r].pc \in Places /\ runs[r].aborted \in BOOLEAN
             /\ runs[r].heldUntil \in Nat /\ runs[r].lastReservationAt \in 0 .. now
             /\ Len(runs[r].answers) <= Len(Plan[r])
             /\ \A i \in DOMAIN sent[r] : sent[r][i] \in Endings
  BY RunFacts, SMTT(60) DEF RunRecords, Fits
<1>. QED BY <1>1, <1>2, <1>3, <1>4 DEF TypeOK

(* No published window ever holds more than its limit, for any number of       *)
(* windows and of runs, and a deferral names exactly the instant the same      *)
(* record admits again (reservation-engine.ts).                                *)
THEOREM ReservationsSound == Spec => []ReservationsAreSound
<1>1. ProviderInv => ReservationsAreSound
  <2> SUFFICES ASSUME ProviderInv PROVE ReservationsAreSound
    OBVIOUS
  <2>1. RetryAtIsExact
    <3> SUFFICES ASSUME Limiting(ledger, now) # {}
                 PROVE  LET retryAt == RetryAt(Pruned(ledger, now), now)
                        IN  /\ Limiting(Pruned(ledger, retryAt), retryAt) = {}
                            /\ \A t \in now .. retryAt - 1 : Limiting(Pruned(ledger, t), t) # {}
      BY DEF RetryAtIsExact
    <3> DEFINE retryAt == RetryAt(Pruned(ledger, now), now)
    <3>1. /\ now \in Nat /\ retryAt \in Nat /\ retryAt > now
          /\ \A u \in Nat : now <= u => (Limiting(Pruned(ledger, u), u) = {} <=> retryAt <= u)
      BY LedgerIsRecord, RetryIsExact
    <3> HIDE DEF retryAt
    <3>2. Limiting(Pruned(ledger, retryAt), retryAt) = {}
      BY <3>1
    <3>3. \A t \in now .. retryAt - 1 : t \in Nat /\ now <= t /\ ~(retryAt <= t)
      BY <3>1
    <3>4. \A t \in now .. retryAt - 1 : Limiting(Pruned(ledger, t), t) # {}
      BY <3>1, <3>3
    <3>. QED BY <3>2, <3>4 DEF retryAt
  <2>2. WindowsRespected
    BY DEF ProviderInv
  <2>. QED BY <2>1, <2>2, TypesAreKept DEF ReservationsAreSound
<1>. QED BY <1>1, ProviderSafe, PTL

(* After a 429 the run it reached reserves nothing before its hold ends, and   *)
(* no run does once the report has arrived (reservation-pacer.ts,              *)
(* provider-rate-limiter.ts).                                                  *)
THEOREM HoldsHonoured == Spec => []HoldsAreHonoured
<1>1. ProviderInv => HoldsAreHonoured
  BY DEF ProviderInv
<1>. QED BY <1>1, ProviderSafe, PTL

(* No request leaves without a reservation of its own, whatever answers are    *)
(* lost between a run and the object (provider-rate-limiter.ts).               *)
THEOREM RequestsReserved == Spec => []EveryRequestIsReserved
<1>1. ProviderInv => EveryRequestIsReserved
  <2> SUFFICES ASSUME ProviderInv PROVE EveryRequestIsReserved
    OBVIOUS
  <2>1. \A r \in Runs : Len(sent[r]) <= Cardinality(GrantsOf(r))
    BY RunFacts
  <2>. QED BY <2>1 DEF EveryRequestIsReserved, GrantsOf
<1>. QED BY <1>1, ProviderSafe, PTL

-----------------------------------------------------------------------------
(* What an answer claims.  A run's requests are counted by the claims of its   *)
(* answers and of the resource it is asking for.                               *)

claim(attempt) ==
  [source |-> "jolpica", reference |-> attempt.reference, outcome |-> attempt.outcome]
ClaimsOf(attempts) == {claim(attempts[i]) : i \in DOMAIN attempts}
ClaimsOfAnswers(answers) == UNION {ClaimsOf(answers[n].attempts) : n \in DOMAIN answers}
Made(run) == ClaimsOf(run.attempts) \cup ClaimsOfAnswers(run.answers)

(* The requests of one resource are told apart by their place.                 *)
AttemptsAre(kind, attempts) == \A i \in DOMAIN attempts : attempts[i].reference = <<kind, i>>

AnswerOK(kind, o) ==
  /\ o \in Outcomes /\ WellFormed(o) /\ AttemptsAre(kind, o.attempts)
  /\ o.outcome = "candidate" => o.payload = "fits" /\ Len(o.attempts) = RequestsOf(kind)

LEMMA AllowedOutcomes ==
  /\ DOMAIN AllowedAttemptOutcomes =
       {"provider-rate-limited", "provider-unavailable", "invalid-payload"}
  /\ AllowedAttemptOutcomes["provider-rate-limited"] = {"rate-limited"}
  /\ AllowedAttemptOutcomes["provider-unavailable"] = {"failed", "successful"}
  /\ AllowedAttemptOutcomes["invalid-payload"] = {"successful"}
BY DEF AllowedAttemptOutcomes

LEMMA FewRequests == \A kind : RequestsOf(kind) \in {1, 2}
BY DEF RequestsOf

(* A resource that needs one more request than were made, and answered.        *)
Asking(kind, earlier) ==
  /\ earlier \in Attempts /\ AttemptsAre(kind, earlier) /\ AllSuccessful(earlier)
  /\ Len(earlier) < RequestsOf(kind)

LEMMA FewEarlier ==
  ASSUME NEW kind, NEW earlier, Asking(kind, earlier)
  PROVE  \E n \in Nat : Len(earlier) = n /\ n <= 1
<1>1. PICK n \in Nat : Len(earlier) = n
  BY DEF Asking, Attempts
<1>2. PICK m \in {1, 2} : RequestsOf(kind) = m
  BY FewRequests
<1>3. n < m
  BY <1>1, <1>2 DEF Asking
<1>. QED BY <1>1, <1>2, <1>3

(* One more request of the resource asked for.                                 *)
More(kind, earlier, ending) == Append(earlier, Attempt(kind, Len(earlier) + 1, ending))

IsOneMore(kind, earlier, ending, attempts) ==
  /\ attempts \in Attempts /\ AttemptsAre(kind, attempts) /\ ReadsAttempts(attempts)
  /\ Len(attempts) = Len(earlier) + 1 /\ Len(attempts) <= RequestsOf(kind)
  /\ attempts[Len(attempts)].outcome = AttemptOutcomeFor(ending)
  /\ AllSuccessful(SubSeq(attempts, 1, Len(attempts) - 1))
  /\ AttemptOutcomeFor(ending) = "successful" => AllSuccessful(attempts)
  /\ ClaimsOf(attempts) =
       ClaimsOf(earlier) \cup {[source |-> "jolpica", reference |-> <<kind, Len(earlier) + 1>>,
                                outcome |-> AttemptOutcomeFor(ending)]}

LEMMA FewAreRead ==
  ASSUME NEW kind, NEW attempts \in Attempts, AttemptsAre(kind, attempts),
         NEW n \in Nat, Len(attempts) = n, 1 <= n, n <= 2
  PROVE  ReadsAttempts(attempts)
<1>1. Len(attempts) \in 1 .. MaxAttempts
  BY DEF MaxAttempts
<1>2. \A i, j \in DOMAIN attempts : attempts[i].reference = attempts[j].reference => i = j
  BY DEF AttemptsAre
<1>. QED BY <1>1, <1>2 DEF ReadsAttempts

LEMMA OneMoreAttempt ==
  ASSUME NEW kind \in Kinds, NEW earlier, Asking(kind, earlier), NEW ending
  PROVE  IsOneMore(kind, earlier, ending, More(kind, earlier, ending))
<1>1. PICK n \in Nat : Len(earlier) = n /\ n <= 1
  BY FewEarlier
<1>2. PICK last : /\ last = Attempt(kind, Len(earlier) + 1, ending)
                  /\ last.reference = <<kind, n + 1>>
                  /\ last.outcome = AttemptOutcomeFor(ending)
  <2>1. Len(earlier) + 1 = n + 1
    BY <1>1
  <2>2. /\ Attempt(kind, n + 1, ending).reference = <<kind, n + 1>>
        /\ Attempt(kind, n + 1, ending).outcome = AttemptOutcomeFor(ending)
    BY DEF Attempt
  <2>. QED BY <2>1, <2>2
<1>3. earlier \in Attempts /\ AttemptsAre(kind, earlier) /\ AllSuccessful(earlier)
      /\ n < RequestsOf(kind)
  BY <1>1 DEF Asking
<1>4. PICK attempts \in Attempts :
        attempts = Append(earlier, last) /\ attempts = More(kind, earlier, ending)
  BY <1>2, <1>3, AttemptType DEF More
<1>5. /\ Len(attempts) = n + 1 /\ DOMAIN attempts = 1 .. (n + 1) /\ DOMAIN earlier = 1 .. n
      /\ \A i \in 1 .. n : attempts[i] = earlier[i]
      /\ attempts[n + 1] = last /\ SubSeq(attempts, 1, n) = earlier
  <2> DEFINE S == [reference : Kinds \X Nat, outcome : Endings]
  <2>1. earlier \in Seq(S) /\ last \in S
    <3>1. AttemptOutcomeFor(ending) \in Endings /\ n + 1 \in Nat
      BY <1>3, AttemptType
    <3>. QED BY <1>1, <1>2, <1>3, <3>1 DEF Attempt, Attempts
  <2> HIDE DEF S
  <2>2. /\ Len(attempts) = Len(earlier) + 1
        /\ DOMAIN earlier = 1 .. Len(earlier) /\ DOMAIN attempts = 1 .. (Len(earlier) + 1)
        /\ \A i \in 1 .. Len(earlier) : attempts[i] = earlier[i]
        /\ attempts[Len(earlier) + 1] = last /\ SubSeq(attempts, 1, Len(earlier)) = earlier
    <3>1. attempts = Append(earlier, last)
      BY <1>4
    <3>2. /\ Len(Append(earlier, last)) = Len(earlier) + 1
          /\ DOMAIN earlier = 1 .. Len(earlier)
          /\ DOMAIN Append(earlier, last) = 1 .. (Len(earlier) + 1)
          /\ \A i \in 1 .. Len(earlier) : Append(earlier, last)[i] = earlier[i]
          /\ Append(earlier, last)[Len(earlier) + 1] = last
          /\ SubSeq(Append(earlier, last), 1, Len(earlier)) = earlier
      BY <2>1, AppendFacts
    <3>. QED BY <3>1, <3>2, Zenon
  <2>. QED BY <1>1, <2>2
<1>6. AttemptsAre(kind, attempts)
  BY <1>2, <1>3, <1>5 DEF AttemptsAre
<1>7. ReadsAttempts(attempts)
  <2>1. n + 1 \in Nat /\ 1 <= n + 1 /\ n + 1 <= 2
    BY <1>1
  <2>. QED BY <1>5, <1>6, <2>1, FewAreRead
<1>8. n + 1 <= RequestsOf(kind)
  <2>1. PICK m \in {1, 2} : RequestsOf(kind) = m
    BY FewRequests
  <2>2. n < m
    BY <1>3, <2>1
  <2>. QED BY <2>1, <2>2
<1>9. AttemptOutcomeFor(ending) = "successful" => AllSuccessful(attempts)
  BY <1>2, <1>3, <1>5 DEF AllSuccessful
<1>10. ClaimsOf(attempts) = ClaimsOf(earlier) \cup {claim(last)}
  BY <1>5 DEF ClaimsOf
<1>11. claim(last) = [source |-> "jolpica", reference |-> <<kind, n + 1>>,
                      outcome |-> AttemptOutcomeFor(ending)]
  BY <1>2 DEF claim
<1>12. AllSuccessful(SubSeq(attempts, 1, Len(attempts) - 1))
  <2>1. Len(attempts) - 1 = n
    BY <1>5
  <2>. QED BY <1>3, <1>5, <2>1
<1>13. Len(attempts) = Len(earlier) + 1 /\ attempts[Len(attempts)] = last
  BY <1>1, <1>5
<1>14. Len(attempts) <= RequestsOf(kind)
  BY <1>5, <1>8
<1>15. ClaimsOf(attempts) =
        ClaimsOf(earlier) \cup {[source |-> "jolpica", reference |-> <<kind, Len(earlier) + 1>>,
                                 outcome |-> AttemptOutcomeFor(ending)]}
  BY <1>1, <1>10, <1>11
<1>16. IsOneMore(kind, earlier, ending, attempts)
  BY <1>2, <1>4, <1>6, <1>7, <1>9, <1>12, <1>13, <1>14, <1>15 DEF IsOneMore
<1>. QED BY <1>4, <1>16

(* Whatever ends a resource, its answer is one the coordinator reads.          *)
LEMMA NotSentOK ==
  ASSUME NEW kind \in Kinds, NEW earlier, Asking(kind, earlier),
         NEW reason \in InterruptionReasons, NEW hint \in Nat
  PROVE  /\ AnswerOK(kind, NotSent(earlier, reason, hint))
         /\ NotSent(earlier, reason, hint).attempts = earlier
<1>1. reason \in NotAttemptedReasons
  BY DEF InterruptionReasons, NotAttemptedReasons
<1>2. NotSent(earlier, reason, hint) \in Outcomes
  BY <1>1, NotSentType DEF Asking
<1>3. CASE earlier = <<>>
  <2>1. NotSent(earlier, reason, hint) = outcomeOf("not-attempted", <<>>, reason, hint)
    BY <1>3 DEF NotSent, NotAttempted
  <2> DEFINE o == outcomeOf("not-attempted", <<>>, reason, hint)
  <2>2. o.outcome = "not-attempted" /\ o.attempts = <<>> /\ o.reason = reason
    BY DEF outcomeOf
  <2> HIDE DEF o
  <2>3. WellFormed(o)
    BY <1>1, <2>2 DEF WellFormed
  <2>. QED BY <1>2, <1>3, <2>1, <2>2, <2>3 DEF AnswerOK, Asking, o
<1>4. CASE earlier # <<>>
  <2>1. NotSent(earlier, reason, hint) = outcomeOf("interrupted", earlier, reason, hint)
    BY <1>4 DEF NotSent
  <2> DEFINE o == outcomeOf("interrupted", earlier, reason, hint)
  <2>2. o.outcome = "interrupted" /\ o.attempts = earlier /\ o.reason = reason
    BY DEF outcomeOf
  <2>3. ReadsAttempts(earlier)
    <3>1. PICK n \in Nat : Len(earlier) = n /\ n <= 1
      BY FewEarlier
    <3>2. n # 0
      BY <1>4, <3>1 DEF Asking, Attempts
    <3>. QED BY <3>1, <3>2, FewAreRead DEF Asking
  <2> HIDE DEF o
  <2>4. WellFormed(o)
    BY <2>2, <2>3 DEF WellFormed, Asking
  <2>. QED BY <1>2, <2>1, <2>2, <2>4 DEF AnswerOK, Asking, o
<1>. QED BY <1>3, <1>4

LEMMA TransportFailureOK ==
  ASSUME NEW kind \in Kinds, NEW earlier, Asking(kind, earlier),
         NEW ending, NEW hint \in Nat
  PROVE  /\ AnswerOK(kind, TransportFailure(kind, earlier, ending, hint))
         /\ TransportFailure(kind, earlier, ending, hint).attempts =
              More(kind, earlier, ending)
<1> DEFINE attempts == More(kind, earlier, ending)
           reason == IF ending = "provider-rate-limited" THEN "provider-rate-limited"
                     ELSE "provider-unavailable"
           after == IF ending = "provider-rate-limited" THEN hint ELSE NoInstant
           o == outcomeOf("failed", attempts, reason, after)
<1>1. o = TransportFailure(kind, earlier, ending, hint)
  BY DEF TransportFailure, More
<1>2. o \in Outcomes
  BY <1>1, TransportFailureType DEF Asking
<1>3. o.outcome = "failed" /\ o.attempts = attempts /\ o.reason = reason
  BY DEF outcomeOf
<1>4. /\ ReadsAttempts(attempts) /\ AttemptsAre(kind, attempts)
      /\ AllSuccessful(SubSeq(attempts, 1, Len(attempts) - 1))
      /\ attempts[Len(attempts)].outcome = AttemptOutcomeFor(ending)
  BY OneMoreAttempt DEF IsOneMore
<1>5. /\ reason \in DOMAIN AllowedAttemptOutcomes
      /\ AttemptOutcomeFor(ending) \in AllowedAttemptOutcomes[reason]
  <2>1. CASE ending = "provider-rate-limited"
    BY <2>1, AllowedOutcomes DEF AttemptOutcomeFor, PolicyRejections
  <2>2. CASE ending # "provider-rate-limited"
    <3>1. AttemptOutcomeFor(ending) \in {"successful", "failed"}
      <4>1. CASE ending \in PolicyRejections \cup {"completed"}
        BY <2>2, <4>1 DEF AttemptOutcomeFor
      <4>2. CASE ending \notin PolicyRejections \cup {"completed"}
        BY <2>2, <4>2 DEF AttemptOutcomeFor
      <4>. QED BY <4>1, <4>2
    <3>. QED BY <2>2, <3>1, AllowedOutcomes
  <2>. QED BY <2>1, <2>2
<1> HIDE DEF attempts, reason, after, o
<1>6. WellFormed(o)
  BY <1>3, <1>4, <1>5 DEF WellFormed, ConsistentFailure
<1>7. AnswerOK(kind, o)
  BY <1>2, <1>3, <1>4, <1>6 DEF AnswerOK
<1>. QED BY <1>1, <1>3, <1>7 DEF attempts

LEMMA ReadOutcomeOK ==
  ASSUME NEW kind \in Kinds, NEW attempts \in Attempts, AttemptsAre(kind, attempts),
         ReadsAttempts(attempts), AllSuccessful(attempts),
         AllSuccessful(SubSeq(attempts, 1, Len(attempts) - 1)),
         attempts[Len(attempts)].outcome = "successful",
         NEW reading \in Readings(kind),
         reading = "normalized" => Len(attempts) = RequestsOf(kind)
  PROVE  /\ AnswerOK(kind, ReadOutcome(attempts, reading))
         /\ ReadOutcome(attempts, reading).attempts = attempts
<1> DEFINE o == ReadOutcome(attempts, reading)
<1>1. o \in Outcomes
  BY ReadOutcomeType
<1>2. reading \in {"normalized", "invalid-payload", "mapping-failure", "no-classification"}
  <2>1. Readings(kind) \in {CalendarReadings, CircuitsReadings, ParticipantsReadings,
                            ResultsReadings, StandingsReadings}
    BY Zenon DEF Readings
  <2>. QED BY <2>1 DEF CalendarReadings, CircuitsReadings, ParticipantsReadings,
                       ResultsReadings, StandingsReadings
<1>3. /\ o.attempts = attempts
      /\ \/ o.outcome = "candidate" /\ o.payload = "fits" /\ reading = "normalized"
         \/ o.outcome = "mapping-failure"
         \/ o.outcome = "failed" /\ o.reason \in {"provider-unavailable", "invalid-payload"}
  <2>1. CASE reading = "normalized"
    BY <2>1 DEF ReadOutcome, Candidate, outcomeOf
  <2>2. CASE reading = "invalid-payload"
    BY <2>2 DEF ReadOutcome, outcomeOf
  <2>3. CASE reading = "mapping-failure"
    BY <2>3 DEF ReadOutcome, outcomeOf
  <2>4. CASE reading = "no-classification"
    BY <2>4 DEF ReadOutcome, outcomeOf
  <2>. QED BY <1>2, <2>1, <2>2, <2>3, <2>4
<1> HIDE DEF o
<1>4. WellFormed(o)
  BY <1>3, AllowedOutcomes DEF WellFormed, ConsistentFailure
<1>. QED BY <1>1, <1>3, <1>4 DEF AnswerOK, o

-----------------------------------------------------------------------------
(* Counting requests.  A set of claims tallies with a sequence of endings when *)
(* each ending occurs as often in both.                                        *)

EndedAs(M, e) == {c \in M : c.outcome = e}
PlacesOf(q, e) == {i \in DOMAIN q : q[i] = e}
Tally(M, q) ==
  /\ q \in Seq(Endings) /\ IsFiniteSet(M) /\ Cardinality(M) = Len(q)
  /\ \A e \in Endings : Cardinality(PlacesOf(q, e)) = Cardinality(EndedAs(M, e))

LEMMA TallyNothing == Tally({}, <<>>)
<1>1. \A e : PlacesOf(<<>>, e) = {} /\ EndedAs({}, e) = {}
  BY DEF PlacesOf, EndedAs
<1>2. <<>> \in Seq(Endings) /\ Len(<<>>) = 0
  OBVIOUS
<1>. QED BY <1>1, <1>2, FS_EmptySet DEF Tally

LEMMA TallyOneMore ==
  ASSUME NEW M, NEW q, Tally(M, q), NEW c, c \notin M, c.outcome \in Endings
  PROVE  Tally(M \cup {c}, Append(q, c.outcome))
<1> DEFINE more == Append(q, c.outcome)
<1>1. q \in Seq(Endings) /\ IsFiniteSet(M) /\ Cardinality(M) = Len(q)
      /\ \A e \in Endings : Cardinality(PlacesOf(q, e)) = Cardinality(EndedAs(M, e))
  BY DEF Tally
<1>2. /\ more \in Seq(Endings) /\ Len(more) = Len(q) + 1 /\ Len(q) \in Nat
      /\ DOMAIN q = 1 .. Len(q) /\ DOMAIN more = 1 .. (Len(q) + 1)
      /\ \A i \in 1 .. Len(q) : more[i] = q[i]
      /\ more[Len(q) + 1] = c.outcome
  BY <1>1, AppendFacts
<1> HIDE DEF more
<1>3. IsFiniteSet(M \cup {c}) /\ Cardinality(M \cup {c}) = Cardinality(M) + 1
  BY <1>1, FS_AddElement
<1>4. \A e : IsFiniteSet(EndedAs(M, e)) /\ IsFiniteSet(PlacesOf(q, e))
  <2>1. \A e : EndedAs(M, e) \in SUBSET M /\ PlacesOf(q, e) \in SUBSET (1 .. Len(q))
    BY <1>2 DEF EndedAs, PlacesOf
  <2>2. IsFiniteSet(1 .. Len(q))
    BY <1>2, FS_Interval
  <2>. QED BY <1>1, <2>1, <2>2, FS_Subset
<1>5. ASSUME NEW e \in Endings
      PROVE  Cardinality(PlacesOf(more, e)) = Cardinality(EndedAs(M \cup {c}, e))
  <2>1. CASE e = c.outcome
    <3>1. EndedAs(M \cup {c}, e) = EndedAs(M, e) \cup {c} /\ c \notin EndedAs(M, e)
      BY <2>1 DEF EndedAs
    <3>2. PlacesOf(more, e) = PlacesOf(q, e) \cup {Len(q) + 1}
          /\ Len(q) + 1 \notin PlacesOf(q, e)
      BY <1>2, <2>1 DEF PlacesOf
    <3>3. Cardinality(EndedAs(M, e) \cup {c}) = Cardinality(EndedAs(M, e)) + 1
      BY <1>4, <3>1, FS_AddElement
    <3>4. Cardinality(PlacesOf(q, e) \cup {Len(q) + 1}) = Cardinality(PlacesOf(q, e)) + 1
      BY <1>4, <3>2, FS_AddElement
    <3>. QED BY <1>1, <3>1, <3>2, <3>3, <3>4
  <2>2. CASE e # c.outcome
    <3>1. EndedAs(M \cup {c}, e) = EndedAs(M, e)
      BY <2>2 DEF EndedAs
    <3>2. PlacesOf(more, e) = PlacesOf(q, e)
      BY <1>2, <2>2 DEF PlacesOf
    <3>. QED BY <1>1, <3>1, <3>2
  <2>. QED BY <2>1, <2>2
<1>6. Tally(M \cup {c}, more)
  BY <1>1, <1>2, <1>3, <1>5 DEF Tally
<1>. QED BY <1>6 DEF more

(* A request that was out takes the place of its ending.                       *)
LEMMA EndingLast ==
  ASSUME NEW q \in Seq(Endings), NEW e \in Endings, NEW f \in Endings
  PROVE  [Append(q, e) EXCEPT ![Len(Append(q, e))] = f] = Append(q, f)
<1> DEFINE out == Append(q, e)
           done == Append(q, f)
<1>1. /\ out \in Seq(Endings) /\ Len(out) = Len(q) + 1 /\ Len(q) \in Nat
      /\ \A i \in 1 .. Len(q) : out[i] = q[i]
  BY AppendFacts
<1>2. /\ done \in Seq(Endings) /\ Len(done) = Len(q) + 1
      /\ \A i \in 1 .. Len(q) : done[i] = q[i]
      /\ done[Len(q) + 1] = f
  BY AppendFacts
<1> HIDE DEF out, done
<1> DEFINE ended == [out EXCEPT ![Len(out)] = f]
<1>3. Len(out) \in 1 .. Len(out)
  BY <1>1
<1>4. /\ ended \in Seq(Endings) /\ Len(ended) = Len(out)
      /\ \A j \in 1 .. Len(out) : ended[j] = IF j = Len(out) THEN f ELSE out[j]
  BY <1>1, <1>3, ExceptSeq
<1> HIDE DEF ended
<1>5. \A j \in 1 .. Len(ended) : ended[j] = done[j]
  BY <1>1, <1>2, <1>4
<1>6. ended = done
  BY <1>1, <1>2, <1>4, <1>5, SeqEqual
<1>. QED BY <1>6 DEF ended, out, done

-----------------------------------------------------------------------------
(* What the coordinator registers.                                             *)

ClaimsUpTo(operations, answers, n) ==
  UNION {Claims(operations[m], answers[m]) : m \in 1 .. n}

(* Every answer is believed, or claims nothing, and no two claims of one       *)
(* request differ.                                                             *)
Harmonious(operations, answers) ==
  /\ \A n \in 1 .. Len(operations) :
       WellFormed(answers[n]) \/ Claims(operations[n], answers[n]) = {}
  /\ \A m, n \in 1 .. Len(operations) :
       ~Contradicts(Claims(operations[m], answers[m]), Claims(operations[n], answers[n]))

LEMMA EveryClaimIsRegistered ==
  ASSUME NEW operations, NEW answers, Len(operations) \in Nat,
         Harmonious(operations, answers)
  PROVE  \A n \in 0 .. Len(operations) :
           Registered(operations, answers)[n] = ClaimsUpTo(operations, answers, n)
<1> DEFINE N == Len(operations)
           claims(n) == Claims(operations[n], answers[n])
           next(f, n) == IF n = 0 THEN {}
                         ELSE IF WellFormed(answers[n]) /\ ~Contradicts(f[n - 1], claims(n))
                              THEN f[n - 1] \cup claims(n)
                              ELSE f[n - 1]
           all == [n \in 0 .. N |-> ClaimsUpTo(operations, answers, n)]
           registered == Registered(operations, answers)
<1>1. registered = CHOOSE f : f = [n \in 0 .. N |-> next(f, n)]
  BY DEF Registered
<1>2. all = [n \in 0 .. N |-> next(all, n)]
  <2> SUFFICES ASSUME NEW n \in 0 .. N PROVE all[n] = next(all, n)
    OBVIOUS
  <2>1. CASE n = 0
    <3>1. 1 .. 0 = {}
      OBVIOUS
    <3>. QED BY <2>1, <3>1 DEF ClaimsUpTo
  <2>2. CASE n # 0
    <3>1. n - 1 \in 0 .. N /\ n \in 1 .. N /\ 1 .. n = (1 .. n - 1) \cup {n}
      BY <2>2
    <3>2. all[n] = all[n - 1] \cup claims(n)
      BY <3>1 DEF ClaimsUpTo
    <3>3. ~Contradicts(all[n - 1], claims(n))
      <4> SUFFICES ASSUME NEW t \in all[n - 1], NEW c \in claims(n),
                          t.source = c.source /\ t.reference = c.reference
                   PROVE  t.outcome = c.outcome
        BY DEF Contradicts
      <4>1. PICK m \in 1 .. n - 1 : t \in claims(m)
        BY <3>1 DEF ClaimsUpTo
      <4>2. m \in 1 .. N
        BY <3>1
      <4>3. ~Contradicts(claims(m), claims(n))
        BY <3>1, <4>2 DEF Harmonious
      <4>. QED BY <4>1, <4>3 DEF Contradicts
    <3>4. WellFormed(answers[n]) \/ claims(n) = {}
      BY <3>1 DEF Harmonious
    <3> HIDE DEF all, claims
    <3>. QED BY <2>2, <3>2, <3>3, <3>4
  <2>. QED BY <2>1, <2>2
<1>3. registered = [n \in 0 .. N |-> next(registered, n)]
  <2>1. \E f : f = [n \in 0 .. N |-> next(f, n)]
    BY <1>2
  <2> HIDE DEF next, registered
  <2>. QED BY <1>1, <2>1
<1> DEFINE agreed == {m \in 0 .. N : \A k \in 0 .. m : registered[k] = all[k]}
<1>4. 0 \in agreed
  <2>1. 0 \in 0 .. N /\ \A k \in 0 .. 0 : k = 0
    OBVIOUS
  <2>2. next(registered, 0) = next(all, 0)
    OBVIOUS
  <2>3. registered[0] = all[0]
    <3> HIDE DEF registered, all, next
    <3>. QED BY <1>2, <1>3, <2>1, <2>2
  <2> HIDE DEF registered, all
  <2>. QED BY <2>1, <2>3
<1>5. PICK m \in agreed : \A k \in agreed : k <= m
  <2>1. agreed \in SUBSET (0 .. N) /\ agreed \subseteq Int /\ agreed # {}
    <3> HIDE DEF registered, all
    <3>. QED BY <1>4
  <2>2. IsFiniteSet(0 .. N)
    BY FS_Interval
  <2> HIDE DEF agreed
  <2>3. IsFiniteSet(agreed)
    BY <2>1, <2>2, FS_Subset
  <2>. QED BY <2>1, <2>3, GreatestOfFinite
<1>6. m = N
  <2> SUFFICES ASSUME m # N PROVE FALSE
    OBVIOUS
  <2>1. m \in 0 .. N /\ m + 1 \in 0 .. N /\ m + 1 # 0 /\ (m + 1) - 1 = m /\ ~(m + 1 <= m)
    BY <1>5
  <2>2. registered[m] = all[m]
    <3> HIDE DEF registered, all
    <3>. QED BY <1>5, <2>1
  <2>3. next(registered, m + 1) = next(all, m + 1)
    BY <2>1, <2>2
  <2>4. registered[m + 1] = all[m + 1]
    <3> HIDE DEF registered, all, next
    <3>. QED BY <1>2, <1>3, <2>1, <2>3, ZenonT(60)
  <2>5. m + 1 \in agreed
    <3> HIDE DEF registered, all
    <3>1. \A k \in 0 .. m + 1 : k \in 0 .. m \/ k = m + 1
      BY <2>1
    <3>. QED BY <1>5, <2>1, <2>4, <3>1
  <2>. QED BY <1>5, <2>1, <2>5
<1>7. \A n \in 0 .. N : registered[n] = all[n]
  BY <1>5, <1>6
<1>. QED BY <1>7

-----------------------------------------------------------------------------
(* What a run's answers are, and that its requests are counted by them.        *)

(* The requests of a run, one of them out or being reported.                   *)
SoFar(pc, q) ==
  IF pc = "sent" THEN Append(q, "out")
  ELSE IF pc = "report" THEN Append(q, "rate-limited") ELSE q
Counted(run, requests) == \E q : Tally(Made(run), q) /\ requests = SoFar(run.pc, q)

(* An answer is well-formed, and one given after the abort is noted as late.   *)
AnswersOK(r, run, timely) ==
  \A n \in DOMAIN run.answers :
    \/ /\ AnswerOK(Plan[r][n], run.answers[n])
       /\ n <= timely \/ Plan[r][n] \in run.late
    \/ run.pc = "ended" /\ run.answers[n] = NotExecuted

Accounted(r, run, requests, timely) ==
  /\ Counted(run, requests) /\ AnswersOK(r, run, timely)
  /\ timely \in Nat /\ (run.pc # "ended" /\ ~run.aborted => timely = Len(Plan[r]))
  /\ run.pc \in Underway => Asking(Plan[r][Len(run.answers) + 1], run.attempts)
  /\ run.pc \notin Underway => run.attempts = <<>>
  /\ run.pc \in {"idle", "leased"} => run.answers = <<>>
  /\ run.pc = "ended" => DOMAIN run.answers = DOMAIN Plan[r]

AccountInv ==
  /\ inTime = [r \in Runs |-> inTime[r]]
  /\ \A r \in Runs : Accounted(r, runs[r], sent[r], inTime[r])

LEMMA NoClaims == ClaimsOf(<<>>) = {} /\ ClaimsOfAnswers(<<>>) = {}
BY DEF ClaimsOf, ClaimsOfAnswers

LEMMA ClaimsAppended ==
  ASSUME NEW answers \in Seq(Outcomes), NEW o \in Outcomes
  PROVE  ClaimsOfAnswers(Append(answers, o)) = ClaimsOfAnswers(answers) \cup ClaimsOf(o.attempts)
<1> DEFINE more == Append(answers, o)
<1>1. /\ DOMAIN answers = 1 .. Len(answers) /\ DOMAIN more = 1 .. (Len(answers) + 1)
      /\ \A i \in 1 .. Len(answers) : more[i] = answers[i]
      /\ more[Len(answers) + 1] = o /\ Len(answers) \in Nat
  BY AppendFacts
<1> HIDE DEF more
<1>2. ClaimsOfAnswers(more) = ClaimsOfAnswers(answers) \cup ClaimsOf(o.attempts)
  BY <1>1 DEF ClaimsOfAnswers
<1>. QED BY <1>2 DEF more

(* The kinds of a plan are told apart by their place in it.                    *)
LEMMA PlanFacts ==
  ASSUME ProviderInv, NEW r \in Runs
  PROVE  /\ Plan[r] \in Seq(Kinds) /\ Len(Plan[r]) \in Nat
         /\ DOMAIN Plan[r] = 1 .. Len(Plan[r]) /\ \A n \in 1 .. Len(Plan[r]) : Plan[r][n] \in Kinds
         /\ \A i, j \in 1 .. Len(Plan[r]) : Plan[r][i] = Plan[r][j] => i = j
         /\ DOMAIN runs[r].answers = 1 .. Len(runs[r].answers)
         /\ Len(runs[r].answers) \in Nat /\ Len(runs[r].answers) <= Len(Plan[r])
         /\ \A n \in 1 .. Len(runs[r].answers) : runs[r].answers[n] \in Outcomes
<1>1. Plan[r] \in Seq(Kinds)
      /\ \A i, j \in DOMAIN Plan[r] : Plan[r][i] = Plan[r][j] => i = j
  BY ProviderAssumption DEF Kinds
<1>2. runs[r].answers \in Seq(Outcomes) /\ Len(runs[r].answers) <= Len(Plan[r])
  BY RunFacts DEF Fits
<1>3. /\ Len(Plan[r]) \in Nat /\ DOMAIN Plan[r] = 1 .. Len(Plan[r])
      /\ \A n \in 1 .. Len(Plan[r]) : Plan[r][n] \in Kinds
  BY <1>1, LenProperties, ElementOfSeq
<1>4. /\ Len(runs[r].answers) \in Nat /\ DOMAIN runs[r].answers = 1 .. Len(runs[r].answers)
      /\ \A n \in 1 .. Len(runs[r].answers) : runs[r].answers[n] \in Outcomes
  BY <1>2, LenProperties, ElementOfSeq
<1>. QED BY <1>1, <1>2, <1>3, <1>4

LEMMA AccountFacts ==
  ASSUME AccountInv, NEW r \in Runs
  PROVE  /\ Accounted(r, runs[r], sent[r], inTime[r])
         /\ Counted(runs[r], sent[r]) /\ AnswersOK(r, runs[r], inTime[r])
         /\ runs[r].pc \in Underway => Asking(kindOf(r), runs[r].attempts)
         /\ runs[r].pc \notin Underway => runs[r].attempts = <<>>
         /\ inTime = [inTime EXCEPT ![r] = inTime[r]]
BY DEF AccountInv, Accounted, kindOf

(* The next request of a resource is none the run has made.                    *)
LEMMA FreshRequest ==
  ASSUME ProviderInv, AccountInv, NEW r \in Runs, runs[r].pc \in Underway, NEW c,
         c.reference = <<kindOf(r), Len(runs[r].attempts) + 1>>
  PROVE  c \notin Made(runs[r])
<1> DEFINE run == runs[r]
           k == Len(run.answers) + 1
<1>1. Asking(kindOf(r), run.attempts)
  BY AccountFacts
<1>2. k \in 1 .. Len(Plan[r]) /\ Len(run.answers) \in Nat
  BY UnderwayFacts, PlanFacts
<1>3. c \notin ClaimsOf(run.attempts)
  <2> SUFFICES ASSUME NEW i \in DOMAIN run.attempts, claim(run.attempts[i]) = c PROVE FALSE
    BY DEF ClaimsOf
  <2>1. claim(run.attempts[i]).reference = <<kindOf(r), i>>
    BY <1>1 DEF claim, Asking, AttemptsAre
  <2>2. i \in 1 .. Len(run.attempts) /\ Len(run.attempts) \in Nat
    BY <1>1, LenProperties DEF Asking, Attempts
  <2>. QED BY <2>1, <2>2
<1>4. c \notin ClaimsOfAnswers(run.answers)
  <2> SUFFICES ASSUME NEW n \in DOMAIN run.answers, NEW i \in DOMAIN run.answers[n].attempts,
                      claim(run.answers[n].attempts[i]) = c
               PROVE  FALSE
    BY DEF ClaimsOfAnswers, ClaimsOf
  <2>1. AnswerOK(Plan[r][n], run.answers[n])
    BY AccountFacts, SMTT(60) DEF AnswersOK, Underway
  <2>2. claim(run.answers[n].attempts[i]).reference = <<Plan[r][n], i>>
    BY <2>1 DEF claim, AnswerOK, AttemptsAre
  <2>3. n \in 1 .. Len(Plan[r]) /\ n # k
    BY <1>2, PlanFacts, SMTT(60)
  <2>4. Plan[r][n] # Plan[r][k]
    BY <1>2, <2>3, PlanFacts
  <2>. QED BY <2>2, <2>4 DEF kindOf
<1>. QED BY <1>3, <1>4 DEF Made

(* One more request, counted under its ending.                                 *)
LEMMA TallyRequest ==
  ASSUME ProviderInv, AccountInv, NEW r \in Runs, runs[r].pc \in Underway, NEW ending,
         NEW q, Tally(Made(runs[r]), q)
  PROVE  Tally(ClaimsOfAnswers(runs[r].answers)
                 \cup ClaimsOf(More(kindOf(r), runs[r].attempts, ending)),
               Append(q, AttemptOutcomeFor(ending)))
<1> DEFINE earlier == runs[r].attempts
           c == [source |-> "jolpica", reference |-> <<kindOf(r), Len(earlier) + 1>>,
                 outcome |-> AttemptOutcomeFor(ending)]
<1>1. kindOf(r) \in Kinds /\ Asking(kindOf(r), earlier)
  BY UnderwayFacts, AccountFacts
<1>2. ClaimsOf(More(kindOf(r), earlier, ending)) = ClaimsOf(earlier) \cup {c}
  BY <1>1, OneMoreAttempt DEF IsOneMore
<1>3. c.reference = <<kindOf(r), Len(earlier) + 1>> /\ c.outcome = AttemptOutcomeFor(ending)
  OBVIOUS
<1> HIDE DEF c
<1>4. c \notin Made(runs[r])
  BY <1>3, FreshRequest
<1>5. c.outcome \in Endings
  BY <1>1, <1>3, AttemptType DEF Asking
<1>6. Tally(Made(runs[r]) \cup {c}, Append(q, c.outcome))
  BY <1>4, <1>5, TallyOneMore
<1>7. Made(runs[r]) \cup {c} = ClaimsOfAnswers(runs[r].answers)
                                 \cup ClaimsOf(More(kindOf(r), earlier, ending))
  BY <1>2 DEF Made
<1>. QED BY <1>3, <1>6, <1>7

(* A request that is out is the last, and `ends` gives it its ending.          *)
LEMMA EndsCounted ==
  ASSUME ProviderInv, AccountInv, NEW r \in Runs, runs[r].pc = "sent", NEW ending,
         ends(r, ending)
  PROVE  \E q : /\ Tally(Made(runs[r]), q)
                /\ sent' = [sent EXCEPT ![r] = Append(q, AttemptOutcomeFor(ending))]
                /\ Tally(ClaimsOfAnswers(runs[r].answers)
                           \cup ClaimsOf(More(kindOf(r), runs[r].attempts, ending)),
                         Append(q, AttemptOutcomeFor(ending)))
<1>1. PICK q : Tally(Made(runs[r]), q) /\ sent[r] = Append(q, "out")
  BY AccountFacts DEF Counted, SoFar
<1>2. q \in Seq(Endings) /\ "out" \in Endings
  BY <1>1 DEF Tally, Endings
<1>3. AttemptOutcomeFor(ending) \in Endings
  <2>1. kindOf(r) \in Kinds /\ Asking(kindOf(r), runs[r].attempts)
    BY UnderwayFacts, AccountFacts DEF Underway
  <2>. QED BY <2>1, AttemptType DEF Asking
<1>4. [sent[r] EXCEPT ![Len(sent[r])] = AttemptOutcomeFor(ending)]
        = Append(q, AttemptOutcomeFor(ending))
  BY <1>1, <1>2, <1>3, EndingLast
<1>5. sent' = [sent EXCEPT ![r] = [sent[r] EXCEPT ![Len(sent[r])] = AttemptOutcomeFor(ending)]]
  BY DEF ends
<1>6. Tally(ClaimsOfAnswers(runs[r].answers)
              \cup ClaimsOf(More(kindOf(r), runs[r].attempts, ending)),
            Append(q, AttemptOutcomeFor(ending)))
  BY <1>1, TallyRequest DEF Underway
<1>. QED BY <1>1, <1>4, <1>5, <1>6

(* Run r becomes `run`, with its requests and its answers in time so far.      *)
LEMMA AccountAfter ==
  ASSUME ProviderInv, AccountInv, NEW r \in Runs, NEW run, NEW requests, NEW timely,
         runs' = [runs EXCEPT ![r] = run], sent' = [sent EXCEPT ![r] = requests],
         inTime' = [inTime EXCEPT ![r] = timely], Accounted(r, run, requests, timely)
  PROVE  AccountInv'
<1>1. /\ runs'[r] = run /\ sent'[r] = requests
      /\ \A q \in Runs \ {r} : runs'[q] = runs[q] /\ sent'[q] = sent[q]
  BY DEF ProviderInv, RunsOK
<1>2. /\ inTime' = [q \in Runs |-> inTime'[q]] /\ inTime'[r] = timely
      /\ \A q \in Runs \ {r} : inTime'[q] = inTime[q]
  BY DEF AccountInv
<1>3. \A q \in Runs : Accounted(q, runs'[q], sent'[q], inTime'[q])
  BY <1>1, <1>2 DEF AccountInv
<1>. QED BY <1>2, <1>3 DEF AccountInv

LEMMA AccountAfterOwn ==
  ASSUME ProviderInv, AccountInv, NEW r \in Runs, NEW run, NEW requests,
         runs' = [runs EXCEPT ![r] = run], sent' = [sent EXCEPT ![r] = requests],
         inTime' = inTime, Accounted(r, run, requests, inTime[r])
  PROVE  AccountInv'
BY AccountFacts, AccountAfter

LEMMA AccountAfterQuiet ==
  ASSUME ProviderInv, AccountInv, NEW r \in Runs, NEW run,
         runs' = [runs EXCEPT ![r] = run], UNCHANGED <<sent, inTime>>,
         Accounted(r, run, sent[r], inTime[r])
  PROVE  AccountInv'
<1>1. sent' = [sent EXCEPT ![r] = sent[r]]
  BY RunFacts
<1>. QED BY <1>1, AccountAfterOwn

(* A resource is answered.                                                     *)
Continues(r, run) ==
  /\ run \in RunRecords /\ run.answers = runs[r].answers
  /\ run.late = runs[r].late /\ run.aborted = runs[r].aborted

LEMMA AnsweredAccounted ==
  ASSUME ProviderInv, AccountInv, NEW r \in Runs, runs[r].pc \in Underway \cup {"next"},
         Len(runs[r].answers) < Len(Plan[r]), NEW run, Continues(r, run),
         NEW o, AnswerOK(kindOf(r), o), NEW requests,
         Tally(ClaimsOfAnswers(runs[r].answers) \cup ClaimsOf(o.attempts), requests)
  PROVE  Accounted(r, Answered(r, run, o), requests, inTime[r])
<1> DEFINE n == Len(runs[r].answers)
           answers == Append(run.answers, o)
           late == IF run.aborted THEN run.late \cup {kindOf(r)} ELSE run.late
           after == [run EXCEPT !.pc = "next", !.attempts = <<>>, !.retryAfter = NoInstant,
                                !.reply = idle.reply, !.answers = answers, !.late = late]
<1>1. after = Answered(r, run, o)
  BY DEF Answered
<1>2. o \in Outcomes
  BY DEF AnswerOK
<1>3. /\ DOMAIN answers = 1 .. n + 1 /\ \A i \in 1 .. n : answers[i] = runs[r].answers[i]
      /\ answers[n + 1] = o /\ n \in Nat /\ runs[r].answers \in Seq(Outcomes)
  <2>1. runs[r].answers \in Seq(Outcomes)
    BY RunFacts
  <2>. QED BY <1>2, <2>1, AppendFacts DEF Continues
<1>4. ClaimsOfAnswers(answers) = ClaimsOfAnswers(runs[r].answers) \cup ClaimsOf(o.attempts)
  BY <1>2, <1>3, ClaimsAppended DEF Continues
<1> HIDE DEF answers, late
<1>5. /\ after.pc = "next" /\ after.attempts = <<>> /\ after.answers = answers
      /\ after.late = late /\ after.aborted = run.aborted
  BY DEF Continues, RunRecords
<1> HIDE DEF after, n
<1>6. Counted(after, requests)
  <2>1. Made(after) = ClaimsOfAnswers(runs[r].answers) \cup ClaimsOf(o.attempts)
    BY <1>4, <1>5, NoClaims DEF Made
  <2>2. SoFar(after.pc, requests) = requests
    BY <1>5 DEF SoFar
  <2>. QED BY <2>1, <2>2 DEF Counted
<1>7. /\ inTime[r] \in Nat /\ (~runs[r].aborted => inTime[r] = Len(Plan[r]))
      /\ AnswersOK(r, runs[r], inTime[r]) /\ runs[r].pc # "ended"
  BY DEF AccountInv, Accounted, Underway
<1>8. ASSUME NEW i \in 1 .. n + 1
      PROVE  /\ AnswerOK(Plan[r][i], answers[i])
             /\ i <= inTime[r] \/ Plan[r][i] \in late
  <2>1. CASE i = n + 1
    <3>1. kindOf(r) = Plan[r][i]
      BY <2>1 DEF kindOf, n
    <3>2. CASE run.aborted
      BY <1>3, <2>1, <3>1, <3>2 DEF late
    <3>3. CASE ~run.aborted
      <4>1. n < Len(Plan[r]) /\ Len(Plan[r]) \in Nat /\ inTime[r] = Len(Plan[r])
        BY <1>7, <3>3, PlanFacts DEF n, Continues
      <4>2. i <= inTime[r]
        BY <1>3, <2>1, <4>1
      <4>. QED BY <1>3, <2>1, <3>1, <4>2
    <3>. QED BY <3>2, <3>3
  <2>2. CASE i # n + 1
    <3>1. i \in 1 .. n /\ answers[i] = runs[r].answers[i]
      BY <1>3, <2>2
    <3>2. i \in DOMAIN runs[r].answers
      BY <3>1, PlanFacts DEF n
    <3>3. runs[r].late \subseteq late
      BY DEF late, Continues
    <3>. QED BY <1>7, <3>1, <3>2, <3>3 DEF AnswersOK
  <2>. QED BY <2>1, <2>2
<1>9. AnswersOK(r, after, inTime[r])
  BY <1>3, <1>5, <1>8 DEF AnswersOK
<1>10. Accounted(r, after, requests, inTime[r])
  BY <1>5, <1>6, <1>7, <1>9 DEF Accounted, Underway, Continues
<1>. QED BY <1>1, <1>10

(* The next request is paced, or its resource answered as not asked for.       *)
LEMMA RequestAccounted ==
  ASSUME ProviderInv, AccountInv, NEW r \in Runs, runs[r].pc \in Underway \cup {"next"},
         Len(runs[r].answers) < Len(Plan[r]), NEW run, Continues(r, run),
         Asking(kindOf(r), run.attempts), NEW requests, Tally(Made(run), requests)
  PROVE  Accounted(r, Request(r, run), requests, inTime[r])
<1>1. kindOf(r) \in Kinds /\ run.heldUntil \in Nat /\ NoInstant \in Nat
      /\ {"cancelled", "rate-limit-deferred"} \subseteq InterruptionReasons
  BY RunFacts, KindIsPlanned DEF Continues, RunRecords, NoInstant, InterruptionReasons
<1>2. Made(run) = ClaimsOfAnswers(runs[r].answers) \cup ClaimsOf(run.attempts)
  BY DEF Made, Continues
<1>3. ASSUME NEW reason \in InterruptionReasons, NEW hint \in Nat
      PROVE  Accounted(r, Answered(r, run, NotSent(run.attempts, reason, hint)),
                       requests, inTime[r])
  <2>1. /\ AnswerOK(kindOf(r), NotSent(run.attempts, reason, hint))
        /\ NotSent(run.attempts, reason, hint).attempts = run.attempts
    BY <1>1, NotSentOK
  <2>. QED BY <1>2, <2>1, AnsweredAccounted
<1>4. CASE run.aborted
  BY <1>1, <1>3, <1>4 DEF Request
<1>5. CASE ~run.aborted /\ run.heldUntil > now
  BY <1>1, <1>3, <1>5 DEF Request
<1>6. CASE ~run.aborted /\ ~(run.heldUntil > now)
  <2> DEFINE paced == [run EXCEPT !.pc = "pace"]
  <2>1. Request(r, run) = paced
    BY <1>6 DEF Request
  <2>2. /\ paced.pc = "pace" /\ paced.answers = runs[r].answers /\ paced.late = runs[r].late
        /\ paced.attempts = run.attempts /\ paced.aborted = runs[r].aborted
    BY DEF Continues, RunRecords
  <2> HIDE DEF paced
  <2>3. Counted(paced, requests)
    <3>1. Made(paced) = Made(run) /\ SoFar(paced.pc, requests) = requests
      BY <2>2 DEF Made, SoFar, Continues
    <3>. QED BY <3>1 DEF Counted
  <2>4. /\ inTime[r] \in Nat /\ (~runs[r].aborted => inTime[r] = Len(Plan[r]))
        /\ AnswersOK(r, runs[r], inTime[r]) /\ runs[r].pc # "ended"
    BY DEF AccountInv, Accounted, Underway
  <2>5. AnswersOK(r, paced, inTime[r])
    BY <2>2, <2>4 DEF AnswersOK
  <2>6. Asking(Plan[r][Len(paced.answers) + 1], paced.attempts)
    BY <2>2 DEF kindOf
  <2>. QED BY <2>1, <2>2, <2>3, <2>4, <2>5, <2>6 DEF Accounted, Underway
<1>. QED BY <1>4, <1>5, <1>6 DEF Continues, RunRecords

-----------------------------------------------------------------------------
(* Each action keeps the account.                                              *)

(* A step that changes neither what a run was answered nor what it asks for.   *)
LEMMA SameAccount ==
  ASSUME ProviderInv, AccountInv, NEW r \in Runs, NEW run,
         run.answers = runs[r].answers, run.attempts = runs[r].attempts,
         run.late = runs[r].late,
         SoFar(run.pc, <<>>) = <<>>, SoFar(runs[r].pc, <<>>) = <<>>,
         run.pc \in Underway <=> runs[r].pc \in Underway,
         run.pc \in {"idle", "leased"} => runs[r].pc \in {"idle", "leased"},
         run.pc # "ended", runs[r].pc # "ended",
         NEW timely \in Nat, ~run.aborted => timely = Len(Plan[r]),
         AnswersOK(r, runs[r], timely)
  PROVE  Accounted(r, run, sent[r], timely)
<1>1. run.pc \notin {"sent", "report"} /\ runs[r].pc \notin {"sent", "report"}
  <2>1. \A e : Append(<<>>, e) # <<>>
    OBVIOUS
  <2>. QED BY <2>1 DEF SoFar
<1>2. Counted(run, sent[r])
  BY <1>1, AccountFacts DEF Counted, SoFar, Made
<1>3. AnswersOK(r, run, timely)
  BY DEF AnswersOK
<1>. QED BY <1>2, <1>3 DEF AccountInv, Accounted

LEMMA TimelyFacts ==
  ASSUME AccountInv, NEW r \in Runs, runs[r].pc # "ended"
  PROVE  /\ inTime[r] \in Nat /\ (~runs[r].aborted => inTime[r] = Len(Plan[r]))
         /\ AnswersOK(r, runs[r], inTime[r])
         /\ \A n \in DOMAIN runs[r].answers : AnswerOK(Plan[r][n], runs[r].answers[n])
BY DEF AccountInv, Accounted, AnswersOK

LEMMA LeaseAccount ==
  ASSUME ProviderInv, AccountInv, NEW r \in Runs, Lease(r) PROVE AccountInv'
<1> DEFINE run == [runs[r] EXCEPT !.pc = "leased", !.startedAt = now]
<1>1. /\ runs' = [runs EXCEPT ![r] = run] /\ runs[r].pc = "idle"
      /\ UNCHANGED <<sent, inTime>>
  BY DEF Lease, goes, at
<1>2. /\ run.pc = "leased" /\ run.answers = runs[r].answers
      /\ run.attempts = runs[r].attempts /\ run.late = runs[r].late
      /\ run.aborted = runs[r].aborted
  BY RunFacts DEF RunRecords
<1> HIDE DEF run
<1>3. Accounted(r, run, sent[r], inTime[r])
  BY <1>1, <1>2, TimelyFacts, SameAccount DEF SoFar, Underway
<1>. QED BY <1>1, <1>3, AccountAfterQuiet

(* A run that begins coordination cancelled answers nothing in time.           *)
LEMMA EnterCoordinationAccount ==
  ASSUME ProviderInv, AccountInv, NEW r \in Runs, EnterCoordination(r) PROVE AccountInv'
<1> DEFINE aborted == runs[r].aborted \/ now >= runs[r].startedAt + Deadline
           run == [runs[r] EXCEPT !.pc = "next", !.aborted = aborted]
           timely == IF aborted THEN 0 ELSE inTime[r]
<1>1. /\ runs' = [runs EXCEPT ![r] = run] /\ runs[r].pc = "leased" /\ sent' = sent
      /\ inTime' = IF aborted THEN [inTime EXCEPT ![r] = 0] ELSE inTime
  BY DEF EnterCoordination, goes, at
<1>2. inTime' = [inTime EXCEPT ![r] = timely]
  <2>1. CASE aborted
    BY <1>1, <2>1
  <2>2. CASE ~aborted
    BY <1>1, <2>2, AccountFacts
  <2>. QED BY <2>1, <2>2
<1>3. timely \in Nat /\ (~aborted => timely = Len(Plan[r]))
  BY <1>1, TimelyFacts
<1>4. runs[r].aborted => aborted
  OBVIOUS
<1> HIDE DEF aborted, timely
<1>5. /\ run.pc = "next" /\ run.answers = runs[r].answers
      /\ run.attempts = runs[r].attempts /\ run.late = runs[r].late
      /\ run.aborted = aborted
  BY RunFacts DEF RunRecords
<1> HIDE DEF run
<1>6. AnswersOK(r, runs[r], timely)
  <2>1. runs[r].answers = <<>>
    BY <1>1 DEF AccountInv, Accounted
  <2>. QED BY <2>1 DEF AnswersOK
<1>7. Accounted(r, run, sent[r], timely)
  BY <1>1, <1>3, <1>5, <1>6, SameAccount DEF SoFar, Underway
<1>8. sent' = [sent EXCEPT ![r] = sent[r]]
  BY <1>1, RunFacts
<1>. QED BY <1>1, <1>2, <1>7, <1>8, AccountAfter

(* The answers a run has when its signal aborts are the ones in time.          *)
LEMMA ExpireAccount ==
  ASSUME ProviderInv, AccountInv, NEW r \in Runs, Expire(r) PROVE AccountInv'
<1> DEFINE run == [runs[r] EXCEPT !.aborted = TRUE]
           timely == Len(runs[r].answers)
<1>1. /\ runs' = [runs EXCEPT ![r] = run] /\ runs[r].pc \notin {"idle", "ended"}
      /\ sent' = sent /\ inTime' = [inTime EXCEPT ![r] = timely]
  BY DEF Expire, goes
<1>2. /\ run.pc = runs[r].pc /\ run.answers = runs[r].answers
      /\ run.attempts = runs[r].attempts /\ run.late = runs[r].late
      /\ run.aborted
  BY RunFacts DEF RunRecords
<1> HIDE DEF run
<1>3. AnswersOK(r, run, timely)
  <2>1. \A n \in DOMAIN runs[r].answers : n <= timely
    BY PlanFacts
  <2>. QED BY <1>1, <1>2, <2>1, TimelyFacts DEF AnswersOK
<1>4. Counted(run, sent[r])
  BY <1>2, AccountFacts DEF Counted, Made
<1>5. timely \in Nat
  BY PlanFacts
<1>6. Accounted(r, run, sent[r], timely)
  BY <1>1, <1>2, <1>3, <1>4, <1>5 DEF AccountInv, Accounted
<1>7. sent' = [sent EXCEPT ![r] = sent[r]]
  BY <1>1, RunFacts
<1>. QED BY <1>1, <1>6, <1>7, AccountAfter

(* A run that ends keeps its answers; the resources it did not reach claim     *)
(* nothing.                                                                    *)
LEMMA EndAccounted ==
  ASSUME ProviderInv, AccountInv, NEW r \in Runs, runs[r].pc = "next", NEW run,
         run.pc = "ended", run.attempts = <<>>, run.late = runs[r].late,
         run.answers = [n \in DOMAIN Plan[r] |-> IF n \in DOMAIN runs[r].answers
                                                 THEN runs[r].answers[n] ELSE NotExecuted]
  PROVE  Accounted(r, run, sent[r], inTime[r])
<1>1. /\ DOMAIN run.answers = DOMAIN Plan[r] /\ DOMAIN runs[r].answers \subseteq DOMAIN Plan[r]
      /\ \A n \in DOMAIN runs[r].answers : run.answers[n] = runs[r].answers[n]
      /\ \A n \in DOMAIN run.answers \ DOMAIN runs[r].answers : run.answers[n] = NotExecuted
  BY PlanFacts
<1>2. ClaimsOf(NotExecuted.attempts) = {}
  <2>1. NotExecuted.attempts = <<>>
    BY DEF NotExecuted, outcomeOf
  <2>. QED BY <2>1, NoClaims
<1>3. ClaimsOfAnswers(run.answers) = ClaimsOfAnswers(runs[r].answers)
  BY <1>1, <1>2 DEF ClaimsOfAnswers
<1>4. runs[r].attempts = <<>>
  BY AccountFacts DEF Underway
<1>5. Counted(run, sent[r])
  <2>1. Made(run) = Made(runs[r])
    BY <1>3, <1>4 DEF Made
  <2>. QED BY <2>1, AccountFacts DEF Counted, SoFar
<1>6. AnswersOK(r, run, inTime[r])
  BY <1>1, TimelyFacts DEF AnswersOK
<1>. QED BY <1>5, <1>6, TimelyFacts DEF Accounted, Underway

LEMMA NextOperationAccount ==
  ASSUME ProviderInv, AccountInv, NEW r \in Runs, NextOperation(r) PROVE AccountInv'
<1>1. runs[r].pc = "next" /\ UNCHANGED <<sent, inTime>>
  BY DEF NextOperation, at
<1>2. CASE Len(runs[r].answers) = Len(Plan[r]) \/ runs[r].aborted
  <2> DEFINE answers == [n \in DOMAIN Plan[r] |->
                           IF n \in DOMAIN runs[r].answers
                           THEN runs[r].answers[n] ELSE NotExecuted]
             run == [idle EXCEPT !.pc = "ended", !.late = runs[r].late, !.answers = answers]
  <2>1. runs' = [runs EXCEPT ![r] = run]
    BY <1>2 DEF NextOperation, goes
  <2> HIDE DEF answers
  <2>2. /\ run.pc = "ended" /\ run.attempts = <<>> /\ run.late = runs[r].late
        /\ run.answers = answers
    BY DEF idle
  <2> HIDE DEF run
  <2>3. Accounted(r, run, sent[r], inTime[r])
    BY <1>1, <2>2, EndAccounted DEF answers
  <2>. QED BY <1>1, <2>1, <2>3, AccountAfterQuiet
<1>3. CASE ~(Len(runs[r].answers) = Len(Plan[r]) \/ runs[r].aborted)
  <2>1. Len(runs[r].answers) < Len(Plan[r])
    BY <1>3, PlanFacts
  <2>2. runs' = [runs EXCEPT ![r] = Request(r, runs[r])]
    BY <1>3 DEF NextOperation, goes
  <2>3. runs[r].attempts = <<>> /\ Counted(runs[r], sent[r])
    BY <1>1, AccountFacts DEF Underway
  <2>4. Asking(kindOf(r), runs[r].attempts)
    <3>1. RequestsOf(kindOf(r)) \in {1, 2} /\ <<>> \in Attempts /\ Len(<<>>) = 0
      BY FewRequests DEF Attempts
    <3>2. 0 < RequestsOf(kindOf(r))
      BY <3>1
    <3>. QED BY <2>3, <3>1, <3>2 DEF Asking, AttemptsAre, AllSuccessful
  <2>5. Tally(Made(runs[r]), sent[r])
    BY <1>1, <2>3 DEF Counted, SoFar
  <2>6. Continues(r, runs[r])
    BY RunFacts DEF Continues
  <2>7. Accounted(r, Request(r, runs[r]), sent[r], inTime[r])
    BY <1>1, <2>1, <2>4, <2>5, <2>6, RequestAccounted
  <2>. QED BY <1>1, <2>2, <2>7, AccountAfterQuiet
<1>. QED BY <1>2, <1>3

LEMMA AskAccount ==
  ASSUME ProviderInv, AccountInv, NEW r \in Runs, Ask(r) PROVE AccountInv'
<1> DEFINE run == [runs[r] EXCEPT !.pc = "asked", !.lastReservationAt = now]
<1>1. /\ runs' = [runs EXCEPT ![r] = run] /\ runs[r].pc = "pace"
      /\ UNCHANGED <<sent, inTime>>
  BY DEF Ask, goes, at
<1>2. /\ run.pc = "asked" /\ run.answers = runs[r].answers
      /\ run.attempts = runs[r].attempts /\ run.late = runs[r].late
      /\ run.aborted = runs[r].aborted
  BY RunFacts DEF RunRecords
<1> HIDE DEF run
<1>3. Accounted(r, run, sent[r], inTime[r])
  BY <1>1, <1>2, TimelyFacts, SameAccount DEF SoFar, Underway
<1>. QED BY <1>1, <1>3, AccountAfterQuiet

(* The object's answer, and the lack of one.                                   *)
LEMMA ReplyAccount ==
  ASSUME ProviderInv, AccountInv, NEW r \in Runs, runs[r].pc = "asked", NEW reply,
         runs' = [runs EXCEPT ![r] = [runs[r] EXCEPT !.pc = "answered", !.reply = reply]],
         UNCHANGED <<sent, inTime>>
  PROVE  AccountInv'
<1> DEFINE run == [runs[r] EXCEPT !.pc = "answered", !.reply = reply]
<1>1. runs' = [runs EXCEPT ![r] = run]
  OBVIOUS
<1>2. /\ run.pc = "answered" /\ run.answers = runs[r].answers
      /\ run.attempts = runs[r].attempts /\ run.late = runs[r].late
      /\ run.aborted = runs[r].aborted
  BY RunFacts DEF RunRecords
<1> HIDE DEF run
<1>3. Accounted(r, run, sent[r], inTime[r])
  BY <1>2, TimelyFacts, SameAccount DEF SoFar, Underway
<1>. QED BY <1>1, <1>3, AccountAfterQuiet

LEMMA ReserveAccount ==
  ASSUME ProviderInv, AccountInv, NEW r \in Runs, Reserve(r) \/ Unreachable(r)
  PROVE  AccountInv'
<1>1. runs[r].pc = "asked" /\ UNCHANGED <<sent, inTime>>
  BY DEF Reserve, Unreachable, at
<1>2. \E reply :
        runs' = [runs EXCEPT ![r] = [runs[r] EXCEPT !.pc = "answered", !.reply = reply]]
  <2>1. CASE Reserve(r)
    BY <2>1 DEF Reserve, goes
  <2>2. CASE Unreachable(r)
    BY <2>2 DEF Unreachable, goes
  <2>. QED BY <2>1, <2>2
<1>. QED BY <1>1, <1>2, ReplyAccount

LEMMA SendAccount ==
  ASSUME ProviderInv, AccountInv, NEW r \in Runs, Send(r) PROVE AccountInv'
<1> DEFINE run == [runs[r] EXCEPT !.pc = "sent"]
<1>1. /\ runs' = [runs EXCEPT ![r] = run] /\ runs[r].pc = "answered"
      /\ sent' = [sent EXCEPT ![r] = Append(sent[r], "out")] /\ inTime' = inTime
  BY DEF Send, goes, at
<1>2. /\ run.pc = "sent" /\ run.answers = runs[r].answers
      /\ run.attempts = runs[r].attempts /\ run.late = runs[r].late
      /\ run.aborted = runs[r].aborted
  BY RunFacts DEF RunRecords
<1> HIDE DEF run
<1>3. Counted(run, Append(sent[r], "out"))
  <2>1. Tally(Made(runs[r]), sent[r])
    BY <1>1, AccountFacts DEF Counted, SoFar
  <2>. QED BY <1>2, <2>1 DEF Counted, SoFar, Made
<1>4. AnswersOK(r, run, inTime[r])
  BY <1>1, <1>2, TimelyFacts DEF AnswersOK
<1>5. Asking(Plan[r][Len(run.answers) + 1], run.attempts)
  BY <1>1, <1>2, AccountFacts DEF Underway, kindOf
<1>6. Accounted(r, run, Append(sent[r], "out"), inTime[r])
  BY <1>1, <1>2, <1>3, <1>4, <1>5, TimelyFacts DEF Accounted, Underway
<1>. QED BY <1>1, <1>6, AccountAfterOwn

LEMMA RefuseAccount ==
  ASSUME ProviderInv, AccountInv, NEW r \in Runs, Refuse(r) PROVE AccountInv'
<1>1. runs[r].pc = "answered" /\ UNCHANGED <<sent, inTime>>
  BY DEF Refuse, at
<1>2. PICK reason \in InterruptionReasons, hint \in Nat :
        runs' = [runs EXCEPT ![r] = Answered(r, runs[r],
                                             NotSent(runs[r].attempts, reason, hint))]
  <2>1. runs[r].reply.retryAt \in Nat
    BY RunFacts DEF RunRecords, Replies
  <2>2. /\ {"limiter-unavailable", "rate-limit-deferred", "cancelled"} \subseteq InterruptionReasons
        /\ NoInstant \in Nat
    BY DEF InterruptionReasons, NoInstant
  <2>3. \/ runs' = [runs EXCEPT ![r] = Answered(r, runs[r],
                      NotSent(runs[r].attempts, "limiter-unavailable", NoInstant))]
        \/ runs' = [runs EXCEPT ![r] = Answered(r, runs[r],
                      NotSent(runs[r].attempts, "rate-limit-deferred", runs[r].reply.retryAt))]
        \/ runs' = [runs EXCEPT ![r] = Answered(r, runs[r],
                      NotSent(runs[r].attempts, "cancelled", NoInstant))]
    BY DEF Refuse, goes
  <2>. QED BY <2>1, <2>2, <2>3
<1> DEFINE o == NotSent(runs[r].attempts, reason, hint)
<1>3. /\ Len(runs[r].answers) < Len(Plan[r]) /\ kindOf(r) \in Kinds
      /\ Asking(kindOf(r), runs[r].attempts)
  BY <1>1, UnderwayFacts, AccountFacts DEF Underway
<1>4. AnswerOK(kindOf(r), o) /\ o.attempts = runs[r].attempts
  BY <1>3, NotSentOK
<1>5. runs' = [runs EXCEPT ![r] = Answered(r, runs[r], o)]
  BY <1>2
<1> HIDE DEF o
<1>6. Tally(ClaimsOfAnswers(runs[r].answers) \cup ClaimsOf(o.attempts), sent[r])
  <2>1. Tally(Made(runs[r]), sent[r])
    BY <1>1, AccountFacts DEF Counted, SoFar
  <2>2. Made(runs[r]) = ClaimsOfAnswers(runs[r].answers) \cup ClaimsOf(o.attempts)
    BY <1>4 DEF Made
  <2>. QED BY <2>1, <2>2
<1>7. Continues(r, runs[r])
  BY RunFacts DEF Continues
<1>8. Accounted(r, Answered(r, runs[r], o), sent[r], inTime[r])
  BY <1>1, <1>3, <1>4, <1>6, <1>7, AnsweredAccounted DEF Underway
<1>. QED BY <1>1, <1>5, <1>8, AccountAfterQuiet

LEMMA CompleteAccount ==
  ASSUME ProviderInv, AccountInv, NEW r \in Runs, Complete(r) PROVE AccountInv'
<1> DEFINE attempts == More(kindOf(r), runs[r].attempts, "completed")
           more == [runs[r] EXCEPT !.attempts = attempts]
<1>1. runs[r].pc = "sent" /\ ends(r, "completed") /\ inTime' = inTime
  BY DEF Complete, at
<1>2. /\ Len(runs[r].answers) < Len(Plan[r]) /\ kindOf(r) \in Kinds
      /\ Asking(kindOf(r), runs[r].attempts)
  BY <1>1, UnderwayFacts, AccountFacts DEF Underway
<1>3. AttemptOutcomeFor("completed") = "successful"
  BY DEF AttemptOutcomeFor
<1>4. PICK requests :
        /\ sent' = [sent EXCEPT ![r] = requests]
        /\ Tally(ClaimsOfAnswers(runs[r].answers) \cup ClaimsOf(attempts), requests)
  BY <1>1, EndsCounted
<1>5. IsOneMore(kindOf(r), runs[r].attempts, "completed", attempts)
  BY <1>2, OneMoreAttempt
<1>6. PICK reading \in Readings(kindOf(r)) :
        IF reading = "normalized" /\ Len(attempts) < RequestsOf(kindOf(r))
        THEN runs' = [runs EXCEPT ![r] = Request(r, more)]
        ELSE runs' = [runs EXCEPT ![r] = Answered(r, runs[r], ReadOutcome(attempts, reading))]
  BY DEF Complete, goes, More
<1> HIDE DEF attempts
<1>7. /\ attempts \in Attempts /\ AttemptsAre(kindOf(r), attempts) /\ ReadsAttempts(attempts)
      /\ AllSuccessful(attempts) /\ AllSuccessful(SubSeq(attempts, 1, Len(attempts) - 1))
      /\ attempts[Len(attempts)].outcome = "successful"
      /\ Len(attempts) <= RequestsOf(kindOf(r))
  BY <1>3, <1>5 DEF IsOneMore
<1>8. CASE reading = "normalized" /\ Len(attempts) < RequestsOf(kindOf(r))
  <2>1. /\ Continues(r, more) /\ more.attempts = attempts
    BY <1>7, RunFacts DEF Continues, RunRecords
  <2>2. runs' = [runs EXCEPT ![r] = Request(r, more)]
    BY <1>6, <1>8
  <2> HIDE DEF more
  <2>3. Asking(kindOf(r), more.attempts)
    BY <1>7, <1>8, <2>1 DEF Asking
  <2>4. Tally(Made(more), requests)
    <3>1. Made(more) = ClaimsOfAnswers(runs[r].answers) \cup ClaimsOf(attempts)
      BY <2>1 DEF Made, Continues
    <3>. QED BY <1>4, <3>1
  <2>5. Accounted(r, Request(r, more), requests, inTime[r])
    BY <1>1, <1>2, <2>1, <2>3, <2>4, RequestAccounted DEF Underway
  <2>. QED BY <1>1, <1>4, <2>2, <2>5, AccountAfterOwn
<1>9. CASE ~(reading = "normalized" /\ Len(attempts) < RequestsOf(kindOf(r)))
  <2> DEFINE o == ReadOutcome(attempts, reading)
  <2>1. reading = "normalized" => Len(attempts) = RequestsOf(kindOf(r))
    <3>1. PICK n \in Nat : Len(attempts) = n
      BY <1>7, LenProperties DEF Attempts
    <3>2. PICK m \in Nat : RequestsOf(kindOf(r)) = m
      BY FewRequests
    <3>3. n <= m /\ (reading = "normalized" => ~(n < m))
      BY <1>7, <1>9, <3>1, <3>2
    <3>. QED BY <3>1, <3>2, <3>3
  <2>2. AnswerOK(kindOf(r), o) /\ o.attempts = attempts
    BY <1>2, <1>7, <2>1, ReadOutcomeOK
  <2>3. runs' = [runs EXCEPT ![r] = Answered(r, runs[r], o)]
    BY <1>6, <1>9
  <2> HIDE DEF o
  <2>4. Continues(r, runs[r])
    BY RunFacts DEF Continues
  <2>5. Accounted(r, Answered(r, runs[r], o), requests, inTime[r])
    BY <1>1, <1>2, <1>4, <2>2, <2>4, AnsweredAccounted DEF Underway
  <2>. QED BY <1>1, <1>4, <2>3, <2>5, AccountAfterOwn
<1>. QED BY <1>8, <1>9

(* A transport failure, of a request that ended or of one being reported.      *)
LEMMA FailedAccounted ==
  ASSUME ProviderInv, AccountInv, NEW r \in Runs, runs[r].pc \in Underway, NEW ending,
         NEW hint \in Nat, NEW requests,
         Tally(ClaimsOfAnswers(runs[r].answers)
                 \cup ClaimsOf(More(kindOf(r), runs[r].attempts, ending)), requests)
  PROVE  Accounted(r, Answered(r, runs[r],
                               TransportFailure(kindOf(r), runs[r].attempts, ending, hint)),
                   requests, inTime[r])
<1>1. /\ Len(runs[r].answers) < Len(Plan[r]) /\ kindOf(r) \in Kinds
      /\ Asking(kindOf(r), runs[r].attempts)
  BY UnderwayFacts, AccountFacts
<1> DEFINE o == TransportFailure(kindOf(r), runs[r].attempts, ending, hint)
<1>2. AnswerOK(kindOf(r), o) /\ o.attempts = More(kindOf(r), runs[r].attempts, ending)
  BY <1>1, TransportFailureOK
<1> HIDE DEF o
<1>3. Continues(r, runs[r])
  BY RunFacts DEF Continues
<1>4. Accounted(r, Answered(r, runs[r], o), requests, inTime[r])
  BY <1>1, <1>2, <1>3, AnsweredAccounted
<1>. QED BY <1>4 DEF o

LEMMA FailAccount ==
  ASSUME ProviderInv, AccountInv, NEW r \in Runs, Fail(r) PROVE AccountInv'
<1>1. PICK ending :
        /\ ends(r, ending)
        /\ runs' = [runs EXCEPT ![r] = Answered(r, runs[r],
                      TransportFailure(kindOf(r), runs[r].attempts, ending, NoInstant))]
  BY DEF Fail, goes
<1>2. runs[r].pc = "sent" /\ inTime' = inTime /\ runs[r].pc \in Underway /\ NoInstant \in Nat
  BY DEF Fail, at, Underway, NoInstant
<1>3. PICK requests :
        /\ sent' = [sent EXCEPT ![r] = requests]
        /\ Tally(ClaimsOfAnswers(runs[r].answers)
                   \cup ClaimsOf(More(kindOf(r), runs[r].attempts, ending)), requests)
  BY <1>1, <1>2, EndsCounted
<1>4. Accounted(r, Answered(r, runs[r],
                            TransportFailure(kindOf(r), runs[r].attempts, ending, NoInstant)),
                requests, inTime[r])
  BY <1>2, <1>3, FailedAccounted
<1>. QED BY <1>1, <1>2, <1>3, <1>4, AccountAfterOwn

LEMMA RateLimitedAccount ==
  ASSUME ProviderInv, AccountInv, NEW r \in Runs, RateLimited(r) PROVE AccountInv'
<1>1. PICK retryAfter, until :
        runs' = [runs EXCEPT ![r] = [runs[r] EXCEPT !.pc = "report",
                                       !.retryAfter = retryAfter, !.heldUntil = until]]
  BY DEF RateLimited, goes
<1>2. runs[r].pc = "sent" /\ ends(r, "provider-rate-limited") /\ inTime' = inTime
  BY DEF RateLimited, at
<1> DEFINE run == [runs[r] EXCEPT !.pc = "report", !.retryAfter = retryAfter,
                                  !.heldUntil = until]
<1>3. runs' = [runs EXCEPT ![r] = run]
  BY <1>1
<1>4. /\ run.pc = "report" /\ run.answers = runs[r].answers
      /\ run.attempts = runs[r].attempts /\ run.late = runs[r].late
      /\ run.aborted = runs[r].aborted
  BY RunFacts DEF RunRecords
<1> HIDE DEF run
<1>5. AttemptOutcomeFor("provider-rate-limited") = "rate-limited"
  BY DEF AttemptOutcomeFor, PolicyRejections
<1>6. PICK q : /\ Tally(Made(runs[r]), q)
               /\ sent' = [sent EXCEPT ![r] = Append(q, "rate-limited")]
  BY <1>2, <1>5, EndsCounted
<1>7. Counted(run, Append(q, "rate-limited"))
  BY <1>4, <1>6 DEF Counted, SoFar, Made
<1>8. AnswersOK(r, run, inTime[r])
  BY <1>2, <1>4, TimelyFacts DEF AnswersOK
<1>9. Asking(Plan[r][Len(run.answers) + 1], run.attempts)
  BY <1>2, <1>4, AccountFacts DEF Underway, kindOf
<1>10. Accounted(r, run, Append(q, "rate-limited"), inTime[r])
  BY <1>2, <1>4, <1>7, <1>8, <1>9, TimelyFacts DEF Accounted, Underway
<1>. QED BY <1>2, <1>3, <1>6, <1>10, AccountAfterOwn

LEMMA ReportAccount ==
  ASSUME ProviderInv, AccountInv, NEW r \in Runs, RecordRateLimit(r) \/ LoseReport(r)
  PROVE  AccountInv'
<1>1. runs[r].pc = "report" /\ reported(r) /\ UNCHANGED <<sent, inTime>>
  BY DEF RecordRateLimit, LoseReport, at
<1>2. runs[r].retryAfter \in Nat /\ runs[r].pc \in Underway
  BY <1>1, RunFacts DEF RunRecords, Underway
<1>3. PICK q : Tally(Made(runs[r]), q) /\ sent[r] = Append(q, "rate-limited")
  BY <1>1, AccountFacts DEF Counted, SoFar
<1>4. AttemptOutcomeFor("provider-rate-limited") = "rate-limited"
  BY DEF AttemptOutcomeFor, PolicyRejections
<1>5. Tally(ClaimsOfAnswers(runs[r].answers)
              \cup ClaimsOf(More(kindOf(r), runs[r].attempts, "provider-rate-limited")),
            sent[r])
  BY <1>2, <1>3, <1>4, TallyRequest
<1>6. Accounted(r, Answered(r, runs[r],
                            TransportFailure(kindOf(r), runs[r].attempts,
                                             "provider-rate-limited", runs[r].retryAfter)),
                sent[r], inTime[r])
  BY <1>2, <1>5, FailedAccounted
<1>7. runs' = [runs EXCEPT ![r] = Answered(r, runs[r],
                 TransportFailure(kindOf(r), runs[r].attempts,
                                  "provider-rate-limited", runs[r].retryAfter))]
  BY <1>1 DEF reported, goes
<1>. QED BY <1>1, <1>6, <1>7, AccountAfterQuiet

LEMMA InitAccountInv ==
  ASSUME Init PROVE AccountInv
<1>1. /\ idle.pc = "idle" /\ idle.answers = <<>> /\ idle.attempts = <<>> /\ ~idle.aborted
  BY DEF idle
<1>2. Made(idle) = {}
  BY <1>1, NoClaims DEF Made
<1> HIDE DEF idle
<1>3. Counted(idle, <<>>)
  BY <1>1, <1>2, TallyNothing DEF Counted, SoFar
<1>4. ASSUME NEW r \in Runs PROVE Accounted(r, idle, <<>>, Len(Plan[r]))
  <2>1. Len(Plan[r]) \in Nat
    BY ProviderAssumption
  <2>2. AnswersOK(r, idle, Len(Plan[r]))
    BY <1>1 DEF AnswersOK
  <2>. QED BY <1>1, <1>3, <2>1, <2>2 DEF Accounted, Underway
<1>. QED BY <1>4 DEF Init, AccountInv

LEMMA NextAccountInv ==
  ASSUME ProviderInv, AccountInv, [Next]_vars PROVE AccountInv'
<1>1. CASE UNCHANGED vars
  BY <1>1 DEF vars, AccountInv
<1>2. CASE Tick \/ ElsewhereReserve \/ ElsewhereReport
  BY <1>2 DEF Tick, ElsewhereReserve, ElsewhereReport, AccountInv
<1>3. ASSUME NEW r \in Runs,
             \/ Lease(r) \/ EnterCoordination(r) \/ Expire(r) \/ NextOperation(r)
             \/ Ask(r) \/ Reserve(r) \/ Unreachable(r) \/ Send(r) \/ Refuse(r)
             \/ Complete(r) \/ Fail(r) \/ RateLimited(r) \/ RecordRateLimit(r)
             \/ LoseReport(r)
      PROVE  AccountInv'
  BY <1>3, LeaseAccount, EnterCoordinationAccount, ExpireAccount, NextOperationAccount,
     AskAccount, ReserveAccount, SendAccount, RefuseAccount, CompleteAccount, FailAccount,
     RateLimitedAccount, ReportAccount
<1>. QED BY <1>1, <1>2, <1>3 DEF Next

(* For every plan and every run, the answers a run has been given are          *)
(* well-formed and their claims count the requests it made                     *)
(* (providers/coordination/port.ts).                                           *)
THEOREM AccountKept == Spec => []AccountInv
<1>1. Init => AccountInv
  BY InitAccountInv
<1>2. ProviderInv /\ AccountInv /\ [Next]_vars => AccountInv'
  BY NextAccountInv
<1>. QED BY <1>1, <1>2, ProviderSafe, PTL DEF Spec

-----------------------------------------------------------------------------
(* What the coordinator reads of a run that ended.  Its operations are those   *)
(* of its plan, each asked of Jolpica and then of OpenF1.                      *)

Refused(kind) == NotAttempted(PolicyRefusal("openf1", kind, FALSE, {"jolpica"}), NoInstant)

(* The places of a resource's two operations.                                  *)
own(k) == 2 * k - 1
other(k) == 2 * k

LEMMA PlacesOfOperations ==
  ASSUME NEW N \in Nat
  PROVE  /\ \A k \in 1 .. N : /\ own(k) \in 1 .. 2 * N /\ other(k) \in 1 .. 2 * N
                              /\ own(k) % 2 = 1 /\ other(k) % 2 # 1
                              /\ (own(k) + 1) \div 2 = k /\ (other(k) + 1) \div 2 = k
         /\ \A n \in 1 .. 2 * N : \E k \in 1 .. N : n = own(k) \/ n = other(k)
<1>1. ASSUME NEW n \in 1 .. 2 * N PROVE \E k \in 1 .. N : n = own(k) \/ n = other(k)
  <2>1. (n + 1) \div 2 \in 1 .. N
        /\ (n = 2 * ((n + 1) \div 2) - 1 \/ n = 2 * ((n + 1) \div 2))
    OBVIOUS
  <2>. QED BY <2>1 DEF own, other
<1>2. ASSUME NEW k \in 1 .. N
      PROVE  /\ own(k) \in 1 .. 2 * N /\ other(k) \in 1 .. 2 * N
             /\ own(k) % 2 = 1 /\ other(k) % 2 # 1
             /\ (own(k) + 1) \div 2 = k /\ (other(k) + 1) \div 2 = k
  BY DEF own, other
<1>. QED BY <1>1, <1>2

LEMMA OperationFacts ==
  ASSUME ProviderInv, NEW r \in Runs
  PROVE  /\ Len(Operations(r)) = 2 * Len(Plan[r])
         /\ DOMAIN Operations(r) = 1 .. 2 * Len(Plan[r])
         /\ \A k \in 1 .. Len(Plan[r]) :
              /\ own(k) \in DOMAIN Operations(r) /\ other(k) \in DOMAIN Operations(r)
              /\ Operations(r)[own(k)] = [source |-> "jolpica", kind |-> Plan[r][k]]
              /\ Operations(r)[other(k)] = [source |-> "openf1", kind |-> Plan[r][k]]
              /\ answersOf(r)[own(k)] = runs[r].answers[k]
              /\ answersOf(r)[other(k)] = Refused(Plan[r][k])
         /\ \A n \in DOMAIN Operations(r) :
              \E k \in 1 .. Len(Plan[r]) : n = own(k) \/ n = other(k)
<1>1. PICK N \in Nat : Len(Plan[r]) = N
  BY PlanFacts
<1>2. /\ Operations(r) = [n \in 1 .. 2 * N |->
                            [source |-> IF n % 2 = 1 THEN "jolpica" ELSE "openf1",
                             kind |-> Plan[r][(n + 1) \div 2]]]
      /\ DOMAIN Operations(r) = 1 .. 2 * N
  BY <1>1 DEF Operations
<1>3. Len(Operations(r)) = 2 * N
  <2>1. 2 * N \in Nat
    OBVIOUS
  <2>. QED BY <1>2, <2>1
<1>4. ASSUME NEW k \in 1 .. N
      PROVE  /\ Operations(r)[own(k)] = [source |-> "jolpica", kind |-> Plan[r][k]]
             /\ Operations(r)[other(k)] = [source |-> "openf1", kind |-> Plan[r][k]]
  <2>1. PICK i \in 1 .. 2 * N : i = own(k) /\ i % 2 = 1 /\ (i + 1) \div 2 = k
    BY PlacesOfOperations
  <2>2. PICK j \in 1 .. 2 * N : j = other(k) /\ j % 2 # 1 /\ (j + 1) \div 2 = k
    BY PlacesOfOperations
  <2>3. Operations(r)[i] = [source |-> "jolpica", kind |-> Plan[r][k]]
    BY <1>2, <2>1
  <2>4. Operations(r)[j] = [source |-> "openf1", kind |-> Plan[r][k]]
    BY <1>2, <2>2
  <2>. QED BY <2>1, <2>2, <2>3, <2>4
<1>5. ASSUME NEW k \in 1 .. N
      PROVE  /\ answersOf(r)[own(k)] = runs[r].answers[k]
             /\ answersOf(r)[other(k)] = Refused(Plan[r][k])
  <2>1. PICK i \in DOMAIN Operations(r) : i = own(k) /\ i % 2 = 1 /\ (i + 1) \div 2 = k
    BY <1>2, PlacesOfOperations
  <2>2. PICK j \in DOMAIN Operations(r) : j = other(k) /\ j % 2 # 1
    BY <1>2, PlacesOfOperations
  <2>3. Operations(r)[j].kind = Plan[r][k]
    <3>1. Operations(r)[j] = [source |-> "openf1", kind |-> Plan[r][k]]
      BY <1>4, <2>2
    <3>2. [source |-> "openf1", kind |-> Plan[r][k]].kind = Plan[r][k]
      OBVIOUS
    <3>. QED BY <3>1, <3>2
  <2>4. answersOf(r)[i] = runs[r].answers[k]
    BY <2>1 DEF answersOf
  <2>5. answersOf(r)[j] = Refused(Plan[r][k])
    BY <2>2, <2>3 DEF answersOf, Refused
  <2>. QED BY <2>1, <2>2, <2>4, <2>5
<1>. QED BY <1>1, <1>2, <1>3, <1>4, <1>5, PlacesOfOperations

LEMMA NothingClaimed ==
  /\ ClaimsOf(NotExecuted.attempts) = {}
  /\ \A kind : Refused(kind).attempts = <<>>
<1>1. NotExecuted.attempts = <<>>
  BY DEF NotExecuted, outcomeOf
<1>2. \A kind : Refused(kind).attempts = <<>>
  BY DEF Refused, NotAttempted, outcomeOf
<1>. QED BY <1>1, <1>2, NoClaims

(* A run that ended has an answer for every resource of its plan.              *)
LEMMA EndedAnswers ==
  ASSUME ProviderInv, AccountInv, NEW r \in Runs, runs[r].pc = "ended"
  PROVE  /\ DOMAIN runs[r].answers = 1 .. Len(Plan[r])
         /\ \A k \in 1 .. Len(Plan[r]) :
              \/ /\ AnswerOK(Plan[r][k], runs[r].answers[k])
                 /\ k <= inTime[r] \/ Plan[r][k] \in runs[r].late
              \/ runs[r].answers[k] = NotExecuted
         /\ Made(runs[r]) = ClaimsOfAnswers(runs[r].answers)
         /\ Tally(Made(runs[r]), sent[r])
<1>1. Accounted(r, runs[r], sent[r], inTime[r])
  BY AccountFacts
<1>2. DOMAIN runs[r].answers = 1 .. Len(Plan[r])
  BY <1>1, PlanFacts DEF Accounted
<1>3. runs[r].attempts = <<>>
  BY <1>1 DEF Accounted, Underway
<1>4. Made(runs[r]) = ClaimsOfAnswers(runs[r].answers)
  BY <1>3, NoClaims DEF Made
<1>5. Tally(Made(runs[r]), sent[r])
  BY <1>1 DEF Accounted, Counted, SoFar
<1>. QED BY <1>1, <1>2, <1>4, <1>5 DEF Accounted, AnswersOK

LEMMA ClaimsOfOperations ==
  ASSUME ProviderInv, NEW r \in Runs, NEW k \in 1 .. Len(Plan[r])
  PROVE  /\ Claims(Operations(r)[own(k)], answersOf(r)[own(k)]) =
              ClaimsOf(runs[r].answers[k].attempts)
         /\ Claims(Operations(r)[other(k)], answersOf(r)[other(k)]) = {}
<1>1. ASSUME NEW op, NEW o, op.source = "jolpica" PROVE Claims(op, o) = ClaimsOf(o.attempts)
  BY <1>1 DEF Claims, ClaimsOf, claim
<1>2. ASSUME NEW op, NEW o, o.attempts = <<>> PROVE Claims(op, o) = {}
  BY <1>2 DEF Claims
<1>3. PICK op : op = Operations(r)[own(k)] /\ op.source = "jolpica"
  <2>1. Operations(r)[own(k)] = [source |-> "jolpica", kind |-> Plan[r][k]]
    BY OperationFacts
  <2>2. [source |-> "jolpica", kind |-> Plan[r][k]].source = "jolpica"
    OBVIOUS
  <2>. QED BY <2>1, <2>2
<1>4. PICK o : o = answersOf(r)[own(k)] /\ o = runs[r].answers[k]
  BY OperationFacts
<1>5. answersOf(r)[other(k)].attempts = <<>>
  <2>1. answersOf(r)[other(k)] = Refused(Plan[r][k])
    BY OperationFacts
  <2>. QED BY <2>1, NothingClaimed
<1>. QED BY <1>1, <1>2, <1>3, <1>4, <1>5

(* Two claims of one request are one claim: kinds and places tell requests     *)
(* apart.                                                                      *)
LEMMA EndedIsHarmonious ==
  ASSUME ProviderInv, AccountInv, NEW r \in Runs, runs[r].pc = "ended"
  PROVE  Harmonious(Operations(r), answersOf(r))
<1> DEFINE ops == Operations(r)
           ans == answersOf(r)
           answers == runs[r].answers
           claims(n) == Claims(ops[n], ans[n])
<1>1. ASSUME NEW n \in DOMAIN ops PROVE WellFormed(ans[n]) \/ claims(n) = {}
  <2>1. PICK k \in 1 .. Len(Plan[r]) : n = own(k) \/ n = other(k)
    BY OperationFacts
  <2>2. CASE n = other(k)
    BY <2>2, ClaimsOfOperations
  <2>3. CASE n = own(k)
    <3>1. ans[n] = answers[k] /\ claims(n) = ClaimsOf(answers[k].attempts)
      BY <2>3, OperationFacts, ClaimsOfOperations
    <3>2. AnswerOK(Plan[r][k], answers[k]) \/ answers[k] = NotExecuted
      BY EndedAnswers
    <3> HIDE DEF claims, ans
    <3>. QED BY <3>1, <3>2, NothingClaimed DEF AnswerOK
  <2>. QED BY <2>1, <2>2, <2>3
<1>2. ASSUME NEW n \in DOMAIN ops, NEW c \in claims(n)
      PROVE  \E k \in 1 .. Len(Plan[r]) : \E i \in DOMAIN answers[k].attempts :
               c = claim(answers[k].attempts[i]) /\ c.reference = <<Plan[r][k], i>>
  <2>1. PICK k \in 1 .. Len(Plan[r]) : n = own(k) \/ n = other(k)
    BY OperationFacts
  <2>2. CASE n = other(k)
    BY <2>2, ClaimsOfOperations
  <2>3. CASE n = own(k)
    <3>1. c \in ClaimsOf(answers[k].attempts)
      BY <2>3, ClaimsOfOperations
    <3>2. PICK i \in DOMAIN answers[k].attempts : c = claim(answers[k].attempts[i])
      BY <3>1 DEF ClaimsOf
    <3>3. AnswerOK(Plan[r][k], answers[k])
      BY <3>1, EndedAnswers, NothingClaimed
    <3>4. c.reference = <<Plan[r][k], i>>
      BY <3>2, <3>3 DEF claim, AnswerOK, AttemptsAre
    <3>. QED BY <3>2, <3>4
  <2>. QED BY <2>1, <2>2, <2>3
<1> HIDE DEF claims
<1>3. ASSUME NEW m \in DOMAIN ops, NEW n \in DOMAIN ops
      PROVE  ~Contradicts(claims(m), claims(n))
  <2> SUFFICES ASSUME NEW t \in claims(m), NEW c \in claims(n), t.reference = c.reference
               PROVE  t.outcome = c.outcome
    BY DEF Contradicts
  <2>1. PICK j \in 1 .. Len(Plan[r]) : \E i \in DOMAIN answers[j].attempts :
          t = claim(answers[j].attempts[i]) /\ t.reference = <<Plan[r][j], i>>
    BY <1>2
  <2>2. PICK k \in 1 .. Len(Plan[r]) : \E i \in DOMAIN answers[k].attempts :
          c = claim(answers[k].attempts[i]) /\ c.reference = <<Plan[r][k], i>>
    BY <1>2
  <2>3. PICK a \in DOMAIN answers[j].attempts :
          t = claim(answers[j].attempts[a]) /\ t.reference = <<Plan[r][j], a>>
    BY <2>1
  <2>4. PICK b \in DOMAIN answers[k].attempts :
          c = claim(answers[k].attempts[b]) /\ c.reference = <<Plan[r][k], b>>
    BY <2>2
  <2>5. Plan[r][j] = Plan[r][k] /\ a = b
    <3>1. <<Plan[r][j], a>> = <<Plan[r][k], b>>
      BY <2>3, <2>4, Zenon
    <3>. QED BY <3>1
  <2>6. j = k
    BY <2>5, PlanFacts
  <2> HIDE DEF answers
  <2>. QED BY <2>3, <2>4, <2>5, <2>6
<1>4. DOMAIN ops = 1 .. Len(ops)
  BY OperationFacts
<1>. QED BY <1>1, <1>3, <1>4 DEF Harmonious, claims

LEMMA EndedRegisters ==
  ASSUME ProviderInv, AccountInv, NEW r \in Runs, runs[r].pc = "ended"
  PROVE  /\ \A n \in 0 .. Len(Operations(r)) :
              Registered(Operations(r), answersOf(r))[n] =
                ClaimsUpTo(Operations(r), answersOf(r), n)
         /\ Registered(Operations(r), answersOf(r))[Len(Operations(r))] = Made(runs[r])
<1> DEFINE ops == Operations(r)
           ans == answersOf(r)
<1>1. Len(ops) \in Nat /\ DOMAIN ops = 1 .. Len(ops)
  BY OperationFacts, PlanFacts
<1>2. \A n \in 0 .. Len(ops) : Registered(ops, ans)[n] = ClaimsUpTo(ops, ans, n)
  BY <1>1, EndedIsHarmonious, EveryClaimIsRegistered
<1>3. ClaimsUpTo(ops, ans, Len(ops)) = ClaimsOfAnswers(runs[r].answers)
  <2>1. ASSUME NEW k \in 1 .. Len(Plan[r]), NEW c \in ClaimsOf(runs[r].answers[k].attempts)
        PROVE  c \in ClaimsUpTo(ops, ans, Len(ops))
    <3>1. own(k) \in 1 .. Len(ops)
          /\ c \in Claims(ops[own(k)], ans[own(k)])
      BY <1>1, OperationFacts, ClaimsOfOperations
    <3> HIDE DEF ops, ans
    <3>. QED BY <3>1 DEF ClaimsUpTo
  <2>2. ASSUME NEW c \in ClaimsUpTo(ops, ans, Len(ops))
        PROVE  c \in ClaimsOfAnswers(runs[r].answers)
    <3>1. PICK n \in DOMAIN ops : c \in Claims(ops[n], ans[n])
      BY <1>1 DEF ClaimsUpTo
    <3>2. PICK k \in 1 .. Len(Plan[r]) : n = own(k) \/ n = other(k)
      BY OperationFacts
    <3>3. c \in ClaimsOf(runs[r].answers[k].attempts)
      BY <3>1, <3>2, ClaimsOfOperations
    <3>. QED BY <3>3, EndedAnswers DEF ClaimsOfAnswers
  <2>. QED BY <2>1, <2>2, EndedAnswers DEF ClaimsOfAnswers
<1>4. Len(ops) \in 0 .. Len(ops)
  BY <1>1
<1>. QED BY <1>2, <1>3, <1>4, EndedAnswers

(* Whatever a run's requests met, and wherever its resources stopped, the      *)
(* account the coordinator makes of its answers is the requests that left it,  *)
(* each under the ending it had; and each of them was reserved before          *)
(* (coordinator.ts:386, provider-rate-limiter.ts:620).                         *)
THEOREM RequestsAccounted == Spec => []RequestsAreAccounted
<1>1. ProviderInv /\ AccountInv => AccountingIsExact
  <2> SUFFICES ASSUME ProviderInv, AccountInv, NEW r \in Runs, runs[r].pc = "ended"
               PROVE  Accounting(Operations(r), answersOf(r)) =
                        [total |-> Len(sent[r]),
                         successful |-> requestsEnded(r, "successful"),
                         failed |-> requestsEnded(r, "failed"),
                         rateLimited |-> requestsEnded(r, "rate-limited")]
    BY DEF AccountingIsExact, at
  <2> DEFINE M == Made(runs[r])
  <2>1. Registered(Operations(r), answersOf(r))[Len(Operations(r))] = M
    BY EndedRegisters
  <2>2. Tally(M, sent[r])
    BY EndedAnswers
  <2> HIDE DEF M
  <2>3. Accounting(Operations(r), answersOf(r)) =
          [total |-> Cardinality(M), successful |-> Cardinality(EndedAs(M, "successful")),
           failed |-> Cardinality(EndedAs(M, "failed")),
           rateLimited |-> Cardinality(EndedAs(M, "rate-limited"))]
    BY <2>1 DEF Accounting, EndedAs
  <2>4. \A e \in Endings : requestsEnded(r, e) = Cardinality(EndedAs(M, e))
    BY <2>2 DEF Tally, requestsEnded, PlacesOf
  <2>5. {"successful", "failed", "rate-limited"} \subseteq Endings
    BY DEF Endings
  <2>. QED BY <2>2, <2>3, <2>4, <2>5 DEF Tally
<1>. QED BY <1>1, ProviderSafe, AccountKept, RequestsReserved, PTL DEF RequestsAreAccounted

-----------------------------------------------------------------------------
(* What the coordinator makes of one answer.                                   *)

(* It is a candidate, a wait, or a failure with a known reason.               *)
Failing == DOMAIN AllowedAttemptOutcomes \cup {"mapping-unresolved"}
Known(status, attempted, reason) ==
  /\ reason # "coordination-invariant"
  /\ \/ status \in {"candidate", "deferred", "skipped", "interrupted"}
     \/ status = "failed" /\ attempted = TRUE /\ reason \in Failing
Believed(c) == Known(c.status, c.attempted, c.reason)
Contributes(op, c, status) ==
  c.source = op.source /\ c.kind = op.kind /\ c.status = status /\ Believed(c)

LEMMA KnownContributes ==
  ASSUME NEW op, NEW status, NEW attempted, NEW reason, NEW hint,
         Known(status, attempted, reason)
  PROVE  Contributes(op, contribution(op, status, attempted, reason, hint), status)
BY DEF contribution, Contributes, Believed

LEMMA NotExecutedContributes ==
  ASSUME NEW op, NEW T PROVE Contributes(op, ContributionOf(op, NotExecuted, T), "skipped")
<1>1. NotExecuted.outcome = "not-executed"
  BY DEF NotExecuted, outcomeOf
<1>2. ContributionOf(op, NotExecuted, T) =
        contribution(op, "skipped", FALSE, "cancelled", NoInstant)
  BY <1>1 DEF ContributionOf
<1>3. Known("skipped", FALSE, "cancelled")
  BY DEF Known
<1>. QED BY <1>2, <1>3, KnownContributes

(* An answer no port was asked for, or that was refused before any request.    *)
LEMMA NotAttemptedContributes ==
  ASSUME NEW op, NEW o, NEW T, WellFormed(o), o.outcome = "not-attempted",
         NEW status, status = IF o.reason = "rate-limit-deferred" THEN "deferred" ELSE "skipped"
  PROVE  Contributes(op, ContributionOf(op, o, T), status)
<1>1. o.reason \in NotAttemptedReasons
  BY DEF WellFormed
<1>2. Known(status, FALSE, o.reason)
  BY <1>1 DEF NotAttemptedReasons, Known
<1>3. ContributionOf(op, o, T) = contribution(op, status, FALSE, o.reason, o.hint)
  BY DEF ContributionOf
<1>. QED BY <1>2, <1>3, KnownContributes

(* An answer of a port that was asked.                                         *)
Brings(kind, op, o, c) ==
  \E status : /\ Contributes(op, c, status)
              /\ status = "candidate" => /\ AllSuccessful(o.attempts)
                                         /\ Len(o.attempts) = RequestsOf(kind)

LEMMA AnswerContributes ==
  ASSUME NEW kind, NEW op, NEW o, NEW T, AnswerOK(kind, o), ~Contradicts(T, Claims(op, o))
  PROVE  Brings(kind, op, o, ContributionOf(op, o, T))
<1>1. WellFormed(o) /\ (o.outcome = "candidate" =>
                          o.payload = "fits" /\ Len(o.attempts) = RequestsOf(kind))
  BY DEF AnswerOK
<1>2. o.outcome \in {"candidate", "mapping-failure", "not-attempted", "failed", "interrupted"}
  BY <1>1 DEF WellFormed
<1>3. CASE o.outcome = "not-attempted"
  <2>1. PICK status \in {"deferred", "skipped"} :
          status = IF o.reason = "rate-limit-deferred" THEN "deferred" ELSE "skipped"
    OBVIOUS
  <2>2. Contributes(op, ContributionOf(op, o, T), status)
    BY <1>1, <1>3, <2>1, NotAttemptedContributes
  <2>. QED BY <2>1, <2>2 DEF Brings
<1>4. CASE o.outcome = "interrupted"
  <2>1. o.reason \in InterruptionReasons
    BY <1>1, <1>4 DEF WellFormed
  <2>2. Known("interrupted", TRUE, o.reason)
    BY <2>1 DEF InterruptionReasons, Known
  <2>3. ContributionOf(op, o, T) = contribution(op, "interrupted", TRUE, o.reason, o.hint)
    BY <1>1, <1>4 DEF ContributionOf
  <2>4. Contributes(op, ContributionOf(op, o, T), "interrupted")
    BY <2>2, <2>3, KnownContributes
  <2>. QED BY <2>4 DEF Brings
<1>5. CASE o.outcome = "failed"
  <2>1. o.reason \in DOMAIN AllowedAttemptOutcomes
    BY <1>1, <1>5 DEF WellFormed
  <2>2. Known("failed", TRUE, o.reason)
    BY <2>1, AllowedOutcomes DEF Known, Failing
  <2>3. ContributionOf(op, o, T) = contribution(op, "failed", TRUE, o.reason, o.hint)
    BY <1>1, <1>5 DEF ContributionOf
  <2>4. Contributes(op, ContributionOf(op, o, T), "failed")
    BY <2>2, <2>3, KnownContributes
  <2>. QED BY <2>4 DEF Brings
<1>6. CASE o.outcome = "mapping-failure"
  <2>1. ContributionOf(op, o, T) =
          contribution(op, "failed", TRUE, "mapping-unresolved", NoInstant)
    BY <1>1, <1>6 DEF ContributionOf
  <2>2. Known("failed", TRUE, "mapping-unresolved")
    BY DEF Known, Failing
  <2>3. Contributes(op, ContributionOf(op, o, T), "failed")
    BY <2>1, <2>2, KnownContributes
  <2>. QED BY <2>3 DEF Brings
<1>7. CASE o.outcome = "candidate"
  <2>1. ContributionOf(op, o, T) = contribution(op, "candidate", TRUE, NoReason, NoInstant)
    BY <1>1, <1>7 DEF ContributionOf
  <2>2. AllSuccessful(o.attempts)
    BY <1>1, <1>7 DEF WellFormed
  <2>3. Known("candidate", TRUE, NoReason)
    BY DEF Known, NoReason
  <2>4. Contributes(op, ContributionOf(op, o, T), "candidate")
    BY <2>1, <2>3, KnownContributes
  <2>. QED BY <1>1, <1>7, <2>2, <2>4 DEF Brings
<1>. QED BY <1>2, <1>3, <1>4, <1>5, <1>6, <1>7

(* OpenF1 is refused by policy, without a port to ask.                         *)
LEMMA RefusedContributes ==
  ASSUME NEW op, NEW kind, NEW T
  PROVE  Contributes(op, ContributionOf(op, Refused(kind), T), "skipped")
<1> DEFINE reason == PolicyRefusal("openf1", kind, FALSE, {"jolpica"})
<1>1. reason \in {"resource-unsupported", "source-locked"}
  BY DEF PolicyRefusal, Selectable
<1> HIDE DEF reason
<1>2. /\ Refused(kind).outcome = "not-attempted" /\ Refused(kind).attempts = <<>>
      /\ Refused(kind).reason = reason
  BY DEF Refused, NotAttempted, outcomeOf, reason
<1>3. WellFormed(Refused(kind))
  BY <1>1, <1>2 DEF WellFormed, NotAttemptedReasons
<1>. QED BY <1>1, <1>2, <1>3, NotAttemptedContributes

(* A believed contribution is never a defect of the run.                       *)
LEMMA BelievedIsNoDefect ==
  ASSUME NEW c, Believed(c), c.status # "candidate"
  PROVE  /\ UnselectedOutcome(c).status \in {"deferred", "not-attempted", "failed"}
         /\ UnselectedOutcome(c).status = "failed" => c.status = "failed"
<1>1. \A hint : Deferral(hint).status \in {"deferred", "not-attempted"}
  BY DEF Deferral
<1>2. CASE c.status = "deferred"
  <2>1. UnselectedOutcome(c) = Deferral(c.hint)
    BY <1>2 DEF UnselectedOutcome
  <2>. QED BY <1>1, <2>1
<1>3. CASE c.status = "skipped"
  BY <1>3 DEF UnselectedOutcome
<1>4. CASE c.status = "interrupted"
  <2>1. UnselectedOutcome(c) \in
          {Deferral(c.hint), [status |-> "not-attempted", retryAt |-> NoInstant]}
    BY <1>4 DEF UnselectedOutcome
  <2>. QED BY <1>1, <2>1
<1>5. CASE c.status = "failed"
  <2>1. c.attempted /\ c.reason \in DOMAIN AllowedAttemptOutcomes \cup {"mapping-unresolved"}
    BY <1>5 DEF Believed, Known, Failing
  <2>2. UnselectedOutcome(c) = [status |-> "failed", retryAt |-> NoInstant]
    BY <1>5, <2>1 DEF UnselectedOutcome
  <2>. QED BY <1>5, <2>2
<1>. QED BY <1>2, <1>3, <1>4, <1>5 DEF Believed, Known

-----------------------------------------------------------------------------
(* What a run that ended contributes, and the checks it records.               *)

Contributed(r) == Contributions(Operations(r), answersOf(r))

LEMMA NothingContradicts ==
  ASSUME ProviderInv, AccountInv, NEW r \in Runs, runs[r].pc = "ended",
         NEW n \in DOMAIN Operations(r)
  PROVE  ~Contradicts(Registered(Operations(r), answersOf(r))[n - 1],
                      Claims(Operations(r)[n], answersOf(r)[n]))
<1> DEFINE ops == Operations(r)
           ans == answersOf(r)
<1>1. DOMAIN ops = 1 .. Len(ops) /\ Len(ops) \in Nat
  BY OperationFacts, PlanFacts
<1>2. n - 1 \in 0 .. Len(ops) /\ \A m \in 1 .. n - 1 : m \in 1 .. Len(ops)
  BY <1>1
<1>3. Registered(ops, ans)[n - 1] = ClaimsUpTo(ops, ans, n - 1)
  BY <1>2, EndedRegisters
<1>4. \A m \in 1 .. n - 1 : ~Contradicts(Claims(ops[m], ans[m]), Claims(ops[n], ans[n]))
  BY <1>1, <1>2, EndedIsHarmonious DEF Harmonious
<1> HIDE DEF ops, ans
<1>5. ~Contradicts(ClaimsUpTo(ops, ans, n - 1), Claims(ops[n], ans[n]))
  BY <1>4 DEF Contradicts, ClaimsUpTo
<1>. QED BY <1>3, <1>5 DEF ops, ans

LEMMA EndedContributions ==
  ASSUME ProviderInv, AccountInv, NEW r \in Runs, runs[r].pc = "ended",
         NEW k \in 1 .. Len(Plan[r])
  PROVE  /\ Contributed(r)[other(k)].source = "openf1"
         /\ Contributed(r)[other(k)].kind = Plan[r][k]
         /\ Contributed(r)[other(k)].status = "skipped" /\ Believed(Contributed(r)[other(k)])
         /\ Contributed(r)[own(k)].source = "jolpica"
         /\ Contributed(r)[own(k)].kind = Plan[r][k] /\ Believed(Contributed(r)[own(k)])
         /\ Contributed(r)[own(k)].status \in {"candidate", "failed"} =>
              /\ runs[r].answers[k] # NotExecuted
              /\ k <= inTime[r] \/ Plan[r][k] \in runs[r].late
         /\ Contributed(r)[own(k)].status = "candidate" =>
              /\ AllSuccessful(runs[r].answers[k].attempts)
              /\ Len(runs[r].answers[k].attempts) = RequestsOf(Plan[r][k])
<1> DEFINE ops == Operations(r)
           ans == answersOf(r)
           T(n) == Registered(ops, ans)[n - 1]
           o == runs[r].answers[k]
<1>1. \A n \in DOMAIN ops : Contributed(r)[n] = ContributionOf(ops[n], ans[n], T(n))
  BY DEF Contributed, Contributions
<1>2. own(k) \in DOMAIN ops /\ other(k) \in DOMAIN ops
      /\ ans[own(k)] = o /\ ans[other(k)] = Refused(Plan[r][k])
  BY OperationFacts
<1>3. PICK op : op = ops[own(k)] /\ op.source = "jolpica" /\ op.kind = Plan[r][k]
  <2>1. ops[own(k)] = [source |-> "jolpica", kind |-> Plan[r][k]]
    BY OperationFacts
  <2>2. /\ [source |-> "jolpica", kind |-> Plan[r][k]].source = "jolpica"
        /\ [source |-> "jolpica", kind |-> Plan[r][k]].kind = Plan[r][k]
    OBVIOUS
  <2>. QED BY <2>1, <2>2
<1>4. PICK no : no = ops[other(k)] /\ no.source = "openf1" /\ no.kind = Plan[r][k]
  <2>1. ops[other(k)] = [source |-> "openf1", kind |-> Plan[r][k]]
    BY OperationFacts
  <2>2. /\ [source |-> "openf1", kind |-> Plan[r][k]].source = "openf1"
        /\ [source |-> "openf1", kind |-> Plan[r][k]].kind = Plan[r][k]
    OBVIOUS
  <2>. QED BY <2>1, <2>2
<1>5. ~Contradicts(T(own(k)), Claims(op, o))
  BY <1>2, <1>3, NothingContradicts
<1>6. PICK t, u : t = T(own(k)) /\ u = T(other(k))
  OBVIOUS
<1>7. Contributed(r)[own(k)] = ContributionOf(op, o, t)
      /\ Contributed(r)[other(k)] = ContributionOf(no, Refused(Plan[r][k]), u)
  BY <1>1, <1>2, <1>3, <1>4, <1>6
<1> HIDE DEF ops, ans, T
<1>8. Contributes(no, ContributionOf(no, Refused(Plan[r][k]), u), "skipped")
  BY RefusedContributes
<1>9. \/ o = NotExecuted
      \/ AnswerOK(Plan[r][k], o) /\ (k <= inTime[r] \/ Plan[r][k] \in runs[r].late)
  BY EndedAnswers
<1>10. NotExecuted.outcome = "not-executed"
  BY DEF NotExecuted, outcomeOf
<1>11. CASE o = NotExecuted
  <2>1. Contributes(op, ContributionOf(op, o, t), "skipped")
    BY <1>11, NotExecutedContributes
  <2>. QED BY <1>3, <1>4, <1>7, <1>8, <2>1 DEF Contributes
<1>12. CASE AnswerOK(Plan[r][k], o) /\ (k <= inTime[r] \/ Plan[r][k] \in runs[r].late)
  <2>1. ~Contradicts(t, Claims(op, o))
    BY <1>5, <1>6
  <2>2. Brings(Plan[r][k], op, o, ContributionOf(op, o, t))
    BY <1>12, <2>1, AnswerContributes
  <2>3. o # NotExecuted
    BY <1>10, <1>12 DEF AnswerOK, WellFormed
  <2>. QED BY <1>3, <1>4, <1>7, <1>8, <1>12, <2>2, <2>3 DEF Contributes, Brings
<1>. QED BY <1>9, <1>11, <1>12

LEMMA ContributedDomain ==
  ASSUME ProviderInv, NEW r \in Runs
  PROVE  /\ DOMAIN Contributed(r) = DOMAIN Operations(r)
         /\ \A k \in 1 .. Len(Plan[r]) : {own(k), other(k)} \subseteq DOMAIN Contributed(r)
         /\ \A n \in DOMAIN Contributed(r) :
              \E k \in 1 .. Len(Plan[r]) : n = own(k) \/ n = other(k)
<1>1. DOMAIN Contributed(r) = DOMAIN Operations(r)
  BY DEF Contributed, Contributions
<1>. QED BY <1>1, OperationFacts

LEMMA CheckUnfolds ==
  ASSUME NEW C, NEW kind, NEW late, NEW mine, NEW outcome,
         mine = (CHOOSE n \in DOMAIN C : C[n].source = "jolpica" /\ C[n].kind = kind),
         outcome = IF Selected(C, kind) = "jolpica"
                   THEN [status |-> "observed", retryAt |-> NoInstant]
                   ELSE UnselectedOutcome(C[mine])
  PROVE  CheckOf(C, kind, late) =
           IF outcome.status # "defect" /\ kind \in late
           THEN [status |-> "not-attempted", retryAt |-> NoInstant]
           ELSE outcome
<1> DEFINE known == CHOOSE n \in DOMAIN C : C[n].source = "jolpica" /\ C[n].kind = kind
           made == IF Selected(C, kind) = "jolpica"
                   THEN [status |-> "observed", retryAt |-> NoInstant]
                   ELSE UnselectedOutcome(C[known])
<1>1. CheckOf(C, kind, late) = IF made.status # "defect" /\ kind \in late
                               THEN [status |-> "not-attempted", retryAt |-> NoInstant]
                               ELSE made
  BY DEF CheckOf
<1>2. made = outcome
  OBVIOUS
<1> HIDE DEF made
<1>. QED BY <1>1, <1>2

(* Only a resource's own contribution may be selected for it, and its check is *)
(* read from no other.                                                         *)
LEMMA CheckFacts ==
  ASSUME ProviderInv, AccountInv, NEW r \in Runs, runs[r].pc = "ended",
         NEW k \in 1 .. Len(Plan[r])
  PROVE  LET c == Contributed(r)[own(k)]
             check == CheckOf(Contributed(r), Plan[r][k], runs[r].late)
         IN  /\ check.status # "defect"
             /\ check.status = "observed" =>
                  c.status = "candidate" /\ Plan[r][k] \notin runs[r].late
             /\ check.status = "failed" => c.status = "failed" /\ Plan[r][k] \notin runs[r].late
<1> DEFINE C == Contributed(r)
           kind == Plan[r][k]
           late == runs[r].late
           own_ == own(k)
           is(n) == C[n].source = "jolpica" /\ C[n].kind = kind
           chosen == {m \in DOMAIN C : C[m].kind = kind /\ C[m].status = "candidate"}
           candidates == {C[n].source : n \in chosen}
<1>1. \A n \in DOMAIN C : is(n) => n = own_
  <2> SUFFICES ASSUME NEW n \in DOMAIN C, is(n) PROVE n = own_
    OBVIOUS
  <2>1. PICK j \in 1 .. Len(Plan[r]) : n = own(j) \/ n = other(j)
    BY ContributedDomain
  <2>2. n = own(j) /\ Plan[r][j] = kind
    BY <2>1, EndedContributions
  <2>. QED BY <2>2, PlanFacts
<1>2. own_ \in DOMAIN C /\ is(own_)
  BY ContributedDomain, EndedContributions
<1>3. (CHOOSE n \in DOMAIN C : is(n)) = own_
  BY <1>1, <1>2
<1>4. chosen = IF C[own_].status = "candidate" THEN {own_} ELSE {}
  <2>1. ASSUME NEW m \in chosen PROVE m = own_
    <3>1. PICK j \in 1 .. Len(Plan[r]) : m = own(j) \/ m = other(j)
      BY ContributedDomain
    <3>2. m = own(j) /\ Plan[r][j] = kind
      BY <2>1, <3>1, EndedContributions
    <3>. QED BY <3>2, PlanFacts
  <2>. QED BY <1>2, <2>1
<1>5. Believed(C[own_])
  BY EndedContributions
<1>6. Selected(C, kind) = IF C[own_].status = "candidate" THEN "jolpica" ELSE "unavailable"
  <2>1. Selected(C, kind) =
          IF candidates = {} THEN "unavailable"
          ELSE CHOOSE s \in candidates :
                 \A t \in candidates : Precedence(RoleOf(s)) <= Precedence(RoleOf(t))
    BY DEF Selected
  <2>2. candidates = IF C[own_].status = "candidate" THEN {"jolpica"} ELSE {}
    <3>1. C[own_].source = "jolpica"
      BY <1>2
    <3> HIDE DEF C, own_
    <3>. QED BY <1>4, <3>1
  <2>3. Precedence(RoleOf("jolpica")) <= Precedence(RoleOf("jolpica"))
    BY DEF Precedence, RoleOf
  <2> HIDE DEF candidates, C, own_
  <2>. QED BY <2>1, <2>2, <2>3
<1> DEFINE outcome == IF Selected(C, kind) = "jolpica"
                      THEN [status |-> "observed", retryAt |-> NoInstant]
                      ELSE UnselectedOutcome(C[own_])
<1>7. CheckOf(C, kind, late) = IF outcome.status # "defect" /\ kind \in late
                               THEN [status |-> "not-attempted", retryAt |-> NoInstant]
                               ELSE outcome
  <2> HIDE DEF C, outcome, own_, kind, late
  <2>1. own_ = (CHOOSE n \in DOMAIN C : C[n].source = "jolpica" /\ C[n].kind = kind)
    BY <1>3
  <2>2. outcome = IF Selected(C, kind) = "jolpica"
                  THEN [status |-> "observed", retryAt |-> NoInstant]
                  ELSE UnselectedOutcome(C[own_])
    BY DEF outcome
  <2>. QED BY <2>1, <2>2, CheckUnfolds, SMTT(60)
<1>8. /\ outcome.status \in {"observed", "deferred", "not-attempted", "failed"}
      /\ outcome.status = "observed" => C[own_].status = "candidate"
      /\ outcome.status = "failed" => C[own_].status = "failed"
  <2>1. CASE C[own_].status = "candidate"
    <3>1. outcome = [status |-> "observed", retryAt |-> NoInstant]
      BY <1>6, <2>1
    <3> HIDE DEF outcome
    <3>. QED BY <2>1, <3>1
  <2>2. CASE C[own_].status # "candidate"
    <3>1. outcome = UnselectedOutcome(C[own_])
      BY <1>6, <2>2
    <3> HIDE DEF outcome, C, own_
    <3>. QED BY <1>5, <2>2, <3>1, BelievedIsNoDefect
  <2>. QED BY <2>1, <2>2
<1> HIDE DEF outcome
<1>9. CASE kind \in late
  <2>1. CheckOf(C, kind, late) = [status |-> "not-attempted", retryAt |-> NoInstant]
    BY <1>7, <1>8, <1>9
  <2>. QED BY <2>1
<1>10. CASE kind \notin late
  BY <1>7, <1>8, <1>10
<1>. QED BY <1>9, <1>10

(* Whatever its requests met, a run's answers are ones the coordinator         *)
(* accepts, none contradicts another and no check of it is a defect; a check   *)
(* is recorded as made only for a resource answered before the run's signal    *)
(* aborted, and as observed only when all of its requests were answered        *)
(* (port.ts:700, composition.ts:240, late-answers.ts:28).                      *)
THEOREM ChecksSound == Spec => []ChecksAreSound
<1>1. ProviderInv /\ AccountInv => PortsAnswerWellFormed
  <2> SUFFICES ASSUME ProviderInv, AccountInv, NEW r \in Runs, runs[r].pc = "ended"
               PROVE  /\ \A n \in DOMAIN Plan[r] : WellFormed(runs[r].answers[n])
                                                   \/ runs[r].answers[n] = NotExecuted
                      /\ RunStatus(Contributed(r), runs[r].aborted) # "invariant-violated"
                      /\ \A n \in DOMAIN Plan[r] :
                           CheckOf(Contributed(r), Plan[r][n], runs[r].late).status # "defect"
    BY DEF PortsAnswerWellFormed, Contributed, at
  <2>1. \A n \in DOMAIN Plan[r] : WellFormed(runs[r].answers[n])
                                  \/ runs[r].answers[n] = NotExecuted
    BY EndedAnswers, PlanFacts DEF AnswerOK
  <2>2. \A n \in DOMAIN Contributed(r) : Contributed(r)[n].reason # "coordination-invariant"
    <3> SUFFICES ASSUME NEW n \in DOMAIN Contributed(r)
                 PROVE  Believed(Contributed(r)[n])
      BY DEF Believed, Known
    <3>. QED BY ContributedDomain, EndedContributions
  <2>3. RunStatus(Contributed(r), runs[r].aborted) # "invariant-violated"
    BY <2>2 DEF RunStatus
  <2>4. \A n \in DOMAIN Plan[r] :
          CheckOf(Contributed(r), Plan[r][n], runs[r].late).status # "defect"
    BY PlanFacts, CheckFacts
  <2>. QED BY <2>1, <2>3, <2>4
<1>2. ProviderInv /\ AccountInv => ChecksAreOfTheRun
  <2> SUFFICES ASSUME ProviderInv, AccountInv, NEW r \in Runs, runs[r].pc = "ended",
                      NEW n \in 1 .. Len(Plan[r])
               PROVE  LET check == CheckOf(Contributed(r), Plan[r][n], runs[r].late)
                      IN  /\ check.status \in {"observed", "failed"} =>
                               n <= inTime[r] /\ runs[r].answers[n] # NotExecuted
                          /\ check.status = "observed" =>
                               /\ Len(runs[r].answers[n].attempts) = RequestsOf(Plan[r][n])
                               /\ AllSuccessful(runs[r].answers[n].attempts)
    BY PlanFacts DEF ChecksAreOfTheRun, Contributed, at
  <2>. QED BY CheckFacts, EndedContributions
<1>. QED BY <1>1, <1>2, ProviderSafe, AccountKept, PTL DEF ChecksAreSound
=============================================================================
