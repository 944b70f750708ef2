------------------------- MODULE SeasonCutoverProofs -------------------------
(***************************************************************************)
(* PublisherInv is inductive: one lemma per call of the legacy publisher   *)
(* and per step of the sequenced service's maintenance.  Each shows, with  *)
(* the invariant, what the step leaves of the releases readers and         *)
(* rollbacks rely on (ReleasesKept).                                       *)
(*                                                                         *)
(* CutoverInv is inductive, for every set of operators, checkpoints and    *)
(* releases.  Each step of the cutover is a step of the sequencer or leaves *)
(* it alone (SequencerSteps), so the sequencer's theorems hold of the      *)
(* cutover too; each keeps what the publishers made (PublisherSteps); and  *)
(* each moves a request only to where its own facts hold (RequestSteps).   *)
(***************************************************************************)
EXTENDS SeasonCutover, SeasonSequencerProofs

-----------------------------------------------------------------------------
(* The legacy publisher and the maintenance. *)

(* A step never takes a settled release away, never leaves the season without
   an active one, never makes the other season current again, and lets a
   rollback return only to a whole release that is not being served. *)
ReadersKept ==
  /\ \A v \in Versions : isSettled(v) => isSettled(v)'
  /\ kv.active # NoVersion => kv'.active # NoVersion
  /\ kv'.current \in {kv.current, "this"}
  /\ kv'.previous # kv.previous =>
       kv'.previous # kv'.active /\ isWhole(kv'.previous)

(* Nor does it rewrite what a settled release is made of. *)
InventoriesKept ==
  \A v \in Versions : isSettled(v) => kv'.inventory[v] = kv.inventory[v]

ReleasesKept == ReadersKept /\ InventoriesKept

LEMMA KvFacts ==
  ASSUME kv \in KvStates
  PROVE  /\ kv.stored \in [Versions -> SUBSET Docs]
         /\ kv.inventory \in [Versions -> SUBSET Docs]
         /\ kv.active \in LegacyVersions \union {NoVersion}
         /\ kv.previous \in LegacyVersions \union {NoVersion}
         /\ kv.current \in CurrentSeasons
BY DEF KvStates

LEMMA CommandFacts ==
  ASSUME command \in Commands
  PROVE  /\ command.version \in LegacyVersions \union {NoVersion}
         /\ command.replaced \in LegacyVersions \union {NoVersion}
         /\ command.kind \in {"publish", "rollback", "purge"}
         /\ command.outgoing \in {"none", "other"}
         /\ command.nameable \in BOOLEAN
         /\ command.invalidated \in SUBSET Docs
         /\ command.unwritten \in SUBSET Docs
         /\ command.served \in SUBSET Routes
BY DEF Commands

(* A release keeps what it is made of, and no command that has not committed
   comes to hold it. *)
LEMMA SettledFrame ==
  ASSUME NEW v \in Versions, isSettled(v),
         kv'.inventory[v] = kv.inventory[v],
         kv.stored[v] \subseteq kv'.stored[v],
         isUncommitted(v)' =>
           \/ isUncommitted(v) /\ kv'.active = kv.active
           \/ kv'.active = v
  PROVE  isSettled(v)'
<1>1. isWhole(v)'
  BY DEF isSettled, isWhole, namesOf
<1>. QED BY <1>1 DEF isSettled

(* A step that moves no pointer. *)
LEMMA PointersFrame ==
  ASSUME PublisherInv, kv'.active = kv.active, kv'.previous = kv.previous,
         kv'.current \in {kv.current, "this"},
         \A v \in Versions : isSettled(v) =>
           isSettled(v)' /\ kv'.inventory[v] = kv.inventory[v]
  PROVE  ReleasesKept /\ PointersSettled'
<1>1. kv.active \in Versions \union {NoVersion} /\ kv.previous \in Versions \union {NoVersion}
  BY KvFacts DEF PublisherInv, PublisherTypeOK, Versions
<1>. QED BY <1>1 DEF ReleasesKept, ReadersKept, InventoriesKept, PointersSettled, PublisherInv

(* A command that goes on with what it was given. *)
LEMMA ServedFrame ==
  ASSUME PublisherInv, kv'.current \in {kv.current, "this"},
         command.pc \notin {"idle", "delete"},
         command'.served = command.served, command'.nameable = command.nameable,
         command'.invalidated = command.invalidated,
         command'.outgoing = command.outgoing
  PROVE  ServedAreOwed'
BY DEF PublisherInv, ServedAreOwed, servedRoutes, invalidationUrls

LEMMA QuietFacts ==
  /\ Quiet \in Commands /\ Quiet.pc = "idle" /\ Quiet.kind = "publish"
  /\ Quiet.replaced = NoVersion
  /\ NoAnswer \in Answers /\ NoAnswer.status = "none"
  /\ NoAnswer.purge = "not-required"
BY DEF Quiet, Commands, NoAnswer, Answers

LEMMA AbandonedFacts ==
  ASSUME command \in Commands
  PROVE  /\ abandoned \in Commands
         /\ abandoned.pc = "delete" /\ abandoned.kind = "publish"
         /\ abandoned.version = command.version
         /\ abandoned.replaced = NoVersion
BY DEF abandoned, Quiet, Commands

(* The command ends: what it held is no longer held. *)
LEMMA RestInv ==
  ASSUME PublisherInv, command' = Quiet, kv' \in KvStates, InventoriesGenerated',
         \A v \in Versions : isSettled(v) =>
           kv'.inventory[v] = kv.inventory[v] /\ kv.stored[v] \subseteq kv'.stored[v],
         \A v \in Versions : kv'.active = v => v = kv.active \/ isSettled(v),
         kv.active # NoVersion => kv'.active # NoVersion,
         kv'.previous = kv.previous, kv'.current \in {kv.current, "this"},
         answer' \in Answers, AppliedIsActive', ReplacedIsPurged'
  PROVE  PublisherInv' /\ ReleasesKept
<1>1. \A v \in Versions : isSettled(v) =>
        isSettled(v)' /\ kv'.inventory[v] = kv.inventory[v]
  BY SettledFrame, QuietFacts DEF isUncommitted
<1>2. /\ kv.active \in Versions \union {NoVersion}
      /\ kv'.active \in Versions \union {NoVersion}
      /\ kv.previous \in Versions \union {NoVersion}
  BY KvFacts DEF PublisherInv, PublisherTypeOK, KvStates, Versions
<1>3. PointersSettled' /\ ReleasesKept
  BY <1>1, <1>2 DEF PointersSettled, ReleasesKept, ReadersKept, InventoriesKept, PublisherInv
<1>4. PublisherTypeOK'
  BY QuietFacts DEF PublisherTypeOK
<1>5. CommandCoherent' /\ ServedAreOwed' /\ AnswerForgotten'
  BY QuietFacts DEF CommandCoherent, ServedAreOwed, AnswerForgotten
<1>. QED BY <1>3, <1>4, <1>5 DEF PublisherInv

(* The command ends and Workers KV is as it was. *)
LEMMA EndInv ==
  ASSUME PublisherInv, command' = Quiet, kv' = kv,
         answer' \in Answers, AppliedIsActive', ReplacedIsPurged'
  PROVE  PublisherInv' /\ ReleasesKept
<1>1. kv' \in KvStates /\ InventoriesGenerated'
  BY DEF PublisherInv, PublisherTypeOK, InventoriesGenerated, namesOf
<1>. QED BY <1>1, RestInv

(* The publication is given up, whether or not its last write landed. *)
LEMMA AbandonInv ==
  ASSUME PublisherInv, command' = abandoned, answer' = answer,
         command.kind = "publish",
         command.pc \in {"document", "inventory", "assess", "current", "active"},
         kv' \in KvStates,
         kv'.active \in {kv.active, command.version}, kv'.previous = kv.previous,
         \A v \in Versions : kv'.active = v /\ v # kv.active => isSettled(v)',
         kv'.current \in {kv.current, "this"},
         InventoriesGenerated',
         \A v \in Versions : v # command.version =>
           kv'.inventory[v] = kv.inventory[v] /\ kv'.stored[v] = kv.stored[v]
  PROVE  PublisherInv' /\ ReleasesKept
<1>1. /\ command \in Commands /\ kv \in KvStates /\ answer \in Answers
      /\ command.version \in LegacyVersions /\ command.version # kv.active
      /\ isUncommitted(command.version)
      /\ answer.status # "applied"
  BY DEF PublisherInv, PublisherTypeOK, CommandCoherent, isUncommitted, AnswerForgotten
<1>2. /\ command' \in Commands /\ command'.pc = "delete"
      /\ command'.kind = "publish" /\ command'.version = command.version
      /\ command'.replaced = NoVersion
  BY <1>1, AbandonedFacts
<1>3. ASSUME NEW v \in Versions, isSettled(v)
      PROVE  isSettled(v)' /\ kv'.inventory[v] = kv.inventory[v]
  <2>1. v # command.version
    BY <1>1, <1>3 DEF isSettled
  <2>2. ~isUncommitted(v)'
    BY <1>2, <2>1 DEF isUncommitted
  <2>. QED BY <1>3, <2>1, <2>2, SettledFrame
<1>4. /\ kv.active \in Versions \union {NoVersion}
      /\ kv.previous \in Versions \union {NoVersion}
      /\ command.version \in Versions /\ command.version # NoVersion
  BY <1>1, KvFacts, VersionFacts DEF Versions
<1>5. ReleasesKept
  BY <1>3, <1>4 DEF ReleasesKept, ReadersKept, InventoriesKept
<1>6. PointersSettled'
  BY <1>3, <1>4 DEF PointersSettled, PublisherInv
<1>7. PublisherTypeOK' /\ CommandCoherent' /\ ServedAreOwed' /\ AnswerForgotten'
  BY <1>1, <1>2 DEF PublisherTypeOK, CommandCoherent, ServedAreOwed, AnswerForgotten
<1>8. AppliedIsActive' /\ ReplacedIsPurged'
  BY <1>1 DEF AppliedIsActive, ReplacedIsPurged, PublisherInv
<1>. QED BY <1>5, <1>6, <1>7, <1>8 DEF PublisherInv

(* The publication goes on, whatever of its own version it has written. *)
LEMMA AdvanceInv ==
  ASSUME PublisherInv, answer' = answer, kv' \in KvStates, command' \in Commands,
         command.pc \in {"document", "inventory", "assess", "current"},
         command'.pc \in {"document", "inventory", "assess", "current", "active"},
         command'.kind = command.kind, command'.version = command.version,
         command'.replaced = command.replaced, command'.served = command.served,
         command'.nameable = command.nameable,
         command'.invalidated = command.invalidated,
         command'.outgoing = command.outgoing,
         command'.pc = "document" => command'.unwritten # {},
         command'.pc \in {"current", "active"} => isWhole(command.version)',
         kv'.active = kv.active, kv'.previous = kv.previous,
         kv'.current \in {kv.current, "this"},
         InventoriesGenerated',
         \A v \in Versions : v # command.version =>
           kv'.inventory[v] = kv.inventory[v] /\ kv'.stored[v] = kv.stored[v]
  PROVE  PublisherInv' /\ ReleasesKept
<1>1. /\ command \in Commands /\ answer \in Answers
      /\ command.kind = "publish" /\ command.version # kv.active
      /\ isUncommitted(command.version) /\ answer.status # "applied"
      /\ command.version \in LegacyVersions /\ command.replaced = kv.active
      /\ command.replaced # NoVersion => isSettled(command.replaced)
      /\ command.replaced \in Versions \union {NoVersion}
  BY CommandFacts
     DEF PublisherInv, PublisherTypeOK, CommandCoherent, isUncommitted,
         AnswerForgotten, Versions
<1>2. ASSUME NEW v \in Versions, isSettled(v)
      PROVE  isSettled(v)' /\ kv'.inventory[v] = kv.inventory[v]
  <2>1. v # command.version
    BY <1>1, <1>2 DEF isSettled
  <2>2. ~isUncommitted(v)'
    BY <2>1 DEF isUncommitted
  <2>. QED BY <1>2, <2>1, <2>2, SettledFrame
<1>3. ReleasesKept /\ PointersSettled'
  BY <1>2, PointersFrame
<1>4. PublisherTypeOK'
  BY <1>1 DEF PublisherTypeOK
<1>5. CommandCoherent'
  BY <1>1, <1>2 DEF CommandCoherent
<1>6. ServedAreOwed'
  BY ServedFrame
<1>7. AnswerForgotten' /\ AppliedIsActive' /\ ReplacedIsPurged'
  BY <1>1 DEF AnswerForgotten, AppliedIsActive, ReplacedIsPurged, PublisherInv
<1>. QED BY <1>3, <1>4, <1>5, <1>6, <1>7 DEF PublisherInv

-----------------------------------------------------------------------------
(* The calls of a publication *)

LEMMA WriteDocumentInv ==
  ASSUME PublisherInv, WriteDocument
  PROVE  PublisherInv' /\ ReleasesKept
<1> DEFINE w == command.version
           d == CHOOSE d \in command.unwritten : TRUE
           written == [kv EXCEPT !.stored[w] = @ \union {d}]
           next == [command EXCEPT !.unwritten = @ \ {d},
                      !.pc = IF command.unwritten = {d} THEN "inventory" ELSE @]
<1>1. /\ kv \in KvStates /\ command \in Commands
      /\ command.pc = "document" /\ command.kind = "publish"
      /\ w \in Versions
      /\ answer' = answer
      /\ \/ kv' = written /\ command' = next
         \/ kv' \in {kv, written} /\ command' = abandoned
  BY DEF WriteDocument, Write, PublisherInv, PublisherTypeOK, CommandCoherent, Versions
<1>2. d \in Docs /\ d \in command.unwritten
  BY <1>1, CommandFacts DEF PublisherInv, CommandCoherent
<1>3. /\ written \in KvStates
      /\ written.inventory = kv.inventory
      /\ written.active = kv.active /\ written.previous = kv.previous
      /\ written.current = kv.current
      /\ \A v \in Versions : v # w => written.stored[v] = kv.stored[v]
  BY <1>1, <1>2, KvFacts, ZenonT(60) DEF KvStates
<1>4. /\ next \in Commands /\ next.pc \in {"document", "inventory"}
      /\ next.kind = command.kind /\ next.version = w
      /\ next.replaced = command.replaced
      /\ next.served = command.served /\ next.nameable = command.nameable
      /\ next.invalidated = command.invalidated
      /\ next.outgoing = command.outgoing
      /\ next.pc = "document" => next.unwritten # {}
  <2> HIDE DEF d
  <2>1. command.unwritten \ {d} \in SUBSET Docs
    BY <1>1, CommandFacts
  <2>2. command.unwritten # {d} => command.unwritten \ {d} # {}
    BY <1>2
  <2>. QED BY <1>1, <2>1, <2>2 DEF Commands
<1> HIDE DEF next, written, d
<1>5. kv' \in {kv, written} => InventoriesGenerated'
  BY <1>3 DEF PublisherInv, InventoriesGenerated, namesOf
<1>6. CASE command' = abandoned
  BY <1>1, <1>3, <1>5, <1>6, AbandonInv
<1>7. CASE kv' = written /\ command' = next
  BY <1>1, <1>3, <1>4, <1>5, <1>7, AdvanceInv
<1>. QED BY <1>1, <1>6, <1>7

LEMMA WriteInventoryInv ==
  ASSUME PublisherInv, WriteInventory
  PROVE  PublisherInv' /\ ReleasesKept
<1> DEFINE w == command.version
           written == [kv EXCEPT !.inventory[w] = namesOf(w)]
           next == [command EXCEPT !.pc = "assess"]
<1>1. /\ kv \in KvStates /\ command \in Commands
      /\ command.pc = "inventory" /\ command.kind = "publish"
      /\ w \in Versions /\ w \in LegacyVersions
      /\ answer' = answer
      /\ \/ kv' = written /\ command' = next
         \/ kv' \in {kv, written} /\ command' = abandoned
  BY DEF WriteInventory, Write, PublisherInv, PublisherTypeOK, CommandCoherent, Versions
<1>2. namesOf(w) \in SUBSET Docs
  BY DEF namesOf
<1>3. /\ written \in KvStates
      /\ written.inventory = [kv.inventory EXCEPT ![w] = namesOf(w)]
      /\ written.stored = kv.stored
      /\ written.active = kv.active /\ written.previous = kv.previous
      /\ written.current = kv.current
      /\ \A v \in Versions : v # w => written.inventory[v] = kv.inventory[v]
      /\ written.inventory[w] = namesOf(w)
  BY <1>1, <1>2, KvFacts DEF KvStates
<1>4. /\ next \in Commands /\ next.pc = "assess"
      /\ next.kind = command.kind /\ next.version = w
      /\ next.replaced = command.replaced
      /\ next.served = command.served /\ next.nameable = command.nameable
      /\ next.invalidated = command.invalidated
      /\ next.outgoing = command.outgoing
  BY <1>1 DEF Commands
<1> HIDE DEF next, written
<1>5. kv' \in {kv, written} => InventoriesGenerated'
  <2>1. \A v \in LegacyVersions : written.inventory[v] \in {{}, namesOf(v)}
    BY <1>1, <1>3 DEF PublisherInv, InventoriesGenerated, Versions
  <2>. QED BY <2>1 DEF PublisherInv, InventoriesGenerated, namesOf
<1>6. CASE command' = abandoned
  BY <1>1, <1>3, <1>5, <1>6, AbandonInv
<1>7. CASE kv' = written /\ command' = next
  BY <1>1, <1>3, <1>4, <1>5, <1>7, AdvanceInv
<1>. QED BY <1>1, <1>6, <1>7

(* What is found complete is whole: its inventory is the generator's. *)
LEMMA AssessedWhole ==
  ASSUME PublisherInv, NEW v \in LegacyVersions, assessedComplete(v)
  PROVE  isWhole(v)
BY DEF PublisherInv, InventoriesGenerated, assessedComplete, isWhole

LEMMA AssessInv ==
  ASSUME PublisherInv, Assess
  PROVE  PublisherInv' /\ ReleasesKept
<1> DEFINE next == [command EXCEPT !.pc = "current"]
<1>1. /\ kv \in KvStates /\ command \in Commands
      /\ command.pc = "assess" /\ command.kind = "publish"
      /\ command.version \in LegacyVersions
      /\ answer' = answer /\ kv' = kv
      /\ \/ assessedComplete(command.version) /\ command' = next
         \/ command' = abandoned
  BY DEF Assess, PublisherInv, PublisherTypeOK, CommandCoherent
<1>2. /\ next \in Commands /\ next.pc = "current"
      /\ next.kind = command.kind /\ next.version = command.version
      /\ next.replaced = command.replaced
      /\ next.served = command.served /\ next.nameable = command.nameable
      /\ next.invalidated = command.invalidated
      /\ next.outgoing = command.outgoing
  BY <1>1 DEF Commands
<1> HIDE DEF next
<1>3. InventoriesGenerated'
  BY <1>1 DEF PublisherInv, InventoriesGenerated, namesOf
<1>4. CASE command' = abandoned
  BY <1>1, <1>3, <1>4, AbandonInv
<1>5. CASE assessedComplete(command.version) /\ command' = next
  <2>1. isWhole(command.version)
    BY <1>1, <1>5, AssessedWhole
  <2>2. isWhole(command.version)'
    BY <1>1, <1>2, <1>5, <2>1 DEF isWhole, namesOf
  <2>. QED BY <1>1, <1>2, <1>3, <1>5, <2>2, AdvanceInv
<1>. QED BY <1>1, <1>4, <1>5

LEMMA SetCurrentSeasonInv ==
  ASSUME PublisherInv, SetCurrentSeason
  PROVE  PublisherInv' /\ ReleasesKept
<1> DEFINE written == [kv EXCEPT !.current = "this"]
           next == [command EXCEPT !.pc = "active"]
<1>1. /\ kv \in KvStates /\ command \in Commands
      /\ command.pc = "current" /\ command.kind = "publish"
      /\ isWhole(command.version)
      /\ answer' = answer
      /\ \/ kv' = written /\ command' = next
         \/ kv' \in {kv, written} /\ command' = abandoned
  BY DEF SetCurrentSeason, Write, PublisherInv, PublisherTypeOK, CommandCoherent
<1>2. /\ written \in KvStates
      /\ written.inventory = kv.inventory /\ written.stored = kv.stored
      /\ written.active = kv.active /\ written.previous = kv.previous
      /\ written.current = "this"
  BY <1>1, KvFacts DEF KvStates, CurrentSeasons
<1>3. /\ next \in Commands /\ next.pc = "active"
      /\ next.kind = command.kind /\ next.version = command.version
      /\ next.replaced = command.replaced
      /\ next.served = command.served /\ next.nameable = command.nameable
      /\ next.invalidated = command.invalidated
      /\ next.outgoing = command.outgoing
  BY <1>1 DEF Commands
<1> HIDE DEF next, written
<1>4. kv' \in {kv, written} => InventoriesGenerated'
  BY <1>2 DEF PublisherInv, InventoriesGenerated, namesOf
<1>5. CASE command' = abandoned
  BY <1>1, <1>2, <1>4, <1>5, AbandonInv
<1>6. CASE kv' = written /\ command' = next
  <2>1. isWhole(command.version)'
    BY <1>1, <1>2, <1>3, <1>6 DEF isWhole, namesOf
  <2>. QED BY <1>1, <1>2, <1>3, <1>4, <1>6, <2>1, AdvanceInv
<1>. QED BY <1>1, <1>5, <1>6

LEMMA SetActiveInv ==
  ASSUME PublisherInv, SetActive
  PROVE  PublisherInv' /\ ReleasesKept
<1> DEFINE w == command.version
           written == [kv EXCEPT !.active = w]
           next == [command EXCEPT !.pc = "maintain"]
<1>1. /\ kv \in KvStates /\ command \in Commands /\ answer \in Answers
      /\ command.pc = "active" /\ command.kind \in {"publish", "rollback"}
      /\ w \in LegacyVersions /\ w \in Versions /\ isWhole(w)
      /\ command.replaced = kv.active /\ w # kv.active
      /\ command.replaced # NoVersion => isSettled(command.replaced)
      /\ command.replaced \in Versions \union {NoVersion}
      /\ answer.status # "applied"
  BY CommandFacts
     DEF SetActive, PublisherInv, PublisherTypeOK, CommandCoherent, Versions,
         AnswerForgotten
<1>2. /\ written \in KvStates
      /\ written.inventory = kv.inventory /\ written.stored = kv.stored
      /\ written.active = w /\ written.previous = kv.previous
      /\ written.current = kv.current
  BY <1>1, KvFacts DEF KvStates
<1>3. /\ next \in Commands /\ next.pc = "maintain"
      /\ next.kind = command.kind /\ next.version = w
      /\ next.replaced = command.replaced
      /\ next.served = command.served /\ next.nameable = command.nameable
      /\ next.invalidated = command.invalidated
      /\ next.outgoing = command.outgoing
  BY <1>1 DEF Commands
<1>4. \/ kv' = written /\ command' = next /\ answer' = answer
      \/ /\ command.kind = "publish"
         /\ kv' \in {kv, written} /\ command' = abandoned /\ answer' = answer
      \/ /\ command.kind = "rollback"
         /\ kv' \in {kv, written} /\ command' = Quiet /\ answer' = NoAnswer
  BY DEF SetActive, Write, Refuse
<1> HIDE DEF next, written
<1>5. kv' \in {kv, written} =>
        /\ InventoriesGenerated' /\ kv' \in KvStates
        /\ kv'.inventory = kv.inventory /\ kv'.stored = kv.stored
        /\ kv'.active \in {kv.active, w} /\ kv'.previous = kv.previous
        /\ kv'.current = kv.current
  BY <1>1, <1>2 DEF PublisherInv, InventoriesGenerated, namesOf
<1>6. CASE kv' = written /\ command' = next /\ answer' = answer
  <2>1. ASSUME NEW v \in Versions, isSettled(v) \/ v = w
        PROVE  isSettled(v)' /\ kv'.inventory[v] = kv.inventory[v]
    <3>1. isWhole(v)'
      BY <1>1, <1>2, <1>6, <2>1 DEF isSettled, isWhole, namesOf
    <3>2. ~isUncommitted(v)'
      BY <1>3, <1>6 DEF isUncommitted
    <3>. QED BY <1>2, <1>6, <3>1, <3>2 DEF isSettled
  <2>2. kv.previous \in Versions \union {NoVersion}
    BY <1>1, KvFacts DEF Versions
  <2>3. PointersSettled' /\ ReleasesKept
    BY <1>1, <1>2, <1>6, <2>1, <2>2, VersionFacts
       DEF PointersSettled, ReleasesKept, ReadersKept, InventoriesKept, PublisherInv
  <2>4. PublisherTypeOK' /\ AnswerForgotten' /\ AppliedIsActive' /\ ReplacedIsPurged'
    BY <1>1, <1>2, <1>3, <1>6
       DEF PublisherTypeOK, AnswerForgotten, AppliedIsActive, ReplacedIsPurged,
           PublisherInv
  <2>5. CommandCoherent'
    BY <1>1, <1>2, <1>3, <1>6, <2>1 DEF CommandCoherent
  <2>6. ServedAreOwed'
    BY <1>1, <1>2, <1>3, <1>6, ServedFrame
  <2>. QED BY <1>5, <1>6, <2>3, <2>4, <2>5, <2>6 DEF PublisherInv
<1>7. CASE /\ command.kind = "publish"
           /\ kv' \in {kv, written} /\ command' = abandoned /\ answer' = answer
  <2>1. ASSUME NEW v \in Versions, kv'.active = v, v # kv.active
        PROVE  isSettled(v)'
    BY <1>1, <1>5, <1>7, <2>1 DEF isSettled, isWhole, namesOf
  <2>. QED BY <1>1, <1>5, <1>7, <2>1, AbandonInv
<1>8. CASE /\ command.kind = "rollback"
           /\ kv' \in {kv, written} /\ command' = Quiet /\ answer' = NoAnswer
  <2>1. isSettled(w)
    BY <1>1, <1>8 DEF isSettled, isUncommitted
  <2>2. AppliedIsActive' /\ ReplacedIsPurged' /\ answer' \in Answers
    BY <1>8, QuietFacts DEF AppliedIsActive, ReplacedIsPurged
  <2>3. kv.active # NoVersion => kv'.active # NoVersion
    BY <1>1, <1>5, <1>8, VersionFacts
  <2>. QED BY <1>5, <1>8, <2>1, <2>2, <2>3, RestInv
<1>. QED BY <1>4, <1>6, <1>7, <1>8

LEMMA DeleteInv ==
  ASSUME PublisherInv, DeleteUnpublishedVersion
  PROVE  PublisherInv' /\ ReleasesKept
<1> DEFINE w == command.version
           written == [kv EXCEPT !.stored[w] = {}, !.inventory[w] = {}]
<1>1. /\ kv \in KvStates /\ w \in Versions
      /\ command.pc = "delete" /\ command.kind = "publish"
      /\ \/ kv.active # w /\ kv' = written
         \/ kv' = kv
      /\ command' = Quiet /\ answer' = NoAnswer
  BY DEF DeleteUnpublishedVersion, Refuse, PublisherInv, PublisherTypeOK,
         CommandCoherent, Versions
<1>2. /\ written \in KvStates
      /\ written.active = kv.active /\ written.previous = kv.previous
      /\ written.current = kv.current
      /\ \A v \in Versions : v # w => /\ written.inventory[v] = kv.inventory[v]
                                      /\ written.stored[v] = kv.stored[v]
      /\ written.inventory[w] = {}
  BY <1>1, KvFacts DEF KvStates
<1> HIDE DEF written
<1>3. AppliedIsActive' /\ ReplacedIsPurged' /\ answer' \in Answers
  BY <1>1, QuietFacts DEF AppliedIsActive, ReplacedIsPurged
<1>4. CASE kv' = kv
  BY <1>1, <1>3, <1>4, EndInv
<1>5. CASE kv.active # w /\ kv' = written
  <2>1. ~isSettled(w)
    BY <1>1, <1>5 DEF isSettled, isUncommitted
  <2>2. \A v \in LegacyVersions : written.inventory[v] \in {{}, namesOf(v)}
    BY <1>2 DEF PublisherInv, InventoriesGenerated, Versions
  <2>3. InventoriesGenerated'
    BY <1>5, <2>2 DEF InventoriesGenerated, namesOf
  <2>. QED BY <1>1, <1>2, <1>3, <1>5, <2>1, <2>3, RestInv
<1>. QED BY <1>1, <1>4, <1>5

LEMMA MaintainInv ==
  ASSUME PublisherInv, MaintainPreviousPointer
  PROVE  PublisherInv' /\ ReleasesKept
<1> DEFINE written == [kv EXCEPT !.previous = command.replaced]
           next == [command EXCEPT !.pc = "purge"]
<1>1. /\ kv \in KvStates /\ command \in Commands /\ answer \in Answers
      /\ command.pc = "maintain" /\ command.version \in LegacyVersions
      /\ command.version = kv.active /\ command.replaced # command.version
      /\ command.replaced # NoVersion => isSettled(command.replaced)
      /\ command.replaced \in LegacyVersions \union {NoVersion}
      /\ answer.status # "applied"
      /\ command' = next /\ answer' = answer
      /\ kv' = kv \/ kv' = written
      /\ kv' # kv => command.replaced # NoVersion
  BY CommandFacts
     DEF MaintainPreviousPointer, PublisherInv, PublisherTypeOK, CommandCoherent,
         AnswerForgotten
<1>2. /\ written \in KvStates
      /\ written.inventory = kv.inventory /\ written.stored = kv.stored
      /\ written.active = kv.active /\ written.previous = command.replaced
      /\ written.current = kv.current
  BY <1>1, KvFacts DEF KvStates
<1>3. /\ next \in Commands /\ next.pc = "purge"
      /\ next.kind = command.kind /\ next.version = command.version
      /\ next.replaced = command.replaced
      /\ next.served = command.served /\ next.nameable = command.nameable
      /\ next.invalidated = command.invalidated
      /\ next.outgoing = command.outgoing
  BY <1>1 DEF Commands
<1> HIDE DEF next, written
<1>4. /\ kv' \in KvStates
      /\ kv'.inventory = kv.inventory /\ kv'.stored = kv.stored
      /\ kv'.active = kv.active /\ kv'.current = kv.current
      /\ \/ kv'.previous = kv.previous
         \/ /\ kv'.previous = command.replaced
            /\ command.replaced # NoVersion
  BY <1>1, <1>2
<1>5. ASSUME NEW v \in Versions, isSettled(v)
      PROVE  isSettled(v)' /\ kv'.inventory[v] = kv.inventory[v]
  <2>1. ~isUncommitted(v)'
    BY <1>1, <1>3 DEF isUncommitted
  <2>. QED BY <1>4, <1>5, <2>1, SettledFrame
<1>6. /\ kv.previous \in Versions \union {NoVersion}
      /\ kv.active \in Versions \union {NoVersion}
      /\ command.replaced \in Versions \union {NoVersion}
  BY <1>1, KvFacts DEF Versions
<1>7. PointersSettled'
  BY <1>1, <1>4, <1>5, <1>6 DEF PointersSettled, PublisherInv
<1>8. ReleasesKept
  <2>1. kv'.previous # kv.previous =>
          kv'.previous # kv'.active /\ isWhole(kv'.previous)
    BY <1>1, <1>4 DEF isSettled
  <2>. QED BY <1>4, <1>5, <2>1 DEF ReleasesKept, ReadersKept, InventoriesKept
<1>9. PublisherTypeOK' /\ InventoriesGenerated' /\ AnswerForgotten'
      /\ AppliedIsActive' /\ ReplacedIsPurged'
  BY <1>1, <1>3, <1>4
     DEF PublisherTypeOK, InventoriesGenerated, namesOf, AnswerForgotten,
         AppliedIsActive, ReplacedIsPurged, PublisherInv
<1>10. CommandCoherent'
  BY <1>1, <1>3, <1>4, <1>5, <1>6 DEF CommandCoherent
<1>11. ServedAreOwed'
  BY <1>1, <1>3, <1>4, ServedFrame
<1>. QED BY <1>7, <1>8, <1>9, <1>10, <1>11 DEF PublisherInv

-----------------------------------------------------------------------------
(* Purges *)

(* What is purged covers the documents it was asked to, and their aliases when
   the season is current. *)
LEMMA PurgeCovers ==
  ASSUME NEW docs, NEW more, docs \subseteq more, NEW current,
         NEW aliased, current = "this" => aliased = TRUE
  PROVE  invalidationUrls(docs, current = "this") \subseteq purgeUrls(more, aliased)
<1>1. /\ seasonRoutes(docs) \subseteq seasonRoutes(more \union DerivedDocs)
      /\ aliasRoutes(docs) \subseteq aliasRoutes(more \union DerivedDocs)
  BY DEF seasonRoutes, aliasRoutes
<1>. QED BY <1>1 DEF purgeUrls, invalidationUrls

(* What answers with a release is what a purge of its documents owes. *)
LEMMA ServedByRoutes ==
  ASSUME NEW v, NEW moves \in BOOLEAN
  PROVE  servedBy(v, moves) \subseteq
           servedRoutes(IF v = NoVersion THEN {} ELSE kv.inventory[v],
                        IF moves THEN outgoingCurrentSeason ELSE "none")
BY DEF servedBy, servedRoutes, invalidationUrls, outgoingCurrentSeason

LEMMA RouteFacts ==
  ASSUME NEW docs \in SUBSET Docs
  PROVE  /\ seasonRoutes(docs) \subseteq Routes
         /\ aliasRoutes(docs) \subseteq Routes
BY DEF seasonRoutes, aliasRoutes, Routes

LEMMA ServedByType ==
  ASSUME kv \in KvStates, NEW v \in Versions \union {NoVersion},
         NEW moves \in BOOLEAN
  PROVE  servedBy(v, moves) \subseteq Routes
<1>1. (IF v = NoVersion THEN {} ELSE kv.inventory[v]) \in SUBSET Docs
  BY KvFacts
<1>2. OtherDocs \in SUBSET Docs
  BY PublisherAssumption DEF PublisherAssumption
<1>. QED BY <1>1, <1>2, RouteFacts DEF servedBy

LEMMA PurgeRoutesInv ==
  ASSUME PublisherInv, PurgeRoutes
  PROVE  PublisherInv' /\ ReleasesKept
<1>1. /\ command \in Commands /\ answer \in Answers
      /\ command.pc = "purge" /\ command.version = kv.active
      /\ command.version \in LegacyVersions
      /\ kv' = kv /\ command' = Quiet
  BY DEF PurgeRoutes, PublisherInv, PublisherTypeOK, CommandCoherent
<1> DEFINE status == IF command.kind = "purge" THEN "purged" ELSE "applied"
           docs == command.invalidated
                     \union (IF command.kind = "publish"
                               THEN namesOf(command.version) ELSE {})
           named(aliased) ==
             purgeUrls(docs, aliased)
               \union (IF command.outgoing = "other"
                         THEN aliasRoutes(OtherDocs) ELSE {})
           failed == [[answer EXCEPT !.version = command.version,
                                     !.status = status] EXCEPT !.purge = "failed"]
           succeeded(aliased) ==
             [[answer EXCEPT !.version = command.version, !.status = status]
                EXCEPT !.purge = "succeeded",
                       !.stale = command.served \ named(aliased)]
<1>2. \/ answer' = failed
      \/ /\ command.nameable
         /\ \E aliased \in {(kv.current \in {"this", "none"}), TRUE} :
              answer' = succeeded(aliased)
  BY DEF PurgeRoutes
<1>3. CASE answer' = failed
  <2>1. /\ answer' \in Answers /\ answer'.purge = "failed"
        /\ answer'.version = kv.active
    BY <1>1, <1>3 DEF Answers, Versions
  <2>2. AppliedIsActive' /\ ReplacedIsPurged'
    BY <1>1, <2>1 DEF AppliedIsActive, ReplacedIsPurged
  <2>. QED BY <1>1, <2>1, <2>2, EndInv
<1>4. ASSUME command.nameable,
             NEW aliased \in {(kv.current \in {"this", "none"}), TRUE},
             answer' = succeeded(aliased)
      PROVE  PublisherInv' /\ ReleasesKept
  <2>1. command.served \subseteq servedRoutes(command.invalidated, command.outgoing)
    BY <1>1, <1>4 DEF PublisherInv, ServedAreOwed
  <2>2. invalidationUrls(command.invalidated, kv.current = "this")
          \subseteq purgeUrls(docs, aliased)
    <3>1. command.invalidated \subseteq docs
      OBVIOUS
    <3>2. kv.current = "this" => aliased = TRUE
      BY <1>4
    <3> HIDE DEF docs
    <3>. QED BY <3>1, <3>2, PurgeCovers
  <2>3. command.served \ named(aliased) = {}
    BY <2>1, <2>2 DEF servedRoutes
  <2> HIDE DEF named
  <2>4. /\ answer' \in Answers /\ answer'.version = kv.active
        /\ answer'.stale = {}
    BY <1>1, <1>4, <2>3 DEF Answers, Versions
  <2>5. AppliedIsActive' /\ ReplacedIsPurged'
    BY <1>1, <2>4 DEF AppliedIsActive, ReplacedIsPurged
  <2>. QED BY <1>1, <2>4, <2>5, EndInv
<1> HIDE DEF succeeded, failed
<1>. QED BY <1>2, <1>3, <1>4

LEMMA StopInv ==
  ASSUME PublisherInv, StopPublisher \/ (Refuse /\ kv' = kv)
  PROVE  PublisherInv' /\ ReleasesKept
<1>1. kv' = kv /\ command' = Quiet /\ answer' = NoAnswer
  BY DEF StopPublisher, Refuse
<1>2. answer' \in Answers /\ AppliedIsActive' /\ ReplacedIsPurged'
  BY <1>1, QuietFacts DEF AppliedIsActive, ReplacedIsPurged
<1>. QED BY <1>1, <1>2, EndInv

-----------------------------------------------------------------------------
(* How a command begins *)

(* A command that takes up a release nothing has settled yet, or one that
   deletes nothing, from the pointers as they are. *)
LEMMA BeginInv ==
  ASSUME PublisherInv, kv' = kv, answer' = NoAnswer, command' \in Commands,
         command'.version \in LegacyVersions, command'.pc # "idle",
         \A v \in Versions : isSettled(v) => ~isUncommitted(v)',
         CommandCoherent', ServedAreOwed'
  PROVE  PublisherInv' /\ ReleasesKept
<1>1. \A v \in Versions : isSettled(v) =>
        isSettled(v)' /\ kv'.inventory[v] = kv.inventory[v]
  BY SettledFrame
<1>2. ReleasesKept /\ PointersSettled'
  BY <1>1, PointersFrame
<1>3. PublisherTypeOK' /\ InventoriesGenerated' /\ AnswerForgotten'
      /\ AppliedIsActive' /\ ReplacedIsPurged'
  BY QuietFacts
     DEF PublisherInv, PublisherTypeOK, InventoriesGenerated, namesOf,
         AnswerForgotten, AppliedIsActive, ReplacedIsPurged
<1>. QED BY <1>2, <1>3 DEF PublisherInv

LEMMA BeginPublishInv ==
  ASSUME PublisherInv, NEW w \in LegacyVersions, BeginPublish(w)
  PROVE  PublisherInv' /\ ReleasesKept
<1>1. CASE Refuse
  BY <1>1, StopInv DEF BeginPublish
<1>2. CASE ~Refuse
  <2>1. PICK nameable \in BOOLEAN :
          command' = [Quiet EXCEPT !.pc = "document", !.version = w,
            !.replaced = kv.active, !.nameable = nameable,
            !.outgoing = IF nameable THEN outgoingCurrentSeason ELSE "none",
            !.invalidated =
              IF nameable /\ kv.active # NoVersion
                THEN kv.inventory[kv.active] ELSE {},
            !.unwritten = namesOf(w), !.served = servedBy(kv.active, TRUE)]
    BY <1>2 DEF BeginPublish
  <2>2. /\ kv' = kv /\ answer' = NoAnswer /\ w # kv.active
        /\ kv.inventory[w] = {}
        /\ kv \in KvStates
        /\ kv.active \in Versions \union {NoVersion}
        /\ kv.active \in LegacyVersions \union {NoVersion}
    BY <1>2, KvFacts DEF BeginPublish, PublisherInv, PublisherTypeOK, Versions
  <2>3. /\ outgoingCurrentSeason \in {"none", "other"}
        /\ namesOf(w) \in SUBSET Docs
        /\ servedBy(kv.active, TRUE) \in SUBSET Routes
        /\ kv.active # NoVersion => kv.inventory[kv.active] \in SUBSET Docs
    BY <2>2, ServedByType, KvFacts DEF outgoingCurrentSeason, namesOf
  <2>4. namesOf(w) # {}
    BY PublisherAssumption DEF PublisherAssumption, namesOf
  <2>5. /\ command' \in Commands /\ command'.pc = "document"
        /\ command'.kind = "publish" /\ command'.version = w
        /\ command'.replaced = kv.active /\ command'.nameable = nameable
        /\ command'.unwritten = namesOf(w)
        /\ command'.served = servedBy(kv.active, TRUE)
        /\ nameable =>
             /\ command'.outgoing = outgoingCurrentSeason
             /\ command'.invalidated =
                  IF kv.active # NoVersion THEN kv.inventory[kv.active] ELSE {}
    BY <2>1, <2>2, <2>3 DEF Commands, Quiet
  <2>6. ASSUME NEW v \in Versions, isSettled(v)
        PROVE  ~isUncommitted(v)' /\ isSettled(v)'
    <3>1. v # w
      BY <2>2, <2>6 DEF isSettled, isWhole
    <3>2. ~isUncommitted(v)'
      BY <2>5, <3>1 DEF isUncommitted
    <3>. QED BY <2>2, <2>6, <3>2, SettledFrame
  <2>7. CommandCoherent'
    BY <2>2, <2>4, <2>5, <2>6
       DEF CommandCoherent, PublisherInv, PointersSettled
  <2>8. ServedAreOwed'
    <3>1. servedBy(kv.active, TRUE) \subseteq
            servedRoutes(IF kv.active = NoVersion THEN {} ELSE kv.inventory[kv.active],
                         outgoingCurrentSeason)
      BY ServedByRoutes
    <3>. QED BY <2>2, <2>5, <3>1
         DEF ServedAreOwed, servedRoutes, outgoingCurrentSeason
  <2>. QED BY <2>2, <2>5, <2>6, <2>7, <2>8, BeginInv
<1>. QED BY <1>1, <1>2

LEMMA BeginRollbackInv ==
  ASSUME PublisherInv, NEW w \in LegacyVersions \union {NoVersion}, BeginRollback(w)
  PROVE  PublisherInv' /\ ReleasesKept
<1>1. CASE Refuse
  BY <1>1, StopInv DEF BeginRollback
<1>2. CASE ~Refuse
  <2> DEFINE docs == kv.inventory[w] \union
               (IF kv.active = NoVersion THEN {} ELSE kv.inventory[kv.active])
  <2>1. command' = [Quiet EXCEPT !.pc = "active", !.kind = "rollback",
             !.version = w, !.replaced = kv.active,
             !.invalidated = docs, !.served = servedBy(kv.active, FALSE)]
    BY <1>2 DEF BeginRollback
  <2>2. /\ kv' = kv /\ answer' = NoAnswer /\ w # kv.active
        /\ w \in LegacyVersions /\ w \in Versions /\ isWhole(w)
        /\ kv \in KvStates
        /\ kv.active \in Versions \union {NoVersion}
        /\ kv.active \in LegacyVersions \union {NoVersion}
    BY <1>2, KvFacts, AssessedWhole
       DEF BeginRollback, PublisherInv, PublisherTypeOK, Versions
  <2>3. docs \in SUBSET Docs /\ servedBy(kv.active, FALSE) \in SUBSET Routes
    BY <2>2, ServedByType, KvFacts
  <2> HIDE DEF docs
  <2>4. /\ command' \in Commands /\ command'.pc = "active"
        /\ command'.kind = "rollback" /\ command'.version = w
        /\ command'.replaced = kv.active /\ command'.outgoing = "none"
        /\ command'.invalidated = docs
        /\ command'.served = servedBy(kv.active, FALSE)
    BY <2>1, <2>2, <2>3 DEF Commands, Quiet
  <2>5. ASSUME NEW v \in Versions, isSettled(v)
        PROVE  ~isUncommitted(v)' /\ isSettled(v)'
    <3>1. ~isUncommitted(v)'
      BY <2>4 DEF isUncommitted
    <3>. QED BY <2>2, <2>5, <3>1, SettledFrame
  <2>6. CommandCoherent'
    BY <2>2, <2>4, <2>5
       DEF CommandCoherent, PublisherInv, PointersSettled, isWhole, namesOf
  <2>7. ServedAreOwed'
    <3>1. servedBy(kv.active, FALSE) \subseteq
            servedRoutes(IF kv.active = NoVersion THEN {} ELSE kv.inventory[kv.active],
                         "none")
      BY ServedByRoutes
    <3>2. servedRoutes(IF kv.active = NoVersion THEN {} ELSE kv.inventory[kv.active],
                       "none") \subseteq servedRoutes(docs, "none")
      BY DEF servedRoutes, invalidationUrls, seasonRoutes, aliasRoutes, docs
    <3>. QED BY <2>2, <2>4, <3>1, <3>2, ZenonT(60) DEF ServedAreOwed, servedRoutes
  <2>. QED BY <2>2, <2>4, <2>5, <2>6, <2>7, BeginInv
<1>. QED BY <1>1, <1>2

LEMMA BeginPurgeInv ==
  ASSUME PublisherInv, BeginPurge
  PROVE  PublisherInv' /\ ReleasesKept
<1>1. CASE Refuse
  BY <1>1, StopInv DEF BeginPurge
<1>2. CASE ~Refuse
  <2>1. command' = [Quiet EXCEPT !.pc = "purge", !.kind = "purge",
             !.version = kv.active, !.invalidated = kv.inventory[kv.active],
             !.served = servedBy(kv.active, FALSE)]
    BY <1>2 DEF BeginPurge
  <2>2. /\ kv' = kv /\ answer' = NoAnswer
        /\ kv.active # NoVersion
        /\ kv \in KvStates
        /\ kv.active \in Versions
        /\ kv.active \in LegacyVersions
    BY <1>2, KvFacts DEF BeginPurge, PublisherInv, PublisherTypeOK, Versions
  <2>3. /\ kv.inventory[kv.active] \in SUBSET Docs
        /\ servedBy(kv.active, FALSE) \in SUBSET Routes
    BY <2>2, ServedByType, KvFacts
  <2>4. /\ command' \in Commands /\ command'.pc = "purge"
        /\ command'.kind = "purge" /\ command'.version = kv.active
        /\ command'.replaced = NoVersion /\ command'.outgoing = "none"
        /\ command'.invalidated = kv.inventory[kv.active]
        /\ command'.served = servedBy(kv.active, FALSE)
    BY <2>1, <2>2, <2>3 DEF Commands, Quiet
  <2>5. \A v \in Versions : ~isUncommitted(v)'
    BY <2>4 DEF isUncommitted
  <2>6. CommandCoherent'
    BY <2>2, <2>4 DEF CommandCoherent
  <2>7. ServedAreOwed'
    <3>1. servedBy(kv.active, FALSE) \subseteq
            servedRoutes(IF kv.active = NoVersion THEN {} ELSE kv.inventory[kv.active],
                         "none")
      BY ServedByRoutes
    <3>. QED BY <2>2, <2>4, <3>1 DEF ServedAreOwed, servedRoutes
  <2>. QED BY <2>2, <2>4, <2>5, <2>6, <2>7, BeginInv
<1>. QED BY <1>1, <1>2

(* Every call of a command in progress. *)
LEMMA RunCommandInv ==
  ASSUME PublisherInv, RunCommand
  PROVE  PublisherInv' /\ ReleasesKept
BY WriteDocumentInv, WriteInventoryInv, AssessInv, SetCurrentSeasonInv,
   SetActiveInv, DeleteInv, MaintainInv, PurgeRoutesInv, StopInv
   DEF RunCommand

-----------------------------------------------------------------------------
(* The sequenced service *)

(* A step of the sequenced service, or one that is neither's: the command in
   progress goes on, and no legacy release is touched. *)
LEMMA ServiceInv ==
  ASSUME PublisherInv, command' = command, kv' \in KvStates,
         kv'.active = kv.active, kv'.previous = kv.previous,
         kv'.current \in {kv.current, "this"},
         \A v \in LegacyVersions : /\ kv'.inventory[v] = kv.inventory[v]
                                   /\ kv'.stored[v] = kv.stored[v],
         \A v \in Versions : isSettled(v) => isWhole(v)',
         answer' \in Answers, answer'.status # "applied", ReplacedIsPurged'
  PROVE  PublisherInv' /\ ReadersKept
<1>1. \A v \in Versions : isUncommitted(v)' = isUncommitted(v)
  BY DEF isUncommitted
<1>2. \A v \in Versions : isSettled(v) => isSettled(v)'
  BY <1>1 DEF isSettled
<1>3. /\ kv.active \in Versions \union {NoVersion}
      /\ kv.previous \in Versions \union {NoVersion}
      /\ command.replaced \in Versions \union {NoVersion}
  BY KvFacts, CommandFacts DEF PublisherInv, PublisherTypeOK, Versions
<1>4. ReadersKept /\ PointersSettled'
  BY <1>2, <1>3 DEF ReadersKept, PointersSettled, PublisherInv
<1>5. PublisherTypeOK' /\ InventoriesGenerated' /\ AnswerForgotten' /\ AppliedIsActive'
  BY DEF PublisherInv, PublisherTypeOK, InventoriesGenerated, namesOf,
         AnswerForgotten, AppliedIsActive
<1>6. CommandCoherent'
  <2>1. \A v \in LegacyVersions : isWhole(v) => isWhole(v)'
    BY DEF isWhole, namesOf
  <2>2. command.pc \in {"current", "active"} => isWhole(command.version)'
    BY DEF PublisherInv, CommandCoherent, isWhole, namesOf
  <2>3. command.replaced # NoVersion => isSettled(command.replaced)'
    BY <1>2, <1>3 DEF PublisherInv, CommandCoherent
  <2>. QED BY <2>2, <2>3 DEF PublisherInv, CommandCoherent
<1>7. ServedAreOwed'
  <2>1. CASE command.pc \in {"idle", "delete"}
    BY <2>1 DEF ServedAreOwed
  <2>2. CASE command.pc \notin {"idle", "delete"}
    BY <2>2, ServedFrame
  <2>. QED BY <2>1, <2>2
<1>. QED BY <1>4, <1>5, <1>6, <1>7 DEF PublisherInv

(* The same, when no release is touched at all. *)
LEMMA QuietServiceInv ==
  ASSUME PublisherInv, command' = command,
         kv' \in {kv, [kv EXCEPT !.current = "this"]},
         answer' \in Answers, answer'.status # "applied", ReplacedIsPurged'
  PROVE  /\ PublisherInv' /\ ReleasesKept
         /\ kv'.inventory = kv.inventory
<1>1. kv \in KvStates
  BY DEF PublisherInv, PublisherTypeOK
<1>2. /\ kv' \in KvStates /\ kv'.active = kv.active /\ kv'.previous = kv.previous
      /\ kv'.current \in {kv.current, "this"}
      /\ kv'.inventory = kv.inventory /\ kv'.stored = kv.stored
  BY <1>1 DEF KvStates, CurrentSeasons
<1>3. \A v \in Versions : isSettled(v) => isWhole(v)'
  BY <1>2 DEF isSettled, isWhole, namesOf
<1>4. PublisherInv' /\ ReadersKept
  BY <1>2, <1>3, ServiceInv
<1>. QED BY <1>2, <1>4 DEF ReleasesKept, InventoriesKept

(* A candidate's documents are written under its own version. *)
LEMMA CandidateWrittenInv ==
  ASSUME PublisherInv, command' = command, answer' = NoAnswer,
         NEW v \in AllocatedVersions, NEW docs \in SUBSET Docs, docs # {},
         kv' = [kv EXCEPT !.stored[v] = docs, !.inventory[v] = docs]
  PROVE  PublisherInv' /\ ReadersKept /\ isSettled(v)'
<1>1. /\ kv \in KvStates /\ v \in Versions /\ v \notin LegacyVersions
  BY VersionFacts DEF PublisherInv, PublisherTypeOK, Versions
<1>2. /\ kv' \in KvStates /\ kv'.active = kv.active /\ kv'.previous = kv.previous
      /\ kv'.current = kv.current
      /\ kv'.inventory[v] = docs /\ kv'.stored[v] = docs
      /\ \A u \in Versions : u # v => /\ kv'.inventory[u] = kv.inventory[u]
                                      /\ kv'.stored[u] = kv.stored[u]
  BY <1>1, KvFacts DEF KvStates
<1>3. isWhole(v)'
  BY <1>1, <1>2 DEF isWhole
<1>4. ASSUME NEW u \in Versions, isSettled(u) PROVE isWhole(u)'
  <2>1. CASE u = v
    BY <1>3, <2>1
  <2>2. CASE u # v
    BY <1>2, <1>4, <2>2 DEF isSettled, isWhole, namesOf
  <2>. QED BY <2>1, <2>2
<1>5. /\ answer' \in Answers /\ answer'.status # "applied" /\ ReplacedIsPurged'
      /\ \A u \in LegacyVersions : u # v /\ u \in Versions
  BY <1>1, QuietFacts DEF ReplacedIsPurged, Versions
<1>6. PublisherInv' /\ ReadersKept
  BY <1>2, <1>4, <1>5, ServiceInv
<1>7. ~isUncommitted(v)'
  BY <1>1, <1>6 DEF isUncommitted, PublisherInv, CommandCoherent
<1>. QED BY <1>3, <1>6, <1>7 DEF isSettled

(* A purge of the sequenced service answers only what is so. *)
LEMMA PurgedInv ==
  ASSUME NEW duty \in Duties, duty.version \in Versions,
         NEW withdrawn \in SUBSET Docs, NEW current,
         NEW status \in {"committed", "purged"},
         Purged(duty, withdrawn, current, status),
         duty.served \subseteq
           invalidationUrls(duty.documents \union withdrawn, current = "this")
             \union (IF duty.outgoing = "other" THEN aliasRoutes(OtherDocs) ELSE {})
  PROVE  answer' \in Answers /\ answer'.status # "applied" /\ ReplacedIsPurged'
<1>1. CASE answer' = NoAnswer
  BY <1>1, QuietFacts DEF ReplacedIsPurged
<1> DEFINE docs == duty.documents \union withdrawn
           named(aliased) ==
             purgeUrls(docs, aliased) \union aliasRoutes(withdrawn)
               \union (IF duty.outgoing = "other"
                         THEN aliasRoutes(OtherDocs) ELSE {})
<1>2. ASSUME NEW aliased \in {(current \in {"this", "none"}), TRUE},
             answer' = [status |-> status, version |-> duty.version,
                        purge |-> "succeeded", stale |-> duty.served \ named(aliased)]
      PROVE  answer' \in Answers /\ answer'.status # "applied" /\ ReplacedIsPurged'
  <2>1. current = "this" => aliased = TRUE
    BY <1>2
  <2>2. invalidationUrls(docs, current = "this") \subseteq purgeUrls(docs, aliased)
    BY <2>1, PurgeCovers
  <2>3. duty.served \ named(aliased) = {}
    BY <2>2
  <2> HIDE DEF named
  <2>4. answer' = [status |-> status, version |-> duty.version,
                   purge |-> "succeeded", stale |-> {}]
    BY <1>2, <2>3
  <2>. QED BY <2>4 DEF Answers, ReplacedIsPurged
<1>. QED BY <1>1, <1>2 DEF Purged

LEMMA DutyFacts ==
  ASSUME post \in Duties
  PROVE  /\ post.replaced \in Versions \union {NoVersion}
         /\ post.documents \in SUBSET Docs
         /\ post.served \in SUBSET Routes
         /\ post.outgoing \in {"none", "other"}
BY DEF Duties

LEMMA NoDutyFacts ==
  /\ NoDuty \in Duties /\ NoDuty.pc = "idle" /\ NoDuty.outgoing = "none"
BY DEF NoDuty, Duties

LEMMA CompleteCommittedInv ==
  ASSUME PublisherInv, MaintenanceTypeOK, DutyCoherent, command' = command,
         post.version \in Versions, CompleteCommitted
  PROVE  PublisherInv' /\ ReleasesKept /\ MaintenanceTypeOK'
<1>1. /\ post.pc = "committed" /\ post \in Duties /\ post' = NoDuty
      /\ kv' \in {kv, [kv EXCEPT !.current = "this"]}
      /\ Purged(post, withdrawnRoutes(post), kv'.current, "committed")
      /\ kv \in KvStates
  BY DEF CompleteCommitted, MaintenanceTypeOK, PublisherInv, PublisherTypeOK
<1>2. kv'.current \in {kv.current, "this"}
  BY <1>1 DEF KvStates
<1> DEFINE withdrawn == withdrawnRoutes(post)
<1>3. /\ withdrawn \in SUBSET Docs
      /\ replacedDocs(post) \subseteq post.documents \union withdrawn
  BY <1>1, DutyFacts, KvFacts DEF withdrawnRoutes, replacedDocs
<1>4. invalidationUrls(replacedDocs(post), kv.current = "this")
        \subseteq invalidationUrls(post.documents \union withdrawn, kv'.current = "this")
  <2> HIDE DEF withdrawn
  <2>. QED BY <1>2, <1>3 DEF invalidationUrls, seasonRoutes, aliasRoutes
<1>5. post.served \subseteq
        invalidationUrls(post.documents \union withdrawn, kv'.current = "this")
          \union (IF post.outgoing = "other" THEN aliasRoutes(OtherDocs) ELSE {})
  BY <1>1, <1>4 DEF DutyCoherent, servedRoutes
<1> HIDE DEF withdrawn
<1>6. \A current : current = kv'.current =>
        answer' \in Answers /\ answer'.status # "applied" /\ ReplacedIsPurged'
  BY <1>1, <1>3, <1>5, PurgedInv DEF withdrawn
<1>7. PublisherInv' /\ ReleasesKept
  BY <1>1, <1>6, QuietServiceInv
<1>. QED BY <1>1, <1>7, NoDutyFacts DEF MaintenanceTypeOK

LEMMA PurgeActiveInv ==
  ASSUME PublisherInv, NEW v \in Versions, command' = command, PurgeActiveVersion(v)
  PROVE  PublisherInv' /\ ReleasesKept /\ post' = post
<1> DEFINE duty == [NoDuty EXCEPT !.version = v, !.documents = kv.inventory[v],
                      !.served = servedBy(v, FALSE)]
<1>1. /\ v # NoVersion /\ Purged(duty, {}, kv.current, "purged")
      /\ kv' = kv /\ post' = post /\ kv \in KvStates
  BY DEF PurgeActiveVersion, PublisherInv, PublisherTypeOK
<1>2. kv.inventory[v] \in SUBSET Docs /\ servedBy(v, FALSE) \in SUBSET Routes
  BY <1>1, KvFacts, ServedByType
<1>3. /\ duty \in Duties /\ duty.version = v /\ duty.outgoing = "none"
      /\ duty.documents = kv.inventory[v] /\ duty.served = servedBy(v, FALSE)
  BY <1>2 DEF Duties, NoDuty
<1>4. servedBy(v, FALSE) \subseteq servedRoutes(kv.inventory[v], "none")
  BY <1>1, ServedByRoutes
<1> HIDE DEF duty
<1>5. duty.served \subseteq
        invalidationUrls(duty.documents \union {}, kv.current = "this")
          \union (IF duty.outgoing = "other" THEN aliasRoutes(OtherDocs) ELSE {})
  BY <1>3, <1>4 DEF servedRoutes, invalidationUrls, seasonRoutes, aliasRoutes
<1>6. answer' \in Answers /\ answer'.status # "applied" /\ ReplacedIsPurged'
  BY <1>1, <1>3, <1>5, PurgedInv
<1>. QED BY <1>1, <1>6, QuietServiceInv

-----------------------------------------------------------------------------
(* The seed of a checkpoint *)

(* What a checkpoint's seed is, whoever stages it. *)
LEMMA StagedFacts ==
  ASSUME NEW f \in SeedFingerprints, NEW s \in stagedSeeds(f)
  PROVE  /\ s \in Seeds
         /\ s.fingerprint = f
         /\ s.active = CheckpointOf[f].active
         /\ s.previous \in {NoVersion, CheckpointOf[f].previous}
         /\ s.ordering = ReleaseOf[s.active].ordering
         /\ s.rows = ReleaseOf[s.active].rows
         /\ CheckpointOf[f].bound <= s.floor
         /\ \A v \in {s.active, s.previous} \ {NoVersion}, d \in Docs :
              ReleaseOf[v].rows[d].observedAt <= s.floor
<1>1. PICK imported \in {NoVersion, CheckpointOf[f].previous},
           t \in Readings \intersect Instants : s = stagedSeed(f, imported, t)
  BY DEF stagedSeeds
<1>2. s \in Seeds
  BY <1>1, StagedAssumption DEF StagedAssumption
<1>3. /\ CheckpointOf[f].active \in LegacyVersions
      /\ CheckpointOf[f].previous \in LegacyVersions \union {NoVersion}
      /\ CheckpointOf[f].bound \in 0 .. MaxInstant
  BY CutoverAssumption DEF CutoverAssumption
<1> DEFINE releases == {CheckpointOf[f].active} \union ({imported} \ {NoVersion})
           S == {t, CheckpointOf[f].bound}
                  \union {ReleaseOf[v].rows[d].observedAt : v \in releases, d \in Docs}
<1>4. S \subseteq 0 .. MaxInstant /\ S # {}
  <2>1. releases \subseteq LegacyVersions
    BY <1>3
  <2>2. \A v \in LegacyVersions, d \in Docs : ReleaseOf[v].rows[d] \in Rows
    BY PublisherAssumption DEF PublisherAssumption
  <2>3. \A v \in releases, d \in Docs :
          ReleaseOf[v].rows[d].observedAt \in 0 .. MaxInstant
    BY <2>1, <2>2, RowFacts
  <2>4. t \in 0 .. MaxInstant
    BY SMT, SequencerAssumption DEF Instants, SequencerAssumption
  <2> HIDE DEF releases
  <2>. QED BY <1>3, <2>3, <2>4
<1>5. MaxInstant \in Nat
  BY SequencerAssumption DEF SequencerAssumption
<1>6. \E i \in S : \A j \in S : j <= i
  <2> HIDE DEF S
  <2>. QED BY <1>4, <1>5, BoundedMaximum
<1>7. \A j \in S : j <= migratedFloor(f, imported, t)
  <2>1. migratedFloor(f, imported, t) = CHOOSE i \in S : \A j \in S : j <= i
    BY DEF migratedFloor
  <2> HIDE DEF S
  <2>. QED BY <1>6, <2>1
<1>8. /\ s.fingerprint = f /\ s.active = CheckpointOf[f].active
      /\ s.previous = imported
      /\ s.ordering = ReleaseOf[s.active].ordering
      /\ s.rows = ReleaseOf[s.active].rows
      /\ s.floor = migratedFloor(f, imported, t)
  BY <1>1 DEF stagedSeed
<1>9. \A v \in {s.active, s.previous} \ {NoVersion} : v \in releases
  BY <1>8
<1>10. \A v \in {s.active, s.previous} \ {NoVersion}, d \in Docs :
         ReleaseOf[v].rows[d].observedAt \in S
  BY <1>9
<1> HIDE DEF releases
<1>11. CheckpointOf[f].bound \in S
  OBVIOUS
<1> HIDE DEF S
<1>. QED BY <1>2, <1>7, <1>8, <1>10, <1>11

-----------------------------------------------------------------------------
(* The sequencer *)

(* A season that has entered the sequencer stays there under its fingerprint,
   and until its next commit stays what it is. *)
SeasonKept ==
  /\ commitEpochs \subseteq commitEpochs'
  /\ authority.cutoverState # "uninitialized" =>
       /\ authority'.cutoverState # "uninitialized"
       /\ authority'.fingerprint = authority.fingerprint
       /\ commitEpochs' = commitEpochs => committedSeed' = committedSeed
  /\ authority.cutoverState = "seeded" => authority'.cutoverState \in {"seeded", "active"}
  /\ authority.cutoverState = "active" => authority'.cutoverState = "active"
  /\ authority.cutoverState = "genesis" => authority'.cutoverState \in {"genesis", "active"}

LEMMA AuthorityFacts ==
  ASSUME TypeOK
  PROVE  /\ authority.active \in Versions \union {NoVersion}
         /\ authority.previous \in Versions \union {NoVersion}
         /\ authority.cutoverState \in CutoverStates
         /\ authority.lastEpoch \in 0 .. MaxOperationEpoch
         /\ authority.fingerprint \in
              SeedFingerprints \union GenesisFingerprints \union {NoFingerprint}
BY DEF TypeOK

(* A step that leaves the record, its rows and the commits alone. *)
LEMMA RecordFrame ==
  ASSUME ReleasedStates, UNCHANGED <<authority, committed, commitEpochs>>
  PROVE  SeasonKept /\ ReleasedStates'
BY DEF SeasonKept, ReleasedStates, committedSeed

LEMMA SeasonFrame ==
  ASSUME SequencerInv, ReleasedStates, [Next]_vars
  PROVE  SeasonKept /\ ReleasedStates'
<1>1. TypeOK /\ CommitsAllocated /\ Dormant
  BY DEF SequencerInv
<1>2. ASSUME NEW req, NEW t, Prepare(req, t)
      PROVE  SeasonKept /\ ReleasedStates'
  <2>1. /\ authority' = [authority EXCEPT !.lastEpoch = authority.lastEpoch + 1]
        /\ committed' = committed /\ commitEpochs' = commitEpochs
    BY <1>2 DEF Prepare, history
  <2>2. /\ authority'.cutoverState = authority.cutoverState
        /\ authority'.fingerprint = authority.fingerprint
        /\ authority'.active = authority.active
        /\ authority'.previous = authority.previous
        /\ authority'.ordering = authority.ordering
        /\ authority'.floor = authority.floor
    BY <1>1, <2>1 DEF TypeOK
  <2>. QED BY <2>1, <2>2 DEF SeasonKept, ReleasedStates, committedSeed
<1>3. ASSUME NEW e, NEW k, NEW c, NEW t, Finalize(e, k, c, t)
      PROVE  SeasonKept /\ ReleasedStates'
  <2>1. /\ isMutableState /\ operation.phase = "prepared"
        /\ operation \in Operations
        /\ operation.candidate \in AllocatedVersions
        /\ operation.epoch \notin commitEpochs
    BY <1>1, <1>3, FinalizeAdmits, OperationFacts
       DEF Finalize, TypeOK, CommitsAllocated
  <2>2. /\ authority' = [authority EXCEPT
             !.cutoverState = "active", !.active = operation.candidate,
             !.previous = authority.active, !.ordering = operation.ordering,
             !.floor = highestInstant(prepared)]
        /\ commitEpochs' = commitEpochs \union {operation.epoch}
    BY <1>3 DEF Finalize, committedAuthority
  <2>3. /\ authority'.cutoverState = "active"
        /\ authority'.fingerprint = authority.fingerprint
        /\ authority'.active = operation.candidate
    BY <1>1, <2>2 DEF TypeOK
  <2>4. operation.candidate # NoVersion
    BY <2>1, VersionFacts DEF Versions
  <2>. QED BY <2>1, <2>2, <2>3, <2>4 DEF SeasonKept, ReleasedStates, isMutableState
<1>4. ASSUME NEW seed \in Seeds, SeedCutover(seed)
      PROVE  SeasonKept /\ ReleasedStates'
  <2>1. /\ authority'.cutoverState = "seeded" /\ authority'.active = seed.active
        /\ authority.cutoverState = "uninitialized"
        /\ commitEpochs' = commitEpochs
    BY <1>1, <1>4 DEF SeedCutover, TypeOK, history
  <2>2. seed.active # NoVersion
    BY SeedAssumption, VersionFacts DEF SeedAssumption, Versions
  <2>. QED BY <1>1, <2>1, <2>2 DEF SeasonKept, ReleasedStates, Dormant
<1>5. ASSUME NEW f, ActivateCutover(f)
      PROVE  SeasonKept /\ ReleasedStates'
  <2>1. /\ authority.cutoverState = "seeded"
        /\ authority' = [authority EXCEPT !.cutoverState = "active"]
        /\ committed' = committed /\ commitEpochs' = commitEpochs
    BY <1>5 DEF ActivateCutover, history
  <2>2. /\ authority'.cutoverState = "active"
        /\ authority'.fingerprint = authority.fingerprint
        /\ authority'.active = authority.active
        /\ authority'.previous = authority.previous
        /\ authority'.ordering = authority.ordering
        /\ authority'.floor = authority.floor
    BY <1>1, <2>1 DEF TypeOK
  <2>. QED BY <2>1, <2>2 DEF SeasonKept, ReleasedStates, committedSeed
<1>6. ASSUME NEW f, CommitGenesis(f)
      PROVE  SeasonKept /\ ReleasedStates'
  <2>1. /\ authority.cutoverState = "uninitialized"
        /\ authority' = [authority EXCEPT !.cutoverState = "genesis",
                                          !.fingerprint = f]
        /\ committed' = committed /\ commitEpochs' = commitEpochs
        /\ committed = NoRows
    BY <1>6 DEF CommitGenesis, history
  <2>2. /\ authority'.cutoverState = "genesis"
        /\ authority'.active = authority.active
    BY <1>1, <2>1 DEF TypeOK
  <2>. QED BY <1>1, <2>1, <2>2 DEF SeasonKept, ReleasedStates, Dormant
<1>7. ASSUME \/ \E e \in Epochs, k \in Tokens : Cancel(e, k)
             \/ \E e \in Epochs, k \in Tokens \union {0}, v \in Versions :
                  AuthorizeCleanup(e, k, v) \/ AcknowledgeCleanup(e, k, v)
             \/ UNCHANGED vars
      PROVE  SeasonKept /\ ReleasedStates'
  BY <1>7, RecordFrame
     DEF Cancel, AuthorizeCleanup, AcknowledgeCleanup, vars, durable, history
<1>. QED BY <1>2, <1>3, <1>4, <1>5, <1>6, <1>7 DEF Next

(* A prepared candidate's request is one the sequencer admits: a season without
   an active release has no results documents to bind. *)
LEMMA PreparedRequest ==
  ASSUME SequencerInv, ReleasedStates, NEW m \in Candidates,
         NEW t \in Publishing, PrepareCandidate(m, t)
  PROVE  \E req \in PrepareRequests : Prepare(req, t)
<1> DEFINE guard == [d \in ResultsDocs |-> committed[d].revision]
           req == [kind |-> "ordinary-publication", manifest |-> m,
                   ordering |-> t, commitment |-> manifestNames(m),
                   expectedVersion |-> authority.active, expectedGuard |-> guard]
<1>1. Prepare(req, t)
  BY DEF PrepareCandidate
<1>2. t \in Instants
  BY <1>1, PrepareAdmits DEF Prepare
<1>3. m \in Manifests /\ manifestNames(m) \in Commitments
  BY CutoverAssumption DEF CutoverAssumption, manifestNames
<1>4. committed \in [Docs -> Rows] /\ ResultsDocs \subseteq Docs
  BY SequencerAssumption DEF SequencerInv, TypeOK, SequencerAssumption
<1>5. guard \in [ResultsDocs -> Revisions \union {NoRevision}]
  BY <1>4, RowFacts
<1>6. authority.active = NoVersion => guard = GuardOf(NoManifest)
  <2>1. ASSUME authority.active = NoVersion, NEW d \in ResultsDocs
        PROVE  committed[d].revision = NoManifest[d]
    BY <1>4, <2>1, RowFacts DEF ReleasedStates, NoManifest
  <2>. QED BY <2>1 DEF GuardOf
<1>7. authority.active \in Versions \union {NoVersion}
  BY AuthorityFacts DEF SequencerInv
<1> HIDE DEF guard
<1>8. req \in PrepareRequests
  BY <1>2, <1>3, <1>5, <1>6, <1>7 DEF PrepareRequests, OperationKinds
<1>. QED BY <1>1, <1>8

(* Every step of the cutover is a step of the sequencer or leaves it alone. *)
LEMMA SequencerSteps ==
  ASSUME CutoverInv, CutoverNext
  PROVE  [Next]_vars
<1>1. /\ SequencerInv /\ ReleasedStates /\ RequestCoherent
      /\ approved \subseteq SeedFingerprints
  BY DEF CutoverInv, CutoverTypeOK
<1>2. Readings \subseteq ClockReadings /\ Publishing \subseteq ClockReadings
  BY CutoverAssumption DEF CutoverAssumption
<1>3. UNCHANGED <<durable, history>> => UNCHANGED vars
  BY DEF durable, history, vars
<1>4. ASSUME NEW m \in Candidates, NEW t \in Publishing, PrepareCandidate(m, t)
      PROVE  Next
  BY <1>1, <1>2, <1>4, PreparedRequest DEF Next
<1>5. ASSUME NEW t \in Publishing, FinalizeCandidate(t)
      PROVE  Next
  <2>1. Finalize(operation.epoch, operation.token, operation.commitment, t)
    BY <1>5 DEF FinalizeCandidate
  <2>2. operation \in Operations
    BY <1>1, <2>1, FinalizeAdmits DEF Finalize, SequencerInv, TypeOK
  <2>3. /\ operation.epoch \in Epochs /\ operation.token \in Tokens
        /\ operation.commitment \in Commitments
    BY <2>2 DEF Operations
  <2>. QED BY <1>2, <2>1, <2>3 DEF Next
<1>6. ASSUME NEW o \in Operators, Present(o), ~ UNCHANGED <<durable, history>>
      PROVE  Next
  <2>1. request[o].pc = "present" /\ SeedCutover(request[o].seed)
    BY <1>6 DEF Present
  <2>2. request[o].fingerprint \in SeedFingerprints
        /\ request[o].seed \in stagedSeeds(request[o].fingerprint)
    BY <1>1, <2>1 DEF RequestCoherent, requestCoherent
  <2>. QED BY <2>1, <2>2, StagedFacts DEF Next
<1>7. ASSUME NEW o \in Operators, Activate(o), ~ UNCHANGED <<durable, history>>
      PROVE  Next
  <2>1. request[o].pc = "activate" /\ ActivateCutover(request[o].fingerprint)
    BY <1>7 DEF Activate
  <2>2. request[o].fingerprint \in SeedFingerprints
    BY <1>1, <2>1 DEF RequestCoherent, requestCoherent
  <2>. QED BY <2>1, <2>2 DEF Next
<1>8. ASSUME NEW o \in Operators, CallCommitGenesis(o),
             ~ UNCHANGED <<durable, history>>
      PROVE  Next
  <2>1. CommitGenesis(GenesisOf) /\ GenesisOf \in GenesisFingerprints
    BY <1>8, CutoverAssumption DEF CallCommitGenesis, CutoverAssumption
  <2>. QED BY <2>1 DEF Next
<1>. QED
  BY <1>3, <1>4, <1>5, <1>6, <1>7, <1>8
     DEF CutoverNext, Deploy, ApproveCheckpoint, LegacyCommand,
         SequencedMaintain, ReadingStep

-----------------------------------------------------------------------------
(* What the publishers made *)

LEMMA IdleInv ==
  ASSUME PublisherInv, PublisherIdles
  PROVE  /\ PublisherInv' /\ ReleasesKept
         /\ kv' = kv /\ command' = command
<1>1. /\ answer' = NoAnswer /\ kv' = kv /\ command' = command
      /\ answer' \in Answers /\ answer'.status # "applied" /\ ReplacedIsPurged'
  BY QuietFacts DEF PublisherIdles, ReplacedIsPurged
<1>. QED BY <1>1, QuietServiceInv

LEMMA LegacyCommandInv ==
  ASSUME PublisherInv, LegacyCommand
  PROVE  /\ PublisherInv' /\ ReleasesKept
         /\ UNCHANGED <<durable, history, post, deployed, approved, late>>
<1>1. kv.previous \in LegacyVersions \union {NoVersion}
  BY KvFacts DEF PublisherInv, PublisherTypeOK
<1>. QED
  BY <1>1, BeginPublishInv, BeginRollbackInv, BeginPurgeInv, RunCommandInv
     DEF LegacyCommand, MaintenanceIdles

(* A candidate is written whole under the version its epoch names. *)
LEMMA CandidateFacts ==
  ASSUME CutoverInv, NEW m \in Candidates, NEW t \in Publishing,
         PrepareCandidate(m, t)
  PROVE  /\ PublisherInv' /\ ReadersKept
         /\ post.pc # "committed"
         /\ authority.lastEpoch + 1 \in Epochs
         /\ candidateVersionForEpoch(authority.lastEpoch + 1) \in AllocatedVersions
         /\ manifestNames(m) \in SUBSET Docs
         /\ \A v \in Versions :
              v = candidateVersionForEpoch(authority.lastEpoch + 1) => isSettled(v)'
<1> DEFINE v == candidateVersionForEpoch(authority.lastEpoch + 1)
<1>1. PublisherInv /\ TypeOK
  BY DEF CutoverInv, SequencerInv
<1>2. /\ command' = command /\ answer' = NoAnswer
      /\ kv' = [kv EXCEPT !.stored[v] = manifestNames(m),
                          !.inventory[v] = manifestNames(m)]
      /\ post.pc \in {"idle", "prepared"}
  BY DEF PrepareCandidate, OweMaintenance
<1>3. authority.lastEpoch + 1 \in Epochs
  BY PrepareAdmits DEF PrepareCandidate, Prepare
<1>4. v \in AllocatedVersions
  BY <1>3, VersionFacts
<1>5. manifestNames(m) \in SUBSET Docs /\ manifestNames(m) # {}
  <2>1. m \in ManifestType /\ m # NoManifest
    BY CutoverAssumption, SequencerAssumption
       DEF CutoverAssumption, SequencerAssumption
  <2>2. ASSUME \A d \in Docs : m[d] = NoRevision PROVE m = NoManifest
    BY <2>1, <2>2 DEF ManifestType, NoManifest
  <2>. QED BY <2>1, <2>2 DEF manifestNames
<1> HIDE DEF v
<1>6. \A u \in AllocatedVersions : u = v =>
        PublisherInv' /\ ReadersKept /\ isSettled(u)'
  BY <1>1, <1>2, <1>5, CandidateWrittenInv
<1>7. \A u \in Versions : u = v => isSettled(u)'
  BY <1>4, <1>6
<1>. QED BY <1>2, <1>3, <1>4, <1>5, <1>6, <1>7 DEF v

(* No step takes a release from those who rely on it; and what a replaced
   release is made of does not change while its routes are still to be
   purged. *)
LEMMA PublisherSteps ==
  ASSUME CutoverInv, CutoverNext
  PROVE  /\ PublisherInv' /\ ReadersKept
         /\ post.pc = "committed" => ReleasesKept
<1>1. PublisherInv /\ MaintenanceTypeOK /\ DutyCoherent /\ TypeOK
  BY DEF CutoverInv, CutoverTypeOK, SequencerInv
<1>2. ASSUME PublisherIdles PROVE PublisherInv' /\ ReleasesKept
  BY <1>1, <1>2, IdleInv
<1>3. CASE LegacyCommand
  BY <1>1, <1>3, LegacyCommandInv DEF ReleasesKept
<1>4. CASE \E m \in Candidates, t \in Publishing : PrepareCandidate(m, t)
  BY <1>4, CandidateFacts
<1>5. CASE SequencedMaintain
  <2>1. CASE CompleteCommitted
    <3>1. post.version \in Versions /\ command' = command
      BY <1>1, <1>5, <2>1
         DEF CompleteCommitted, DutyCoherent, SequencedMaintain, Versions
    <3>. QED BY <1>1, <2>1, <3>1, CompleteCommittedInv DEF ReleasesKept
  <2>2. CASE StopMaintenance
    <3>1. PublisherIdles
      BY <1>5, <2>2 DEF StopMaintenance, SequencedMaintain, PublisherIdles
    <3>. QED BY <1>2, <3>1 DEF ReleasesKept
  <2>3. CASE PurgeActiveVersion(authority.active)
    <3>1. command' = command
      BY <1>5 DEF SequencedMaintain
    <3>2. authority.active \in Versions
      BY <1>1, <2>3, AuthorityFacts DEF PurgeActiveVersion
    <3>. QED BY <1>1, <2>3, <3>1, <3>2, PurgeActiveInv DEF ReleasesKept
  <2>. QED BY <1>5, <2>1, <2>2, <2>3 DEF SequencedMaintain
<1>6. CASE PublisherIdles
  BY <1>2, <1>6 DEF ReleasesKept
<1>. QED
  BY <1>3, <1>4, <1>5, <1>6
     DEF CutoverNext, Deploy, ApproveCheckpoint, FinalizeCandidate

-----------------------------------------------------------------------------
(* What a commit owes *)

LEMMA DutyFrame ==
  ASSUME MaintenanceTypeOK, DutyCoherent, PublisherTypeOK, ReadersKept,
         post.pc = "committed" => ReleasesKept,
         post' = post, operation' = operation
  PROVE  MaintenanceTypeOK' /\ DutyCoherent'
<1>1. MaintenanceTypeOK' /\ post \in Duties
  BY DEF MaintenanceTypeOK
<1>2. kv'.current \in {kv.current, "this"}
  BY DEF ReadersKept
<1>3. ASSUME post.pc = "committed"
      PROVE  /\ (post.replaced # NoVersion => isSettled(post.replaced))'
             /\ (post.served \subseteq servedRoutes(replacedDocs(post), post.outgoing))'
  <2>1. /\ post.replaced \in Versions \union {NoVersion}
        /\ post.replaced # NoVersion => isSettled(post.replaced)
        /\ post.served \subseteq servedRoutes(replacedDocs(post), post.outgoing)
        /\ ReleasesKept
    BY <1>1, <1>3, DutyFacts DEF DutyCoherent
  <2>2. /\ (post.replaced # NoVersion => isSettled(post.replaced))'
        /\ replacedDocs(post)' = replacedDocs(post)
    BY <2>1 DEF ReleasesKept, ReadersKept, InventoriesKept, replacedDocs
  <2>3. servedRoutes(replacedDocs(post), post.outgoing) \subseteq
          servedRoutes(replacedDocs(post), post.outgoing)'
    <3> DEFINE docs == replacedDocs(post)
    <3>1. docs' = docs
      BY <2>2
    <3> HIDE DEF docs
    <3>2. servedRoutes(docs, post.outgoing) \subseteq servedRoutes(docs, post.outgoing)'
      BY <1>2, <3>1 DEF servedRoutes, invalidationUrls
    <3>. QED BY <3>2 DEF docs
  <2>. QED BY <2>1, <2>2, <2>3
<1>4. (post.pc = "prepared" /\ kv.current = "other" => post.outgoing = "other")'
  BY <1>2 DEF DutyCoherent
<1>. QED BY <1>1, <1>3, <1>4 DEF DutyCoherent

LEMMA DutySteps ==
  ASSUME CutoverInv, CutoverNext
  PROVE  MaintenanceTypeOK' /\ DutyCoherent'
<1>1. /\ PublisherTypeOK /\ MaintenanceTypeOK /\ DutyCoherent /\ TypeOK
      /\ AuthoritySettled /\ post \in Duties /\ kv \in KvStates
  BY DEF CutoverInv, CutoverTypeOK, SequencerInv, PublisherTypeOK, MaintenanceTypeOK
<1>2. ReadersKept /\ (post.pc = "committed" => ReleasesKept)
  BY PublisherSteps
<1>3. ASSUME post' = post, operation' = operation
      PROVE  MaintenanceTypeOK' /\ DutyCoherent'
  BY <1>1, <1>2, <1>3, DutyFrame
<1>4. ASSUME post' = NoDuty
      PROVE  MaintenanceTypeOK' /\ DutyCoherent'
  BY <1>4, NoDutyFacts DEF MaintenanceTypeOK, DutyCoherent
<1>5. ASSUME NEW m \in Candidates, NEW t \in Publishing, PrepareCandidate(m, t)
      PROVE  MaintenanceTypeOK' /\ DutyCoherent'
  <2> DEFINE v == candidateVersionForEpoch(authority.lastEpoch + 1)
             docs == manifestNames(m)
  <2>1. /\ v \in AllocatedVersions /\ docs \in SUBSET Docs
        /\ authority.active \in Versions \union {NoVersion}
    BY <1>1, <1>5, CandidateFacts, AuthorityFacts
  <2>2. /\ post' = [NoDuty EXCEPT !.pc = "prepared", !.version = v,
                      !.replaced = authority.active, !.documents = docs,
                      !.outgoing = outgoingCurrentSeason]
        /\ kv'.current = kv.current
        /\ operation'.prior = authority.active
    BY <1>1, <1>5 DEF PrepareCandidate, OweMaintenance, Prepare, KvStates
  <2> HIDE DEF v, docs
  <2>3. /\ post' \in Duties /\ post'.pc = "prepared" /\ post'.version = v
        /\ post'.replaced = authority.active
        /\ post'.outgoing = outgoingCurrentSeason
    BY <2>1, <2>2 DEF Duties, NoDuty, outgoingCurrentSeason, Versions
  <2>. QED BY <2>1, <2>2, <2>3
       DEF MaintenanceTypeOK, DutyCoherent, outgoingCurrentSeason
<1>6. ASSUME NEW t \in Publishing, FinalizeCandidate(t)
      PROVE  MaintenanceTypeOK' /\ DutyCoherent'
  <2>1. /\ post.pc = "prepared" /\ post.version = operation.candidate
        /\ operation.phase = "prepared" /\ operation.prior = authority.active
        /\ post' = [post EXCEPT !.pc = "committed",
                               !.served = servedBy(authority.active, TRUE)]
        /\ kv' = kv /\ command' = command
    BY <1>6, FinalizeAdmits
       DEF FinalizeCandidate, Finalize, CommitBecomesKnown, PublisherIdles
  <2>2. /\ post.replaced = authority.active
        /\ authority.active \in Versions \union {NoVersion}
        /\ post.version \in AllocatedVersions
        /\ kv.current = "other" => post.outgoing = "other"
    BY <1>1, <2>1, AuthorityFacts DEF DutyCoherent
  <2>3. servedBy(authority.active, TRUE) \in SUBSET Routes
    BY <1>1, <2>2, ServedByType
  <2>4. /\ post' \in Duties /\ post'.pc = "committed"
        /\ post'.version = post.version
        /\ post'.replaced = authority.active /\ post'.outgoing = post.outgoing
        /\ post'.served = servedBy(authority.active, TRUE)
    BY <1>1, <2>1, <2>2, <2>3 DEF Duties
  <2> DEFINE docs == replacedDocs(post)
  <2>5. /\ docs = IF authority.active = NoVersion THEN {}
                  ELSE kv.inventory[authority.active]
        /\ docs = replacedDocs(post)'
    BY <2>1, <2>2, <2>4 DEF replacedDocs
  <2>6. servedBy(authority.active, TRUE) \subseteq
          servedRoutes(docs, outgoingCurrentSeason)
    BY <1>1, <2>2, <2>5, ServedByRoutes
  <2> HIDE DEF docs
  <2>7. servedRoutes(docs, outgoingCurrentSeason) \subseteq
          servedRoutes(docs, post.outgoing)
    BY <2>2 DEF servedRoutes, outgoingCurrentSeason
  <2>8. (post.served \subseteq servedRoutes(replacedDocs(post), post.outgoing))'
    BY <2>1, <2>4, <2>5, <2>6, <2>7 DEF servedRoutes, invalidationUrls
  <2>9. (post.replaced # NoVersion => isSettled(post.replaced))'
    BY <1>1, <2>1, <2>4
       DEF AuthoritySettled, isSettled, isWhole, isUncommitted, namesOf
  <2>. QED BY <2>2, <2>4, <2>8, <2>9 DEF MaintenanceTypeOK, DutyCoherent
<1>7. CASE SequencedMaintain
  BY <1>3, <1>4, <1>7
     DEF SequencedMaintain, CompleteCommitted, StopMaintenance,
         PurgeActiveVersion, durable
<1>8. ASSUME NEW o \in Operators, MaintenanceIdles,
             ReadingStep(o) \/ Present(o) \/ Activate(o) \/ CallCommitGenesis(o)
      PROVE  MaintenanceTypeOK' /\ DutyCoherent'
  <2>1. post' = post /\ operation' = operation
    BY <1>8 DEF ReadingStep, Present, Activate, CallCommitGenesis, SeedCutover,
                ActivateCutover, CommitGenesis, durable, MaintenanceIdles
  <2>. QED BY <1>3, <2>1
<1>9. ASSUME MaintenanceIdles, UNCHANGED durable
      PROVE  MaintenanceTypeOK' /\ DutyCoherent'
  BY <1>3, <1>9 DEF MaintenanceIdles, durable
<1>. QED
  BY <1>5, <1>6, <1>7, <1>8, <1>9
     DEF CutoverNext, Deploy, ApproveCheckpoint, LegacyCommand

-----------------------------------------------------------------------------
(* What each step may do to the authority *)

(* A request's call to the sequencer, as the sequencer executed it. *)
SequencerCall(o) ==
  /\ \/ request[o].pc = "present" /\ SeedCutover(request[o].seed)
     \/ request[o].pc = "activate" /\ ActivateCutover(request[o].fingerprint)
     \/ request[o].pc = "commit" /\ CommitGenesis(GenesisOf)
  /\ PublisherIdles
  /\ UNCHANGED <<deployed, approved, late>>

LEMMA AuthoritySteps ==
  ASSUME CutoverNext
  PROVE  \/ UNCHANGED <<durable, history>>
         \/ \E o \in Operators : SequencerCall(o)
         \/ \E m \in Candidates, t \in Publishing : PrepareCandidate(m, t)
         \/ \E t \in Publishing : FinalizeCandidate(t)
BY DEF CutoverNext, Deploy, ApproveCheckpoint, LegacyCommand,
       SequencedMaintain, ReadingStep, Present, Activate, CallCommitGenesis,
       SequencerCall

(* Only a seed and a genesis let a season in. *)
LEMMA EntrySteps ==
  ASSUME CutoverInv, CutoverNext, authority.cutoverState = "uninitialized"
  PROVE  \/ authority' = authority
         \/ /\ authority'.fingerprint = GenesisOf
            /\ authority'.active = NoVersion /\ authority'.previous = NoVersion
            /\ operation' = operation
         \/ \E f \in approved : \E s \in stagedSeeds(f) :
              /\ SeedCutover(s)
              /\ committedSeed' = s
<1>1. TypeOK /\ Dormant /\ RequestCoherent
  BY DEF CutoverInv, SequencerInv
<1>2. ASSUME NEW o \in Operators, SequencerCall(o), request[o].pc = "present",
             SeedCutover(request[o].seed)
      PROVE  \E f \in approved : \E s \in stagedSeeds(f) :
               SeedCutover(s) /\ committedSeed' = s
  <2>1. PICK f \in approved : request[o].seed \in stagedSeeds(f)
    BY <1>1, <1>2 DEF RequestCoherent, requestCoherent
  <2> DEFINE s == request[o].seed
  <2>2. s \in Seeds
    BY <2>1, StagedFacts DEF CutoverInv, CutoverTypeOK
  <2>3. /\ authority' = [authority EXCEPT
              !.cutoverState = "seeded", !.active = s.active,
              !.previous = s.previous, !.ordering = s.ordering,
              !.floor = s.floor, !.fingerprint = s.fingerprint]
        /\ committed' = s.rows
    BY <1>2 DEF SeedCutover
  <2>4. /\ authority'.fingerprint = s.fingerprint /\ authority'.active = s.active
        /\ authority'.previous = s.previous /\ authority'.ordering = s.ordering
        /\ authority'.floor = s.floor
    <3> HIDE DEF s
    <3>. QED BY <1>1, <2>3 DEF TypeOK
  <2>5. s = [fingerprint |-> s.fingerprint, active |-> s.active,
             previous |-> s.previous, ordering |-> s.ordering,
             floor |-> s.floor, rows |-> s.rows]
    <3> HIDE DEF s
    <3>. QED BY <2>2, SeedAssumption DEF SeedAssumption
  <2>6. committedSeed' = s
    <3> HIDE DEF s
    <3>. QED BY <2>3, <2>4, <2>5 DEF committedSeed
  <2>. QED BY <1>2, <2>1, <2>6
<1>3. ASSUME CommitGenesis(GenesisOf)
      PROVE  /\ authority'.fingerprint = GenesisOf
             /\ authority'.active = NoVersion /\ authority'.previous = NoVersion
             /\ operation' = operation
  BY <1>1, <1>3 DEF CommitGenesis, TypeOK, Dormant
<1>4. ASSUME NEW f, ActivateCutover(f) PROVE FALSE
  BY <1>4 DEF ActivateCutover
<1>5. ~ (\E m \in Candidates, t \in Publishing : PrepareCandidate(m, t))
      /\ ~ (\E t \in Publishing : FinalizeCandidate(t))
  BY DEF PrepareCandidate, FinalizeCandidate, SequencedAdmitted, isMutableState
<1>. QED
  BY <1>2, <1>3, <1>4, <1>5, AuthoritySteps DEF SequencerCall, durable

LEMMA ApprovalsGrow ==
  ASSUME CutoverNext
  PROVE  approved \subseteq approved'
BY DEF CutoverNext, Deploy, ApproveCheckpoint, LegacyCommand, PrepareCandidate,
       FinalizeCandidate, SequencedMaintain

LEMMA FingerprintFacts ==
  /\ GenesisOf \notin SeedFingerprints
  /\ NoFingerprint \notin SeedFingerprints
  /\ GenesisOf # NoFingerprint
BY CutoverAssumption, SequencerAssumption
   DEF CutoverAssumption, SequencerAssumption

LEMMA CheckpointFacts ==
  ASSUME NEW f \in SeedFingerprints
  PROVE  /\ CheckpointOf[f].active \in LegacyVersions
         /\ CheckpointOf[f].active \in Versions
         /\ CheckpointOf[f].active # NoVersion
         /\ CheckpointOf[f].previous \in LegacyVersions \union {NoVersion}
         /\ CheckpointOf[f].previous \in Versions \union {NoVersion}
<1>1. CheckpointOf \in [SeedFingerprints -> [active : LegacyVersions,
                           previous : LegacyVersions \union {NoVersion},
                           bound : 0 .. MaxInstant]]
  BY CutoverAssumption DEF CutoverAssumption
<1>2. /\ CheckpointOf[f].active \in LegacyVersions
      /\ CheckpointOf[f].previous \in LegacyVersions \union {NoVersion}
  BY <1>1
<1>3. LegacyVersions \subseteq Versions /\ NoVersion \notin Versions
  BY VersionFacts DEF Versions
<1>. QED BY <1>2, <1>3

(* The record a seed committed is one some request staged. *)
LEMMA StagedSteps ==
  ASSUME CutoverInv, CutoverNext, SeasonKept, ReleasedStates'
  PROVE  CommittedSeedStaged'
<1>1. /\ CommittedSeedStaged /\ ReleasedStates
      /\ approved \subseteq SeedFingerprints
  BY DEF CutoverInv, CutoverTypeOK
<1>2. \A f : stagedSeeds(f)' = stagedSeeds(f)
  BY DEF stagedSeeds, stagedSeed, migratedFloor
<1>3. CASE authority.cutoverState # "uninitialized"
  BY <1>1, <1>2, <1>3 DEF SeasonKept, CommittedSeedStaged
<1>4. CASE authority.cutoverState = "uninitialized"
  <2>1. CASE authority' = authority
    BY <1>4, <2>1, FingerprintFacts DEF CommittedSeedStaged, ReleasedStates
  <2>2. CASE authority'.fingerprint = GenesisOf
    BY <2>2, FingerprintFacts DEF CommittedSeedStaged
  <2>3. ASSUME NEW f \in approved, NEW s \in stagedSeeds(f), committedSeed' = s
        PROVE  CommittedSeedStaged'
    <3>1. s.fingerprint = f
      BY <1>1, StagedFacts
    <3>2. committedSeed'.fingerprint = authority'.fingerprint
      BY DEF committedSeed
    <3>3. authority'.fingerprint = f
      BY <2>3, <3>1, <3>2
    <3>. QED BY <1>2, <2>3, <3>3 DEF CommittedSeedStaged
  <2>. QED BY <1>4, <2>1, <2>2, <2>3, EntrySteps
<1>. QED BY <1>3, <1>4

(* What the sequencer names stays whole: a seed names what an approved
   checkpoint does, and a commit the candidate that was prepared. *)
LEMMA SettledSteps ==
  ASSUME CutoverInv, CutoverNext, ReadersKept
  PROVE  AuthoritySettled'
<1>1. /\ TypeOK /\ AuthoritySettled /\ ApprovalsHold
      /\ approved \subseteq SeedFingerprints
  BY DEF CutoverInv, CutoverTypeOK, SequencerInv
<1>2. /\ authority.active \in Versions \union {NoVersion}
      /\ authority.previous \in Versions \union {NoVersion}
  BY <1>1, AuthorityFacts
<1>3. operation.phase = "prepared" => operation.candidate \in Versions
  BY <1>1, OperationFacts DEF TypeOK, Versions
<1>4. /\ authority.active # NoVersion => isSettled(authority.active)
      /\ authority.previous # NoVersion => isSettled(authority.previous)
      /\ operation.phase = "prepared" => isSettled(operation.candidate)
  BY <1>1 DEF AuthoritySettled
<1>5. \A v \in Versions : isSettled(v) => isSettled(v)'
  BY DEF ReadersKept
<1>6. ASSUME authority'.active = authority.active,
             authority'.previous = authority.previous, operation' = operation
      PROVE  AuthoritySettled'
  BY <1>2, <1>3, <1>4, <1>5, <1>6 DEF AuthoritySettled
<1>7. CASE UNCHANGED <<durable, history>>
  BY <1>6, <1>7 DEF durable
<1>8. CASE authority.cutoverState = "uninitialized"
  <2>1. CASE authority' = authority
    <3>1. operation' = operation
      BY <1>1, <1>8, <2>1, AuthoritySteps
         DEF SequencerCall, durable, SeedCutover, ActivateCutover, CommitGenesis,
             PrepareCandidate, FinalizeCandidate, SequencedAdmitted, isMutableState
    <3>. QED BY <1>6, <2>1, <3>1
  <2>2. CASE /\ authority'.active = NoVersion /\ authority'.previous = NoVersion
             /\ operation' = operation
    BY <1>3, <1>4, <1>5, <2>2 DEF AuthoritySettled
  <2>3. ASSUME NEW f \in approved, NEW s \in stagedSeeds(f), SeedCutover(s)
        PROVE  AuthoritySettled'
    <3>1. /\ s.active = CheckpointOf[f].active
          /\ s.previous \in {NoVersion, CheckpointOf[f].previous}
      BY <1>1, StagedFacts
    <3>2. /\ authority'.active = s.active /\ authority'.previous = s.previous
          /\ operation' = operation
      BY <1>1, <2>3 DEF SeedCutover, TypeOK
    <3>3. /\ s.active \in Versions /\ isSettled(s.active)
          /\ s.previous \in Versions \union {NoVersion}
          /\ s.previous # NoVersion => isSettled(s.previous)
      BY <1>1, <3>1, CheckpointFacts DEF ApprovalsHold
    <3>. QED BY <1>3, <1>4, <1>5, <3>2, <3>3 DEF AuthoritySettled
  <2>. QED BY <1>8, <2>1, <2>2, <2>3, EntrySteps
<1>9. ASSUME NEW o \in Operators, SequencerCall(o),
              authority.cutoverState # "uninitialized"
       PROVE  AuthoritySettled'
  <2>1. authority' = [authority EXCEPT !.cutoverState = "active"]
        /\ operation' = operation
    BY <1>9 DEF SequencerCall, SeedCutover, ActivateCutover, CommitGenesis
  <2>2. authority'.active = authority.active /\ authority'.previous = authority.previous
    BY <1>1, <2>1 DEF TypeOK
  <2>. QED BY <1>6, <2>1, <2>2
<1>10. ASSUME NEW m \in Candidates, NEW t \in Publishing, PrepareCandidate(m, t)
       PROVE  AuthoritySettled'
  <2> DEFINE v == candidateVersionForEpoch(authority.lastEpoch + 1)
  <2>1. /\ v \in AllocatedVersions
        /\ \A u \in Versions : u = v => isSettled(u)'
    BY <1>10, CandidateFacts
  <2>2. /\ authority' = [authority EXCEPT !.lastEpoch = authority.lastEpoch + 1]
        /\ operation'.candidate = v
    BY <1>10 DEF PrepareCandidate, Prepare
  <2> HIDE DEF v
  <2>3. authority'.active = authority.active /\ authority'.previous = authority.previous
    BY <1>1, <2>2 DEF TypeOK
  <2>4. v \in Versions
    BY <2>1 DEF Versions
  <2>. QED BY <1>2, <1>4, <1>5, <2>1, <2>2, <2>3, <2>4 DEF AuthoritySettled
<1>11. ASSUME NEW t \in Publishing, FinalizeCandidate(t)
       PROVE  AuthoritySettled'
  <2>1. /\ operation # NoOperation /\ operation.phase = "prepared"
        /\ authority' = [authority EXCEPT
             !.cutoverState = "active", !.active = operation.candidate,
             !.previous = authority.active, !.ordering = operation.ordering,
             !.floor = highestInstant(prepared)]
        /\ operation' = [operation EXCEPT
              !.phase = "committed",
              !.result = [active |-> operation.candidate,
                          previous |-> authority.active]]
    BY <1>11, FinalizeAdmits DEF FinalizeCandidate, Finalize, committedAuthority
  <2>2. /\ authority'.active = operation.candidate
        /\ authority'.previous = authority.active
    BY <1>1, <2>1 DEF TypeOK
  <2>3. operation'.phase = "committed"
    BY <1>1, <2>1 DEF TypeOK, Operations
  <2>. QED BY <1>2, <1>3, <1>4, <1>5, <2>1, <2>2, <2>3 DEF AuthoritySettled
<1>. QED BY <1>7, <1>8, <1>9, <1>10, <1>11, AuthoritySteps

(* A command that is a purge moves no pointer, and none other is admitted
   while a control is set. *)
LEMMA PurgesOnly ==
  ASSUME PublisherInv, LegacyCommand, deployed.control # "disabled",
         command.pc = "idle" \/ command.kind = "purge"
  PROVE  /\ kv' = kv
         /\ command'.pc = "idle" \/ command'.kind = "purge"
<1>1. command.pc \in {"idle", "purge"} /\ Quiet.pc = "idle"
  BY QuietFacts DEF PublisherInv, CommandCoherent
<1>2. CASE BeginPurge
  <2>1. CASE command' = Quiet
    BY <1>1, <1>2, <2>1 DEF BeginPurge
  <2>2. CASE command' = [Quiet EXCEPT !.pc = "purge", !.kind = "purge",
             !.version = kv.active, !.invalidated = kv.inventory[kv.active],
             !.served = servedBy(kv.active, FALSE)]
    BY <1>2, <2>2 DEF BeginPurge, Quiet
  <2>. QED BY <1>2, <2>1, <2>2 DEF BeginPurge, Refuse
<1>3. CASE RunCommand
  BY <1>1, <1>3
     DEF RunCommand, WriteDocument, WriteInventory, Assess, SetCurrentSeason,
         SetActive, DeleteUnpublishedVersion, MaintainPreviousPointer,
         PurgeRoutes, StopPublisher
<1>. QED BY <1>2, <1>3 DEF LegacyCommand, LegacyAdmitted

LEMMA ApprovalSteps ==
  ASSUME CutoverInv, CutoverNext, SeasonKept, ReleasedStates', ReadersKept
  PROVE  ApprovalsHold'
<1>1. /\ TypeOK /\ ApprovalsHold /\ PublisherInv /\ approved \subseteq SeedFingerprints
      /\ ReleasedStates /\ PointersSettled /\ kv \in KvStates
      /\ authority.cutoverState \in CutoverStates
  BY AuthorityFacts DEF CutoverInv, CutoverTypeOK, SequencerInv, PublisherInv,
                        PublisherTypeOK
<1>2. approved \subseteq approved'
  BY ApprovalsGrow
<1>3. \A v \in Versions : isSettled(v) => isSettled(v)'
  BY DEF ReadersKept
<1>4. authority'.fingerprint \in SeedFingerprints => authority'.fingerprint \in approved'
  <2>1. CASE authority.cutoverState # "uninitialized"
    BY <1>1, <1>2, <2>1 DEF SeasonKept, ApprovalsHold
  <2>2. CASE authority.cutoverState = "uninitialized"
    <3>1. CASE authority' = authority
      BY <1>1, <1>2, <3>1 DEF ApprovalsHold
    <3>2. CASE authority'.fingerprint = GenesisOf
      BY <3>2, FingerprintFacts
    <3>3. ASSUME NEW f \in approved, NEW s \in stagedSeeds(f), committedSeed' = s
          PROVE  authority'.fingerprint \in approved'
      <4>1. s.fingerprint = f
        BY <1>1, StagedFacts
      <4>2. committedSeed'.fingerprint = authority'.fingerprint
        BY DEF committedSeed
      <4>. QED BY <1>2, <3>3, <4>1, <4>2
    <3>. QED BY <2>2, <3>1, <3>2, <3>3, EntrySteps
  <2>. QED BY <2>1, <2>2
<1>5. ASSUME NEW f \in approved'
      PROVE  /\ isSettled(CheckpointOf[f].active)'
             /\ (CheckpointOf[f].previous # NoVersion => isSettled(CheckpointOf[f].previous))'
  <2>1. CASE f \in approved
    <3>1. f \in SeedFingerprints
      BY <1>1, <2>1
    <3>2. /\ isSettled(CheckpointOf[f].active)
          /\ CheckpointOf[f].previous # NoVersion => isSettled(CheckpointOf[f].previous)
      BY <1>1, <2>1 DEF ApprovalsHold
    <3>. QED BY <1>3, <3>1, <3>2, CheckpointFacts
  <2>2. CASE f \notin approved
    <3>1. \E g \in SeedFingerprints : ApproveCheckpoint(g) /\ f = g
      BY <1>5, <2>2 DEF CutoverNext, Deploy, ApproveCheckpoint, LegacyCommand,
                        PrepareCandidate, FinalizeCandidate, SequencedMaintain
    <3>2. /\ f \in SeedFingerprints
          /\ CheckpointOf[f].active = kv.active /\ CheckpointOf[f].previous = kv.previous
      BY <3>1 DEF ApproveCheckpoint
    <3>3. /\ isSettled(CheckpointOf[f].active)
          /\ CheckpointOf[f].previous # NoVersion => isSettled(CheckpointOf[f].previous)
      BY <1>1, <3>2, CheckpointFacts DEF PointersSettled
    <3>. QED BY <1>3, <3>2, <3>3, CheckpointFacts
  <2>. QED BY <2>1, <2>2
<1> DEFINE Held ==
             /\ deployed'.control # "disabled"
             /\ ~late' =>
                  /\ command'.pc = "idle" \/ command'.kind = "purge"
                  /\ \A f \in approved' :
                       /\ CheckpointOf[f].active = kv'.active
                       /\ CheckpointOf[f].previous = kv'.previous
<1>6. ASSUME (approved # {} /\ ~isMutableState)'
      PROVE  Held
  <2>1. ~isMutableState
    BY <1>1, <1>6 DEF SeasonKept, isMutableState, CutoverStates
  <2>2. ASSUME UNCHANGED <<deployed, approved, late>>
        PROVE  /\ approved # {}
               /\ deployed'.control # "disabled" /\ deployed.control # "disabled"
               /\ ~late' =>
                    /\ command.pc = "idle" \/ command.kind = "purge"
                    /\ \A f \in approved :
                         /\ CheckpointOf[f].active = kv.active
                         /\ CheckpointOf[f].previous = kv.previous
    BY <1>1, <1>6, <2>1, <2>2 DEF ApprovalsHold
  <2>3. ASSUME UNCHANGED <<deployed, approved, late>>, command' = command,
               kv'.active = kv.active, kv'.previous = kv.previous
        PROVE  Held
    BY <2>2, <2>3
  <2>4. ASSUME NEW next, Deploy(next)
        PROVE  Held
    BY <1>1, <1>6, <2>1, <2>4 DEF Deploy, PublisherIdles, ApprovalsHold
  <2>5. ASSUME NEW f \in SeedFingerprints, ApproveCheckpoint(f)
        PROVE  Held
    <3>1. /\ deployed' = deployed /\ deployed.control = "seed"
          /\ CheckpointOf[f].active = kv.active /\ CheckpointOf[f].previous = kv.previous
          /\ approved' = approved \union {f}
          /\ late' = (late \/ command.pc # "idle")
          /\ kv' = kv /\ command' = command
      BY <2>5 DEF ApproveCheckpoint, PublisherIdles
    <3>2. ~late' => ~late /\ command.pc = "idle"
      BY <3>1
    <3>3. approved # {} /\ ~late =>
            \A g \in approved : /\ CheckpointOf[g].active = kv.active
                                /\ CheckpointOf[g].previous = kv.previous
      BY <1>1, <2>1 DEF ApprovalsHold
    <3>. QED BY <3>1, <3>2, <3>3
  <2>6. CASE LegacyCommand
    <3>1. UNCHANGED <<deployed, approved, late>>
      BY <2>6 DEF LegacyCommand
    <3>. QED BY <1>1, <2>2, <2>6, <3>1, PurgesOnly
  <2>7. CASE SequencedMaintain
    <3>1. /\ UNCHANGED <<deployed, approved, late>> /\ command' = command
          /\ kv'.active = kv.active /\ kv'.previous = kv.previous
      BY <1>1, <2>7
         DEF SequencedMaintain, CompleteCommitted, StopMaintenance,
             PurgeActiveVersion, KvStates
    <3>. QED BY <2>3, <3>1
  <2>8. ASSUME PublisherIdles, UNCHANGED <<deployed, approved, late>>
        PROVE  Held
    BY <2>3, <2>8 DEF PublisherIdles
  <2>. QED BY <2>1, <2>4, <2>5, <2>6, <2>7, <2>8
       DEF CutoverNext, PrepareCandidate, FinalizeCandidate, SequencedAdmitted
<1>. QED BY <1>4, <1>5, <1>6 DEF ApprovalsHold

-----------------------------------------------------------------------------
(* The requests *)

(* A request moves to where its facts hold, and what it answers is so. *)
RequestMoved(o) ==
  \E r \in Requests :
    request' = [request EXCEPT ![o] = r] /\ requestCoherent(r)'

ReceiptSound == receipt' \in Receipts /\ ReceiptsHold' /\ IdenticalSeedsAgree'

LEMMA StagedConstant ==
  \A f : stagedSeeds(f)' = stagedSeeds(f)
BY DEF stagedSeeds, stagedSeed, migratedFloor

LEMMA RequestFacts ==
  ASSUME NEW r \in Requests
  PROVE  /\ r.pc \in {"idle"} \union Stages
         /\ r.fingerprint \in SeedFingerprints \union {NoFingerprint}
         /\ r.seed \in Seeds \union {NoSeed}
         /\ r.seed.active \in Versions \union {NoVersion}
         /\ r.seed.previous \in Versions \union {NoVersion}
         /\ r.recovered \in BOOLEAN
         /\ r.expected \in {"none", "seeded", "active"}
         /\ r.active \in Versions \union {NoVersion}
         /\ r.previous \in Versions \union {NoVersion}
<1>1. r.seed \in Seeds \union {NoSeed}
  BY DEF Requests
<1>2. /\ r.seed.active \in Versions \union {NoVersion}
      /\ r.seed.previous \in Versions \union {NoVersion}
  BY <1>1, SeedAssumption DEF SeedAssumption, NoSeed, Versions
<1>. QED BY <1>1, <1>2 DEF Requests

LEMMA RestFacts ==
  /\ Resting \in Requests /\ Resting.pc = "idle"
  /\ Resting.fingerprint = NoFingerprint /\ Resting.recovered = FALSE
  /\ requestCoherent(Resting)'
  /\ NoReceipt \in Receipts /\ NoReceipt.outcome = "none"
BY DEF Resting, Requests, requestCoherent, NoReceipt, Receipts

(* What a request relies on stays so until it makes its next call. *)
LEMMA CoherenceKept ==
  ASSUME NEW r \in Requests, requestCoherent(r), ReleasedStates, SeasonKept,
         SequencerInv', approved \subseteq SeedFingerprints,
         approved \subseteq approved', authority.cutoverState \in CutoverStates
  PROVE  requestCoherent(r)'
<1>1. ASSUME authority.fingerprint = r.fingerprint, r.fingerprint \in approved
      PROVE  /\ authority'.fingerprint = r.fingerprint
             /\ commitEpochs' = {} => committedSeed' = committedSeed /\ commitEpochs = {}
  BY <1>1, FingerprintFacts DEF ReleasedStates, SeasonKept
<1>2. ASSUME authority.cutoverState \in {"seeded", "active"},
             authority'.cutoverState = "seeded", authority.fingerprint = r.fingerprint,
             r.fingerprint \in approved
      PROVE  /\ authority.cutoverState = "seeded"
             /\ authority'.active = authority.active
             /\ authority'.previous = authority.previous
  <2>1. commitEpochs' = {}
    BY <1>2 DEF SequencerInv, Dormant
  <2>2. committedSeed' = committedSeed
    BY <1>1, <1>2, <2>1
  <2>3. /\ committedSeed'.active = authority'.active
        /\ committedSeed'.previous = authority'.previous
        /\ committedSeed.active = authority.active
        /\ committedSeed.previous = authority.previous
    BY DEF committedSeed
  <2>. QED BY <1>2, <2>2, <2>3 DEF SeasonKept
<1>3. r.pc = "present" => (r.seed \in stagedSeeds(r.fingerprint))'
  BY StagedConstant DEF requestCoherent
<1>4. (r.pc = "present" /\ r.recovered =>
        /\ authority.fingerprint = r.fingerprint
        /\ commitEpochs = {} => r.seed = committedSeed)'
  BY <1>1 DEF requestCoherent
<1>5. (r.pc = "activate" =>
        /\ authority.cutoverState \in {"seeded", "active"}
        /\ authority.fingerprint = r.fingerprint
        /\ authority.cutoverState = "seeded" =>
             r.active = authority.active /\ r.previous = authority.previous)'
  BY <1>1, <1>2 DEF requestCoherent, SeasonKept
<1>. QED BY <1>3, <1>4, <1>5 DEF requestCoherent

LEMMA ReceiptForgotten ==
  ASSUME receipt' = NoReceipt
  PROVE  ReceiptSound
BY RestFacts
   DEF ReceiptSound, ReceiptsHold, IdenticalSeedsAgree, Successes, Conflicts

LEMMA ProceedMoves ==
  ASSUME NEW o \in Operators, NEW r \in Requests, requestCoherent(r)', Proceed(o, r)
  PROVE  RequestMoved(o) /\ ReceiptSound
BY ReceiptForgotten DEF Proceed, RequestMoved

LEMMA FailMoves ==
  ASSUME NEW o \in Operators, Fail(o)
  PROVE  RequestMoved(o) /\ ReceiptSound
BY RestFacts, ReceiptForgotten DEF Fail, Proceed, RequestMoved

LEMMA FinishMoves ==
  ASSUME NEW o \in Operators, NEW outcome \in Successes \union Conflicts,
         NEW a \in Versions \union {NoVersion}, NEW b \in Versions \union {NoVersion},
         request[o] \in Requests, Finish(o, outcome, a, b),
         outcome \in Successes =>
           authority'.fingerprint = IF request[o].fingerprint = NoFingerprint
                                      THEN GenesisOf ELSE request[o].fingerprint,
         outcome = "activated" =>
           /\ authority'.cutoverState = "active"
           /\ a = authority'.active /\ b = authority'.previous,
         outcome \in Conflicts =>
           authority'.fingerprint # request[o].fingerprint \/ commitEpochs' # {}
  PROVE  RequestMoved(o) /\ ReceiptSound
<1>1. RequestMoved(o)
  BY RestFacts DEF Finish, RequestMoved
<1>2. PICK f \in SeedFingerprints \union {NoFingerprint} : f = request[o].fingerprint
  BY RequestFacts
<1>3. receipt' = [outcome |-> outcome, fingerprint |-> f, active |-> a, previous |-> b]
  BY <1>2 DEF Finish
<1>4. /\ receipt' \in Receipts /\ receipt'.outcome = outcome
      /\ receipt'.fingerprint = f /\ receipt'.active = a /\ receipt'.previous = b
  BY <1>3 DEF Receipts
<1>. QED BY <1>1, <1>2, <1>4 DEF ReceiptSound, ReceiptsHold, IdenticalSeedsAgree

(* What every request may rely on when it makes a step. *)
RequestFrame ==
  /\ CutoverInv /\ SeasonKept /\ SequencerInv' /\ ReleasedStates'
  /\ approved' = approved

LEMMA FrameFacts ==
  ASSUME RequestFrame, NEW o \in Operators
  PROVE  /\ request[o] \in Requests /\ requestCoherent(request[o])
         /\ approved \subseteq SeedFingerprints /\ approved \subseteq approved'
         /\ TypeOK /\ ReleasedStates /\ CommittedSeedStaged
         /\ SeasonKept /\ SequencerInv' /\ approved' = approved
         /\ authority.cutoverState \in CutoverStates
<1>1. \E r \in Requests : request[o] = r /\ requestCoherent(r)
  BY DEF RequestFrame, CutoverInv, RequestCoherent
<1>. QED
  BY <1>1, AuthorityFacts DEF RequestFrame, CutoverInv, CutoverTypeOK, SequencerInv

LEMMA StartSeedMoves ==
  ASSUME RequestFrame, NEW o \in Operators, NEW f \in SeedFingerprints,
         StartSeed(o, f)
  PROVE  RequestMoved(o) /\ ReceiptSound
<1>1. f \in approved' /\ Proceed(o, [Resting EXCEPT !.pc = "recover", !.fingerprint = f])
  BY FrameFacts DEF StartSeed
<1>2. PICK r : r = [Resting EXCEPT !.pc = "recover", !.fingerprint = f]
  OBVIOUS
<1>3. /\ r \in Requests /\ r.pc = "recover" /\ r.fingerprint = f
      /\ r.recovered = FALSE
  BY <1>2 DEF Resting, Requests, Stages
<1>4. requestCoherent(r)'
  BY <1>1, <1>3 DEF requestCoherent
<1>. QED BY <1>1, <1>2, <1>3, <1>4, ProceedMoves

(* A committed record that the checkpoint does not describe has been published
   upon, and one that it does is the seed some request staged. *)
LEMMA DescribedSeed ==
  ASSUME RequestFrame, NEW f \in approved, authority.fingerprint = f
  PROVE  seedDescribesCheckpoint(f) <=> commitEpochs = {}
<1>1. /\ f \in SeedFingerprints /\ ReleasedStates /\ CommittedSeedStaged
  BY DEF RequestFrame, CutoverInv, CutoverTypeOK
<1>2. ASSUME commitEpochs = {} PROVE seedDescribesCheckpoint(f)
  <2>1. committedSeed \in stagedSeeds(f)
    BY <1>1, <1>2 DEF CommittedSeedStaged
  <2>2. /\ committedSeed.active = CheckpointOf[f].active
        /\ committedSeed.previous \in {NoVersion, CheckpointOf[f].previous}
        /\ CheckpointOf[f].bound <= committedSeed.floor
    BY <1>1, <2>1, StagedFacts
  <2>. QED BY <2>2 DEF committedSeed, seedDescribesCheckpoint
<1>3. ASSUME commitEpochs # {} PROVE ~seedDescribesCheckpoint(f)
  <2>1. authority.active \in AllocatedVersions
    BY <1>1, <1>3 DEF ReleasedStates
  <2>2. CheckpointOf[f].active \in LegacyVersions
    BY <1>1, CheckpointFacts
  <2>. QED BY <2>1, <2>2, VersionFacts DEF seedDescribesCheckpoint
<1>. QED BY <1>2, <1>3

LEMMA RecoverMoves ==
  ASSUME RequestFrame, NEW o \in Operators, Recover(o), UNCHANGED <<durable, history>>
  PROVE  RequestMoved(o) /\ ReceiptSound
<1> DEFINE f == request[o].fingerprint
<1>1. /\ request[o] \in Requests /\ requestCoherent(request[o])
      /\ f \in approved /\ f \in SeedFingerprints /\ f # NoFingerprint
      /\ request[o].pc \in {"recover", "settle"} /\ request[o].recovered = FALSE
      /\ approved' = approved
  BY FrameFacts, FingerprintFacts, RequestFacts DEF Recover, requestCoherent
<1>2. CASE Fail(o)
  BY <1>2, FailMoves
<1>3. CASE Go(o, "stage")
  <2>1. PICK r : r = [request[o] EXCEPT !.pc = "stage"]
    OBVIOUS
  <2>2. /\ r \in Requests /\ r.pc = "stage" /\ r.fingerprint = f
        /\ r.recovered = FALSE
    BY <1>1, <2>1 DEF Requests, Stages
  <2>3. requestCoherent(r)'
    BY <1>1, <2>2 DEF requestCoherent
  <2>. QED BY <1>3, <2>1, <2>2, <2>3, ProceedMoves DEF Go
<1>4. CASE /\ authority.fingerprint # f
           /\ Finish(o, "conflicting-cutover-seed", NoVersion, NoVersion)
  BY <1>1, <1>4, FinishMoves DEF durable, Conflicts, Successes
<1>5. CASE /\ authority.cutoverState # "uninitialized"
           /\ authority.fingerprint = f
           /\ Proceed(o, [request[o] EXCEPT !.pc = "present",
                            !.seed = committedSeed, !.recovered = TRUE])
           /\ seedDescribesCheckpoint(f)
  <2>1. commitEpochs = {} /\ committedSeed \in stagedSeeds(f)
    BY <1>1, <1>5, DescribedSeed, FrameFacts DEF CommittedSeedStaged
  <2>2. PICK seed \in stagedSeeds(f) : seed = committedSeed
    BY <2>1
  <2>3. seed \in Seeds
    BY <1>1, StagedFacts
  <2>4. PICK r : r = [request[o] EXCEPT !.pc = "present", !.seed = seed,
                                        !.recovered = TRUE]
    OBVIOUS
  <2>5. PICK g \in SeedFingerprints : g = f
    BY <1>1
  <2>6. /\ r \in Requests /\ r.pc = "present" /\ r.fingerprint = g
        /\ r.seed = seed /\ r.recovered = TRUE
    BY <1>1, <2>3, <2>4, <2>5 DEF Requests, Stages
  <2>7. (r.seed \in stagedSeeds(r.fingerprint))'
    BY <2>2, <2>5, <2>6, StagedConstant
  <2>8. committedSeed' = seed /\ authority' = authority /\ commitEpochs' = commitEpochs
    BY <2>2 DEF committedSeed, durable, history
  <2>9. requestCoherent(r)'
    BY <1>1, <1>5, <2>5, <2>6, <2>7, <2>8 DEF requestCoherent
  <2>. QED BY <1>5, <2>2, <2>4, <2>6, <2>9, ProceedMoves
<1>6. CASE /\ authority.fingerprint = f
           /\ Finish(o, "committed-seed-incoherent", NoVersion, NoVersion)
           /\ ~seedDescribesCheckpoint(f)
  <2>1. commitEpochs' # {}
    BY <1>1, <1>6, DescribedSeed DEF history
  <2>. QED BY <1>1, <1>6, <2>1, FinishMoves DEF Conflicts, Successes
<1>. QED BY <1>2, <1>3, <1>4, <1>5, <1>6 DEF Recover

LEMMA StageMoves ==
  ASSUME RequestFrame, NEW o \in Operators, NEW t \in Readings,
         StageFreshSeed(o, t)
  PROVE  RequestMoved(o) /\ ReceiptSound
<1>1. CASE Fail(o)
  BY <1>1, FailMoves
<1>2. CASE ~Fail(o)
  <2>1. PICK f \in approved : request[o].fingerprint = f /\ f \in SeedFingerprints
    BY FrameFacts DEF StageFreshSeed, requestCoherent
  <2>2. PICK imported \in {NoVersion, CheckpointOf[f].previous} :
          /\ t \in Instants
          /\ Proceed(o, [request[o] EXCEPT !.pc = "present",
                           !.seed = stagedSeed(f, imported, t)])
    BY <1>2, <2>1 DEF StageFreshSeed
  <2>3. PICK seed \in stagedSeeds(f) : seed = stagedSeed(f, imported, t)
    BY <2>2 DEF stagedSeeds
  <2>4. seed \in Seeds
    BY <2>1, StagedFacts
  <2>5. /\ request[o] \in Requests /\ request[o].recovered = FALSE
        /\ approved' = approved
    BY FrameFacts, RequestFacts DEF StageFreshSeed, requestCoherent
  <2>6. PICK r : r = [request[o] EXCEPT !.pc = "present", !.seed = seed]
    OBVIOUS
  <2>7. /\ r \in Requests /\ r.pc = "present" /\ r.fingerprint = f
        /\ r.seed = seed /\ r.recovered = FALSE
    BY <2>1, <2>4, <2>5, <2>6 DEF Requests, Stages
  <2>8. (r.seed \in stagedSeeds(r.fingerprint))'
    BY <2>3, <2>7, StagedConstant
  <2>9. requestCoherent(r)'
    BY <2>5, <2>7, <2>8 DEF requestCoherent
  <2>. QED BY <2>2, <2>3, <2>6, <2>7, <2>9, ProceedMoves
<1>. QED BY <1>1, <1>2

LEMMA PresentMoves ==
  ASSUME RequestFrame, NEW o \in Operators, Present(o)
  PROVE  RequestMoved(o) /\ ReceiptSound
<1> DEFINE f == request[o].fingerprint
           seed == request[o].seed
           confirming(outcome) ==
             [request[o] EXCEPT !.pc = "confirm", !.expected =
                IF outcome = "already-active" THEN "active" ELSE "seeded"]
<1>1. /\ request[o] \in Requests /\ requestCoherent(request[o])
      /\ request[o].pc = "present"
      /\ f \in approved /\ f \in SeedFingerprints /\ f # NoFingerprint
      /\ approved' = approved
  BY FrameFacts, FingerprintFacts DEF Present, requestCoherent
<1>2. CASE Fail(o)
  BY <1>2, FailMoves
<1>3. CASE Proceed(o, confirming(SeedAnswer(seed)))
  <2>1. PICK r : r = confirming(SeedAnswer(seed))
    OBVIOUS
  <2>2. /\ r \in Requests /\ r.pc = "confirm" /\ r.fingerprint = f
    BY <1>1, <2>1 DEF Requests, Stages
  <2>3. requestCoherent(r)'
    BY <1>1, <2>2 DEF requestCoherent
  <2>. QED BY <1>3, <2>1, <2>2, <2>3, ProceedMoves
<1>4. CASE /\ SeedAnswer(seed) = "conflicting-cutover-seed"
           /\ UNCHANGED <<durable, history>>
           /\ IF request[o].recovered
                THEN Finish(o, SeedAnswer(seed), NoVersion, NoVersion)
                ELSE Proceed(o, [request[o] EXCEPT !.pc = "settle", !.seed = NoSeed])
  <2>1. CASE request[o].recovered
    <3>1. seed # committedSeed
      BY <1>4 DEF SeedAnswer
    <3>2. commitEpochs' # {}
      BY <1>1, <1>4, <2>1, <3>1 DEF requestCoherent, history
    <3>3. Finish(o, "conflicting-cutover-seed", NoVersion, NoVersion)
      BY <1>4, <2>1
    <3>. QED BY <1>1, <3>2, <3>3, FinishMoves DEF Conflicts, Successes
  <2>2. CASE ~request[o].recovered
    <3>1. PICK r : r = [request[o] EXCEPT !.pc = "settle", !.seed = NoSeed]
      OBVIOUS
    <3>2. request[o].recovered = FALSE
      BY <1>1, <2>2, RequestFacts
    <3>3. /\ r \in Requests /\ r.pc = "settle" /\ r.fingerprint = f
          /\ r.recovered = FALSE
      BY <1>1, <3>1, <3>2 DEF Requests, Stages
    <3>4. requestCoherent(r)'
      BY <1>1, <3>3 DEF requestCoherent
    <3>. QED BY <1>4, <2>2, <3>1, <3>3, <3>4, ProceedMoves
  <2>. QED BY <2>1, <2>2
<1>. QED BY <1>2, <1>3, <1>4 DEF Present

LEMMA ConfirmMoves ==
  ASSUME RequestFrame, NEW o \in Operators, ConfirmSeed(o),
         UNCHANGED <<durable, history>>
  PROVE  RequestMoved(o) /\ ReceiptSound
<1>1. CASE Fail(o)
  BY <1>1, FailMoves
<1>2. CASE ~Fail(o)
  <2>1. /\ request[o] \in Requests /\ request[o].fingerprint \in SeedFingerprints
        /\ request[o].fingerprint # NoFingerprint
        /\ authority.fingerprint = request[o].fingerprint
    BY <1>2, FrameFacts, FingerprintFacts
       DEF ConfirmSeed, requestCoherent, confirmSeededAuthority
  <2>2. PICK a \in Versions \union {NoVersion}, b \in Versions \union {NoVersion},
             outcome \in {"already-active", "seeded"} :
          Finish(o, outcome, a, b)
    BY <1>2, <2>1, RequestFacts DEF ConfirmSeed
  <2>. QED BY <2>1, <2>2, FinishMoves DEF Successes, Conflicts, durable
<1>. QED BY <1>1, <1>2

LEMMA StartActivateMoves ==
  ASSUME RequestFrame, NEW o \in Operators, NEW f \in SeedFingerprints,
         StartActivate(o, f), UNCHANGED <<durable, history>>
  PROVE  RequestMoved(o) /\ ReceiptSound
<1>1. /\ f \in approved' /\ authority' = authority
      /\ authority.cutoverState \in {"seeded", "active"} /\ authority.fingerprint = f
  BY FrameFacts DEF StartActivate, durable
<1>2. PICK a \in Versions \union {NoVersion}, b \in Versions \union {NoVersion} :
        a = authority.active /\ b = authority.previous
  BY FrameFacts, AuthorityFacts
<1>3. PICK r : r = [Resting EXCEPT !.pc = "activate", !.fingerprint = f,
                      !.active = a, !.previous = b]
  OBVIOUS
<1>4. Proceed(o, r)
  BY <1>2, <1>3 DEF StartActivate
<1>5. /\ r \in Requests /\ r.pc = "activate" /\ r.fingerprint = f
      /\ r.active = a /\ r.previous = b /\ r.recovered = FALSE
  BY <1>3 DEF Resting, Requests, Stages
<1>6. requestCoherent(r)'
  BY <1>1, <1>2, <1>5 DEF requestCoherent
<1>. QED BY <1>4, <1>5, <1>6, ProceedMoves

LEMMA ActivateMoves ==
  ASSUME RequestFrame, NEW o \in Operators, Activate(o)
  PROVE  RequestMoved(o) /\ ReceiptSound
<1> DEFINE f == request[o].fingerprint
<1>1. /\ request[o] \in Requests /\ requestCoherent(request[o])
      /\ request[o].pc = "activate"
      /\ f \in SeedFingerprints /\ f # NoFingerprint
      /\ authority.fingerprint = f
      /\ authority.cutoverState = "seeded" =>
           request[o].active = authority.active /\ request[o].previous = authority.previous
      /\ TypeOK
  BY FrameFacts, FingerprintFacts DEF Activate, requestCoherent
<1>2. PICK a \in Versions \union {NoVersion}, b \in Versions \union {NoVersion} :
        a = request[o].active /\ b = request[o].previous
  BY <1>1, RequestFacts
<1>3. CASE Fail(o)
  BY <1>3, FailMoves
<1>4. CASE ActivateCutover(f) /\ Finish(o, "activated", a, b)
  <2>1. /\ authority.cutoverState = "seeded"
        /\ authority' = [authority EXCEPT !.cutoverState = "active"]
    BY <1>4 DEF ActivateCutover
  <2>2. /\ authority'.cutoverState = "active" /\ authority'.fingerprint = f
        /\ authority'.active = a /\ authority'.previous = b
    BY <1>1, <1>2, <2>1 DEF TypeOK
  <2>. QED BY <1>1, <1>4, <2>2, FinishMoves DEF Successes, Conflicts
<1>5. CASE /\ authority.cutoverState = "active"
           /\ Finish(o, "already-active", a, b)
           /\ UNCHANGED <<durable, history>>
  BY <1>1, <1>5, FinishMoves DEF Successes, Conflicts, durable
<1>. QED BY <1>2, <1>3, <1>4, <1>5 DEF Activate

(* The season is the request's genesis, whoever made it one. *)
LEMMA GenesisMoves ==
  ASSUME RequestFrame, NEW o \in Operators, request[o].fingerprint = NoFingerprint,
         NEW outcome \in {"created", "reconciled", "already-genesis", "already-active"},
         Finish(o, outcome, NoVersion, NoVersion),
         authority'.fingerprint = GenesisOf
  PROVE  RequestMoved(o) /\ ReceiptSound
BY FrameFacts, FinishMoves DEF Successes, Conflicts

LEMMA StartGenesisMoves ==
  ASSUME RequestFrame, NEW o \in Operators, StartGenesis(o),
         UNCHANGED <<durable, history>>
  PROVE  RequestMoved(o) /\ ReceiptSound
<1>1. CASE Proceed(o, [Resting EXCEPT !.pc = "legacy"])
  <2>1. PICK r : r = [Resting EXCEPT !.pc = "legacy"]
    OBVIOUS
  <2>2. /\ r \in Requests /\ r.pc = "legacy" /\ r.fingerprint = NoFingerprint
        /\ r.recovered = FALSE
    BY <2>1 DEF Resting, Requests, Stages
  <2>3. requestCoherent(r)'
    BY <2>2 DEF requestCoherent
  <2>. QED BY <1>1, <2>1, <2>2, <2>3, ProceedMoves
<1>2. CASE existingGenesis /\ Finish(o, genesisOutcome, NoVersion, NoVersion)
  <2>1. request[o].fingerprint = NoFingerprint
    BY FrameFacts, RestFacts DEF StartGenesis, requestCoherent
  <2>2. PICK outcome \in {"already-genesis", "already-active"} :
          Finish(o, outcome, NoVersion, NoVersion)
    BY <1>2 DEF genesisOutcome
  <2>3. authority'.fingerprint = GenesisOf
    BY <1>2 DEF existingGenesis, durable
  <2>. QED BY <2>1, <2>2, <2>3, GenesisMoves
<1>. QED BY <1>1, <1>2 DEF StartGenesis

(* A genesis request that goes on. *)
LEMMA GenesisGoes ==
  ASSUME RequestFrame, NEW o \in Operators, NEW pc \in {"commit", "reconcile"},
         request[o].fingerprint = NoFingerprint, request[o].recovered = FALSE,
         Go(o, pc)
  PROVE  RequestMoved(o) /\ ReceiptSound
<1>1. PICK r : r = [request[o] EXCEPT !.pc = pc]
  OBVIOUS
<1>2. /\ r \in Requests /\ r.pc = pc /\ r.fingerprint = NoFingerprint
      /\ r.recovered = FALSE
  BY <1>1, FrameFacts DEF Requests, Stages
<1>3. requestCoherent(r)'
  BY <1>2 DEF requestCoherent
<1>. QED BY <1>1, <1>2, <1>3, ProceedMoves DEF Go

LEMMA CommitGenesisMoves ==
  ASSUME RequestFrame, NEW o \in Operators, CallCommitGenesis(o)
  PROVE  RequestMoved(o) /\ ReceiptSound
<1>1. /\ request[o].fingerprint = NoFingerprint /\ request[o].recovered = FALSE
      /\ TypeOK
  BY FrameFacts, RequestFacts DEF CallCommitGenesis, requestCoherent
<1>2. CASE Fail(o)
  BY <1>2, FailMoves
<1>3. CASE Go(o, "reconcile")
  BY <1>1, <1>3, GenesisGoes
<1>4. CASE CommitGenesis(GenesisOf) /\ Finish(o, "created", NoVersion, NoVersion)
  <2>1. authority'.fingerprint = GenesisOf
    BY <1>1, <1>4 DEF CommitGenesis, TypeOK
  <2>. QED BY <1>1, <1>4, <2>1, GenesisMoves
<1>5. CASE /\ existingGenesis /\ Finish(o, genesisOutcome, NoVersion, NoVersion)
           /\ UNCHANGED <<durable, history>>
  <2>1. PICK outcome \in {"already-genesis", "already-active"} :
          Finish(o, outcome, NoVersion, NoVersion)
    BY <1>5 DEF genesisOutcome
  <2>2. authority'.fingerprint = GenesisOf
    BY <1>5 DEF existingGenesis, durable
  <2>. QED BY <1>1, <2>1, <2>2, GenesisMoves
<1>. QED BY <1>2, <1>3, <1>4, <1>5 DEF CallCommitGenesis

LEMMA ReadingMoves ==
  ASSUME RequestFrame, NEW o \in Operators, ReadingStep(o)
  PROVE  RequestMoved(o) /\ ReceiptSound
<1>1. UNCHANGED <<durable, history>>
  BY DEF ReadingStep
<1>2. CASE ReadLegacyRelease(o)
  <2>1. request[o].fingerprint = NoFingerprint /\ request[o].recovered = FALSE
    BY <1>2, FrameFacts, RequestFacts DEF ReadLegacyRelease, requestCoherent
  <2>. QED BY <1>2, <2>1, FailMoves, GenesisGoes DEF ReadLegacyRelease
<1>3. CASE ReconcileGenesis(o)
  <2>1. CASE Fail(o)
    BY <2>1, FailMoves
  <2>2. CASE existingGenesis /\ Finish(o, "reconciled", NoVersion, NoVersion)
    <3>1. request[o].fingerprint = NoFingerprint /\ authority'.fingerprint = GenesisOf
      BY <1>1, <1>3, <2>2, FrameFacts
         DEF ReconcileGenesis, requestCoherent, existingGenesis, durable
    <3>. QED BY <2>2, <3>1, GenesisMoves
  <2>. QED BY <1>3, <2>1, <2>2 DEF ReconcileGenesis
<1>. QED
  BY <1>1, <1>2, <1>3, StartSeedMoves, StartActivateMoves, RecoverMoves,
     StageMoves, ConfirmMoves, StartGenesisMoves, FailMoves
     DEF ReadingStep

(* No step leaves a request without what it relies on, or answers one falsely. *)
LEMMA RequestSteps ==
  ASSUME CutoverInv, CutoverNext, SeasonKept, SequencerInv', ReleasedStates'
  PROVE  /\ request' \in [Operators -> Requests] /\ RequestCoherent'
         /\ ReceiptSound
<1>1. /\ request \in [Operators -> Requests] /\ RequestCoherent
      /\ ReleasedStates /\ TypeOK
      /\ approved \subseteq SeedFingerprints /\ approved \subseteq approved'
      /\ authority.cutoverState \in CutoverStates
  BY ApprovalsGrow, AuthorityFacts DEF CutoverInv, CutoverTypeOK, SequencerInv
<1>2. ASSUME NEW o \in Operators
      PROVE  \E r \in Requests : request[o] = r /\ requestCoherent(r)'
  BY <1>1, CoherenceKept DEF RequestCoherent
<1>3. CASE NoRequestMoves
  BY <1>1, <1>2, <1>3, ReceiptForgotten DEF NoRequestMoves, RequestCoherent
<1>4. ASSUME NEW o \in Operators,
             ReadingStep(o) \/ Present(o) \/ Activate(o) \/ CallCommitGenesis(o),
             approved' = approved
      PROVE  /\ request' \in [Operators -> Requests] /\ RequestCoherent'
             /\ ReceiptSound
  <2>1. RequestMoved(o) /\ ReceiptSound
    BY <1>4, ReadingMoves, PresentMoves, ActivateMoves, CommitGenesisMoves
       DEF RequestFrame
  <2>2. PICK r \in Requests :
          request' = [request EXCEPT ![o] = r] /\ requestCoherent(r)'
    BY <2>1 DEF RequestMoved
  <2>3. request' \in [Operators -> Requests]
    BY <1>1, <2>2
  <2>4. ASSUME NEW p \in Operators
        PROVE  \E q \in Requests : request'[p] = q /\ requestCoherent(q)'
    BY <1>1, <1>2, <2>2
  <2>. QED BY <2>1, <2>3, <2>4 DEF RequestCoherent
<1>. QED
  BY <1>3, <1>4
     DEF CutoverNext, Deploy, ApproveCheckpoint, LegacyCommand,
         PrepareCandidate, FinalizeCandidate, SequencedMaintain

-----------------------------------------------------------------------------
(* The inductive invariant *)

(* What the legacy publisher left is whole. *)
LEMMA KvBeforeFacts ==
  ASSUME PublisherInit(KvBefore)
  PROVE  PublisherInv
<1>1. /\ kv \in KvBefore /\ kv \in KvStates
      /\ command = Quiet /\ answer = NoAnswer
  BY CutoverAssumption DEF PublisherInit, CutoverAssumption
<1>2. \A v \in LegacyVersions :
        /\ kv.inventory[v] \in {{}, namesOf(v)}
        /\ v \in {kv.active, kv.previous} =>
             kv.inventory[v] # {} /\ kv.inventory[v] \subseteq kv.stored[v]
  BY <1>1, CutoverAssumption DEF CutoverAssumption
<1>3. /\ kv.active \in LegacyVersions \union {NoVersion}
      /\ kv.previous \in LegacyVersions \union {NoVersion}
  BY <1>1, KvFacts
<1>4. \A v : ~isUncommitted(v)
  BY <1>1, QuietFacts DEF isUncommitted
<1>5. PointersSettled /\ InventoriesGenerated
  BY <1>2, <1>3, <1>4 DEF PointersSettled, InventoriesGenerated, isSettled, isWhole
<1>6. CommandCoherent /\ ServedAreOwed /\ AnswerForgotten
  BY <1>1, QuietFacts DEF CommandCoherent, ServedAreOwed, AnswerForgotten
<1>7. PublisherTypeOK /\ AppliedIsActive /\ ReplacedIsPurged
  BY <1>1, QuietFacts DEF PublisherTypeOK, AppliedIsActive, ReplacedIsPurged
<1>. QED BY <1>5, <1>6, <1>7 DEF PublisherInv

LEMMA CutoverInitInv ==
  ASSUME CutoverInit
  PROVE  CutoverInv
<1>1. SequencerInv /\ PublisherInv
  BY InitInv, KvBeforeFacts DEF CutoverInit
<1>2. /\ authority.cutoverState = "uninitialized" /\ authority.active = NoVersion
      /\ authority.previous = NoVersion /\ authority.fingerprint = NoFingerprint
      /\ committed = NoRows /\ commitEpochs = {} /\ operation = NoOperation
  BY DEF CutoverInit, Init
<1>3. ReleasedStates /\ CommittedSeedStaged /\ AuthoritySettled
  BY <1>2, FingerprintFacts, OperationFacts
     DEF ReleasedStates, CommittedSeedStaged, AuthoritySettled
<1>4. MaintenanceTypeOK /\ DutyCoherent
  BY NoDutyFacts DEF CutoverInit, MaintenanceInit, MaintenanceTypeOK, DutyCoherent
<1>5. /\ receipt \in Receipts /\ receipt.outcome = "none"
      /\ ReceiptsHold /\ IdenticalSeedsAgree
  BY RestFacts DEF CutoverInit, ReceiptsHold, IdenticalSeedsAgree, Successes, Conflicts
<1>6. requestCoherent(Resting)
  BY RestFacts DEF requestCoherent
<1>7. request \in [Operators -> Requests] /\ RequestCoherent
  BY <1>6, RestFacts DEF CutoverInit, RequestCoherent
<1>8. ApprovalsHold
  BY <1>2, FingerprintFacts DEF CutoverInit, ApprovalsHold
<1>9. CutoverTypeOK
  BY <1>1, <1>4, <1>5, <1>7 DEF CutoverInit, CutoverTypeOK, PublisherInv
<1>. QED BY <1>1, <1>3, <1>4, <1>5, <1>7, <1>8, <1>9 DEF CutoverInv

LEMMA CutoverStepInv ==
  ASSUME CutoverInv, CutoverNext
  PROVE  /\ CutoverInv' /\ [Next]_vars
         /\ SeasonKept /\ ReadersKept
<1>1. [Next]_vars
  BY SequencerSteps
<1>2. SequencerInv' /\ SeasonKept /\ ReleasedStates'
  BY <1>1, NextInv, SeasonFrame DEF CutoverInv
<1>3. PublisherInv' /\ ReadersKept
  BY PublisherSteps
<1>4. MaintenanceTypeOK' /\ DutyCoherent'
  BY DutySteps
<1>5. CommittedSeedStaged' /\ AuthoritySettled' /\ ApprovalsHold'
  BY <1>2, <1>3, StagedSteps, SettledSteps, ApprovalSteps
<1>6. /\ request' \in [Operators -> Requests] /\ RequestCoherent' /\ ReceiptSound
  BY <1>2, RequestSteps
<1>7. CutoverTypeOK'
  <2>1. /\ deployed \in [mode : {"legacy", "sequencer"},
                         control : {"disabled", "seed", "activate", "genesis"}]
        /\ approved \subseteq SeedFingerprints /\ late \in BOOLEAN
    BY DEF CutoverInv, CutoverTypeOK
  <2>2. /\ deployed' \in [mode : {"legacy", "sequencer"},
                          control : {"disabled", "seed", "activate", "genesis"}]
        /\ approved' \subseteq SeedFingerprints /\ late' \in BOOLEAN
    <3>1. ASSUME NEW m \in {"legacy", "sequencer"},
                 NEW c \in {"disabled", "seed", "activate", "genesis"},
                 Deploy([mode |-> m, control |-> c])
          PROVE  /\ deployed' \in [mode : {"legacy", "sequencer"},
                                   control : {"disabled", "seed", "activate", "genesis"}]
                 /\ approved' = approved /\ late' = late
      BY <3>1 DEF Deploy
    <3>2. ASSUME NEW f \in SeedFingerprints, ApproveCheckpoint(f)
          PROVE  /\ deployed' = deployed /\ approved' = approved \union {f}
                 /\ late' \in BOOLEAN
      BY <3>2 DEF ApproveCheckpoint
    <3>. QED BY <2>1, <3>1, <3>2
         DEF CutoverNext, LegacyCommand, PrepareCandidate, FinalizeCandidate,
             SequencedMaintain
  <2>. QED BY <1>3, <1>4, <1>6, <2>2 DEF CutoverTypeOK, PublisherInv, ReceiptSound
<1>. QED
  BY <1>1, <1>2, <1>3, <1>4, <1>5, <1>6, <1>7 DEF CutoverInv, ReceiptSound

LEMMA CutoverStutterInv ==
  ASSUME CutoverInv, UNCHANGED cutoverVars
  PROVE  CutoverInv'
<1>1. /\ UNCHANGED <<authority, operation, pendingCleanup, committed, prepared>>
      /\ UNCHANGED <<commitEpochs, acknowledged, deletable>>
      /\ UNCHANGED <<kv, command, answer, post>>
      /\ UNCHANGED <<deployed, approved, late, request, receipt>>
  BY DEF cutoverVars, durable, history, publisherVars
<1>2. SequencerInv' /\ SeasonKept /\ ReleasedStates'
  BY <1>1, NextInv, RecordFrame DEF vars, CutoverInv
<1>3. PublisherInv'
  BY <1>1
     DEF CutoverInv, PublisherInv, PublisherTypeOK, PointersSettled,
         InventoriesGenerated, CommandCoherent, ServedAreOwed, AnswerForgotten,
         AppliedIsActive, ReplacedIsPurged, isSettled, isWhole, isUncommitted,
         namesOf, servedRoutes, invalidationUrls
<1>4. \A v : isSettled(v)' = isSettled(v)
  BY <1>1 DEF isSettled, isWhole, isUncommitted, namesOf
<1>5. MaintenanceTypeOK' /\ DutyCoherent'
  <2>1. ReleasesKept
    BY <1>1, <1>4 DEF ReleasesKept, ReadersKept, InventoriesKept
  <2>. QED BY <1>1, <2>1, DutyFrame
       DEF CutoverInv, CutoverTypeOK, ReleasesKept
<1>6. CommittedSeedStaged'
  BY <1>1, StagedConstant DEF CutoverInv, CommittedSeedStaged, committedSeed
<1>7. AuthoritySettled'
  BY <1>1 DEF CutoverInv, AuthoritySettled, isSettled, isWhole, isUncommitted, namesOf
<1>8. ApprovalsHold'
  <2>1. \A f \in SeedFingerprints : f \in approved =>
          /\ isSettled(CheckpointOf[f].active)'
          /\ (CheckpointOf[f].previous # NoVersion => isSettled(CheckpointOf[f].previous))'
    BY <1>4 DEF CutoverInv, ApprovalsHold
  <2>. QED BY <1>1, <2>1
       DEF CutoverInv, CutoverTypeOK, ApprovalsHold, isMutableState
<1>9. RequestCoherent'
  <2>1. ASSUME NEW r \in Requests, requestCoherent(r) PROVE requestCoherent(r)'
    BY <1>1, <2>1, StagedConstant DEF requestCoherent, committedSeed
  <2>. QED BY <1>1, <2>1 DEF CutoverInv, RequestCoherent
<1>10. CutoverTypeOK' /\ ReceiptsHold' /\ IdenticalSeedsAgree'
  BY <1>1, <1>3, <1>5
     DEF CutoverInv, CutoverTypeOK, PublisherInv, ReceiptsHold, IdenticalSeedsAgree
<1>. QED
  BY <1>2, <1>3, <1>5, <1>6, <1>7, <1>8, <1>9, <1>10 DEF CutoverInv

LEMMA CutoverNextInv == CutoverInv /\ [CutoverNext]_cutoverVars => CutoverInv'
BY CutoverStepInv, CutoverStutterInv

-----------------------------------------------------------------------------
(* Theorems *)

(* The inductive invariant of the cutover, for every set of operators, every
   checkpoint they approve and every state the legacy publisher left. *)
THEOREM CutoverSafe == CutoverSpec => []CutoverInv
<1>1. CutoverInit => CutoverInv
  BY CutoverInitInv
<1>2. CutoverInv /\ [CutoverNext]_cutoverVars => CutoverInv'
  BY CutoverNextInv
<1>. QED BY <1>1, <1>2, PTL DEF CutoverSpec

(* The cutover implements the sequencer: deployments, legacy commands and
   operators change its state only by its own actions. *)
THEOREM CutoverImplementsSequencer == CutoverSpec => Spec
<1>1. CutoverInit => Init
  BY DEF CutoverInit
<1>2. CutoverInv /\ [CutoverNext]_cutoverVars => [Next]_vars
  <2>1. UNCHANGED cutoverVars => UNCHANGED vars
    BY DEF cutoverVars, vars, durable, history
  <2>. QED BY <2>1, CutoverStepInv
<1>. QED BY <1>1, <1>2, CutoverSafe, PTL DEF CutoverSpec, Spec

(* Whatever readers are answered from, or either authority would return to, is
   whole. *)
THEOREM ServedReleasesWhole == CutoverSpec => []ReleasesStayWhole
<1>1. CutoverInv => ReleasesStayWhole
  <2> SUFFICES ASSUME CutoverInv PROVE ReleasesStayWhole
    OBVIOUS
  <2>1. CutoverTypeOK /\ PointersSettled /\ AuthoritySettled
    BY DEF CutoverInv, PublisherInv
  <2>2. \A v \in {kv.active, kv.previous, authority.active, authority.previous} :
          v # NoVersion => isWhole(v)
    BY <2>1 DEF PointersSettled, AuthoritySettled, isSettled
  <2>. QED BY <2>1, <2>2 DEF ReleasesStayWhole, ReleasesWhole, resolved
<1>. QED BY <1>1, CutoverSafe, PTL

(* An answer names the version that is active, and a purge that succeeded has
   left nothing of what it replaced. *)
THEOREM AnswersAreTrue == CutoverSpec => []AnswersHold
<1>1. CutoverInv => AnswersHold
  BY DEF CutoverInv, PublisherInv, AnswersHold
<1>. QED BY <1>1, CutoverSafe, PTL

(* A seeded season is what its checkpoint says, receipts are true, and two
   requests for one checkpoint never contradict each other. *)
THEOREM SeedingIsSound == CutoverSpec => []SeedingAgrees
<1>1. CutoverInv => SeedingAgrees
  <2> SUFFICES ASSUME CutoverInv PROVE SeedingAgrees
    OBVIOUS
  <2>1. CommittedSeedStaged /\ ReceiptsHold /\ IdenticalSeedsAgree
    BY DEF CutoverInv
  <2>2. SeedMatchesCheckpoint
    <3> SUFFICES ASSUME authority.fingerprint \in SeedFingerprints, commitEpochs = {}
                 PROVE  SeedMatchesCheckpoint
      BY DEF SeedMatchesCheckpoint
    <3>1. PICK f \in SeedFingerprints : f = authority.fingerprint
      OBVIOUS
    <3>2. committedSeed \in stagedSeeds(f)
      BY <2>1, <3>1 DEF CommittedSeedStaged
    <3>3. PICK s \in stagedSeeds(f) : s = committedSeed
      BY <3>2
    <3>4. /\ s.active = authority.active /\ s.previous = authority.previous
          /\ s.ordering = authority.ordering /\ s.rows = committed
          /\ s.floor = authority.floor
      BY <3>3 DEF committedSeed
    <3>5. /\ s.active = CheckpointOf[f].active
          /\ s.previous \in {NoVersion, CheckpointOf[f].previous}
          /\ s.ordering = ReleaseOf[s.active].ordering
          /\ s.rows = ReleaseOf[s.active].rows
          /\ CheckpointOf[f].bound <= s.floor
          /\ \A v \in {s.active, s.previous} \ {NoVersion}, d \in Docs :
               ReleaseOf[v].rows[d].observedAt <= s.floor
      BY StagedFacts
    <3>. QED BY <3>1, <3>4, <3>5 DEF SeedMatchesCheckpoint
  <2>. QED BY <2>1, <2>2 DEF SeedingAgrees
<1>. QED BY <1>1, CutoverSafe, PTL

(* From the legacy publisher to the sequencer the season goes on being served,
   from the release it was served from, and the way back is a whole release
   that is not being served. *)
THEOREM HandoverIsSafe == CutoverSpec => HandoverHolds
<1>1. CutoverInv /\ CutoverInv' /\ [CutoverNext]_cutoverVars =>
        [resolved # NoVersion =>
           resolved' # NoVersion \/ authority'.cutoverState = "genesis"]_cutoverVars
  <2> SUFFICES ASSUME CutoverInv, CutoverInv', CutoverNext, resolved # NoVersion,
                      authority'.cutoverState # "genesis"
               PROVE  resolved' # NoVersion
    OBVIOUS
  <2>1. /\ SeasonKept /\ ReadersKept /\ ReleasedStates'
        /\ authority.cutoverState \in CutoverStates
    BY CutoverStepInv, AuthorityFacts DEF CutoverInv, SequencerInv
  <2>2. deployed.mode = "sequencer" => deployed'.mode = "sequencer"
    BY DEF CutoverNext, Deploy, ApproveCheckpoint, LegacyCommand,
           PrepareCandidate, FinalizeCandidate, SequencedMaintain
  <2>3. CASE (deployed.mode = "sequencer" /\ isMutableState)'
    <3>1. authority'.active # NoVersion
      BY <2>1, <2>3 DEF isMutableState, ReleasedStates
    <3>. QED BY <2>3, <3>1 DEF resolved
  <2>4. CASE ~ (deployed.mode = "sequencer" /\ isMutableState)'
    <3>1. ~ (deployed.mode = "sequencer" /\ isMutableState)
      BY <2>1, <2>2, <2>4 DEF isMutableState, SeasonKept
    <3>2. kv.active # NoVersion
      BY <3>1 DEF resolved
    <3>3. kv'.active # NoVersion
      BY <2>1, <3>2 DEF ReadersKept
    <3>. QED BY <2>4, <3>3 DEF resolved
  <2>. QED BY <2>3, <2>4
<1>2. CutoverInv /\ [CutoverNext]_cutoverVars =>
        [/\ authority.cutoverState = "seeded"
         /\ authority'.cutoverState = "active"
         => late \/ authority.active = kv.active]_cutoverVars
  <2> SUFFICES ASSUME CutoverInv, CutoverNext, authority.cutoverState = "seeded",
                      authority'.cutoverState = "active", ~late
               PROVE  authority.active = kv.active
    OBVIOUS
  <2>1. /\ TypeOK /\ Dormant /\ RequestCoherent /\ CommittedSeedStaged
        /\ ApprovalsHold /\ approved \subseteq SeedFingerprints
    BY DEF CutoverInv, CutoverTypeOK, SequencerInv
  <2>2. ~isMutableState
    BY DEF isMutableState
  <2>3. PICK o \in Operators :
          request[o].pc = "activate" /\ ActivateCutover(request[o].fingerprint)
    BY <2>2, AuthoritySteps
       DEF SequencerCall, SeedCutover, CommitGenesis, PrepareCandidate,
           FinalizeCandidate, SequencedAdmitted, durable
  <2>4. PICK f \in approved : f = authority.fingerprint
    BY <2>1, <2>3 DEF RequestCoherent, requestCoherent
  <2>5. committedSeed \in stagedSeeds(f)
    BY <2>1, <2>4 DEF CommittedSeedStaged, Dormant
  <2>6. committedSeed.active = CheckpointOf[f].active
    BY <2>1, <2>5, StagedFacts
  <2>7. CheckpointOf[f].active = kv.active
    BY <2>1, <2>2, <2>4 DEF ApprovalsHold
  <2>. QED BY <2>6, <2>7 DEF committedSeed
<1>3. CutoverInv /\ [CutoverNext]_cutoverVars =>
        [kv'.previous # kv.previous =>
           /\ kv'.previous # kv'.active
           /\ isWhole(kv.previous')]_kv
  <2>1. UNCHANGED cutoverVars => UNCHANGED kv
    BY DEF cutoverVars, publisherVars
  <2>2. CutoverInv /\ CutoverNext => ReadersKept
    BY CutoverStepInv
  <2>. QED BY <2>1, <2>2 DEF ReadersKept
<1>4. CutoverSpec => ServingContinues
  BY <1>1, CutoverSafe, PTL DEF CutoverSpec, ServingContinues
<1>5. CutoverSpec => ActivationKeepsRelease
  BY <1>2, CutoverSafe, PTL DEF CutoverSpec, ActivationKeepsRelease
<1>6. CutoverSpec => RollbackPathKept
  BY <1>3, CutoverSafe, PTL DEF CutoverSpec, RollbackPathKept
<1>. QED BY <1>4, <1>5, <1>6 DEF HandoverHolds
=============================================================================
