-------------------------- MODULE ClassificationPolicy --------------------------
(***************************************************************************)
(* One race classification: the record the ledger keeps of it and the pure *)
(* steps that change it (sync/coordinated/policy, ledger/operator.ts and   *)
(* ledger/verification.ts).                                                *)
(*                                                                         *)
(* A revision is a content hash, compared for equality only.  Instants are *)
(* whole slots: slot k of a race falls due k after its anchor.             *)
(***************************************************************************)
EXTENDS Naturals, Sequences, FiniteSets, FiniteSetsExt, SequencesExt

CONSTANTS
  Revisions,               \* what the provider may serve for a race
  None,                    \* the code's null
  Operations,              \* operation identifiers operators use
  Anchors,                 \* the instants a race may be scheduled to start at
  WindowChecks,            \* slots of the initial hourly window
  ConfirmationSlots,       \* the window slots an accepted result still takes
  SettlingSlot,            \* the first slot at which a result may settle
  FinalSlot,               \* the ceiling
  SettlingConfirmations,   \* consecutive confirmations that settle a result
  MaximumConfirmations,    \* the bound of the confirmation counter
  HistoryCapacity,         \* superseded revisions a record may hold
  MaximumVerifications     \* verifications a generation may hold

ASSUME PolicyAssumption ==
  /\ None \notin Revisions \union Operations
  /\ Anchors \subseteq Nat
  /\ WindowChecks \in Nat /\ SettlingSlot \in Nat /\ FinalSlot \in Nat
  /\ 0 < WindowChecks /\ WindowChecks < SettlingSlot /\ SettlingSlot <= FinalSlot
  /\ ConfirmationSlots \subseteq 1 .. WindowChecks
  /\ SettlingConfirmations \in Nat \ {0}
  (* A corroborated change counts two confirmations at once. *)
  /\ MaximumConfirmations \in Nat
  /\ 2 <= MaximumConfirmations /\ SettlingConfirmations <= MaximumConfirmations
  /\ HistoryCapacity \in Nat
  /\ MaximumVerifications \in Nat \ {0}

RevisionOrNone == Revisions \union {None}
Terminals == {"open", "settled", "settled-on-deadline", "never-reconciled"}
Verification == [op : Operations, staged : Revisions]
Histories == UNION {[1 .. n -> Verification] : n \in 0 .. MaximumVerifications}
(* What is left of a generation of verifications once it was rotated. *)
Receipt == [op : Operations, from : Nat, cleared : Histories]

(* review: absent, unsettled or settled follows from content and terminal. *)
Record ==
  [version : Nat, anchor : Nat, checkIndex : 0 .. FinalSlot,
   published : RevisionOrNone, content : RevisionOrNone,
   candidate : RevisionOrNone, confirmations : 0 .. MaximumConfirmations,
   terminal : Terminals, staged : RevisionOrNone, competing : RevisionOrNone,
   superseded : Seq(Revisions), disposition : Operations \union {None},
   verifications : Histories, generation : Nat,
   reset : Receipt \union {None}]

(* An answer is a revision or says why there is none; null is no receipt. *)
ASSUME KindAssumption ==
  /\ Revisions \intersect {"failed", "deferred", "not-attempted"} = {}
  /\ None \notin Receipt

newClassificationRecord(anchor) ==
  [version |-> 0, anchor |-> anchor, checkIndex |-> 0, published |-> None,
   content |-> None, candidate |-> None, confirmations |-> 0,
   terminal |-> "open", staged |-> None, competing |-> None,
   superseded |-> <<>>, disposition |-> None, verifications |-> <<>>,
   generation |-> 0, reset |-> None]

isSettled(rec) == rec.content # None /\ rec.terminal # "open"
isInOperatorBacklog(rec) == rec.staged # None \/ rec.competing # None
supersededOf(rec) == ToSet(rec.superseded)

-----------------------------------------------------------------------------
(* The cadence *)

everySlot(rec) == rec.content = None \/ rec.candidate # None
isConfirmationSlot(slot) == slot > WindowChecks \/ slot \in ConfirmationSlots
currentSlot(anchor, now, every) ==
  LET passed == {slot \in 1 .. FinalSlot :
                   anchor + slot <= now /\ (every \/ isConfirmationSlot(slot))}
  IN  IF passed = {} THEN 0 ELSE Max(passed)
isEligible(anchor, now) == anchor + 1 <= now

(* A race the calendar moved while nothing was observed for it starts its
   cadence again from the new start. *)
isReschedulable(rec, anchor) ==
  /\ rec.anchor # anchor
  /\ rec.content = None /\ rec.candidate = None /\ rec.published = None
  /\ ~isInOperatorBacklog(rec)
rescheduled(rec, anchor) ==
  IF isReschedulable(rec, anchor)
  THEN [rec EXCEPT !.anchor = anchor, !.checkIndex = 0, !.terminal = "open"]
  ELSE rec
followedMove(rec, anchor, now) ==
  IF anchor + FinalSlot <= now THEN rec ELSE rescheduled(rec, anchor)

(* A check of a round, as planned: its slot is 0 unless it is a cadence one. *)
NoCheck == [kind |-> "none", slot |-> 0, anchor |-> 0]
Checks ==
  [kind : {"cadence", "reread", "manual"}, slot : 0 .. FinalSlot, anchor : Nat]
    \union {NoCheck}

plannedCheck(rec, moved, now, trigger) ==
  LET effective == followedMove(rec, moved, now)
      slot == currentSlot(effective.anchor, now, everySlot(effective))
      check(kind, at) ==
        [kind |-> kind, slot |-> at, anchor |-> effective.anchor]
  IN  IF ~isEligible(effective.anchor, now) THEN NoCheck
      ELSE IF trigger = "manual" THEN check("manual", 0)
      ELSE IF effective.terminal = "open" /\ slot > effective.checkIndex
      THEN check("cadence", slot)
      ELSE IF effective.content # None THEN check("reread", 0) ELSE NoCheck

-----------------------------------------------------------------------------
(* Transitions T0 to T10: what one observation does to a record *)

(* T0, T2, T4, T8, T10: one sighting is only ever pending. *)
\* Faulty sighted: a contradiction does not restart the count.
sightedCounted(rec, revision) == [rec EXCEPT !.candidate = revision]
sighted(rec, revision) ==
  [rec EXCEPT !.candidate = revision, !.confirmations = 0]

(* A first result after the ceiling has no check left, so it settles at once. *)
\* Faulty firstWrite: a late first result leaves the race abandoned.
firstWriteOpen(rec, revision, count) ==
  [rec EXCEPT !.content = revision, !.candidate = None, !.confirmations = count]
firstWrite(rec, revision, count) ==
  [rec EXCEPT !.content = revision, !.candidate = None, !.confirmations = count,
     !.terminal = IF @ = "never-reconciled" THEN "settled-on-deadline" ELSE @]

observeFirst(rec, check, revision) ==
  IF check.kind # "cadence" THEN firstWrite(rec, revision, 0)
  ELSE IF revision = rec.candidate \/ check.slot >= WindowChecks
  THEN firstWrite(rec, revision, 1)
  ELSE sighted(rec, revision)

(* T3: the second consecutive sighting replaces an unsettled revision, unless
   the history cannot hold the one it displaces. *)
corroborateUnsettled(rec) ==
  IF Len(rec.superseded) >= HistoryCapacity THEN rec
  ELSE [rec EXCEPT !.superseded = Append(@, rec.content),
          !.content = rec.candidate, !.confirmations = 2, !.candidate = None]

(* T9: corroborated but settled, so staged for review, while there is room. *)
stage(rec, room) ==
  IF room THEN [rec EXCEPT !.staged = rec.candidate, !.candidate = None]
  ELSE rec

\* Faulty confirmed: a confirmation leaves the pending candidate.
confirmedPending(rec) ==
  [rec EXCEPT !.confirmations = IF @ < MaximumConfirmations THEN @ + 1 ELSE @]
confirmed(rec) ==
  [rec EXCEPT !.candidate = None,
     !.confirmations = IF @ < MaximumConfirmations THEN @ + 1 ELSE @]
rejected(rec) == [rec EXCEPT !.candidate = None, !.confirmations = 0]

\* Faulty observeAccepted: a superseded revision is not rejected.
observeUnfiltered(rec, revision, room) ==
  IF revision = rec.content THEN confirmed(rec)
  ELSE IF revision # rec.candidate THEN sighted(rec, revision)
  ELSE IF isSettled(rec) THEN stage(rec, room)
  ELSE corroborateUnsettled(rec)
observeAccepted(rec, revision, room) ==
  IF revision \in supersededOf(rec) THEN rejected(rec)
  ELSE IF revision = rec.content THEN confirmed(rec)
  ELSE IF revision # rec.candidate THEN sighted(rec, revision)
  ELSE IF isSettled(rec) THEN stage(rec, room)
  ELSE corroborateUnsettled(rec)

(* Between cadence slots an unsettled record is read for the candidate only;
   a manual run may make a first write and nothing else. *)
isReconciling(rec, check) ==
  check.kind = "cadence" \/ (check.kind = "reread" /\ isSettled(rec))

observe(rec, check, revision, room) ==
  IF isInOperatorBacklog(rec) THEN rec
  ELSE IF rec.content = None THEN observeFirst(rec, check, revision)
  ELSE IF isReconciling(rec, check) THEN observeAccepted(rec, revision, room)
  ELSE rec

-----------------------------------------------------------------------------
(* Consuming a slot *)

settleOnDeadline(rec, room) ==
  IF rec.content = None
  THEN [rec EXCEPT !.terminal = "never-reconciled", !.candidate = None]
  ELSE LET settled == [rec EXCEPT !.terminal = "settled-on-deadline"] IN
       IF rec.candidate = None THEN settled ELSE stage(settled, room)

isSettling(rec, slot) ==
  /\ rec.content # None /\ rec.candidate = None
  /\ slot >= SettlingSlot
  /\ rec.confirmations >= SettlingConfirmations

advanceCadence(before, slot, wasObserved, room) ==
  LET rec == [before EXCEPT !.checkIndex = slot] IN
  IF rec.terminal # "open" THEN rec
  ELSE IF wasObserved /\ isSettling(rec, slot) THEN [rec EXCEPT !.terminal = "settled"]
  ELSE IF slot = FinalSlot THEN settleOnDeadline(rec, room) ELSE rec

NotObserved == {"failed", "deferred", "not-attempted"}
Outcomes == Revisions \union NotObserved

applyClassificationCheck(rec, check, outcome, room) ==
  LET wasObserved == outcome \in Revisions
      after == IF wasObserved THEN observe(rec, check, outcome, room) ELSE rec
  IN  IF outcome \in {"deferred", "not-attempted"} \/ check.kind # "cadence"
      THEN after
      ELSE advanceCadence(after, check.slot, wasObserved, room)

-----------------------------------------------------------------------------
(* Transitions T11 to T12: what operators do to a staged record *)

NoCandidate(rec) == [rec EXCEPT !.candidate = None]
tracked(rec, revision) ==
  IF revision \in supersededOf(rec) THEN rejected(rec)
  ELSE IF revision \in {rec.content, rec.staged} THEN NoCandidate(rec)
  ELSE IF revision = rec.candidate
  THEN [NoCandidate(rec) EXCEPT !.competing = revision]
  ELSE [rec EXCEPT !.candidate = revision]

isVerifiable(rec, staged) ==
  /\ staged # None /\ rec.staged = staged
  /\ rec.competing = None
  /\ Len(rec.verifications) < MaximumVerifications

(* A deferral is not a completed verification: none is recorded. *)
applyOperatorVerification(rec, op, outcome) ==
  IF outcome = "deferred" THEN rec
  ELSE LET after == IF outcome = "failed" THEN rec ELSE tracked(rec, outcome)
       IN  [after EXCEPT !.verifications =
              Append(@, [op |-> op, staged |-> rec.staged])]

\* Faulty rotatedRecord: the generation is not closed.
rotatedOpen(rec, op) ==
  [rec EXCEPT !.verifications = <<>>,
     !.reset = [op |-> op, from |-> rec.generation, cleared |-> rec.verifications]]
rotatedRecord(rec, op) ==
  [rec EXCEPT !.verifications = <<>>, !.generation = @ + 1,
     !.reset = [op |-> op, from |-> rec.generation, cleared |-> rec.verifications]]

Dispositions == {"accept-staged", "accept-competing", "retain-published"}
isDisposable(rec, action, content, staged, competing) ==
  /\ rec.staged # None /\ rec.content # None
  /\ rec.content = content /\ rec.staged = staged /\ rec.competing = competing
  /\ action = "accept-competing" => competing # None
\* Faulty applyDisposition: a rejected correction is not remembered.
dispositionForgetting(rec, op, action) ==
  LET chosen == CASE action = "accept-staged" -> rec.staged
                  [] action = "accept-competing" -> rec.competing
                  [] action = "retain-published" -> rec.content
  IN  [rec EXCEPT !.content = chosen, !.candidate = None, !.staged = None,
         !.competing = None, !.disposition = op,
         !.superseded = IF action = "retain-published" THEN @
                        ELSE Append(@, rec.content)]
applyDisposition(rec, op, action) ==
  LET chosen == CASE action = "accept-staged" -> rec.staged
                  [] action = "accept-competing" -> rec.competing
                  [] action = "retain-published" -> rec.content
  IN  [rec EXCEPT !.content = chosen, !.candidate = None, !.staged = None,
         !.competing = None, !.disposition = op,
         !.superseded = Append(@,
            IF action = "retain-published" THEN rec.staged ELSE rec.content)]
=============================================================================
