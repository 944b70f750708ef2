----------------------------- MODULE MCObservation -----------------------------
(* Instances of CoordinatedObservation for TLC. *)
EXTENDS CoordinatedObservation, TLC

(* The operations of an initial state; the others are interchangeable. *)
CONSTANTS holder, verifier

MCSymmetry ==
  Permutations(Revisions) \union Permutations(Sessions)
    \union Permutations(Operations \ {holder, verifier})
MCNothingServed == {[r \in Rounds |-> None]}
MCAnyServed == [Rounds -> RevisionOrNone]

MCStagedRecord(accepted, correction) ==
  [newClassificationRecord(0) EXCEPT
     !.version = 2, !.checkIndex = FinalSlot, !.content = accepted,
     !.terminal = "settled-on-deadline", !.staged = correction]
MCStagedHistory(correction) ==
  [tail |-> [r \in Rounds |-> [revision |-> correction, count |-> 1]],
   displaced |-> [r \in Rounds |-> {}],
   applied |-> [op \in Operations |-> 0],
   returned |-> [op \in Operations |-> None],
   owed |-> {"run"}]

(* A later state to start from: a run published every round at slot 1, and the
   next, at the ceiling, staged a correction of each and left the season blocked
   for review. *)
MCStaged(accepted, correction) ==
  /\ lease = [fence |-> 2, held |-> FALSE]
  /\ season = [version |-> 6, calendar |-> [r \in Rounds |-> 0], due |-> FALSE,
               disposition |-> "review", hold |-> FALSE, durable |-> FALSE,
               action |-> None]
  /\ records = [r \in Rounds |-> MCStagedRecord(accepted, correction)]
  /\ backlog = [r \in Rounds |-> correction]
  /\ elsewhere = 0
  /\ now = FinalSlot
  /\ request = [op \in Operations |-> None]
  /\ session = [s \in Sessions |-> Idle]
  /\ history = MCStagedHistory(correction)

MCStagedSpec ==
  /\ \E accepted, correction \in Revisions :
       accepted # correction /\ MCStaged(accepted, correction)
  /\ [][Next]_vars

(* The same, and then one operator held the season or did not, and another
   verified every staged correction once, which returned a third revision. *)
MCSubmitted(correction, held) ==
  [op \in Operations |->
     IF op = verifier
     THEN [op |-> op, action |-> "verify", round |-> 1, staged |-> correction,
           generation |-> 0]
     ELSE IF op = holder /\ held
     THEN [op |-> op, action |-> "hold", version |-> 6] ELSE None]

MCVerified(accepted, correction, outcome, held) ==
  /\ lease = [fence |-> 4, held |-> FALSE]
  /\ season = [version |-> IF held THEN 7 ELSE 6, calendar |-> [r \in Rounds |-> 0],
               due |-> FALSE, disposition |-> "review", hold |-> held, durable |-> FALSE,
               action |-> IF held THEN [op |-> holder, action |-> "hold"] ELSE None]
  /\ records = [r \in Rounds |->
       bumped(applyOperatorVerification(MCStagedRecord(accepted, correction),
                                        verifier, outcome))]
  /\ backlog = [r \in Rounds |-> correction]
  /\ elsewhere = 0
  /\ now = FinalSlot
  /\ request = MCSubmitted(correction, held)
  /\ session = [s \in Sessions |-> Idle]
  /\ history = [MCStagedHistory(correction) EXCEPT
       !.applied = [op \in Operations |->
          IF MCSubmitted(correction, held)[op] = None THEN 0 ELSE 1],
       !.returned[verifier] = IF outcome \in Revisions THEN outcome ELSE None]

MCVerifiedSpec ==
  /\ \E accepted, correction \in Revisions, held \in BOOLEAN :
     \E outcome \in Revisions \ {accepted, correction} :
       accepted # correction /\ MCVerified(accepted, correction, outcome, held)
  /\ [][Next]_vars
=============================================================================
