--------------------------- MODULE ProviderOutcome ---------------------------
(* What one source answered for one resource, and what the coordinator makes  *)
(* of a run's answers: the closed outcome of a port, the contribution it       *)
(* becomes, the requests it is counted for, and the candidate a resource is    *)
(* given.  An instant is a natural number and NoInstant is `null`.             *)
EXTENDS Integers, Sequences, FiniteSets

NoInstant == 0
NoReason == "null"

-----------------------------------------------------------------------------
(* Which source may be asked for what, decided before a port is touched.       *)

RoleOf(source) == IF source = "jolpica" THEN "reconciled" ELSE "provisional"
Precedence(role) == IF role = "reconciled" THEN 0 ELSE 1

Capabilities(source) ==
  {"session-classification", "driver-standings", "constructor-standings"}
    \cup (IF source = "jolpica"
          THEN {"season-calendar", "event-schedule", "season-participants",
                "season-circuits"}
          ELSE {})

Selectable(source, boundRecorded) == source = "jolpica" \/ boundRecorded

(* The refusal of an operation whose port is not asked, or NoReason.           *)
PolicyRefusal(source, kind, boundRecorded, ports) ==
  IF kind \notin Capabilities(source) THEN "resource-unsupported"
  ELSE IF ~Selectable(source, boundRecorded) THEN "source-locked"
  ELSE IF source \notin ports THEN "source-unavailable" ELSE NoReason

-----------------------------------------------------------------------------
(* The outcomes a port may answer with.  An attempt is one request that left.  *)

NotAttemptedReasons ==
  {"source-locked", "source-unavailable", "resource-unsupported",
   "rate-limit-deferred", "limiter-unavailable", "cancelled"}
InterruptionReasons == {"cancelled", "rate-limit-deferred", "limiter-unavailable"}

AllowedAttemptOutcomes ==
  [reason \in {"provider-rate-limited", "provider-unavailable", "invalid-payload"} |->
     CASE reason = "provider-rate-limited" -> {"rate-limited"}
       [] reason = "provider-unavailable" -> {"failed", "successful"}
       [] OTHER -> {"successful"}]

MaxAttempts == 8

outcomeOf(variant, attempts, reason, hint) ==
  [outcome |-> variant, attempts |-> attempts, reason |-> reason, hint |-> hint,
   payload |-> "none"]
(* A payload "fits" its resource, answers another ("mismatched"), or is        *)
(* "off-contract".                                                             *)
Candidate(attempts, payload) ==
  [outcomeOf("candidate", attempts, NoReason, NoInstant) EXCEPT !.payload = payload]
NotAttempted(reason, hint) == outcomeOf("not-attempted", <<>>, reason, hint)

AllSuccessful(attempts) ==
  \A i \in DOMAIN attempts : attempts[i].outcome = "successful"

(* An ordered, bounded, non-empty collection of distinct requests.             *)
ReadsAttempts(attempts) ==
  /\ Len(attempts) \in 1 .. MaxAttempts
  /\ \A i, j \in DOMAIN attempts :
       attempts[i].reference = attempts[j].reference => i = j

(* Every request before the last was answered; the last is the reason's.       *)
ConsistentFailure(attempts, reason) ==
  /\ AllSuccessful(SubSeq(attempts, 1, Len(attempts) - 1))
  /\ attempts[Len(attempts)].outcome \in AllowedAttemptOutcomes[reason]

(* What readProviderOutcome accepts; anything else is a malformed answer.      *)
WellFormed(o) ==
  \/ /\ o.outcome \in {"candidate", "mapping-failure"}
     /\ ReadsAttempts(o.attempts) /\ AllSuccessful(o.attempts)
  \/ /\ o.outcome = "not-attempted"
     /\ o.attempts = <<>> /\ o.reason \in NotAttemptedReasons
  \/ /\ o.outcome = "failed"
     /\ ReadsAttempts(o.attempts)
     /\ o.reason \in DOMAIN AllowedAttemptOutcomes
     /\ ConsistentFailure(o.attempts, o.reason)
  \/ /\ o.outcome = "interrupted"
     /\ ReadsAttempts(o.attempts) /\ AllSuccessful(o.attempts)
     /\ o.reason \in InterruptionReasons

NotExecuted == outcomeOf("not-executed", <<>>, "cancelled", NoInstant)

-----------------------------------------------------------------------------
(* The coordinator's reading of a whole run, in the order of its operations:   *)
(* `operations` is a sequence of [source, kind], `answers` what each produced. *)

contribution(op, status, attempted, reason, hint) ==
  [source |-> op.source, kind |-> op.kind, status |-> status,
   attempted |-> attempted, reason |-> reason, hint |-> hint]

Claims(op, o) ==
  {[source |-> op.source, reference |-> o.attempts[i].reference,
    outcome |-> o.attempts[i].outcome] : i \in DOMAIN o.attempts}

(* One source claiming two endings for one request.                            *)
Contradicts(transports, claims) ==
  \E t \in transports, c \in claims :
    t.source = c.source /\ t.reference = c.reference /\ t.outcome # c.outcome

ContributionOf(op, o, transports) ==
  CASE o.outcome = "not-executed" -> contribution(op, "skipped", FALSE, "cancelled", NoInstant)
    [] o.outcome = "threw" -> contribution(op, "failed", FALSE, "adapter-error", NoInstant)
    [] o.outcome \notin {"not-executed", "threw"} /\ ~WellFormed(o) ->
         contribution(op, "failed", FALSE, "malformed-outcome", NoInstant)
    [] o.outcome = "not-attempted" /\ WellFormed(o) ->
         contribution(op, IF o.reason = "rate-limit-deferred" THEN "deferred" ELSE "skipped",
                      FALSE, o.reason, o.hint)
    [] OTHER ->
         IF Contradicts(transports, Claims(op, o))
         THEN contribution(op, "failed", FALSE, "coordination-invariant", NoInstant)
         ELSE CASE o.outcome = "interrupted" ->
                     contribution(op, "interrupted", TRUE, o.reason, o.hint)
                [] o.outcome = "failed" -> contribution(op, "failed", TRUE, o.reason, o.hint)
                [] o.outcome = "mapping-failure" ->
                     contribution(op, "failed", TRUE, "mapping-unresolved", NoInstant)
                [] o.outcome = "candidate" /\ o.payload = "mismatched" ->
                     contribution(op, "failed", TRUE, "malformed-outcome", NoInstant)
                [] o.outcome = "candidate" /\ o.payload = "off-contract" ->
                     contribution(op, "failed", TRUE, "invalid-payload", NoInstant)
                [] o.outcome = "candidate" /\ o.payload = "fits" ->
                     contribution(op, "candidate", TRUE, NoReason, NoInstant)

(* Requests registered by the first n operations: an answer that is believed   *)
(* registers all of its requests, one that contradicts registers none.         *)
Registered(operations, answers) ==
  LET upTo[n \in 0 .. Len(operations)] ==
        IF n = 0 THEN {}
        ELSE LET claims == Claims(operations[n], answers[n])
             IN  IF WellFormed(answers[n]) /\ ~Contradicts(upTo[n - 1], claims)
                 THEN upTo[n - 1] \cup claims
                 ELSE upTo[n - 1]
  IN  upTo

Contributions(operations, answers) ==
  LET registered == Registered(operations, answers)
  IN  [n \in DOMAIN operations |->
         ContributionOf(operations[n], answers[n], registered[n - 1])]

(* The run's own account of the requests that left.                            *)
Accounting(operations, answers) ==
  LET transports == Registered(operations, answers)[Len(operations)]
      ended(o) == Cardinality({t \in transports : t.outcome = o})
  IN  [total |-> Cardinality(transports), successful |-> ended("successful"),
       failed |-> ended("failed"), rateLimited |-> ended("rate-limited")]

(* The selected source of a resource, or "unavailable".                        *)
Selected(contributions, kind) ==
  LET candidates == {contributions[n].source : n \in
                       {m \in DOMAIN contributions : /\ contributions[m].kind = kind
                                                     /\ contributions[m].status = "candidate"}}
  IN  IF candidates = {} THEN "unavailable"
      ELSE CHOOSE s \in candidates :
             \A t \in candidates : Precedence(RoleOf(s)) <= Precedence(RoleOf(t))

RunStatus(contributions, aborted) ==
  IF aborted THEN "cancelled"
  ELSE IF \E n \in DOMAIN contributions :
            contributions[n].reason = "coordination-invariant"
       THEN "invariant-violated" ELSE "completed"

-----------------------------------------------------------------------------
(* What a contribution that was not selected means for a check.                *)

Deferral(hint) ==
  IF hint = NoInstant THEN [status |-> "not-attempted", retryAt |-> NoInstant]
  ELSE [status |-> "deferred", retryAt |-> hint]

UnselectedOutcome(c) ==
  CASE c.status = "deferred" -> Deferral(c.hint)
    [] c.status = "skipped" -> [status |-> "not-attempted", retryAt |-> NoInstant]
    [] c.status = "interrupted" ->
         IF c.reason = "rate-limit-deferred" THEN Deferral(c.hint)
         ELSE [status |-> "not-attempted", retryAt |-> NoInstant]
    [] c.status = "failed" /\ c.attempted
         /\ c.reason \in DOMAIN AllowedAttemptOutcomes \cup {"mapping-unresolved"} ->
         [status |-> "failed", retryAt |-> NoInstant]
    [] OTHER -> [status |-> "defect", retryAt |-> NoInstant]

(* The check a planned resource records: nothing answered after the run's      *)
(* signal aborted is one, whatever it carried.                                 *)
CheckOf(contributions, kind, late) ==
  LET mine == CHOOSE n \in DOMAIN contributions :
                contributions[n].source = "jolpica" /\ contributions[n].kind = kind
      outcome == IF Selected(contributions, kind) = "jolpica"
                 THEN [status |-> "observed", retryAt |-> NoInstant]
                 ELSE UnselectedOutcome(contributions[mine])
  IN  IF outcome.status # "defect" /\ kind \in late
      THEN [status |-> "not-attempted", retryAt |-> NoInstant]
      ELSE outcome
=============================================================================
