----------------------- MODULE SeasonSynchronization -----------------------
(***************************************************************************)
(* The whole-season synchronization (SynchronizationService.run), with the *)
(* plan of its due jobs (scheduler.ts) and the modelled quota of its       *)
(* provider (quota-model.ts).  Runs are started by the cron and by the     *)
(* operator, and may overlap: a run reads the season's state and the       *)
(* quota, asks the provider, publishes, and writes both back from the      *)
(* copies it read.                                                         *)
(*                                                                         *)
(* Every instant is kept relative to now, so time is unbounded and the     *)
(* model finite: a stored success is an age, at the job's interval when    *)
(* the job is due; the end of a window and of a hold is the time left.     *)
(* A Tick ages what is stored and what the runs hold.                      *)
(*                                                                         *)
(* Left out: failure marks, metrics and versions (no step reads them), a   *)
(* change of a published limit, which is a change of the code, and a       *)
(* worker without a provider, whose runs fail before they ask.             *)
(***************************************************************************)
EXTENDS Integers, FiniteSetsExt

CONSTANTS
  Jobs,              \* SyncJobCategory
  LowPriority,       \* lowPriorityJobs
  Interval,          \* intervalsSeconds: how long a success of a job lasts
  Policy,            \* quotaPolicyFor: window -> [class, limit, span]
  Threshold,         \* sustainedWarningThresholds, in percent
  RepeatedSaturation,\* repeatedBurstSaturationThreshold
  StreakCap,         \* burstSaturationStreakCap
  Runs,              \* runs that may overlap
  Scheduled,         \* those the cron starts; the operator starts the others
  MaxHold,           \* longest Retry-After
  None

ASSUME SynchronizationAssumption ==
  /\ LowPriority \subseteq Jobs
  /\ Interval \in [Jobs -> Nat \ {0}]
  /\ \A w \in DOMAIN Policy :
       /\ Policy[w].class \in {"burst", "sustained"}
       /\ Policy[w].limit \in Nat \ {0}
       /\ Policy[w].span \in Nat \ {0}
  /\ Scheduled \subseteq Runs
  /\ MaxHold \in Nat

VARIABLES
  sync,       \* the stored SyncState: the age of every job's last success
  quota,      \* the stored QuotaState, or None
  runs,       \* the runs under way
  published   \* history: how long ago a publication last covered each job

synchronizationVars == <<sync, quota, runs, published>>

-----------------------------------------------------------------------------
(* The quota of a provider. *)

Windows == DOMAIN Policy
Limit(w) == Policy[w].limit
Span(w) == Policy[w].span

freshWindow(w, streak) ==
  [remaining |-> Limit(w), resetsIn |-> Span(w), streak |-> streak]

emptyQuotaState ==
  [windows |-> [w \in Windows |-> freshWindow(w, 0)],
   retryIn |-> 0, level |-> "unknown"]

\* A window that ended starts again.  Its streak of saturations goes on only
\* into the window that follows it at once.
rollOver(w, window) ==
  IF window.resetsIn > 0 THEN window
  ELSE freshWindow(w, IF window.resetsIn > -Span(w) /\ window.remaining = 0
                      THEN window.streak ELSE 0)

consumeOne(window) ==
  [window EXCEPT
     !.remaining = IF @ = 0 THEN 0 ELSE @ - 1,
     !.streak = IF window.remaining = 1 /\ @ < StreakCap THEN @ + 1 ELSE @]

retryAfterActive(q) == q.retryIn > 0

Levels == <<"unknown", "normal", "warning", "high", "critical">>

\* The places in Levels the windows and a refusal call for; the worst counts.
SustainedLevel(w, window) ==
  LET percent == window.remaining * 100
  IN  CASE percent <= Threshold.critical * Limit(w) -> 5
        [] percent >  Threshold.critical * Limit(w)
           /\ percent <= Threshold.high * Limit(w) -> 4
        [] percent > Threshold.high * Limit(w)
           /\ percent <= Threshold.warning * Limit(w) -> 3
        [] OTHER -> 2

hasRepeatedBurstSaturation(windows) ==
  \E w \in Windows : /\ Policy[w].class = "burst"
                     /\ windows[w].streak >= RepeatedSaturation

evaluateWarningLevel(windows, rateLimited) ==
  LET Sustained == {w \in Windows : Policy[w].class = "sustained"}
  IN  Levels[Max({1} \cup {SustainedLevel(w, windows[w]) : w \in Sustained}
                     \cup {3 : w \in {v \in Windows :
                               hasRepeatedBurstSaturation(windows)}}
                     \cup {5 : w \in {v \in Windows : rateLimited}})]

\* Faulty refreshQuotaState: the level is left as it was stored, so a source
\* that became critical is never asked again.
refreshNothing(q) == q

\* What is true of the quota now, without an attempt.
refreshQuotaState(q) ==
  LET windows == [w \in Windows |-> rollOver(w, q.windows[w])]
  IN  [windows |-> windows, retryIn |-> q.retryIn,
       level |-> evaluateWarningLevel(windows, retryAfterActive(q))]

longestSustainedWindow ==
  LET Sustained == {w \in Windows : Policy[w].class = "sustained"}
  IN  IF Sustained = {} THEN None
      ELSE CHOOSE w \in Sustained : \A v \in Sustained : Span(v) <= Span(w)

hasManualRecoveryCapacity(q) ==
  \/ longestSustainedWindow = None
  \/ q.windows[longestSustainedWindow].remaining > 0

\* One attempt that left, whatever came of it.  `hold` is the Retry-After a
\* refusal names, 0 when it names none.
recordProviderAttempt(stored, outcome, hold) ==
  LET q == IF stored = None THEN emptyQuotaState ELSE stored
      windows == [w \in Windows |-> consumeOne(rollOver(w, q.windows[w]))]
  IN  [windows |-> windows,
       retryIn |-> CASE outcome = "successful" -> 0
                     [] outcome = "rate-limited" /\ hold > 0 -> hold
                     [] OTHER -> q.retryIn,
       level |-> evaluateWarningLevel(windows, outcome = "rate-limited")]

-----------------------------------------------------------------------------
(* The jobs a run is to do. *)

isDue(job, state) == state[job] >= Interval[job]

\* The jobs to do; none when the provider is held, or its quota is kept for
\* an operator's recovery, or exhausted.
calculateDueJobs(state, q, forced, manualRecovery) ==
  LET requested == IF forced = None THEN {j \in Jobs : isDue(j, state)} ELSE forced
      reserved  == /\ q # None
                   /\ q.level = "critical"
                   /\ manualRecovery => ~ hasManualRecoveryCapacity(q)
  IN  CASE q # None /\ retryAfterActive(q) -> {}
        [] reserved -> {}
        [] q # None /\ q.level = "high" -> requested \ LowPriority
        [] OTHER -> requested

-----------------------------------------------------------------------------
(* A run. *)

Idle == [pc |-> "idle"]

\* The jobs a run is told to do: none in particular by the cron, all or one of
\* them by an operator.
NamedJobs(r) == IF r \in Scheduled THEN {None}
                ELSE {Jobs} \cup {{j} : j \in Jobs}

emptySyncState == [j \in Jobs |-> Interval[j]]

SynchronizationInit ==
  /\ sync = emptySyncState
  /\ quota = None
  /\ runs = [r \in Runs |-> Idle]
  /\ published = emptySyncState

\* The run reads the season's state.
BeginRun(r) ==
  /\ runs[r].pc = "idle"
  /\ \E forced \in NamedJobs(r) :
       runs' = [runs EXCEPT ![r] = [pc |-> "begun", state |-> sync, forced |-> forced]]
  /\ UNCHANGED <<sync, quota, published>>

\* It writes the state back as started, brings the stored quota up to date
\* and plans; with nothing to do it writes the state again and ends.
PlanRun(r) ==
  LET run  == runs[r]
      now  == IF quota = None THEN None ELSE refreshQuotaState(quota)
      jobs == calculateDueJobs(run.state, now, run.forced, r \notin Scheduled)
  IN  /\ run.pc = "begun"
      /\ sync' = run.state
      /\ quota' = now
      /\ runs' = [runs EXCEPT ![r] =
                    IF jobs = {} THEN Idle
                    ELSE [pc |-> "fetching", state |-> run.state,
                          quota |-> now, jobs |-> jobs]]
      /\ UNCHANGED published

\* A run that failed stores the state it read, without a success.
fail(run) == [pc |-> "storing", state |-> run.state]

\* The attempt is recorded over the quota the run planned with.
recordQuotaAttempt(run, outcome, hold) ==
  quota' = recordProviderAttempt(run.quota, outcome, hold)

\* The provider refused, failed or answered.  A request that never left is not
\* an attempt.
AnswerRun(r) ==
  LET run == runs[r]
  IN  /\ run.pc = "fetching"
      /\ \/ /\ runs' = [runs EXCEPT ![r] = fail(run)]
            /\ UNCHANGED quota
         \/ \E outcome \in {"rate-limited", "failed"}, hold \in 0 .. MaxHold :
              /\ outcome = "failed" => hold = 0
              /\ recordQuotaAttempt(run, outcome, hold)
              /\ runs' = [runs EXCEPT ![r] = fail(run)]
         \/ /\ recordQuotaAttempt(run, "successful", 0)
            /\ runs' = [runs EXCEPT ![r] = [pc |-> "publishing", state |-> run.state,
                                            jobs |-> run.jobs]]
      /\ UNCHANGED <<sync, published>>

\* What a publication settles as: applied; rejected because the active release
\* is of a later source; rejected for any other reason; failed or thrown.
PublicationAnswers == {"applied", "older-source-updated-at", "rejected", "failed"}

\* Faulty consequenceForRejectedPublication: every rejection is a normal end.
anyRejectionIsNormal(reason) == "completed-no-op"

\* Which rejections leave the season up to date: one of them.
consequenceForRejectedPublication(reason) ==
  IF reason = "older-source-updated-at" THEN "completed-no-op" ELSE "failed"

completes(answer) ==
  \/ answer = "applied"
  \/ /\ answer # "failed"
     /\ consequenceForRejectedPublication(answer) = "completed-no-op"

markJobs(state, jobs) == [j \in Jobs |-> IF j \in jobs THEN 0 ELSE state[j]]

\* The run publishes what it fetched and takes the instant of its completion.
PublishRun(r) ==
  LET run == runs[r]
  IN  /\ run.pc = "publishing"
      /\ \E answer \in PublicationAnswers :
           /\ runs' = [runs EXCEPT ![r] =
                IF completes(answer)
                THEN [pc |-> "storing", state |-> markJobs(run.state, run.jobs)]
                ELSE fail(run)]
           /\ published' = IF answer \in {"applied", "older-source-updated-at"}
                           THEN markJobs(published, run.jobs) ELSE published
      /\ UNCHANGED <<sync, quota>>

\* The state is written from the copy the run read, completed or failed.
StoreRun(r) ==
  /\ runs[r].pc = "storing"
  /\ sync' = runs[r].state
  /\ runs' = [runs EXCEPT ![r] = Idle]
  /\ UNCHANGED <<quota, published>>

\* The platform stops a run, wherever it is.
StopRun(r) ==
  /\ runs[r].pc # "idle"
  /\ runs' = [runs EXCEPT ![r] = Idle]
  /\ UNCHANGED <<sync, quota, published>>

-----------------------------------------------------------------------------
AgedState(state) ==
  [j \in Jobs |-> IF state[j] < Interval[j] THEN state[j] + 1 ELSE state[j]]

\* Of a window that ended only its saturation is read, until a whole span
\* later nothing of it is.
AgedWindow(w, window) ==
  LET left == window.resetsIn - 1
  IN  CASE left > 0 -> [window EXCEPT !.resetsIn = left]
        [] left <= 0 /\ left > -Span(w) /\ window.remaining = 0 ->
             [window EXCEPT !.resetsIn = left]
        [] OTHER -> [remaining |-> Limit(w), resetsIn |-> -Span(w), streak |-> 0]

AgedQuota(q) ==
  IF q = None THEN None
  ELSE [q EXCEPT !.windows = [w \in Windows |-> AgedWindow(w, q.windows[w])],
                 !.retryIn = IF @ = 0 THEN 0 ELSE @ - 1]

AgedRun(run) ==
  [f \in DOMAIN run |-> CASE f = "state" -> AgedState(run[f])
                          [] f = "quota" -> AgedQuota(run[f])
                          [] OTHER -> run[f]]

TickSynchronization ==
  /\ sync' = AgedState(sync)
  /\ quota' = AgedQuota(quota)
  /\ runs' = [r \in Runs |-> AgedRun(runs[r])]
  /\ published' = AgedState(published)

SynchronizationNext ==
  \/ \E r \in Runs : \/ BeginRun(r) \/ PlanRun(r) \/ AnswerRun(r)
                     \/ PublishRun(r) \/ StoreRun(r) \/ StopRun(r)
  \/ TickSynchronization

\* Time goes on; the cron goes on starting runs, every run ends, and it is not
\* always before its plan that the platform stops one.
SynchronizationFairness ==
  /\ WF_synchronizationVars(TickSynchronization)
  /\ \A r \in Scheduled :
       /\ WF_synchronizationVars(BeginRun(r))
       /\ SF_synchronizationVars(PlanRun(r))
       /\ WF_synchronizationVars(AnswerRun(r) \/ PublishRun(r) \/ StoreRun(r))

SynchronizationSpec ==
  SynchronizationInit /\ [][SynchronizationNext]_synchronizationVars
    /\ SynchronizationFairness

-----------------------------------------------------------------------------
\* A job the state calls done was covered by a publication no longer ago than
\* the state says: a withheld release, or the copy of a run that another one
\* overtook, never puts a job off.
SuccessIsReal == \A j \in Jobs : published[j] <= sync[j]

\* Whatever the provider answers, a run goes on to ask it again: neither a
\* refusal nor an exhausted window blocks the season for good, though what
\* blocks a run is only cleared by the runs it blocks.
SourceIsAskedAgain == []<>(\E r \in Runs : runs[r].pc = "fetching")
=============================================================================
