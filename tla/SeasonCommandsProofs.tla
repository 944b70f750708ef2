------------------------ MODULE SeasonCommandsProofs ------------------------
(***************************************************************************)
(* What is true of the two ways the season is kept up to date without the  *)
(* coordinated runtime, for any number of overlapping runs and requests,   *)
(* any jobs, intervals and quota, and any submissions.                     *)
(***************************************************************************)
EXTENDS SeasonSynchronization, SeasonBatchIngest, SequenceTheorems,
        NaturalsInduction, WellFoundedInduction, TLAPS

-----------------------------------------------------------------------------
(* SuccessIsReal is not inductive: the state a run read is written back after
   other runs stored theirs, so every copy of it must be as truthful as the
   original. *)

Ages == [Jobs -> Nat]

(* No job is fresher in a state than in what was published. *)
Truthful(state) == \A j \in Jobs : published[j] <= state[j]

(* A run under way holds a truthful state. *)
HoldsState(run) ==
  /\ "pc" \in DOMAIN run
  /\ run.pc # "idle" =>
       "state" \in DOMAIN run /\ run.state \in Ages /\ Truthful(run.state)

SynchronizationInv ==
  /\ sync \in Ages
  /\ published \in Ages
  /\ Truthful(sync)
  /\ runs = [r \in Runs |-> runs[r]]
  /\ \A r \in Runs : HoldsState(runs[r])

(* Marking jobs done makes a state fresher nowhere else, and alike twice. *)
LEMMA MarkFacts ==
  ASSUME NEW a \in Ages, NEW b \in Ages, NEW jobs,
         \A j \in Jobs : a[j] <= b[j]
  PROVE  /\ markJobs(a, jobs) \in Ages
         /\ \A j \in Jobs : markJobs(a, jobs)[j] <= a[j]
         /\ \A j \in Jobs : markJobs(a, jobs)[j] <= b[j]
         /\ \A j \in Jobs : markJobs(a, jobs)[j] <= markJobs(b, jobs)[j]
<1>1. \A j \in Jobs : a[j] \in Nat /\ b[j] \in Nat
  BY DEF Ages
<1>2. /\ \A j \in Jobs : markJobs(a, jobs)[j] = IF j \in jobs THEN 0 ELSE a[j]
      /\ \A j \in Jobs : markJobs(b, jobs)[j] = IF j \in jobs THEN 0 ELSE b[j]
      /\ markJobs(a, jobs) \in Ages
  BY <1>1 DEF markJobs, Ages
<1>3. ASSUME NEW j \in Jobs
      PROVE  /\ markJobs(a, jobs)[j] <= a[j]
             /\ markJobs(a, jobs)[j] <= b[j]
             /\ markJobs(a, jobs)[j] <= markJobs(b, jobs)[j]
  BY <1>1, <1>2
<1>. QED BY <1>2, <1>3

(* Time ages two states alike: the one that is fresher stays so. *)
LEMMA AgingFacts ==
  ASSUME NEW a \in Ages, NEW b \in Ages, \A j \in Jobs : a[j] <= b[j]
  PROVE  /\ AgedState(a) \in Ages
         /\ AgedState(b) \in Ages
         /\ \A j \in Jobs : AgedState(a)[j] <= AgedState(b)[j]
<1>1. \A j \in Jobs : a[j] \in Nat /\ b[j] \in Nat /\ Interval[j] \in Nat
  BY SynchronizationAssumption DEF Ages, SynchronizationAssumption
<1>2. /\ \A j \in Jobs : AgedState(a)[j] = IF a[j] < Interval[j] THEN a[j] + 1
                                           ELSE a[j]
      /\ \A j \in Jobs : AgedState(b)[j] = IF b[j] < Interval[j] THEN b[j] + 1
                                           ELSE b[j]
      /\ AgedState(a) \in Ages
      /\ AgedState(b) \in Ages
  BY <1>1 DEF AgedState, Ages
<1>3. ASSUME NEW j \in Jobs
      PROVE  AgedState(a)[j] <= AgedState(b)[j]
  BY <1>1, <1>2
<1>. QED BY <1>2, <1>3

LEMMA SynchronizationInitInv == SynchronizationInit => SynchronizationInv
<1> SUFFICES ASSUME SynchronizationInit PROVE SynchronizationInv
    OBVIOUS
<1>1. emptySyncState \in Ages
  BY SynchronizationAssumption
     DEF emptySyncState, Ages, SynchronizationAssumption
<1>2. Truthful(sync)
  <2>1. \A j \in Jobs : sync[j] \in Nat /\ published[j] = sync[j]
    BY <1>1 DEF SynchronizationInit, Ages
  <2>. QED BY <2>1 DEF Truthful
<1>3. \A r \in Runs : runs[r] = Idle
  BY DEF SynchronizationInit
<1>4. "pc" \in DOMAIN Idle /\ Idle.pc = "idle"
  BY DEF Idle
<1>5. \A r \in Runs : HoldsState(runs[r])
  BY <1>3, <1>4 DEF HoldsState
<1>. QED BY <1>1, <1>2, <1>5 DEF SynchronizationInit, SynchronizationInv

(* What a step leaves of the invariant when it changes one run alone and
   publishes nothing. *)
LEMMA OneRun ==
  ASSUME SynchronizationInv, NEW r \in Runs, NEW run,
         runs' = [runs EXCEPT ![r] = run],
         HoldsState(run),
         published' = published,
         sync' = sync \/ (sync' \in Ages /\ Truthful(sync'))
  PROVE  SynchronizationInv'
<1>1. /\ runs' = [q \in Runs |-> runs'[q]]
      /\ \A q \in Runs : runs'[q] = IF q = r THEN run ELSE runs[q]
  BY DEF SynchronizationInv
<1>2. \A q \in Runs : HoldsState(runs'[q])
  BY <1>1 DEF SynchronizationInv
<1>3. \A q \in Runs : HoldsState(runs[q])'
  BY <1>2 DEF HoldsState, Truthful
<1>4. Truthful(sync)' /\ sync' \in Ages /\ published' \in Ages
  BY DEF SynchronizationInv, Truthful
<1>. QED BY <1>1, <1>3, <1>4 DEF SynchronizationInv

LEMMA BeginInv ==
  ASSUME SynchronizationInv, NEW r \in Runs, BeginRun(r)
  PROVE  SynchronizationInv'
<1>1. PICK forced \in NamedJobs(r) :
        runs' = [runs EXCEPT ![r] = [pc |-> "begun", state |-> sync,
                                     forced |-> forced]]
  BY DEF BeginRun
<1> DEFINE run == [pc |-> "begun", state |-> sync, forced |-> forced]
<1>2. /\ DOMAIN run = {"pc", "state", "forced"}
      /\ run.state = sync
  OBVIOUS
<1>3. HoldsState(run)
  BY <1>2 DEF HoldsState, SynchronizationInv
<1> HIDE DEF run
<1>. QED BY <1>1, <1>3, OneRun DEF BeginRun, run

LEMMA PlanInv ==
  ASSUME SynchronizationInv, NEW r \in Runs, PlanRun(r)
  PROVE  SynchronizationInv'
<1> DEFINE now == IF quota = None THEN None ELSE refreshQuotaState(quota)
           jobs == calculateDueJobs(runs[r].state, now, runs[r].forced,
                                    r \notin Scheduled)
           run == IF jobs = {} THEN Idle
                  ELSE [pc |-> "fetching", state |-> runs[r].state,
                        quota |-> now, jobs |-> jobs]
<1>1. /\ runs[r].pc = "begun"
      /\ sync' = runs[r].state
      /\ runs' = [runs EXCEPT ![r] = run]
      /\ published' = published
  BY DEF PlanRun
<1>2. runs[r].state \in Ages /\ Truthful(runs[r].state)
  BY <1>1 DEF SynchronizationInv, HoldsState
<1> HIDE DEF now, jobs
<1>3. HoldsState(run)
  <2>1. CASE jobs = {}
    BY <2>1 DEF HoldsState, Idle
  <2>2. CASE jobs # {}
    <3>1. /\ "pc" \in DOMAIN run /\ "state" \in DOMAIN run
          /\ run.state = runs[r].state
      BY <2>2
    <3>. QED BY <1>2, <3>1 DEF HoldsState
  <2>. QED BY <2>1, <2>2
<1> HIDE DEF run
<1>4. sync' \in Ages /\ Truthful(sync')
  BY <1>1, <1>2
<1>. QED BY <1>1, <1>3, <1>4, OneRun

LEMMA AnswerInv ==
  ASSUME SynchronizationInv, NEW r \in Runs, AnswerRun(r)
  PROVE  SynchronizationInv'
<1> DEFINE failed == fail(runs[r])
           run == [pc |-> "publishing", state |-> runs[r].state,
                   jobs |-> runs[r].jobs]
<1>1. /\ runs[r].pc = "fetching"
      /\ UNCHANGED <<sync, published>>
      /\ \/ runs' = [runs EXCEPT ![r] = failed]
         \/ runs' = [runs EXCEPT ![r] = run]
  BY DEF AnswerRun
<1>2. runs[r].state \in Ages /\ Truthful(runs[r].state)
  BY <1>1 DEF SynchronizationInv, HoldsState
<1>3. /\ "pc" \in DOMAIN failed /\ "state" \in DOMAIN failed
      /\ failed.state = runs[r].state
      /\ "pc" \in DOMAIN run /\ "state" \in DOMAIN run
      /\ run.state = runs[r].state
  BY DEF fail
<1>4. HoldsState(failed) /\ HoldsState(run)
  BY <1>2, <1>3 DEF HoldsState
<1> HIDE DEF failed, run
<1>. QED BY <1>1, <1>4, OneRun

(* An answer that lets a run go on published, or found published, what the run
   fetched. *)
LEMMA CompletedIsPublished ==
  ASSUME NEW answer \in PublicationAnswers, completes(answer)
  PROVE  answer \in {"applied", "older-source-updated-at"}
BY DEF PublicationAnswers, completes, consequenceForRejectedPublication

LEMMA PublishInv ==
  ASSUME SynchronizationInv, NEW r \in Runs, PublishRun(r)
  PROVE  SynchronizationInv'
<1>1. /\ runs[r].pc = "publishing"
      /\ sync' = sync
  BY DEF PublishRun
<1>2. PICK answer \in PublicationAnswers :
        /\ runs' = [runs EXCEPT ![r] =
             IF completes(answer)
             THEN [pc |-> "storing",
                   state |-> markJobs(runs[r].state, runs[r].jobs)]
             ELSE fail(runs[r])]
        /\ published' = IF answer \in {"applied", "older-source-updated-at"}
                        THEN markJobs(published, runs[r].jobs) ELSE published
  BY DEF PublishRun
<1> DEFINE jobs == runs[r].jobs
           state == IF completes(answer) THEN markJobs(runs[r].state, jobs)
                    ELSE runs[r].state
           run == [pc |-> "storing", state |-> state]
<1>3. /\ runs[r].state \in Ages
      /\ \A j \in Jobs : published[j] <= runs[r].state[j]
      /\ published \in Ages
  BY <1>1 DEF SynchronizationInv, HoldsState, Truthful
<1> HIDE DEF jobs
<1>4. /\ published' \in Ages
      /\ \A j \in Jobs : published'[j] <= published[j]
  <2>1. \A j \in Jobs : published[j] <= published[j]
    BY <1>3 DEF Ages
  <2>2. /\ markJobs(published, jobs) \in Ages
        /\ \A j \in Jobs : markJobs(published, jobs)[j] <= published[j]
    BY <1>3, <2>1, MarkFacts
  <2>3. published' = markJobs(published, jobs) \/ published' = published
    BY <1>2 DEF jobs
  <2>. QED BY <1>3, <2>1, <2>2, <2>3
<1>5. state \in Ages /\ \A j \in Jobs : published'[j] <= state[j]
  <2>1. CASE completes(answer)
    <3>1. published' = markJobs(published, jobs)
      BY <1>2, <2>1, CompletedIsPublished DEF jobs
    <3>2. state = markJobs(runs[r].state, jobs)
      BY <2>1
    <3>3. \A j \in Jobs : runs[r].state[j] <= runs[r].state[j]
      BY <1>3 DEF Ages
    <3>4. state \in Ages
      BY <1>3, <3>2, <3>3, MarkFacts
    <3>. QED BY <1>3, <3>1, <3>2, <3>4, MarkFacts
  <2>2. CASE ~ completes(answer)
    <3>1. state = runs[r].state
      BY <2>2
    <3>2. ASSUME NEW j \in Jobs PROVE published'[j] <= runs[r].state[j]
      <4>1. /\ published'[j] \in Nat /\ published[j] \in Nat
            /\ runs[r].state[j] \in Nat
        BY <1>3, <1>4 DEF Ages
      <4>. QED BY <1>3, <1>4, <4>1
    <3>. QED BY <1>3, <3>1, <3>2
  <2>. QED BY <2>1, <2>2
<1>6. runs' = [runs EXCEPT ![r] = run]
  BY <1>2 DEF fail, jobs
<1>7. "pc" \in DOMAIN run /\ "state" \in DOMAIN run /\ run.state = state
  OBVIOUS
<1> HIDE DEF state, run
<1>8. /\ runs' = [q \in Runs |-> runs'[q]]
      /\ \A q \in Runs : runs'[q] = IF q = r THEN run ELSE runs[q]
  BY <1>6 DEF SynchronizationInv
<1>9. ASSUME NEW s \in Ages, \A j \in Jobs : published[j] <= s[j]
      PROVE  \A j \in Jobs : published'[j] <= s[j]
  <2> SUFFICES ASSUME NEW j \in Jobs PROVE published'[j] <= s[j]
      OBVIOUS
  <2>1. published'[j] \in Nat /\ published[j] \in Nat /\ s[j] \in Nat
    BY <1>3, <1>4, <1>9 DEF Ages
  <2>. QED BY <1>4, <1>9, <2>1
<1>10. ASSUME NEW q \in Runs
       PROVE  HoldsState(runs[q])'
  <2>1. CASE q = r
    BY <1>5, <1>7, <1>8, <2>1 DEF HoldsState, Truthful
  <2>2. CASE q # r
    <3>1. runs'[q] = runs[q] /\ HoldsState(runs[q])
      BY <1>8, <2>2 DEF SynchronizationInv
    <3>. QED BY <1>9, <3>1 DEF HoldsState, Truthful
  <2>. QED BY <2>1, <2>2
<1>11. Truthful(sync)'
  BY <1>1, <1>9 DEF SynchronizationInv, Truthful
<1>. QED BY <1>1, <1>4, <1>8, <1>10, <1>11 DEF SynchronizationInv

LEMMA StoreInv ==
  ASSUME SynchronizationInv, NEW r \in Runs, StoreRun(r)
  PROVE  SynchronizationInv'
<1>1. /\ runs[r].pc = "storing"
      /\ sync' = runs[r].state
      /\ runs' = [runs EXCEPT ![r] = Idle]
      /\ published' = published
  BY DEF StoreRun
<1>2. sync' \in Ages /\ Truthful(sync')
  BY <1>1 DEF SynchronizationInv, HoldsState
<1>3. HoldsState(Idle)
  BY DEF HoldsState, Idle
<1>. QED BY <1>1, <1>2, <1>3, OneRun

LEMMA StopInv ==
  ASSUME SynchronizationInv, NEW r \in Runs, StopRun(r)
  PROVE  SynchronizationInv'
<1>1. HoldsState(Idle)
  BY DEF HoldsState, Idle
<1>. QED BY <1>1, OneRun DEF StopRun

LEMMA TickSynchronizationInv ==
  ASSUME SynchronizationInv, TickSynchronization
  PROVE  SynchronizationInv'
<1>1. /\ sync' = AgedState(sync)
      /\ published' = AgedState(published)
      /\ runs' = [r \in Runs |-> AgedRun(runs[r])]
  BY DEF TickSynchronization
<1>2. ASSUME NEW s \in Ages, Truthful(s)
      PROVE  /\ AgedState(s) \in Ages
             /\ \A j \in Jobs : published'[j] <= AgedState(s)[j]
  BY <1>1, <1>2, AgingFacts DEF SynchronizationInv, Truthful
<1>3. published' \in Ages
  <2>1. \A j \in Jobs : published[j] <= published[j]
    BY DEF SynchronizationInv, Ages
  <2>. QED BY <1>1, <2>1, AgingFacts DEF SynchronizationInv
<1>4. sync' \in Ages /\ Truthful(sync)'
  BY <1>1, <1>2 DEF SynchronizationInv, Truthful
<1>5. ASSUME NEW r \in Runs
      PROVE  HoldsState(runs[r])'
  <2>1. HoldsState(runs[r])
    BY DEF SynchronizationInv
  <2>2. /\ DOMAIN AgedRun(runs[r]) = DOMAIN runs[r]
        /\ "pc" \in DOMAIN runs[r] => AgedRun(runs[r]).pc = runs[r].pc
        /\ "state" \in DOMAIN runs[r] =>
             AgedRun(runs[r]).state = AgedState(runs[r].state)
    BY DEF AgedRun
  <2>3. runs'[r] = AgedRun(runs[r])
    BY <1>1
  <2>4. "pc" \in DOMAIN runs'[r]
    BY <2>1, <2>2, <2>3 DEF HoldsState
  <2>5. ASSUME runs'[r].pc # "idle"
        PROVE  /\ "state" \in DOMAIN runs'[r]
               /\ runs'[r].state \in Ages
               /\ \A j \in Jobs : published'[j] <= runs'[r].state[j]
    <3>1. /\ "state" \in DOMAIN runs[r]
          /\ runs[r].state \in Ages
          /\ Truthful(runs[r].state)
      BY <2>1, <2>2, <2>3, <2>5 DEF HoldsState
    <3>. QED BY <1>2, <2>2, <2>3, <3>1
  <2>. QED BY <2>4, <2>5 DEF HoldsState, Truthful
<1>6. runs' = [r \in Runs |-> runs'[r]]
  BY <1>1
<1>. QED BY <1>3, <1>4, <1>5, <1>6 DEF SynchronizationInv

(* However many runs overlap, and whichever is stopped or stores last, a job
   the state calls done was covered by a publication no longer ago than the
   state says (sync-service.ts, run). *)
THEOREM SuccessesAreReal == SynchronizationSpec => []SuccessIsReal
<1>1. SynchronizationInv /\ [SynchronizationNext]_synchronizationVars
        => SynchronizationInv'
  <2> SUFFICES ASSUME SynchronizationInv,
                      [SynchronizationNext]_synchronizationVars
               PROVE  SynchronizationInv'
      OBVIOUS
  <2>1. CASE UNCHANGED synchronizationVars
    BY <2>1 DEF synchronizationVars, SynchronizationInv, HoldsState, Truthful
  <2>2. CASE SynchronizationNext
    BY <2>2, BeginInv, PlanInv, AnswerInv, PublishInv, StoreInv, StopInv,
       TickSynchronizationInv DEF SynchronizationNext
  <2>. QED BY <2>1, <2>2
<1>2. SynchronizationInv => SuccessIsReal
  BY DEF SynchronizationInv, Truthful, SuccessIsReal
<1>. QED
  BY <1>1, <1>2, SynchronizationInitInv, PTL DEF SynchronizationSpec

-----------------------------------------------------------------------------
(* BatchesAreReviewed.  First, what a row of checks that ends in "ok" says:
   each of them held. *)

Refusals ==
  {"manifest-digest-mismatch", "manifest-tree-dirty",
   "capture-digest-inconsistent", "artifact-digest-mismatch",
   "artifact-inconsistent", "batch-from-future", "curated-metadata-mismatch",
   "attribution-mismatch", "source-malformed", "source-invalid",
   "source-inconsistent", "classification-incomplete",
   "document-source-inconsistent", "document-digest-mismatch",
   "summary-inconsistent"}

Checks == {Check(h, reason) : h \in BOOLEAN, reason \in Refusals}

Passed(checks) == \A i \in 1 .. Len(checks) : checks[i].holds = TRUE

(* A set of naturals that has an element has a least one. *)
LEMMA LeastElement ==
  ASSUME NEW T \in SUBSET Nat, T # {}
  PROVE  \E i \in T : \A j \in T : i <= j
<1>1. PICK i \in T : \A j \in T : ~ (<<j, i>> \in OpToRel(<, Nat))
  BY NatLessThanWellFounded, WFMin, Zenon
<1>2. ASSUME NEW j \in T PROVE i <= j
  <2>1. i \in Nat /\ j \in Nat
    OBVIOUS
  <2>2. ~ (j < i)
    BY <1>1, <2>1, Zenon DEF OpToRel
  <2>. QED BY <2>1, <2>2
<1>. QED BY <1>2

LEMMA CheckFacts ==
  /\ \A c \in Checks : c.holds \in BOOLEAN /\ c.reason # "ok"
  /\ \A h \in BOOLEAN, reason \in Refusals :
       Check(h, reason) \in Checks /\ Check(h, reason).holds = h
<1>1. ASSUME NEW h \in BOOLEAN, NEW reason \in Refusals
      PROVE  /\ Check(h, reason) \in Checks
             /\ Check(h, reason).holds = h
             /\ Check(h, reason).reason = reason
             /\ reason # "ok"
  BY DEF Checks, Check, Refusals
<1>2. ASSUME NEW c \in Checks
      PROVE  c.holds \in BOOLEAN /\ c.reason # "ok"
  <2>1. PICK h \in BOOLEAN, reason \in Refusals : c = Check(h, reason)
    BY DEF Checks
  <2>. QED BY <1>1, <2>1
<1>. QED BY <1>1, <1>2

LEMMA OneCheck ==
  ASSUME NEW h, h \in BOOLEAN, NEW reason \in Refusals
  PROVE  /\ Check(h, reason) \in Checks
         /\ Check(h, reason).holds = TRUE => h
BY DEF Checks, Check

LEMMA NoFailure ==
  ASSUME NEW checks \in Seq(Checks), firstFailure(checks, "ok") = "ok"
  PROVE  Passed(checks)
<1> DEFINE failed == {i \in 1 .. Len(checks) : ~ checks[i].holds}
           first == CHOOSE i \in failed : \A j \in failed : i <= j
<1>0. \A i \in 1 .. Len(checks) : checks[i].holds \in BOOLEAN
                                  /\ checks[i].reason # "ok"
  BY CheckFacts
<1>1. CASE failed = {}
  BY <1>0, <1>1 DEF Passed
<1>2. CASE failed # {}
  <2>1. firstFailure(checks, "ok") = checks[first].reason
    BY <1>2 DEF firstFailure
  <2>2. failed \in SUBSET Nat
    OBVIOUS
  <2>3. first \in failed
    <3> HIDE DEF failed
    <3>1. \E i \in failed : \A j \in failed : i <= j
      BY <1>2, <2>2, LeastElement
    <3>. QED BY <3>1
  <2>. QED BY <1>0, <2>1, <2>3
<1>. QED BY <1>1, <1>2

LEMMA Together ==
  ASSUME NEW a \in Seq(Checks), NEW b \in Seq(Checks)
  PROVE  /\ a \o b \in Seq(Checks)
         /\ Passed(a \o b) => Passed(a) /\ Passed(b)
<1>1. /\ a \o b \in Seq(Checks)
      /\ Len(a \o b) = Len(a) + Len(b)
      /\ \A i \in 1 .. Len(a) + Len(b) :
           (a \o b)[i] = IF i <= Len(a) THEN a[i] ELSE b[i - Len(a)]
      /\ Len(a) \in Nat /\ Len(b) \in Nat
  BY ConcatProperties, LenProperties
<1>2. ASSUME Passed(a \o b) PROVE Passed(a) /\ Passed(b)
  <2>1. ASSUME NEW i \in 1 .. Len(a) PROVE a[i].holds = TRUE
    <3>1. i \in 1 .. Len(a) + Len(b) /\ (a \o b)[i] = a[i]
      BY <1>1
    <3>. QED BY <1>1, <1>2, <3>1 DEF Passed
  <2>2. ASSUME NEW i \in 1 .. Len(b) PROVE b[i].holds = TRUE
    <3>1. /\ i + Len(a) \in 1 .. Len(a) + Len(b)
          /\ (a \o b)[i + Len(a)] = b[i]
      BY <1>1
    <3>. QED BY <1>1, <1>2, <3>1 DEF Passed
  <2>. QED BY <2>1, <2>2 DEF Passed
<1>. QED BY <1>1, <1>2

LEMMA FewChecks ==
  ASSUME NEW c \in Checks, NEW d \in Checks, NEW e \in Checks
  PROVE  /\ <<c>> \in Seq(Checks) /\ (Passed(<<c>>) => c.holds = TRUE)
         /\ <<c, d>> \in Seq(Checks)
         /\ Passed(<<c, d>>) => c.holds = TRUE /\ d.holds = TRUE
         /\ <<c, d, e>> \in Seq(Checks)
         /\ Passed(<<c, d, e>>) =>
              c.holds = TRUE /\ d.holds = TRUE /\ e.holds = TRUE
<1>1. /\ Len(<<c>>) = 1 /\ <<c>>[1] = c
      /\ Len(<<c, d>>) = 2 /\ <<c, d>>[1] = c /\ <<c, d>>[2] = d
      /\ Len(<<c, d, e>>) = 3 /\ <<c, d, e>>[1] = c
      /\ <<c, d, e>>[2] = d /\ <<c, d, e>>[3] = e
  OBVIOUS
<1>2. /\ <<c>> \in Seq(Checks) /\ <<c, d>> \in Seq(Checks)
      /\ <<c, d, e>> \in Seq(Checks)
  OBVIOUS
<1>3. 1 \in 1 .. 1 /\ 1 \in 1 .. 2 /\ 2 \in 1 .. 2
        /\ 1 \in 1 .. 3 /\ 2 \in 1 .. 3 /\ 3 \in 1 .. 3
  OBVIOUS
<1>4. Passed(<<c>>) => c.holds = TRUE
  BY <1>1, <1>3 DEF Passed
<1>5. Passed(<<c, d>>) => c.holds = TRUE /\ d.holds = TRUE
  BY <1>1, <1>3 DEF Passed
<1>6. Passed(<<c, d, e>>) =>
        c.holds = TRUE /\ d.holds = TRUE /\ e.holds = TRUE
  BY <1>1, <1>3 DEF Passed
<1>. QED BY <1>2, <1>4, <1>5, <1>6

(* A submission that is verified is what its operator reviewed. *)
LEMMA VerifiedIsReviewed ==
  ASSUME NEW s \in Submissions, NEW now, verifySeasonBatch(s, now) = "ok"
  PROVE  /\ s.reviewed = s.manifest
         /\ s.artifact = s.manifest.artifact
         /\ s.manifest.observedAt <= now
         /\ s.artifact.documents = s.manifest.documents
         /\ s.artifact.documents
              = documentsOf(s.artifact.source, s.manifest.observedAt)
         /\ eligibleRounds(s.artifact.source, s.manifest.observedAt)
              = s.manifest.rounds
         /\ s.artifact.source.classified = s.manifest.rounds
<1> DEFINE source == s.artifact.source
           rounds == s.manifest.rounds
           c1 == Check(s.reviewed = s.manifest, "manifest-digest-mismatch")
           c2 == Check(s.manifest.treeClean, "manifest-tree-dirty")
           c3 == Check(s.manifest.capture = captureDigest(s.manifest.observedAt,
                         s.manifest.rounds), "capture-digest-inconsistent")
           c4 == Check(s.artifact = s.manifest.artifact,
                       "artifact-digest-mismatch")
           c5 == Check(s.artifact.observedAt = s.manifest.observedAt,
                       "artifact-inconsistent")
           c6 == Check(s.manifest.observedAt <= now, "batch-from-future")
           c7 == Check(s.artifact.labels = CuratedLabels,
                       "curated-metadata-mismatch")
           c8 == Check(s.manifest.attribution = Credit, "attribution-mismatch")
           c9 == Check(source.verdict # "source-malformed", "source-malformed")
           c10 == Check(source.verdict # "source-invalid", "source-invalid")
           c11 == Check(source.verdict # "source-inconsistent",
                        "source-inconsistent")
           c12 == Check(/\ s.artifact.source.labels = s.artifact.labels
                        /\ s.artifact.source.updatedAt = s.artifact.observedAt,
                        "artifact-inconsistent")
           c13 == Check(eligibleRounds(source, s.manifest.observedAt) = rounds,
                        "classification-incomplete")
           c14 == Check(generates(source), "document-source-inconsistent")
           c15 == Check(source.classified = rounds, "classification-incomplete")
           c16 == Check(s.artifact.documents = s.manifest.documents,
                        "document-digest-mismatch")
           c17 == Check(s.artifact.documents = documentsOf(s.artifact.source,
                          s.manifest.observedAt), "document-source-inconsistent")
           c18 == Check(s.manifest.summary = summaryOf(s.artifact.source),
                        "summary-inconsistent")
<1>1. verifySeasonBatch(s, now) =
        firstFailure(<<c1, c2, c3>> \o <<c4, c5>> \o <<c6>> \o <<c7>> \o <<c8>>
          \o <<c9, c10, c11>> \o <<c12>> \o <<c13, c14, c15>> \o <<c16, c17>>
          \o <<c18>>, "ok")
  BY DEF verifySeasonBatch, verifiedManifest, verifiedArtifact, curatedRefusal,
         attributionRefusal, sourceRefusal, sourceLabelsMatch, documentRefusal,
         summaryMatches
<1>2. /\ c1 \in Checks /\ (c1.holds = TRUE => s.reviewed = s.manifest)
      /\ c2 \in Checks /\ c3 \in Checks
      /\ c4 \in Checks /\ (c4.holds = TRUE => s.artifact = s.manifest.artifact)
      /\ c5 \in Checks
      /\ c6 \in Checks /\ (c6.holds = TRUE => s.manifest.observedAt <= now)
      /\ c7 \in Checks /\ c8 \in Checks /\ c9 \in Checks /\ c10 \in Checks
      /\ c11 \in Checks /\ c12 \in Checks
      /\ c13 \in Checks
      /\ c13.holds = TRUE =>
           eligibleRounds(source, s.manifest.observedAt) = rounds
      /\ c14 \in Checks
      /\ c15 \in Checks /\ (c15.holds = TRUE => source.classified = rounds)
      /\ c16 \in Checks
      /\ c16.holds = TRUE => s.artifact.documents = s.manifest.documents
      /\ c17 \in Checks
      /\ c17.holds = TRUE => s.artifact.documents
           = documentsOf(s.artifact.source, s.manifest.observedAt)
      /\ c18 \in Checks
  <2>1. c1 \in Checks /\ (c1.holds = TRUE => s.reviewed = s.manifest)
    BY OneCheck DEF Refusals
  <2>2. c2 \in Checks
    BY OneCheck, BatchAssumption DEF Refusals, BatchAssumption
  <2>3. c3 \in Checks
    BY OneCheck DEF Refusals
  <2>4. c4 \in Checks /\ (c4.holds = TRUE => s.artifact = s.manifest.artifact)
    BY OneCheck DEF Refusals
  <2>5. c5 \in Checks
    BY OneCheck DEF Refusals
  <2>6. c6 \in Checks /\ (c6.holds = TRUE => s.manifest.observedAt <= now)
    <3> DEFINE early == s.manifest.observedAt <= now
    <3>1. early \in BOOLEAN
      OBVIOUS
    <3> HIDE DEF early
    <3>2. /\ Check(early, "batch-from-future") \in Checks
          /\ Check(early, "batch-from-future").holds = TRUE => early
      BY <3>1, OneCheck DEF Refusals
    <3>. QED BY <3>2 DEF early
  <2>7. c7 \in Checks
    BY OneCheck DEF Refusals
  <2>8. c8 \in Checks
    BY OneCheck DEF Refusals
  <2>9. c9 \in Checks
    BY OneCheck DEF Refusals
  <2>10. c10 \in Checks
    BY OneCheck DEF Refusals
  <2>11. c11 \in Checks
    BY OneCheck DEF Refusals
  <2>12. c12 \in Checks
    BY OneCheck DEF Refusals
  <2>13. c13 \in Checks /\ (c13.holds = TRUE => eligibleRounds(source, s.manifest.observedAt)
                                            = rounds)
    BY OneCheck DEF Refusals
  <2>14. c14 \in Checks
    BY OneCheck DEF Refusals, generates
  <2>15. c15 \in Checks /\ (c15.holds = TRUE => source.classified = rounds)
    BY OneCheck DEF Refusals
  <2>16. c16 \in Checks /\ (c16.holds = TRUE => s.artifact.documents
                                            = s.manifest.documents)
    BY OneCheck DEF Refusals
  <2>17. c17 \in Checks /\ (c17.holds = TRUE => s.artifact.documents
           = documentsOf(s.artifact.source, s.manifest.observedAt))
    BY OneCheck DEF Refusals
  <2>18. c18 \in Checks
    BY OneCheck DEF Refusals
  <2>. QED BY <2>1, <2>2, <2>3, <2>4, <2>5, <2>6, <2>7, <2>8, <2>9,
              <2>10, <2>11, <2>12, <2>13, <2>14, <2>15, <2>16, <2>17, <2>18
<1> HIDE DEF c1, c2, c3, c4, c5, c6, c7, c8, c9, c10, c11, c12, c13, c14, c15,
             c16, c17, c18
<1> DEFINE b1 == <<c1, c2, c3>> \o <<c4, c5>>
           b2 == b1 \o <<c6>>
           b3 == b2 \o <<c7>>
           b4 == b3 \o <<c8>>
           b5 == b4 \o <<c9, c10, c11>>
           b6 == b5 \o <<c12>>
           b7 == b6 \o <<c13, c14, c15>>
           b8 == b7 \o <<c16, c17>>
           b9 == b8 \o <<c18>>
<1>3. firstFailure(b9, "ok") = "ok"
  BY <1>1
<1>4. /\ <<c1, c2, c3>> \in Seq(Checks) /\ <<c4, c5>> \in Seq(Checks)
      /\ <<c6>> \in Seq(Checks) /\ <<c7>> \in Seq(Checks)
      /\ <<c8>> \in Seq(Checks) /\ <<c9, c10, c11>> \in Seq(Checks)
      /\ <<c12>> \in Seq(Checks) /\ <<c13, c14, c15>> \in Seq(Checks)
      /\ <<c16, c17>> \in Seq(Checks) /\ <<c18>> \in Seq(Checks)
  BY <1>2, FewChecks
<1>5. /\ b1 \in Seq(Checks)
      /\ Passed(b1) => Passed(<<c1, c2, c3>>) /\ Passed(<<c4, c5>>)
  BY <1>4, Together
<1> HIDE DEF b1
<1>6. b2 \in Seq(Checks) /\ (Passed(b2) => Passed(b1) /\ Passed(<<c6>>))
  BY <1>4, <1>5, Together
<1> HIDE DEF b2
<1>7. b3 \in Seq(Checks) /\ (Passed(b3) => Passed(b2))
  BY <1>4, <1>6, Together
<1> HIDE DEF b3
<1>8. b4 \in Seq(Checks) /\ (Passed(b4) => Passed(b3))
  BY <1>4, <1>7, Together
<1> HIDE DEF b4
<1>9. b5 \in Seq(Checks) /\ (Passed(b5) => Passed(b4))
  BY <1>4, <1>8, Together
<1> HIDE DEF b5
<1>10. b6 \in Seq(Checks) /\ (Passed(b6) => Passed(b5))
  BY <1>4, <1>9, Together
<1> HIDE DEF b6
<1>11. /\ b7 \in Seq(Checks)
       /\ Passed(b7) => Passed(b6) /\ Passed(<<c13, c14, c15>>)
  BY <1>4, <1>10, Together
<1> HIDE DEF b7
<1>12. /\ b8 \in Seq(Checks)
       /\ Passed(b8) => Passed(b7) /\ Passed(<<c16, c17>>)
  BY <1>4, <1>11, Together
<1> HIDE DEF b8
<1>13. b9 \in Seq(Checks) /\ (Passed(b9) => Passed(b8))
  BY <1>4, <1>12, Together
<1> HIDE DEF b9
<1>14. /\ Passed(<<c1, c2, c3>>) /\ Passed(<<c4, c5>>) /\ Passed(<<c6>>)
       /\ Passed(<<c13, c14, c15>>) /\ Passed(<<c16, c17>>)
  BY <1>3, <1>5, <1>6, <1>7, <1>8, <1>9, <1>10, <1>11, <1>12, <1>13, NoFailure
<1>15. /\ c1.holds = TRUE /\ c4.holds = TRUE /\ c6.holds = TRUE
       /\ c13.holds = TRUE /\ c15.holds = TRUE
       /\ c16.holds = TRUE /\ c17.holds = TRUE
  BY <1>2, <1>14, FewChecks
<1>. QED BY <1>2, <1>15

(* Admission never answers "ok": that is the word of verification. *)
LEMMA AdmissionAnswers == \A d : admit(d) # "ok"
<1> SUFFICES ASSUME NEW d PROVE admit(d) # "ok"
    OBVIOUS
<1> DEFINE checks ==
             << Check(d.enabled # Absent, "ingest-disabled"),
                Check(d.enabled = EnabledSeason, "ingest-misconfigured"),
                Check(d.environment # "development",
                      "environment-not-permitted"),
                Check(d.environment = "production" => d.control = d.enabled,
                      "genesis-control-required"),
                Check(~ d.coordinated, "provider-mode-coordinated"),
                Check(d.sequenced, "authority-not-sequenced"),
                Check(d.credited, "attribution-not-active") >>
           failed == {i \in 1 .. Len(checks) : ~ checks[i].holds}
           first == CHOOSE i \in failed : \A j \in failed : i <= j
<1>1. admit(d) = firstFailure(checks, "admitted")
  BY DEF admit
<1>2. /\ Len(checks) = 7
      /\ checks[1].reason # "ok" /\ checks[2].reason # "ok"
      /\ checks[3].reason # "ok" /\ checks[4].reason # "ok"
      /\ checks[5].reason # "ok" /\ checks[6].reason # "ok"
      /\ checks[7].reason # "ok"
  BY DEF Check
<1> HIDE DEF checks
<1>3. \A i \in 1 .. 7 : checks[i].reason # "ok"
  BY <1>2
<1>4. firstFailure(checks, "admitted")
        = IF failed = {} THEN "admitted" ELSE checks[first].reason
  BY DEF firstFailure
<1>5. failed # {} => first \in failed
  <2>1. failed \in SUBSET Nat
    BY <1>2
  <2> HIDE DEF failed
  <2>2. failed # {} => \E i \in failed : \A j \in failed : i <= j
    BY <2>1, LeastElement
  <2>. QED BY <2>2
<1>6. failed # {} => checks[first].reason # "ok"
  BY <1>2, <1>3, <1>5
<1>. QED BY <1>1, <1>4, <1>6

-----------------------------------------------------------------------------
(* The invariant: what was verified of a submission stays with the request
   until its candidate is a release, and a prepared candidate is bound to the
   release it was compared with. *)

Documents ==
  {documentsOf(s.artifact.source, t) : s \in Submissions, t \in 0 .. MaxClock}

Releases == [documents : Documents, batch : Submissions]

(* The documents are those of what the operator reviewed. *)
Reviewed(batch, documents) ==
  /\ documents.source = batch.reviewed.artifact.source
  /\ batch.reviewed.documents
       = documentsOf(documents.source, batch.reviewed.observedAt)
  /\ eligibleRounds(documents.source, batch.reviewed.observedAt)
       = documents.source.classified
  /\ batch.reviewed.observedAt <= documents.generatedAt

(* The release a prepared request is over is the one it was reviewed against,
   and none of its rounds is lost. *)
Bound(ingest) ==
  /\ ingest.batch.expected = ingest.over
  /\ ingest.over \in {Absent} \union (1 .. Len(releases))
  /\ ingest.over # Absent =>
       releases[ingest.over].documents.source.classified
         \subseteq ingest.candidate.source.classified

RequestOK(ingest) ==
  /\ ingest.pc \in {"verified", "prepared"} =>
       /\ ingest.batch \in Submissions
       /\ ingest.candidate \in Documents
       /\ Reviewed(ingest.batch, ingest.candidate)
  /\ ingest.pc = "prepared" => Bound(ingest)

(* What a release owes the one before it. *)
ReleaseOK(n) ==
  /\ Reviewed(releases[n].batch, releases[n].documents)
  /\ releases[n].batch.expected = IF n = 1 THEN Absent ELSE n - 1
  /\ n > 1 => releases[n - 1].documents.source.classified
                \subseteq releases[n].documents.source.classified

BatchInv ==
  /\ clock \in 0 .. MaxClock
  /\ releases \in Seq(Releases)
  /\ ingests = [i \in Ingests |-> ingests[i]]
  /\ \A i \in Ingests : RequestOK(ingests[i])
  /\ \A n \in 1 .. Len(releases) : ReleaseOK(n)

LEMMA AnsweredOK == RequestOK(Answered)
BY DEF RequestOK, Answered

LEMMA BatchInitInv == BatchInit => BatchInv
<1> SUFFICES ASSUME BatchInit PROVE BatchInv
    OBVIOUS
<1>1. releases \in Seq(Releases) /\ Len(releases) = 0
  BY DEF BatchInit
<1>2. clock \in 0 .. MaxClock
  BY BatchAssumption DEF BatchInit, BatchAssumption
<1>3. \A i \in Ingests : ingests[i] = Answered
  BY DEF BatchInit
<1>. QED BY <1>1, <1>2, <1>3, AnsweredOK DEF BatchInit, BatchInv

(* A step that changes one request, to one that is in order. *)
LEMMA OneRequest ==
  ASSUME BatchInv, NEW i \in Ingests, NEW ingest,
         ingests' = [ingests EXCEPT ![i] = ingest],
         RequestOK(ingest),
         UNCHANGED <<clock, releases>>
  PROVE  BatchInv'
<1>1. /\ ingests' = [j \in Ingests |-> ingests'[j]]
      /\ \A j \in Ingests : ingests'[j] = IF j = i THEN ingest ELSE ingests[j]
  BY DEF BatchInv
<1>2. \A j \in Ingests : RequestOK(ingests'[j])
  BY <1>1 DEF BatchInv
<1>3. \A j \in Ingests : RequestOK(ingests[j])'
  BY <1>2 DEF RequestOK, Bound
<1>4. \A n \in 1 .. Len(releases') : ReleaseOK(n)'
  BY DEF BatchInv, ReleaseOK
<1>. QED BY <1>1, <1>3, <1>4 DEF BatchInv

LEMMA SubmitInv ==
  ASSUME BatchInv, NEW i \in Ingests, SubmitBatch(i)
  PROVE  BatchInv'
<1>1. PICK s \in Submissions :
        \/ ingests' = [ingests EXCEPT ![i] = Answered]
        \/ /\ verifySeasonBatch(s, clock) = "ok"
           /\ ingests' = [ingests EXCEPT ![i] =
                [pc |-> "verified", batch |-> s,
                 candidate |-> documentsOf(s.artifact.source, clock)]]
  <2>1. PICK s \in Submissions :
          LET verdict == IF admit(deployment) # "admitted" THEN admit(deployment)
                         ELSE IF s.season # EnabledSeason
                           THEN "season-not-enabled"
                         ELSE verifySeasonBatch(s, clock)
          IN  ingests' = [ingests EXCEPT ![i] =
                IF verdict # "ok" THEN Answered
                ELSE [pc |-> "verified", batch |-> s,
                      candidate |-> documentsOf(s.artifact.source, clock)]]
    BY DEF SubmitBatch
  <2>2. admit(deployment) # "ok"
    BY AdmissionAnswers
  <2>. QED BY <2>1, <2>2
<1>2. UNCHANGED <<clock, releases>>
  BY DEF SubmitBatch
<1>3. CASE ingests' = [ingests EXCEPT ![i] = Answered]
  BY <1>2, <1>3, AnsweredOK, OneRequest
<1>4. CASE /\ verifySeasonBatch(s, clock) = "ok"
           /\ ingests' = [ingests EXCEPT ![i] =
                [pc |-> "verified", batch |-> s,
                 candidate |-> documentsOf(s.artifact.source, clock)]]
  <2> DEFINE documents == documentsOf(s.artifact.source, clock)
             ingest == [pc |-> "verified", batch |-> s, candidate |-> documents]
  <2>1. /\ s.reviewed = s.manifest
        /\ s.artifact = s.manifest.artifact
        /\ s.manifest.observedAt <= clock
        /\ s.artifact.documents = s.manifest.documents
        /\ s.artifact.documents
             = documentsOf(s.artifact.source, s.manifest.observedAt)
        /\ eligibleRounds(s.artifact.source, s.manifest.observedAt)
             = s.manifest.rounds
        /\ s.artifact.source.classified = s.manifest.rounds
    BY <1>4, VerifiedIsReviewed
  <2>2. /\ documents.source = s.artifact.source
        /\ documents.generatedAt = clock
    BY DEF documentsOf
  <2>3. documents \in Documents
    BY DEF Documents, BatchInv
  <2> HIDE DEF documents
  <2>4. Reviewed(s, documents)
    BY <2>1, <2>2 DEF Reviewed
  <2>5. ingest.pc = "verified" /\ ingest.batch = s /\ ingest.candidate = documents
    OBVIOUS
  <2>6. ingests' = [ingests EXCEPT ![i] = ingest]
    BY <1>4 DEF documents
  <2> HIDE DEF ingest
  <2>7. RequestOK(ingest)
    BY <2>3, <2>4, <2>5 DEF RequestOK
  <2>. QED BY <1>2, <2>6, <2>7, OneRequest
<1>. QED BY <1>1, <1>3, <1>4

LEMMA ReleaseFacts ==
  ASSUME BatchInv
  PROVE  /\ Len(releases) \in Nat
         /\ releases = <<>> <=> Len(releases) = 0
         /\ activeVersion = IF Len(releases) = 0 THEN Absent ELSE Len(releases)
         /\ \A n \in 1 .. Len(releases) : releases[n] \in Releases
<1>1. /\ Len(releases) \in Nat
      /\ releases = <<>> <=> Len(releases) = 0
  BY EmptySeq, LenProperties DEF BatchInv
<1>. QED BY <1>1 DEF activeVersion, BatchInv

LEMMA PrepareBatchInv ==
  ASSUME BatchInv, NEW i \in Ingests, PrepareBatch(i)
  PROVE  BatchInv'
<1> DEFINE covered == IF releases = <<>> THEN {}
                      ELSE releases[Len(releases)].documents.source.classified
           ingest == [pc |-> "prepared", batch |-> ingests[i].batch,
                      candidate |-> ingests[i].candidate, over |-> activeVersion]
<1>1. /\ ingests[i].pc = "verified"
      /\ ingests' = [ingests EXCEPT ![i] =
           IF \/ expectedActiveVersion(ingests[i]) # activeVersion
              \/ ~ covered \subseteq ingests[i].candidate.source.classified
           THEN Answered ELSE ingest]
      /\ UNCHANGED <<clock, releases>>
  BY DEF PrepareBatch
<1>2. /\ ingests[i].batch \in Submissions
      /\ ingests[i].candidate \in Documents
      /\ Reviewed(ingests[i].batch, ingests[i].candidate)
  BY <1>1 DEF BatchInv, RequestOK
<1>3. /\ ingest.pc = "prepared"
      /\ ingest.batch = ingests[i].batch
      /\ ingest.candidate = ingests[i].candidate
      /\ ingest.over = activeVersion
  OBVIOUS
<1> HIDE DEF ingest
<1>4. CASE \/ expectedActiveVersion(ingests[i]) # activeVersion
           \/ ~ covered \subseteq ingests[i].candidate.source.classified
  BY <1>1, <1>4, AnsweredOK, OneRequest
<1>5. CASE /\ expectedActiveVersion(ingests[i]) = activeVersion
           /\ covered \subseteq ingests[i].candidate.source.classified
  <2>1. ingests' = [ingests EXCEPT ![i] = ingest]
    BY <1>1, <1>5
  <2>2. ingest.batch.expected = ingest.over
    BY <1>3, <1>5 DEF expectedActiveVersion
  <2>3. /\ ingest.over \in {Absent} \union (1 .. Len(releases))
        /\ ingest.over # Absent =>
             /\ releases # <<>>
             /\ ingest.over = Len(releases)
    BY <1>3, ReleaseFacts
  <2>4. Bound(ingest)
    BY <1>3, <1>5, <2>2, <2>3 DEF Bound
  <2>5. RequestOK(ingest)
    BY <1>2, <1>3, <2>4 DEF RequestOK
  <2>. QED BY <1>1, <2>1, <2>5, OneRequest
<1>. QED BY <1>4, <1>5

LEMMA FinalizeBatchInv ==
  ASSUME BatchInv, NEW i \in Ingests, FinalizeBatch(i)
  PROVE  BatchInv'
<1>1. /\ ingests[i].pc = "prepared"
      /\ ingests' = [ingests EXCEPT ![i] = Answered]
      /\ clock' = clock
  BY DEF FinalizeBatch
<1>2. CASE releases' = releases
  BY <1>1, <1>2, AnsweredOK, OneRequest
<1> DEFINE release == [documents |-> ingests[i].candidate,
                       batch |-> ingests[i].batch]
<1>3. CASE /\ ingests[i].over = activeVersion
           /\ releases' = Append(releases, release)
  <2>1. /\ ingests[i].batch \in Submissions
        /\ ingests[i].candidate \in Documents
        /\ Reviewed(ingests[i].batch, ingests[i].candidate)
        /\ Bound(ingests[i])
    BY <1>1 DEF BatchInv, RequestOK
  <2>2. /\ release \in Releases
        /\ release.batch = ingests[i].batch
        /\ release.documents = ingests[i].candidate
    BY <2>1 DEF Releases
  <2> HIDE DEF release
  <2> DEFINE last == Len(releases)
  <2>3. last \in Nat
    BY ReleaseFacts
  <2>4. /\ releases' \in Seq(Releases)
        /\ Len(releases') = last + 1
        /\ \A n \in 1 .. last : releases'[n] = releases[n]
        /\ releases'[last + 1] = release
    BY <1>3, <2>2, AppendProperties DEF BatchInv
  <2>5. /\ ingests[i].batch.expected = IF last = 0 THEN Absent ELSE last
        /\ last # 0 => releases[last].documents.source.classified
             \subseteq ingests[i].candidate.source.classified
    <3>1. last # 0 => activeVersion = last /\ activeVersion # Absent
      BY <2>3, ReleaseFacts, BatchAssumption DEF BatchAssumption
    <3>. QED BY <1>3, <2>1, <3>1, ReleaseFacts DEF Bound
  <2> HIDE DEF last
  <2>6. ASSUME NEW n \in 1 .. last + 1
        PROVE  ReleaseOK(n)'
    <3>1. CASE n = last + 1
      <4>1. n > 1 => n - 1 \in 1 .. last /\ n - 1 = last /\ last # 0
        BY <2>3, <3>1
      <4>2. n = 1 <=> last = 0
        BY <2>3, <3>1
      <4>3. n - 1 = last
        BY <2>3, <3>1
      <4>4. /\ releases'[n] = release
            /\ n > 1 => releases'[n - 1] = releases[last]
        BY <2>4, <3>1, <4>1
      <4>5. Reviewed(release.batch, release.documents)
        BY <2>1, <2>2
      <4>6. releases'[n].batch.expected = IF n = 1 THEN Absent ELSE n - 1
        BY <2>2, <2>5, <4>2, <4>3, <4>4
      <4>7. n > 1 => releases'[n - 1].documents.source.classified
                       \subseteq releases'[n].documents.source.classified
        BY <2>2, <2>5, <4>1, <4>4
      <4>. QED BY <4>4, <4>5, <4>6, <4>7 DEF ReleaseOK
    <3>2. CASE n # last + 1
      <4>1. n \in 1 .. last /\ (n > 1 => n - 1 \in 1 .. last)
        BY <2>3, <3>2
      <4>2. /\ releases'[n] = releases[n]
            /\ n > 1 => releases'[n - 1] = releases[n - 1]
        BY <2>4, <4>1
      <4>3. ReleaseOK(n)
        BY <4>1 DEF BatchInv, last
      <4>. QED BY <4>2, <4>3 DEF ReleaseOK
    <3>. QED BY <3>1, <3>2
  <2>7. /\ ingests' = [j \in Ingests |-> ingests'[j]]
        /\ \A j \in Ingests : \/ ingests'[j] = Answered
                              \/ ingests'[j] = ingests[j]
    BY <1>1 DEF BatchInv
  <2>8. ASSUME NEW j \in Ingests
        PROVE  RequestOK(ingests[j])'
    <3>1. CASE ingests'[j] = Answered
      BY <3>1 DEF RequestOK, Answered
    <3>2. CASE ingests'[j] = ingests[j]
      <4>1. RequestOK(ingests[j])
        BY DEF BatchInv
      <4>2. Bound(ingests[j]) => Bound(ingests[j])'
        <5> SUFFICES ASSUME Bound(ingests[j]) PROVE Bound(ingests[j])'
            OBVIOUS
        <5>1. /\ ingests[j].batch.expected = ingests[j].over
              /\ ingests[j].over \in {Absent} \union (1 .. last)
              /\ ingests[j].over # Absent =>
                   releases[ingests[j].over].documents.source.classified
                     \subseteq ingests[j].candidate.source.classified
          BY DEF Bound, last
        <5>2. ingests[j].over \in {Absent} \union (1 .. last + 1)
          BY <2>3, <5>1
        <5>3. ingests[j].over # Absent =>
                releases'[ingests[j].over] = releases[ingests[j].over]
          BY <2>4, <5>1
        <5>. QED BY <2>4, <3>2, <5>1, <5>2, <5>3 DEF Bound
      <4>. QED BY <3>2, <4>1, <4>2 DEF RequestOK
    <3>. QED BY <2>7, <3>1, <3>2
  <2>. QED BY <1>1, <2>4, <2>6, <2>7, <2>8 DEF BatchInv
<1>. QED BY <1>2, <1>3 DEF FinalizeBatch

LEMMA TickBatchInv ==
  ASSUME BatchInv, TickBatch
  PROVE  BatchInv'
<1>1. clock' \in 0 .. MaxClock
  BY BatchAssumption DEF TickBatch, BatchInv, BatchAssumption
<1>2. UNCHANGED <<releases, ingests>>
  BY DEF TickBatch
<1>3. /\ \A i \in Ingests : RequestOK(ingests[i])'
      /\ \A n \in 1 .. Len(releases') : ReleaseOK(n)'
  BY <1>2 DEF BatchInv, RequestOK, Bound, ReleaseOK
<1>. QED BY <1>1, <1>2, <1>3 DEF BatchInv

(* A batch is published as its operator reviewed it, once, over the release it
   was reviewed against, and without losing a round, however many requests
   are under way and however often one is repeated (ingest, publishGuarded). *)
THEOREM PublishedBatchesAreReviewed == BatchSpec => []BatchesAreReviewed
<1>1. BatchInv /\ [BatchNext]_batchVars => BatchInv'
  <2> SUFFICES ASSUME BatchInv, [BatchNext]_batchVars PROVE BatchInv'
      OBVIOUS
  <2>1. CASE UNCHANGED batchVars
    BY <2>1 DEF batchVars, BatchInv, RequestOK, Bound, ReleaseOK
  <2>2. CASE BatchNext
    BY <2>2, SubmitInv, PrepareBatchInv, FinalizeBatchInv, TickBatchInv
       DEF BatchNext
  <2>. QED BY <2>1, <2>2
<1>2. BatchInv => BatchesAreReviewed
  BY DEF BatchInv, ReleaseOK, Reviewed, BatchesAreReviewed
<1>. QED BY <1>1, <1>2, BatchInitInv, PTL DEF BatchSpec
=============================================================================
