# GridView: a verification project

GridView publishes Formula One seasons. A Cloudflare Worker
(`src/services/edge-api`) fetches a season from its providers, turns it into a
*release* (some tens of JSON documents under one version identifier) and makes
that release the one its public routes serve; a Flutter application
(`src/lib`) synchronises the documents into a local database. The part of the
system where mistakes are both silent and permanent is *publication*: which
version of a season is active, what may be deleted, and with which timestamps;
and, before it, *reconciliation*: which of the results the providers serve is
accepted, and when a person has to decide; and *intake*: whether what was read
from the providers is one state of the season at all. This project models these
parts, checks them with TLC on small instances, and proves with TLAPS, for every
value of the constants, every safety property the runs check.

## 1. The system

Paths are relative to `src/services/edge-api/src/` unless they start with
`lib/`.

| Component | State it keeps | Operations | Talks to |
|---|---|---|---|
| Season publication sequencer (`publication/sequencer`) | per season, in a Durable Object: authority record, one operation record, one pending-cleanup record, committed and prepared rows per document | `prepare`, `finalize`, `cancel`, `authorizeCleanup`, `acknowledgeCleanup`, `seedCutover`, `activateCutover`, `commitGenesis`, reads | called by the publication and cutover services |
| Sequencer transport (`publication/sequencer/durable-object.ts`, `wire-decoders.ts`) | none | one request, one answer; an answer that does not decode is "uncertain" or a refusal | between the two above |
| Sequenced publication (`publication/sequenced`) | none that is durable | `publish`, `publishGuarded`, `rollback`, `purgeActiveVersion` | sequencer, Workers KV, edge cache |
| Participation guard (`publication/guard`) | none | derive, read the predecessor's, compare | Workers KV |
| Release storage (`storage`) | Workers KV keys: documents, inventory and publication metadata ("sidecar") by version; legacy pointers; global keys | get, put, list, delete, each of which may fail | everything |
| Cutover and genesis (`publication/cutover`) | a checkpoint file; the seed fingerprint | plan, seed, recover, activate, genesis | sequencer, Workers KV |
| Legacy publisher (`publication/publisher.ts`) | active and previous pointer in KV | `publish`, `rollback` | Workers KV |
| Canonical forms (`publication/canonical`) | none | revisions, instants, ordering | pure |
| Reconciliation ledger (`sync/coordinated/ledger`) | in a Durable Object, per season: lease and fence, season record, classification records; across seasons: the operator backlog | `acquireLease`, `releaseLease`, `commit`, `reconcilePublishedRevisions`, `operate`, `dispose`, `verify`, `rotateVerifications` | called by the coordinated run and the operators |
| Coordinated run (`sync/coordinated`: run, observation, policy, outcome, heartbeat, run budget) | the sync state in KV | reconcile, recover, plan, observe, decide, publish, settle, beat | ledger, providers, publication |
| Operator commands (`admin`, `sync/coordinated/operator`) | through the ledger | hold, release, clear, dispose, verify, rotate, rollback | ledger, publication |
| Provider coordination (`providers/coordination`) | per run | assemble a season from several resources; late answers | ports |
| Provider client and rate limiter (`providers/http`) | a Durable Object with reservation windows and upstream holds | reserve, report a 429 | providers |
| Provider ports and mappings (`providers/jolpica`, `mappings`, `mock`, `controlled`) | none | parse, normalise | pure |
| Legacy synchronisation (`sync/sync-service.ts`, `scheduler.ts`) | sync state, quota state | scheduled jobs | legacy publisher |
| Season batch ingest (`ingest`) | none | verify a submitted batch, publish it guarded | sequenced publication |
| Public routes and cache (`public`, `cache`, `routes`, `http`) | the edge cache | read the active release, purge | storage, sequencer |
| Snapshots, contract, configuration, logging | none | pure | |
| Client synchronisation (`lib/features/sync`, `lib/features/shared/data/sync`) | one active run, a queued manual refresh, one in-flight future per resource, sync metadata rows | start, foreground, refresh, cancel; apply a snapshot, record a failure | client database, public routes |
| Client database, preferences, observability, API, media, presentation (`lib/core`, `lib/features`) | SQLite tables, preferences | rows, screens | |

What makes publication hard:

* A publisher is not a transaction. Between reading the authority and asking
  for the commit it makes tens of KV calls and may be stopped at each of them;
  meanwhile other publishers (the scheduled run, an operator, an ingest) do the
  same for the same season.
* A call to the sequencer may be executed and its answer lost. `finalize` is
  driven again once, `prepare` is not.
* KV has no transactions and no compare-and-set: a write may fail and still
  have landed, a deletion is a listing followed by single deletes.
* No clock is trusted: it may go back between any two calls, and every
  publisher has its own.
* The sequencer remembers one operation and one displaced orphan, nothing else.

What makes reconciliation hard:

* A provider may contradict itself, and go back to a result it had withdrawn.
  A change must be seen twice in a row, a settled result may change only by an
  operator, and what was displaced must never come back.
* Runs and operators take turns by a lease that expires by itself; a session
  may go on without knowing it lost its lease, or stop with the work half done.
* A request of an operator may be executed and its answer lost; the same
  request is then sent again, perhaps after other operators and runs.
* The backlog of corrections is one for all seasons, and bounded.

What makes intake hard:

* A season is read in many requests while Jolpica goes on publishing, and its
  tables lag behind its classifications: payloads may describe different states.
* Capacity is shared by all runs through one object; its answer may be lost, a
  429 reaches one run before the others hear of it, and a run is aborted while
  an answer is on its way.

The properties each part owes: the sequencer moves its active and previous
release together, once per epoch and in epoch order, never hands out for
deletion what is or may become a release, forgets no orphan, gives every
changed document a timestamp later than all before it, writes no record it
could not read back and gives no answer its client would not accept. The
publisher makes no release active that is incomplete, that drops a
participation fact, that is stamped before the one it replaces, or that differs
from what was committed; it says "applied" only when it is; and it ends. The
handover keeps a release served throughout, and what an operator was told about
a seed stays true. The ledger lets nobody write under a lease they lost, applies
each request at most once and keeps its backlog equal to what is staged; the
policy replaces a result only by a corroborated one, never by one it displaced,
and ends every race; a run that stops half-way leaves its publication due. The
limiter grants no more than every window allows, holds are kept, and every
request that leaves was reserved and is counted once. The legacy
synchronization puts off no job that was not published, and a batch is
published as its operator reviewed it or not at all. The client (planned) never
replaces data by an older revision and loses no refresh the user asked for.

## 2. The modules

`PROJECT.json` names, for every definition that models code, the lines it stands
for, with the comment that states their contract and the helpers it abstracts.

| Module | Role |
|---|---|
| `SeasonAuthority` | abstract: one active and one previous release, what came into force, what was discarded |
| `SeasonSequencer` | the Durable Object, one action per command; its callers are arbitrary |
| `SequencerCodec` | what the sequencer reads back, what it replies, what its client accepts |
| `SequencedPublication` | publishers and Workers KV around the same sequencer |
| `SnapshotPublisher` | the legacy publisher and its pointers in Workers KV |
| `SequencedMaintenance` | what the sequenced service owes after a commit |
| `SeasonCutover` | deployments, seed, activation and genesis, around sequencer, legacy publisher and maintenance |
| `ClassificationPolicy` | one race classification: its record and the pure steps that change it |
| `ReconciliationLedger`, `LedgerRecords` | the ledger's Durable Object, one action per operation; what it decodes |
| `CoordinatedObservation` | runs and operators around the same ledger |
| `ProviderOutcome`, `ProviderRequests` | the closed outcome of a port; the runs that ask, and the limiter that grants |
| `ProviderMapping`, `JolpicaResults`, `JolpicaSeason` | names, race classifications and season-wide resources, from an answer to a payload |
| `SeasonSource`, `SnapshotSet`, `SeasonIntake` | a season assembled from payloads; the set generated from it; a run that reads it piece by piece |
| `SeasonSynchronization` | the legacy synchronization, its plan and its modelled quota |
| `SeasonBatchIngest` | reviewed batches |
| `SeasonSequencerProofs`, `SequencedPublicationProofs`, `SeasonCutoverProofs`, `ReconciliationLedgerProofs`, `CoordinatedObservationProofs`, `ProviderRequestsProofs`, `SeasonIntakeProofs`, `SeasonCommandsProofs` | the theorems |
| `MCSeasonSequencer`, `MCSequencedPublication`, `MCSeasonCutover`, `MCObservation`, `MCProviderRequests`, `MCSeasonIntake`, `MCSeasonCommands` | values of the constants for TLC |

### SeasonSequencer

`authority`, `operation`, `pendingCleanup`, `committed` and `prepared` are the
five kinds of record `store.ts` keeps. Every command runs inside one
`transactionSync`, so it is one action; its refusals in code order are its
`...Answer` operator, and its writes are the action of the same name. A refused
command writes nothing, so only the accepted answer is a step. The three
variables called `history` are read by no action.

The caller is any caller: `Next` lets any well-formed request with any epoch,
token and version arrive at any time, with any reading of the clock. This is
stronger than what the service in this repository does, and it covers delayed,
duplicated and reordered calls without modelling a network.

Data are abstracted as follows. Revisions and manifest commitments are model
values. Instants are integers, 0 being the absent one; `MaxInstant + 1` stands
for a reading with no four-digit-year spelling. A version identifier is its
namespace and, for an allocated one, its epoch, since
`candidateVersionForEpoch` encodes the epoch injectively. A token is random in
the code; it is named by its epoch, so a wrong token is that of another epoch.

### SequencerCodec

EXTENDS `SeasonSequencer` with operators only. `StoredRecordsRead` is what the
readers of `store.ts` require of each record and of records together;
`SeedRecoverable` is what recovery requires of a committed season; the
`...Reply` operators are the answers of `durable-object.ts` to every request,
the `decode...` and `...AnswersRequest` operators what `wire-decoders.ts` and
the client make of them. A record that does not decode stops its season for
good, which is why "the commands write no such record" is a property here and
not an assumption.

### SequencedPublication

EXTENDS `SeasonSequencer`, so the sequencer's variables are changed by exactly
its actions. `stored` is KV by version: the documents, the inventory, and the
ordering input the sidecar carries. `pub[p]` is one run of the service: `pc`
names the call it makes next, the other fields are the local variables the rest
of the run reads. One action is one awaited call with the code up to the next:

| Action | Code |
|---|---|
| `StartPublish`, `StartRollback` | `publish`, `publishGuarded`, `rollback` up to the authority read |
| `ReadTarget` | the rollback target and its ordering provenance |
| `ReadPredecessor` | `guardAgainstPredecessor`, `withPublicationInstant` |
| `CallPrepare` | `prepareWithCleanup`, its one retry included |
| `CallAuthorizeCleanup`, `DeleteCandidate`, `CallAcknowledgeCleanup` | `drainOrphan`, and the second half of `cancelAndClean` |
| `WriteDocument`, `WriteInventory`, `WriteSidecar`, `ReadBack` | `writeCandidate` |
| `CallFinalize`, `ConfirmCommit` | the two drives of `finalize` and the one authority read |
| `CompleteCommitted`, `CallCancel` | `completeCommitted`, `cancelAndClean` |
| `Crash` | the isolate is stopped |
| `Enter` | the season enters by seed and activation, or by genesis |

A call that was executed and not answered is a disjunct that keeps the
sequencer's step and takes the branch for an uncertain answer. A write that
fails may leave `stored` as it was or written. A read that fails, and a
candidate refused by the contract validator, end the run like any refusal. A
deletion leaves what `Survivors` allows, or everything.

The guard's reads and the instant's reads are separate calls in the code; both
read one immutable version, so the module makes them in one step. The model
merges the reasons for which a run ends. The purge and the pointer written after
the commit are `SequencedMaintenance`: nothing else here reads them. Manifests
are complete sets of documents, so the check for the base document names cannot
fail. A rollback over an active version whose inventory is absent contributes no
routes.

### SnapshotPublisher, SequencedMaintenance

`kv` holds which documents of a version are stored, its inventory, the season's
active and previous pointer and the global current-season pointer. `command` is
the publication, rollback or purge in progress, `answer` what it has just
reported. One action is one KV call that matters to a pointer or a release; each
may fail, may fail after it landed, or may be the last before a stop
(`StopPublisher`). One command runs at a time: two that overlap lose each
other's pointers, which is what the sequencer was built to replace (ADR 0025).
A read of a pointer sees the writes of its own Worker. The content metadata,
written with the current season, is left out.

| Action | Code (`publisher.ts`) |
|---|---|
| `BeginPublish`, `BeginRollback`, `BeginPurge` | the checks and reads before the first write |
| `WriteDocument`, `WriteInventory`, `Assess` | the candidate and its completeness |
| `SetCurrentSeason`, `SetActive`, `MaintainPreviousPointer` | the three pointers |
| `DeleteUnpublishedVersion`, `DeleteWhateverIsActive` | the compensation of a failed commit; the second is the faulty one |
| `PurgeRoutes` | the routes that answered with what was replaced |

`SequencedMaintenance` adds `post`, what a commit of the sequenced service still
owes: the current-season pointer and the purge. Both happen outside the
sequencer, derived from what was read before the prepare. Its pointer write and
its purge are one step, and one season is modelled; after a stop between the two
pointers, a retried purge no longer owes the aliases of the other season, and a
response the router stores after a purge is left out.

### SeasonCutover

EXTENDS `SequencedMaintenance`. `deployed` is the configuration of the Worker
(publication mode and the cutover control), `approved` the checkpoints operators
approved, `late` whether one was approved while a legacy command was still
running, `request[o]` an operator's request at its next call, `receipt` what one
has just been told.

| Action | Code |
|---|---|
| `Deploy`, `ApproveCheckpoint` | a deployment; the approval of a planned checkpoint |
| `LegacyCommand` | `buildPublicationCommands` admits a legacy command, or one in progress goes on |
| `PrepareCandidate`, `FinalizeCandidate`, `SequencedMaintain` | a sequenced publication, in two steps and its maintenance |
| `StartSeed`, `Recover`, `StageFreshSeed`, `Present`, `ConfirmSeed` | `seed`: recovery of a committed seed, else `importRelease` and a fresh one |
| `StartActivate`, `Activate` | `activate` |
| `StartGenesis`, `ReadLegacyRelease`, `CallCommitGenesis`, `ReconcileGenesis` | `genesis` |
| `Fail` | a refusal, a failed read, a lost answer, a stop |

`Deploy` follows the operators' procedure in `GridView_Backend_Operations.md`:
the mode never goes back, the control stays set from an approval until the
season is the sequencer's, a genesis is deployed without approvals and an
activation with one. A seed control closes the ordinary entry of the sequenced
service and leaves the guarded one open. `KvBefore` is what the legacy publisher
may have left; `SeasonCutoverProofs` proves that it leaves nothing
else.

### ClassificationPolicy

Operators only, named as in `policy/` and `ledger/verification.ts`. A record
is what `ClassificationRecord` keeps, without the fields nothing decides on
(attempt counters, categories, the instants of an observation) and without
those that follow from others: the review state follows from the content and
the terminal reason, the markers from the three revision slots, the next due
instant from the slot last consumed. A revision is a model value. Time is
counted in slots: slot `k` of a race falls due `k` after its start. The real
cadence has 25 slots (twelve hourly, then days 1 to 14); its shape is in the
constants (`WindowChecks`, `ConfirmationSlots`, `SettlingSlot`, `FinalSlot`),
and nothing depends on how far apart the slots are.

### ReconciliationLedger, LedgerRecords

`lease`, `season`, `records` and `backlog` are what `store.ts` keeps of one
season, `elsewhere` counts the backlog entries of the others. Each operation is
one `transactionSync`, hence one action, enabled exactly when the code does not
refuse; a refused call changes nothing. A commit carries the season record and
one record per written round, each with the version it was read at
(`isCommittable`, `keepsReview`, `keepsHistory`, `keepsOperatorState`).
`LedgerRecords` is what every stored value, request and answer must satisfy to
be decoded: the bounds, and the agreement between fields.

| In the model | In the code |
|---|---|
| `lease.held` becomes FALSE | the lease is released, or its expiry passes |
| `season.due` | `publicationDueAt` is not null |
| `season.disposition` | `publishing` without or with an ordering input ("publishing", "reserved"), blocked for a staged or locked record ("review"), or for another reason ("blocked") |
| `season.hold`, `season.durable` | `operatorHold`, `durableBlock` |
| `records[r].version = 0` | the ledger holds no record of the round |
| `request.history` of a rotation | the digest of the history the operator archived |

The model starts when a calendar has been observed: the bootstrap of a season,
and a hold placed before its first record, are left out, and so is the value of
the ordering input, of which only "reserved" is kept.

### CoordinatedObservation

EXTENDS the two. `session[s]` is a run or one call of an operator: `pc` names
its next call, the rest is what that call reads. `request` is what an operator
inspected and asked, by operation identifier; it is sent any number of times.
`history` is read by no action.

| Action | Code |
|---|---|
| `Acquire`, `Release` | `acquireLease`, the release at the end of every session |
| `GiveUp` | a call failed, was refused or lost its answer, or the isolate stopped |
| `Reconcile`, `SkipReconciliation` | the authority's revisions are read and cached; a season in genesis has none |
| `Recover` | `recoverUnfinishedPublication` and its commit |
| `Plan` | `planRun` |
| `Observe` | coordination, `recordRunObservations`, `markPublishing`, the observation commit, and the decision taken on what it left |
| `Reserve` | the intent commit |
| `Settle` | the outcome commit (`settleSeasonRecord`) |
| `Inspect` | an operator reads the season and forms a request |
| `SubmitAction`, `SubmitDisposition`, `SubmitVerification`, `SubmitRotation` | the operator commands |
| `Expire`, `Tick`, `Elsewhere` | the ledger's clock, time, other seasons |

A write whose answer is lost is the write followed by `GiveUp`: the session ends
either way, and the interleaving between the two is one the crash has too. The
provider answers each planned check with any revision, or with a failure, a
deferral or no attempt. What the authority serves, whether an interrupted
publication had committed, and how a publication ended are nondeterministic
here; `SequencedPublication` models them. The heartbeat is not modelled.

### ProviderOutcome, ProviderRequests

`ProviderOutcome` is the closed outcome of a port and what the coordinator makes
of the outcomes of a run (`port.ts`, `source-policy.ts`, `coordinator.ts`,
`composition.ts`).
`ProviderRequests` has the runs and the limiter. `ledger` is
the reservations the Durable Object still holds, `hold` its upstream hold;
`runs[r]` has the run's place, its answers, its pacer, its own hold and its
signal. `granted`, `held`, `sent` and `inTime` are history.

| Action | Code |
|---|---|
| `Lease`, `EnterCoordination`, `NextOperation` | the run enters, and takes its next resource |
| `Ask`, `Reserve`, `Unreachable` | the pacer; the limiter's transaction, its answer or the loss of it |
| `Send`, `Refuse`, `Complete`, `Fail` | the request leaves, is refused before it left, is answered, or fails |
| `RateLimited`, `RecordRateLimit`, `LoseReport` | a 429: the run's own hold, and its report |
| `Expire`, `Tick` | the run's deadline aborts it; the clock |
| `ElsewhereReserve`, `ElsewhereReport` | the runs that are not modelled |

Storage failures of the limiter, lost answers and lost reports are bounded by
`MaxFailures`. Redirects, size limits and the evidence of a refusal are left
out.

### ProviderMapping, JolpicaResults, JolpicaSeason, SeasonSource, SnapshotSet, SeasonIntake

The first five are pure. `ProviderMapping` builds the registry of curated names
and looks a name up; `JolpicaResults` and `JolpicaSeason` say what an answer is
read as, or why it is refused; `SeasonSource` derives the spans of drivers'
seats, holds a season to its relations and names the gap that withholds it;
`SnapshotSet` has the order of what is ahead and behind, the documents and the
seat a driver's document shows. `SeasonIntake` is the run: `races` and `tables`
are Jolpica's, which publishes in any order (`Classify`) and moves its tables
later (`MoveOn`); `run` asks for one resource after the other (`Read`), plans
its checks (`PlanChecks`), may be aborted (`Cancel`) and prepares or withholds a
candidate (`Prepare`). The next run begins with nothing read (`Begin`).

### SeasonSynchronization, SeasonBatchIngest

`SeasonSynchronization` is `SynchronizationService.run` with the plan of due
jobs and the modelled quota. `sync` and `quota` are the stored states, `runs`
the copies overlapping runs hold: `BeginRun` reads them, `PlanRun` chooses jobs,
`AnswerRun` is the provider's, `PublishRun` the legacy publication, `StoreRun`
writes back what the run holds, over whatever was stored meanwhile, `StopRun` is
a stop. Instants are relative to now (an age, a time left), so time is unbounded
and the model finite. Failure marks, metrics, a worker without a provider and a
change of published limits are left out. Overlapping runs do lose each other's
holds and counts; what is checked is that none loses the truth of a success.

`SeasonBatchIngest` has what operators submit, the Worker's checks in their
order (`Check`), the regeneration of the documents at its own clock, and the
publication over the release the operator named: `SubmitBatch`, `PrepareBatch`,
`FinalizeBatch`. A digest is what it is the digest of. The two-phase publication
is external here; decoding of the body is left out.

## 3. What is checked

A property stated over `authority'` and `authority` is an action property;
every other is an invariant. Each has a faulty variant of a definition
(`candidateVersionOffByOne`, `neverStale`, ...) that stands before the
definition in the module and violates the property when it takes its place.

| Run | Instance | What it shows |
|---|---|---|
| `sequencer` | two documents, two revisions, three epochs, three instants, two seeds and a genesis; any caller | the sequencer's invariant (`SequencerInv`), no late deletion of a release (`DeletableIsGarbage`), timestamps and ordering only advance (`ObservationClockAdvances`, `OrdinaryNeverOlder`), it implements `SeasonAuthority` (`ImplementsAuthority`), can read what it wrote (`RecordsStayReadable`) and is understood by its client (`RepliesDecode`) |
| `publication` | two publishers, a migrated season, two candidates, two epochs | served releases are whole and equal to what was committed (`ServedReleases`), "applied" is true (`AppliedMeansCommitted`), no release drops a fact (`ParticipationKept`), releases are stamped in order (`PublicationInstantAdvances`) |
| `publication_ends` | two publishers, genesis, fairness | every run ends (`PublicationEnds`) |
| `acknowledge` | one publisher, partial deletions | *violated*: finding 1 |
| `refused` | two publishers | *violated*: finding 2 |
| `cutover` | two legacy releases, two operators, one epoch | what is served, or would be returned to, is whole (`ReleasesStayWhole`); what commands report is so (`AnswersHold`); seeds say what their checkpoint says and requests for one checkpoint agree (`SeedingAgrees`); the season goes on being served (`HandoverHolds`) |
| `cadence` | one race with two possible starts, two revisions, four slots, scheduled and manual runs, any published revision | a replacement has two sightings in a row (`ReplacementIsCorroborated`), a settling its confirmations (`SettlingIsConfirmed`), and the ceiling ends every race and none before it (`CeilingIsFinal`) |
| `review` | a staged correction verified once, three revisions, four operations, two sessions that may lose the lease to each other | displaced and rejected revisions stay out (`SupersededNeverReturns`); a competing correction was returned to two operations (`CompetingIsCorroborated`); each request takes effect once, across a rotation too (`OperationsApplyOnce`); the store refuses nothing the policy made of a live run (`LiveRunIsNotRefused`); whoever holds the lease sees the current ledger (`HolderSeesLedger`); every record decodes again (`StoredRecordsDecode`) |
| `two_staged` | two staged rounds and another season, two operations | a block for review has its cause (`ReviewBlockHasCause`); the backlog is what is staged, within its capacity (`BacklogHoldsStaged`); a publication left undone stays owed (`OwedPublicationIsRemembered`) |
| `providers` | one run with two resources in three requests, two windows, runs elsewhere | no window overflows and a deferral names the exact instant (`ReservationsAreSound`), holds are kept (`HoldsAreHonoured`), every request was reserved and is counted once (`RequestsAreAccounted`), no late answer is a check (`ChecksAreSound`) |
| `season` | three rounds, three drivers, nine seasons, of which seven have one defect | a candidate is one state of the season (`OneHorizon`), withheld for nothing derived (`PreflightIsSound`), with the right seats (`CurrentSeatIsLatest`), timeline (`ChronologyHolds`) and contents (`CandidateIsWhole`) |
| `commands` | cron and operator, two jobs, two quota windows; or two submissions at once | no job is put off that was not published (`SuccessIsReal`), the source is asked again (`PolledIsAskedAgain`), every release is what its operator reviewed (`BatchesAreReviewed`) |

Bounds of the publication runs, and why they are enough:

* `MaxOperationEpoch` is 3 in `sequencer`: one operation displaced into the
  pending slot, a second displaced while the slot is full (backpressure), and a
  third on top. It is also the exhausted epoch space. It is 2 with publishers:
  one operation to lose and one to commit over it; and 1 in `cutover`, where the
  question is what a publication does to a seed, a receipt and a legacy command.
* `MaxInstant` is 3 to 5, `PreparationTtl` 0 or 1: an operation can be
  finalized within its lease, expire, and be displaced by a prepare at a later
  reading that still has a spelling for its own deadline. Readings may repeat
  and go back. With a time-to-live of 0 the lease is the instant of the
  preparation, which leaves room for an expiry within three instants. `cutover`
  has two readings for seeds, so that two requests for one checkpoint disagree.
* One results document and one other: the guard looks only at the first kind.
  Two revisions of it, of which the second adds a fact. In `cutover` a document
  of the base set and one that a later release withdraws.
* Two publishers, two operators: every hazard listed involves a run and one that
  overtakes it. They are declared symmetric where no liveness is checked.
* The publishers stamp with one clock reading (`Generations`), so two runs
  always compete for the same instant; the sequencer's readings are two, one
  inside and one past the lease.
* A run may start as often as it likes: the epoch space bounds commits.
* In `cutover`, and in what is proved of it, no request is open while an operator
  purges, which reads nothing a request changes (`OperatorsRest`), and a second
  request opens only when no legacy command is in progress (`MayOpen`).

Bounds of the ledger's runs:

* `FinalSlot` is 2 or 3: `cadence` has a window of two slots with one
  confirmation slot in it, a later slot that may settle and a ceiling, so every
  branch of the policy is taken; the others need only a first slot and the
  ceiling. `HistoryCapacity` is 2 where the code has 16, and 1 in `review`,
  where a disposition meets a full history.
* `MaxFence` bounds the sessions that ever take the lease, 3 to 7: enough for a
  run that observes, one that corroborates or stages, and the operators.
* `MaximumVerifications` is 2 in `review`: one is there from the start, and the
  next fills the history, which a rotation empties. `BacklogCapacity` is 1 or 2,
  that is full or one short of it.
* `review` and `two_staged` start from a later state (`MCVerified`,
  `MCStaged`): a correction of every round is staged, the season blocked and, in
  `review`, verified once and held or not. A run from `Init` reaches it, at the
  cost of most of the fences; `cadence` starts from `Init`.
* Revisions, sessions and operations are interchangeable, and none of these
  runs checks liveness, so all three are declared symmetric.

Bounds of the others: `providers` has a window of one request per unit and one
of two in three, so each may be the one that defers; a deadline inside the run;
one fault and two events elsewhere. `season` lets each table lag behind any
race, and its answers include a page cut off, one event under two rounds, a
second name, a stint that looks like another driver, an undated event and a
moved calendar. Rounds 1 and 3 are two events of one circuit, under two names,
which the decoder lets pass. `commands` has one
window of each class. The thresholds of the sustained one are raised to the small
limit, so that it is at `warning` when whole, at `high`, and at `critical` with a
request left and with none; `normal`, which the jobs due treat as `warning`, is
not met. Every submission of which up to two parts come from elsewhere is made.

`CHECK_DEADLOCK FALSE` is given because a season whose epoch space is exhausted
has nothing more to do, and neither has one whose last slot, fence, clock reading
and operation identifier have been used. `season` and `commands` check it.

Fairness. `FairPublicationSpec` has weak fairness on the steps a run takes by
itself, `Run(p)`, for each publisher: the Workers runtime resolves or rejects
every awaited call, and the code loops nowhere without one. There is none on
starting a run, on a crash or on cutover: nothing obliges an operator.
`SynchronizationFairness` has weak fairness on time, on the cron, which the
platform starts on its schedule, and on the steps of the runs it started; strong
fairness on the plan says that the platform does not always stop a run before
it. There is none on what the provider answers, nor on the operator.

### Findings

1. *Acknowledged although not deleted* (`AcknowledgedAfterDeletion`).
   `deleteCandidate` swallows a failed deletion and both its callers
   acknowledge. The sequencer then forgets the version and the documents stay.
   `model.ts` and ADR 0025 (D5) describe the acknowledgement as following a
   deletion that succeeded. No release is affected (`ServedReleases`
   holds); storage leaks. (It also leaks when a publisher whose epoch expired
   writes on after its orphan was deleted and acknowledged; `ServedReleases`
   covers those steps, nothing says that what it wrote is removed.)
2. *A committed publication reported as refused* (`RefusedMeansUncommitted`).
   `finalize` answers `superseded` for a lower epoch only while there is a
   current operation record. If the operation prepared on top of a commit was
   cancelled and acknowledged, the record is gone, and the re-driven finalize
   of the commit is answered `no-current-operation`. The service treats that as
   a refusal: it cancels and cleans (both refused, so nothing is lost) and
   reports a failure for the release that is being served. ADR 0025 (D9) says a
   lower epoch is `superseded`.

Disagreements met while modelling that no run shows, because the model follows
the code and its property says what the code does:

* `GridView_Backend_Operations.md:957` and ADR 0025 say that an identical
  seed is answered `already-active` however much later. Once the season has
  published on, the recovered record no longer describes the checkpoint, and
  the answer is `committed-seed-incoherent`. `IdenticalSeedsAgree` says exactly
  that.
* The header of `cutover/genesis.ts` says a genesis cannot race a legacy
  release. A legacy publication admitted before the closure still runs; genesis
  reads that no release exists and commits later. `ServingContinues` excepts it.
* `publisher.ts:392-410`: a commit that throws although it landed is reported
  as failed with the active pointer moved; and the current season moves before
  the commit.
* `recoverCutoverSeed` of a season born by genesis, asked with the genesis
  fingerprint, answers `state-corrupt` where its comment says conflicting.
* `outcome/decisions.ts:299`: an already-current completion takes its
  confirmation from a clock that may be behind the publication; the commit is
  then refused until the clock has passed it.
* The header of `heartbeat.ts` says a failed observation is remembered until one
  succeeds. An idle run that read the state earlier writes over the mark.

## 4. What is proved

Every invariant and action property the runs check is a theorem for all values
of the constants; so is the refinement. The liveness properties stay with TLC. What is assumed of the constants is named in the
module that declares them, and TLC evaluates it on every run:

| Assumption | Why the code justifies it |
|---|---|
| `SequencerAssumption`, `SeedAssumption` | kinds of values; what a migration guarantees of its seed (`seedFloorCoversPerKeyState`) |
| `PublicationAssumption` | the legacy releases are readable and have one source ordering each |
| `PublisherAssumption` | the ten base documents are generated for every release |
| `CutoverAssumption` | the legacy publisher left whole releases (an invariant of it, proved as `PublisherInv`) |
| `PolicyAssumption`, `KindAssumption`, `LedgerAssumption`, `SessionAssumption` | the shape of the cadence, positive capacities, and values that stand for "none" |
| `ProviderAssumption` | a plan names a resource once (`coordinator.ts:744-803` rejects a duplicate), positive windows, finitely many |
| `IntakeAssumption` | an answer is a parsed array; rounds and laps are parsed as counts, dates as instants counted from an origin before the season; the decoder reads only the session blocks it knows; an identity is the sequence of its parts |
| `SynchronizationAssumption`, `BatchAssumption` | positive intervals, limits and spans; "absent" is no release |

### The sequencer and its codec (`SeasonSequencerProofs`)

No property is inductive alone. `SequencerInv` strengthens them together:

* `RecordsAllocated` and `CommitsAllocated` tie each record to one epoch, the
  committed epochs to the current one. From them a version allocated now is
  fresh, and the epoch of a finalize is larger than every committed one
  (`EpochOrder`).
* `PointersCommitted` and `DeletableRetired` separate versions: a pointer names
  a committed epoch, a deletable version one that is over and did not commit.
  Hence `DelayedDeletionSafe`, and `SequencerImplementsAuthority`.
* `PreparedRows` and `PreparedOrdering` carry what prepare checked to the
  moment finalize uses it. They hold because only a commit moves the authority
  record while an operation is prepared, and that operation is the only one
  that can commit: `PredecessorNeverChanges`, `ObservationsAdvance`,
  `OrdinaryNeverGoesBack`.
* `Dormant` and `GenesisPointers` describe the seasons that have not started,
  and those born by genesis.

There is one lemma per command that the command preserves `SequencerInv`
(`PrepareInv`, `FinalizeInv`, ...), `NextInv` combines them, and the theorems
follow. The `...Admits` lemmas turn an accepted answer into the conjunction of
the guards it passed, so the proofs never open the nested refusals twice.

That the sequencer reads back what it wrote needs `CodecInv` as well: a
committed operation has its result and no other has (`ResultsRecorded`), a
prepared one names a document (`PreparedNamed`), and an authority record has, in
each cutover state, the fields of that state (`AuthorityWhole`). It is
inductive relative to `SequencerInv` (`CodecSafe`). `RecordsReadable` follows,
and `EveryReplyDecodes`: each command answers from a closed set of reasons,
names what its decision was about, and a recovered seed is whole.

### The publishers (`SequencedPublicationProofs`)

`PublicationInv` (types, what a run knows at each stage, one manifest for each
version, legacy releases kept, `AppliedMeansCommitted`) gives
`PublicationImplementsSequencer`: every step of the publishers is a step of the
sequencer or leaves its variables alone, so every theorem above holds of them.

That what is served is whole needs `ReleaseInv`. Its parts follow a version from
its allocation to its commit: two runs never carry one version
(`CarriersDiffer`), whoever writes holds an epoch that did not commit
(`WritersUncommitted`), whoever deletes was authorized to, for an epoch that is
over (`DeletionsAuthorized`), what a run has written so far is what it prepared
(`RunsProgress`, `CandidateMatchesPrepared`, `PreparedContained`), and what it
compared is still the active release when it commits (`RunsCompared`). Hence
nothing writes to or deletes a committed release, and a version that commits was
read back complete: `ReleasesServed`, `ParticipationIsKept`, `InstantsAdvance`.

### The legacy publisher and the cutover

The legacy publisher is part of every cutover, so `SeasonCutoverProofs` begins
with it: each of its steps preserves `PublisherInv` and leaves every release
that readers or a checkpoint may name, whichever call fails, fails after it
landed, or is the last. `CutoverInv` follows: the sequencer's and the publisher's invariants, what a
request may rely on at each of its calls (`RequestCoherent`), that the releases
the sequencer names stay (`AuthoritySettled`), that an unpublished season is as
some request staged it (`CommittedSeedStaged`), and what an approval protects
(`ApprovalsHold`). `ReceiptsHold` and `IdenticalSeedsAgree` are themselves part
of it. From it follow `CutoverImplementsSequencer` and the four properties of
the run.

### The ledger and its callers

`ReconciliationLedgerProofs` has the lemmas about the policy: for each
transition, what it keeps of a sound record, what it may stage, displace or
settle, and that the store admits what it made. `CoordinatedObservationProofs`
proves `ObservationInv`. Its centre is the fence: the ledger hands one out once,
so whoever holds the lease is the only writer since it read, its view is
current, and what it writes follows from the policy lemmas; a session that lost
the lease writes nothing, so nobody's soundness depends on a ledger that changed
under it. The rest relates records to the history variables (what was sighted,
displaced, returned, applied, is owed). The nine invariants and the two action
properties follow; for the latter each step is shown to leave every round
`StaysCorroborated`.

### Provider requests (`ProviderRequestsProofs`)

`ProviderInv` relates the reservations the limiter holds to those it ever
granted: what it pruned lies outside every window. Then its decision is exact
for any finite set of windows: the blocking reservation exists and its age gives
the instant of the deferral. Maxima and the recursive function `Registered` are
reached through the greatest element of a finite set, without induction over
data. `AccountInv` tallies the requests of a run with the claims of its answers:
a new request is fresh because kinds and places differ. Answers that are each
one their port may give and claim nothing twice are accepted, with no
contradiction and no defect (`ChecksSound`), and their sum is what left
(`RequestsAccounted`).

### The intake (`SeasonIntakeProofs`)

`IntakeInv` says that a normalized reading is what its request would be answered
now, but for the tables, which move on under the run, and that what came of a run
is what the assembly says of what it holds. It needs nothing of the order in
which Jolpica publishes: a classification that can be read was published, and a
published one does not change in this model. The rest are lemmas about the pure
modules, for every answer:

* the spans `DriverEntries` derives are in order and apart, place every
  classified row in exactly one seat, have each a row that supports them, are
  never ambiguous, and end in the seat of the last race. Everything follows from
  three facts: stretches of one driver that meet are one, every row has one
  around it, and a seat covers exactly the rounds of its stretch. They hold of
  rows in which a driver has one constructor a round, which the normalizer and
  the relations of the season see to;
* a duplicate identity comes from a lookalike or a curated repetition;
* a table, a calendar or a classification that is read has as many members as
  the provider counted: the page held every row, and a reader refuses two rows
  that stand for one thing. A calendar that is read names no event twice, its
  key being race name and circuit without the round (`EventsReadOnce`);
* the comparator of the timeline is no order (an undated event compares by round
  with both neighbours), yet the selection is right for any calendar: what a
  pass keeps at a place starts no later than any dated event up to it
  (`PickedIsEarliest`), what the passes before left is a smaller timetable
  (`FewerEvents`), and every event is taken by one pass (`OrderUnfolds`), so
  two dated ones stand in the order of their days (`OrderedByStart`). The passes
  are recursive functions; a place or a pass where the claim first fails is
  excluded as the least of a set of numbers, without induction over data. That
  an instant of generation is a number enters `IntakeInv` for this.

From these follow `CandidateHasOneHorizon`, `SeatShownIsLatest`,
`PreflightNeverMisjudges`, `CandidateStaysWhole` and `TimelineIsInOrder`. Two properties had been
stated too strongly and held only because no instance of the run had the case:
an identity is also shared when the curated records name one event twice or a
schedule repeats a session type (`OnlyLookalikesCollide`), and a season without
one row in any table is prepared without asking the registry anything, so
ambiguous names go unnoticed there (`NamesHaveOneMeaning`).

### Synchronization and batches (`SeasonCommandsProofs`)

`SuccessIsReal` is not inductive: a run writes back what it read. In
`SynchronizationInv` every copy under way is as truthful as the original, and
time ages all alike. `BatchInv` carries what was verified of a submission with
its request until the candidate is a release, and binds a prepared one to the
release it was compared with. A row of checks ends in "ok" only when each holds:
the first that does not would be the answer.

### What stays with TLC

`PublicationEnds` and `PolledIsAskedAgain` are liveness under fairness.

## 5. Plan

1. `ClientSync`: serialised runs with cancellation and queued refreshes, per-key
   single flight, the snapshot conflict rule and its metadata.
2. The heartbeat, two seasons that publish at once, the bootstrap of a season in
   the ledger.

Not modelled, and not planned: canonical serialisation, document schemas,
configuration, logging and observability, scripts, and the user interface. They
are pure or keep no shared state.
