-------------------------- MODULE SnapshotPublisher --------------------------
(***************************************************************************)
(* The legacy publisher (publication/publisher.ts): it writes a release's  *)
(* documents to Workers KV under a fresh version, checks that the version  *)
(* is complete, and moves the season's pointers, each in a KV call of its  *)
(* own.  Any call may fail, a failed write may have landed, and the Worker *)
(* may stop between two of them.  One command runs at a time: two that     *)
(* overlap may lose each other's pointers, which is what the sequencer     *)
(* replaces.  It may still be running when a cutover begins                *)
(* (SeasonCutover).                                                        *)
(***************************************************************************)
EXTENDS SeasonSequencer

CONSTANTS
  ReleaseOf,    \* the generated set of each legacy version
  BaseDocs,     \* the documents no release is complete without
  DerivedDocs,  \* the documents derived from the active pointer
  AliasedDocs,  \* the documents with a route that names no season
  OtherDocs     \* the inventory of the other season's active release

ASSUME PublisherAssumption ==
  /\ ReleaseOf \in [LegacyVersions -> [rows : [Docs -> Rows], ordering : Instants]]
  /\ BaseDocs \subseteq Docs
  /\ BaseDocs # {}
  /\ DerivedDocs \subseteq BaseDocs
  /\ AliasedDocs \subseteq Docs
  /\ OtherDocs \subseteq Docs
  (* The generator makes every base document of every release. *)
  /\ \A v \in LegacyVersions, d \in BaseDocs : ReleaseOf[v].rows[d] # NoRow

VARIABLES
  kv,        \* Workers KV: versions and the pointers
  command,   \* the publication, rollback or purge in progress
  answer     \* what it has just answered, forgotten by the next step

publisherVars == <<kv, command, answer>>

CurrentSeasons == {"none", "this", "other"}

(* The public routes of a document: one that names the season, and, for some
   documents, aliases that mean whichever season is current. *)
Routes == [path : {"season", "alias"}, doc : Docs]

KvStates ==
  [stored : [Versions -> SUBSET Docs], inventory : [Versions -> SUBSET Docs],
   active : LegacyVersions \union {NoVersion},
   previous : LegacyVersions \union {NoVersion}, current : CurrentSeasons]

Commands ==
  [pc : {"idle", "document", "inventory", "assess", "current", "active",
         "delete", "maintain", "purge"},
   kind : {"publish", "rollback", "purge"},
   version : LegacyVersions \union {NoVersion},
   replaced : LegacyVersions \union {NoVersion},
   outgoing : {"none", "other"}, nameable : BOOLEAN,
   invalidated : SUBSET Docs, unwritten : SUBSET Docs,
   served : SUBSET Routes]

Answers ==
  [status : {"none", "applied", "committed", "purged"},
   version : Versions \union {NoVersion},
   purge : {"not-required", "succeeded", "failed"}, stale : SUBSET Routes]

Quiet ==
  [pc |-> "idle", kind |-> "publish", version |-> NoVersion,
   replaced |-> NoVersion, outgoing |-> "none", nameable |-> TRUE,
   invalidated |-> {}, unwritten |-> {}, served |-> {}]
NoAnswer ==
  [status |-> "none", version |-> NoVersion, purge |-> "not-required", stale |-> {}]

-----------------------------------------------------------------------------
(* Releases *)

namesOf(v) == {d \in Docs : ReleaseOf[v].rows[d] # NoRow}

(* assessVersion: the inventory names every base document and every document
   it names is there. *)
assessedComplete(v) ==
  /\ BaseDocs \subseteq kv.inventory[v]
  /\ kv.inventory[v] # {}
  /\ kv.inventory[v] \subseteq kv.stored[v]

-----------------------------------------------------------------------------
(* Routes and their purge *)

aliasRoutes(docs) ==
  {[path |-> "alias", doc |-> d] : d \in docs \intersect AliasedDocs}

seasonRoutes(docs) == {[path |-> "season", doc |-> d] : d \in docs}

invalidationUrls(docs, aliased) ==
  seasonRoutes(docs) \union (IF aliased THEN aliasRoutes(docs) ELSE {})

(* The routes answering with what a publication is about to replace: the
   release v, and through the aliases the season that is current. *)
servedBy(v, moves) ==
  LET docs == IF v = NoVersion THEN {} ELSE kv.inventory[v]
  IN seasonRoutes(docs)
       \union (CASE kv.current = "this" -> aliasRoutes(docs)
                 [] kv.current = "other" /\ moves -> aliasRoutes(OtherDocs)
                 [] OTHER -> {})

outgoingCurrentSeason == IF kv.current = "other" THEN "other" ELSE "none"

-----------------------------------------------------------------------------
(* One command *)

PublisherInit(states) ==
  /\ kv \in states
  /\ command = Quiet
  /\ answer = NoAnswer

(* Any step that is not the publisher's. *)
PublisherIdles ==
  /\ answer' = NoAnswer
  /\ UNCHANGED <<kv, command>>

(* Skipped, rejected or failed: nothing was committed, or the commit threw, and
   the answer claims nothing. *)
Refuse ==
  /\ command' = Quiet
  /\ answer' = NoAnswer

(* publish, up to its first write.  The versions of ordinary publications are
   fresh (a time and a random suffix); the active one may be presented again.
   The reads are one step, as nothing else moves what they read.  A read that
   fails ends the command, except those of the current season and of the
   replaced inventory: without either the purge owes routes it cannot name.  An
   ordering input that is not found is not compared. *)
BeginPublish(v) ==
  /\ command.pc = "idle"
  /\ \/ v = kv.active
     \/ kv.stored[v] = {} /\ kv.inventory[v] = {}
  /\ \/ Refuse
     \/ /\ v # kv.active
        /\ \E nameable \in BOOLEAN :
             command' = [Quiet EXCEPT !.pc = "document", !.version = v,
               !.replaced = kv.active, !.nameable = nameable,
               !.outgoing = IF nameable THEN outgoingCurrentSeason ELSE "none",
               !.invalidated =
                 IF nameable /\ kv.active # NoVersion
                   THEN kv.inventory[kv.active] ELSE {},
               !.unwritten = namesOf(v), !.served = servedBy(kv.active, TRUE)]
        /\ answer' = NoAnswer
  /\ UNCHANGED kv

(* Every throw up to the commit ends in the compensating deletion. *)
abandoned == [Quiet EXCEPT !.pc = "delete", !.version = command.version]

(* A write that throws may have landed. *)
Write(written, next) ==
  /\ \/ kv' = written /\ command' = next
     \/ kv' \in {kv, written} /\ command' = abandoned
  /\ UNCHANGED answer

WriteDocument ==
  LET d == CHOOSE d \in command.unwritten : TRUE IN
  /\ command.pc = "document"
  /\ Write([kv EXCEPT !.stored[command.version] = @ \union {d}],
           [command EXCEPT !.unwritten = @ \ {d},
              !.pc = IF command.unwritten = {d} THEN "inventory" ELSE @])

WriteInventory ==
  /\ command.pc = "inventory"
  /\ Write([kv EXCEPT !.inventory[command.version] = namesOf(command.version)],
           [command EXCEPT !.pc = "assess"])

(* A document that is not read back yet is a missing one. *)
Assess ==
  /\ command.pc = "assess"
  /\ \/ /\ assessedComplete(command.version)
        /\ command' = [command EXCEPT !.pc = "current"]
     \/ command' = abandoned
  /\ UNCHANGED <<kv, answer>>

(* The content metadata of the same step is read by no action here. *)
SetCurrentSeason ==
  /\ command.pc = "current"
  /\ Write([kv EXCEPT !.current = "this"], [command EXCEPT !.pc = "active"])

(* The commit, the last decisive write.  A rollback that fails here has
   nothing to delete. *)
SetActive ==
  LET written == [kv EXCEPT !.active = command.version] IN
  /\ command.pc = "active"
  /\ \/ /\ command.kind = "publish"
        /\ Write(written, [command EXCEPT !.pc = "maintain"])
     \/ /\ command.kind = "rollback"
        /\ \/ /\ kv' = written
              /\ command' = [command EXCEPT !.pc = "maintain"]
              /\ UNCHANGED answer
           \/ kv' \in {kv, written} /\ Refuse

\* Faulty DeleteUnpublishedVersion: the active pointer is not read.
DeleteWhateverIsActive ==
  /\ command.pc = "delete"
  /\ kv' = [kv EXCEPT !.stored[command.version] = {},
                      !.inventory[command.version] = {}]
  /\ Refuse

(* deleteUnpublishedVersion keeps a version the active pointer names, also one
   whose commit threw and landed; its own failure is swallowed (what it then
   leaves is what some failing write leaves). *)
DeleteUnpublishedVersion ==
  LET v == command.version IN
  /\ command.pc = "delete"
  /\ \/ /\ kv.active # v
        /\ kv' = [kv EXCEPT !.stored[v] = {}, !.inventory[v] = {}]
     \/ UNCHANGED kv
  /\ Refuse

(* After the commit: the release it replaced becomes the previous one.  A
   failure is only reported. *)
MaintainPreviousPointer ==
  /\ command.pc = "maintain"
  /\ \/ /\ command.replaced # NoVersion
        /\ kv' = [kv EXCEPT !.previous = command.replaced]
     \/ UNCHANGED kv
  /\ command' = [command EXCEPT !.pc = "purge"]
  /\ UNCHANGED answer

\* Faulty purgeUrls: only the documents of the new release.
purgeOfNewDocuments(docs, aliased) ==
  invalidationUrls((docs \ command.invalidated) \union DerivedDocs, aliased)

purgeUrls(docs, aliased) == invalidationUrls(docs \union DerivedDocs, aliased)

(* purgeRoutes: an unreadable current season is taken for this one.  The purge
   succeeds only when every route it owed could be named and deleted; any read
   or call may make it fail. *)
PurgeRoutes ==
  LET docs == command.invalidated
                \union (IF command.kind = "publish" THEN namesOf(command.version)
                        ELSE {})
      reported ==
        [answer EXCEPT !.version = command.version, !.status =
           IF command.kind = "purge" THEN "purged" ELSE "applied"]
  IN
  /\ command.pc = "purge"
  /\ \/ answer' = [reported EXCEPT !.purge = "failed"]
     \/ /\ command.nameable
        /\ \E aliased \in {(kv.current \in {"this", "none"}), TRUE} :
             LET named == purgeUrls(docs, aliased)
                            \union (IF command.outgoing = "other"
                                      THEN aliasRoutes(OtherDocs) ELSE {})
             IN answer' = [reported EXCEPT !.purge = "succeeded",
                             !.stale = command.served \ named]
  /\ command' = Quiet
  /\ UNCHANGED kv

(* rollback, to the named version or to the previous one: the target must be
   complete, and the inventory of what it replaces readable (absent is empty). *)
BeginRollback(target) ==
  /\ command.pc = "idle"
  /\ \/ Refuse
     \/ /\ target \notin {kv.active, NoVersion}
        /\ assessedComplete(target)
        /\ command' = [Quiet EXCEPT !.pc = "active", !.kind = "rollback",
             !.version = target, !.replaced = kv.active,
             !.invalidated = kv.inventory[target] \union
               (IF kv.active = NoVersion THEN {} ELSE kv.inventory[kv.active]),
             !.served = servedBy(kv.active, FALSE)]
        /\ answer' = NoAnswer
  /\ UNCHANGED kv

(* purgeActiveVersion: the operator's own repair, never paused. *)
BeginPurge ==
  /\ command.pc = "idle"
  /\ \/ Refuse
     \/ /\ kv.active # NoVersion
        /\ kv.inventory[kv.active] # {}
        /\ command' = [Quiet EXCEPT !.pc = "purge", !.kind = "purge",
             !.version = kv.active, !.invalidated = kv.inventory[kv.active],
             !.served = servedBy(kv.active, FALSE)]
        /\ answer' = NoAnswer
  /\ UNCHANGED kv

StopPublisher ==
  /\ command.pc # "idle"
  /\ command' = Quiet
  /\ answer' = NoAnswer
  /\ UNCHANGED kv

RunCommand ==
  \/ WriteDocument \/ WriteInventory \/ Assess \/ SetCurrentSeason \/ SetActive
  \/ DeleteUnpublishedVersion \/ MaintainPreviousPointer \/ PurgeRoutes
  \/ StopPublisher

-----------------------------------------------------------------------------
(* Properties *)

PublisherTypeOK ==
  /\ kv \in KvStates
  /\ command \in Commands
  /\ answer \in Answers

isWhole(v) ==
  /\ kv.inventory[v] # {}
  /\ kv.inventory[v] \subseteq kv.stored[v]
  /\ v \in LegacyVersions => kv.inventory[v] = namesOf(v)

(* A purge reported succeeded left none of the routes that answered with the
   replaced release: neither the ones of documents the new release withdrew,
   nor, when the season became current, the aliases of the season that was
   (publisher.ts, purgeRoutes; cache/purge.ts). *)
ReplacedIsPurged == answer.purge = "succeeded" => answer.stale = {}

(* A command answered applied left its version the active one: a commit that
   threw is never reported as one (publisher.ts, publish and rollback). *)
AppliedIsActive ==
  answer.status = "applied" => kv.active = answer.version

(* Whatever makes a version the one a default rollback returns to, it is a
   whole release and not the one being served: a publication that does not
   commit leaves the way back as it was (publisher.ts, publish). *)
RollbackPathKept ==
  [][kv'.previous # kv.previous =>
       /\ kv'.previous # kv'.active
       /\ isWhole(kv.previous')]_kv

-----------------------------------------------------------------------------
(* The inductive invariant the proofs rest on, in named parts. *)

(* The version of a publication that has not committed: its documents are
   still being written, and may all be deleted again. *)
isUncommitted(v) ==
  /\ command.kind = "publish"
  /\ command.pc \in {"document", "inventory", "assess", "current", "active", "delete"}
  /\ command.version = v

(* A release no command can take away: whole, and if it is the one that is
   being given up, then its commit landed and the active pointer keeps it. *)
isSettled(v) ==
  /\ isWhole(v)
  /\ isUncommitted(v) => kv.active = v

PointersSettled ==
  \A v \in {kv.active, kv.previous} : v # NoVersion => isSettled(v)

(* An inventory is written once, with everything the generator made. *)
InventoriesGenerated ==
  \A v \in LegacyVersions : kv.inventory[v] \in {{}, namesOf(v)}

(* What a command may rely on at each of its calls. *)
CommandCoherent ==
  /\ command.pc # "idle" => command.version \in LegacyVersions
  /\ command.pc \in {"document", "inventory", "assess", "current", "delete"} =>
       command.kind = "publish"
  /\ command.kind = "purge" => command.pc = "purge"
  /\ command.pc = "document" => command.unwritten # {}
  /\ command.pc \in {"document", "inventory", "assess", "current", "active"} =>
       /\ command.replaced = kv.active
       /\ command.version # kv.active
  /\ command.pc \in {"current", "active"} => isWhole(command.version)
  /\ command.pc \in {"maintain", "purge"} => command.version = kv.active
  /\ command.pc = "maintain" => command.replaced # command.version
  /\ command.replaced # NoVersion => isSettled(command.replaced)

(* The routes that answered with the documents of a replaced release, and,
   once this season is current, their aliases; before that, the aliases of the
   season that was. *)
servedRoutes(docs, outgoing) ==
  invalidationUrls(docs, kv.current = "this")
    \union (IF outgoing = "other" THEN aliasRoutes(OtherDocs) ELSE {})

(* A purge that can succeed names every route its command found serving. *)
ServedAreOwed ==
  /\ command.pc \notin {"idle", "delete"}
  /\ command.nameable
  => command.served \subseteq servedRoutes(command.invalidated, command.outgoing)

(* The last answer of a command is gone before the next one moves a pointer. *)
AnswerForgotten == command.pc # "idle" => answer.status # "applied"

PublisherInv ==
  /\ PublisherTypeOK
  /\ PointersSettled
  /\ InventoriesGenerated
  /\ CommandCoherent
  /\ ServedAreOwed
  /\ AnswerForgotten
  /\ AppliedIsActive
  /\ ReplacedIsPurged
=============================================================================
