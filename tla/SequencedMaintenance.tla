------------------------- MODULE SequencedMaintenance -------------------------
(***************************************************************************)
(* What the sequenced service owes after a commit (service.ts,             *)
(* completeCommitted): the global current-season pointer and the purge of  *)
(* every public route that answered with the release it replaced.  Both    *)
(* happen in Workers KV and the cache, outside the sequencer, so they      *)
(* interleave with a legacy command that is still running, fail without    *)
(* undoing the commit, or never happen because the Worker stopped.  What   *)
(* the maintenance is derived from was read before the prepare.            *)
(***************************************************************************)
EXTENDS SnapshotPublisher

VARIABLE post   \* the sequenced publication in progress

Duties ==
  [pc : {"idle", "prepared", "committed"},
   version : Versions \union {NoVersion},
   replaced : Versions \union {NoVersion},
   outgoing : {"none", "other"},
   documents : SUBSET Docs, served : SUBSET Routes]

NoDuty ==
  [pc |-> "idle", version |-> NoVersion,
   replaced |-> NoVersion, outgoing |-> "none",
   documents |-> {}, served |-> {}]

MaintenanceTypeOK == post \in Duties
MaintenanceInit == post = NoDuty

(* Any step that is not the sequenced service's. *)
MaintenanceIdles == UNCHANGED post

-----------------------------------------------------------------------------
(* Before the prepare: the season the aliases are served from.  When it cannot
   be read the purge is reported failed, which any purge may be.  One
   publication runs at a time; one that does not get to its commit has nothing
   to maintain. *)
OweMaintenance(v, replaced, docs) ==
  /\ post.pc \in {"idle", "prepared"}
  /\ post' = [NoDuty EXCEPT !.pc = "prepared", !.version = v,
                !.replaced = replaced, !.documents = docs,
                !.outgoing = outgoingCurrentSeason]

(* The commit is known.  A publisher to which it stays unknown stops here and
   touches no global state. *)
CommitBecomesKnown(active) ==
  /\ post.pc = "prepared"
  /\ post' = [post EXCEPT !.pc = "committed", !.served = servedBy(active, TRUE)]

(* withdrawnRoutes: what the replaced release had and this one has not.  An
   inventory that is absent or unreadable names none of them. *)
withdrawnRoutes(duty) ==
  IF duty.replaced = NoVersion THEN {}
  ELSE kv.inventory[duty.replaced] \ duty.documents

withdrawnAreNameable(duty) ==
  duty.replaced # NoVersion => kv.inventory[duty.replaced] # {}

(* purgeDocuments: it succeeds only when every route it owed could be named and
   deleted; a failure, which any read or call may cause, claims nothing.  An
   unreadable current season is taken for this one. *)
Purged(duty, withdrawn, current, status) ==
  \/ answer' = NoAnswer
  \/ /\ withdrawnAreNameable(duty)
     /\ \E aliased \in {(current \in {"this", "none"}), TRUE} :
          LET named == purgeUrls(duty.documents \union withdrawn, aliased)
                         \union aliasRoutes(withdrawn)
                         \union (IF duty.outgoing = "other"
                                   THEN aliasRoutes(OtherDocs) ELSE {})
          IN answer' = [status |-> status, version |-> duty.version,
                        purge |-> "succeeded", stale |-> duty.served \ named]

(* completeCommitted.  The write of the current season may fail, or land and
   throw; the purge follows either way, and as every publication of this season
   writes the same value they are one step.  The content metadata written with
   it is read by no action here. *)
CompleteCommitted ==
  /\ post.pc = "committed"
  /\ kv' \in {kv, [kv EXCEPT !.current = "this"]}
  /\ Purged(post, withdrawnRoutes(post), kv'.current, "committed")
  /\ post' = NoDuty

(* purgeActiveVersion of a season that is the sequencer's: the release the
   authority names, by its own inventory. *)
PurgeActiveVersion(active) ==
  /\ active # NoVersion
  /\ kv.inventory[active] # {}
  /\ LET duty == [NoDuty EXCEPT !.version = active,
                    !.documents = kv.inventory[active],
                    !.served = servedBy(active, FALSE)]
     IN Purged(duty, {}, kv.current, "purged")
  /\ UNCHANGED <<kv, post>>

(* The Worker stops, or does not learn of its commit. *)
StopMaintenance ==
  /\ post.pc = "committed"
  /\ post' = NoDuty
  /\ answer' = NoAnswer
  /\ UNCHANGED kv

-----------------------------------------------------------------------------
(* The inductive invariant the proofs rest on. *)

replacedDocs(duty) ==
  IF duty.replaced = NoVersion THEN {} ELSE kv.inventory[duty.replaced]

(* What was read before the prepare still covers what is served when the commit
   is known: nothing makes the other season current again, the replaced release
   is the one the candidate was prepared against, and it stays whole. *)
DutyCoherent ==
  /\ post.pc # "idle" => post.version \in AllocatedVersions
  /\ post.pc = "prepared" /\ kv.current = "other" => post.outgoing = "other"
  /\ /\ post.pc = "prepared"
     /\ operation.phase = "prepared"
     /\ post.version = operation.candidate
     => post.replaced = operation.prior
  /\ post.pc = "committed" =>
       /\ post.replaced # NoVersion => isSettled(post.replaced)
       /\ post.served \subseteq servedRoutes(replacedDocs(post), post.outgoing)
=============================================================================
