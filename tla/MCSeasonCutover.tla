--------------------------- MODULE MCSeasonCutover ---------------------------
(* One season with a base document and a profile, both aliased; two legacy   *)
(* releases, of which the second withdraws the profile, and one candidate     *)
(* that withdraws it too.                                                     *)
EXTENDS SeasonCutover, TLC

CONSTANTS home, driver, h1, h2, d1, s1, s2, g1, o1, o2

mcDocs == {home, driver}
mcResultsDocs == {}
mcRevisions == {h1, h2, d1}
legacy(i) == [namespace |-> "legacy", id |-> i]
row(r, t) == [revision |-> r, observedAt |-> t]
mcReleaseOf ==
  [v \in LegacyVersions |->
     IF v = legacy(1)
       THEN [rows |-> (home :> row(h1, 1)) @@ (driver :> row(d1, 1)),
             ordering |-> 1]
     ELSE [rows |-> (home :> row(h2, 2)) @@ (driver :> NoRow),
             ordering |-> 2]]
mcBase == {home}
mcAliased == {home, driver}
mcOther == {home, driver}

manifest == (home :> h2) @@ (driver :> NoRevision)
mcManifests == {manifest}
mcCommitments == {{home}}

checkpoint(a, p, b) == [active |-> a, previous |-> p, bound |-> b]
mcCheckpointOf ==
  (s1 :> checkpoint(legacy(1), NoVersion, 3)) @@
  (s2 :> checkpoint(legacy(2), legacy(1), 0))
mcSeedFingerprints == {s1, s2}
mcGenesisFingerprints == {g1}
mcSeeds ==
  {s \in [fingerprint : mcSeedFingerprints, active : LegacyVersions,
          previous : LegacyVersions \union {NoVersion}, ordering : {1, 2},
          floor : 1 .. 3, rows : {mcReleaseOf[v].rows : v \in LegacyVersions}] :
     /\ s.active = mcCheckpointOf[s.fingerprint].active
     /\ s.previous \in {NoVersion, mcCheckpointOf[s.fingerprint].previous}
     /\ s.ordering = mcReleaseOf[s.active].ordering
     /\ s.rows = mcReleaseOf[s.active].rows
     /\ \A d \in mcDocs : s.rows[d].observedAt <= s.floor}

empty ==
  [stored |-> [v \in Versions |-> {}], inventory |-> [v \in Versions |-> {}],
   active |-> NoVersion, previous |-> NoVersion, current |-> "other"]
mcKvBefore == {empty}
mcOperators == {o1, o2}
mcReadings == {2, 3}
mcPublishing == {3}
Symmetry == Permutations({o1, o2})
=============================================================================
