----------------------- MODULE MCSequencedPublication -----------------------
(* Two publishers on one small season: a results document and a calendar, a  *)
(* migrated release, and two candidates, of which one adds a fact.           *)
EXTENDS SequencedPublication, TLC

CONSTANTS calendar, results, c1, r1, r2, s1, g1, f1, f2, p1, p2

mcDocs == {calendar, results}
mcResultsDocs == {results}
mcRevisions == {c1, r1, r2}
manifest(r) == (calendar :> c1) @@ (results :> r)
mcManifests == {manifest("no-revision"), manifest(r1), manifest(r2)}
mcCommitments == SUBSET {calendar, results}
mcSeedFingerprints == {s1}

mcFacts == {f1, f2}
mcFactsOf == ("no-revision" :> {}) @@ (c1 :> {}) @@ (r1 :> {f1}) @@ (r2 :> {f1, f2})
mcPublishers == {p1, p2}

legacy(i) == [namespace |-> "legacy", id |-> i]
document(r) == [revision |-> r, observedAt |-> 1, generatedAt |-> 1]
legacyRelease ==
  [release |-> [docs |-> (calendar :> document(c1)) @@ (results :> document(r1)),
                inventory |-> {calendar, results}, sidecar |-> 0],
   ordering |-> 1]
mcLegacyReleases == [v \in {legacy(1)} |-> legacyRelease]
mcSeeds ==
  {[fingerprint |-> s1, active |-> legacy(1), previous |-> NoVersion,
    ordering |-> 1, floor |-> 1,
    rows |-> [d \in mcDocs |->
                [revision |-> legacyRelease.release.docs[d].revision,
                 observedAt |-> 1]]]}
mcCandidates ==
  {[manifest |-> manifest(r1), ordering |-> 1],
   [manifest |-> manifest(r2), ordering |-> 2]}
mcReadings == {1, 3}
mcGenerations == {2}
mcSurvivors == {{}, {calendar}}
swept == {{}}
alone == {p1}
Symmetry == Permutations({p1, p2})

none == {}
one == {[manifest |-> manifest(r2), ordering |-> 2]}
oneManifest == {manifest(r2)}
oneCommitment == {{calendar, results}}
noLegacyReleases == [v \in {} |-> legacyRelease]
mcGenesisFingerprints == {g1}

=============================================================================
