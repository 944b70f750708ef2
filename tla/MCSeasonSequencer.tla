-------------------------- MODULE MCSeasonSequencer --------------------------
(* A small season: one results document and one other, two revisions of the *)
(* results, two seeds and a genesis, three epochs and three instants.        *)
EXTENDS SequencerCodec, TLC

CONSTANTS calendar, results, r1, r2, c1, c2, s1, g1

mcDocs == {calendar, results}
mcResultsDocs == {results}
mcRevisions == {r1, r2}
mcManifests ==
  {(calendar :> r1) @@ (results :> "no-revision"),
   (calendar :> r1) @@ (results :> r1),
   (calendar :> r1) @@ (results :> r2)}
mcCommitments == {c1, c2}
mcSeedFingerprints == {s1}
mcGenesisFingerprints == {g1}

legacy(i) == [namespace |-> "legacy", id |-> i]
seedWith(prev) ==
  [fingerprint |-> s1, active |-> legacy(2), previous |-> prev,
   ordering |-> 2, floor |-> 1,
   rows |-> (calendar :> [revision |-> r1, observedAt |-> 1])
              @@ (results :> [revision |-> r1, observedAt |-> 1])]
mcSeeds == {seedWith(legacy(1)), seedWith(NoVersion)}
=============================================================================
