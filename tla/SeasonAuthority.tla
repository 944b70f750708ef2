--------------------------- MODULE SeasonAuthority ---------------------------
(***************************************************************************)
(* What a season's publication authority promises its readers and its      *)
(* cleaners, and nothing of how: one active release and the one before it, *)
(* moved together; every release comes into force once; and a version that *)
(* was given up for deletion never comes into force, nor the converse.     *)
(* SeasonSequencer implements it.                                          *)
(***************************************************************************)
CONSTANTS Versions,  \* the versions a release can have
          NoVersion  \* no release (not one of them)

VARIABLES active,    \* the release in force
          previous,  \* the release it replaced
          released,  \* every version that ever came into force here
          discarded  \* every version given up for deletion

authorityVars == <<active, previous, released, discarded>>

Init ==
  /\ active = NoVersion
  /\ previous = NoVersion
  /\ released = {}
  /\ discarded = {}

(* The season's earlier releases are taken over, once, before any other. *)
Adopt(v, p) ==
  /\ active = NoVersion
  /\ released = {}
  /\ active' = v
  /\ previous' = p
  /\ UNCHANGED <<released, discarded>>

Commit(v) ==
  /\ v \notin released \union discarded \union {active, previous}
  /\ active' = v
  /\ previous' = active
  /\ released' = released \union {v}
  /\ UNCHANGED discarded

Discard(v) ==
  /\ v \notin released \union {active, previous}
  /\ discarded' = discarded \union {v}
  /\ UNCHANGED <<active, previous, released>>

Next ==
  \/ \E v \in Versions, p \in Versions \union {NoVersion} : Adopt(v, p)
  \/ \E v \in Versions : Commit(v) \/ Discard(v)

Spec == Init /\ [][Next]_authorityVars
=============================================================================
