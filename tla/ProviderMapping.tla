--------------------------- MODULE ProviderMapping ---------------------------
(* The curated registry that names what a provider calls by its own names.     *)
(* A document is [supported, season, records], a record [source, entity,       *)
(* field, value, target, unexpected], a value [type, value].  A name is a      *)
(* sequence, a locator <<round, race name, circuit>>, and a text that breaks   *)
(* its grammar is empty.                                                       *)
EXTENDS Integers, Sequences, FiniteSets

KeyShapes ==
  {<<"jolpica", "driver", "driverId", "string">>,
   <<"jolpica", "constructor", "constructorId", "string">>,
   <<"jolpica", "circuit", "circuitId", "string">>,
   <<"jolpica", "event", "eventLocator", "locator">>,
   <<"openf1", "driver", "driver_number", "integer">>,
   <<"openf1", "constructor", "team_name", "string">>,
   <<"openf1", "circuit", "circuit_key", "integer">>}

FirstSeason == 1950
LastSeason == 2100
IsSeason(season) == season \in FirstSeason .. LastSeason
LastRound == 40

Malformed == <<>>
ValueIsWellFormed(value) ==
  CASE value.type = "string" -> value.value # Malformed
    [] value.type = "integer" -> value.value[1] > 0
    [] value.type = "locator" ->
         /\ value.value[1] \in 1 .. LastRound
         /\ value.value[2] # Malformed /\ value.value[3] # Malformed
    [] OTHER -> FALSE

IsKey(key) ==
  /\ IsSeason(key.season)
  /\ ValueIsWellFormed(key.value)
  /\ <<key.source, key.entity, key.field, key.value.type>> \in KeyShapes

KeyOf(season, record) ==
  [season |-> season, source |-> record.source, entity |-> record.entity,
   field |-> record.field, value |-> record.value]

-----------------------------------------------------------------------------
(* Building: one problem anywhere leaves no registry at all.                   *)

(* The places of all records: document and position.                           *)
Places(documents) ==
  UNION {{<<d, n>> : n \in DOMAIN documents[d].records} : d \in DOMAIN documents}
RecordAt(documents, place) == documents[place[1]].records[place[2]]
KeyAt(documents, place) == KeyOf(documents[place[1]].season, RecordAt(documents, place))

DocumentsAreSupported(documents) ==
  /\ \A d \in DOMAIN documents : documents[d].supported
  /\ \A c, d \in DOMAIN documents :
       documents[c].season = documents[d].season => c = d

RecordIsSound(documents, canonical, place) ==
  LET record == RecordAt(documents, place) IN
  /\ ~record.unexpected
  /\ IsKey(KeyAt(documents, place))
  /\ record.target # Malformed
  /\ record.target \in canonical[record.entity]

KeysAreUnambiguous(documents) ==
  \A p, q \in Places(documents) : KeyAt(documents, p) = KeyAt(documents, q) => p = q

NoRegistry == [valid |-> FALSE, index |-> {}]
Build(documents, canonical) ==
  IF /\ DocumentsAreSupported(documents)
     /\ \A p \in Places(documents) : RecordIsSound(documents, canonical, p)
     /\ KeysAreUnambiguous(documents)
  THEN [valid |-> TRUE,
        index |-> {[key |-> KeyAt(documents, p), target |-> RecordAt(documents, p).target] :
                     p \in Places(documents)}]
  ELSE NoRegistry

-----------------------------------------------------------------------------
(* Resolving: the set of the one identity a value is mapped to, empty when it  *)
(* is unresolved, for whatever reason.                                         *)

Resolve(registry, key) ==
  IF ~IsKey(key) \/ ~registry.valid THEN {}
  ELSE {entry.target : entry \in {e \in registry.index : e.key = key}}

FieldOf(entity) ==
  CASE entity = "driver" -> "driverId"
    [] entity = "constructor" -> "constructorId"
    [] entity = "circuit" -> "circuitId"
    [] entity = "event" -> "eventLocator"

JolpicaKey(season, entity, value) ==
  [season |-> season, source |-> "jolpica", entity |-> entity, field |-> FieldOf(entity),
   value |-> [type |-> IF entity = "event" THEN "locator" ELSE "string", value |-> value]]
Resolved(registry, season, entity, value) ==
  Resolve(registry, JolpicaKey(season, entity, value))
=============================================================================
