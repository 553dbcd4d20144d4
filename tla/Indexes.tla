-------------------------------- MODULE Indexes --------------------------------
(***************************************************************************)
(* The indexes an instance provisions before it starts                     *)
(* (scripts/create-application-indexes.mjs, then                           *)
(* scripts/create-catalog-indexes.mjs), with instances of two releases     *)
(* starting at once against a database that already has some.              *)
(*                                                                         *)
(* An index is [collection, keys, options], its options the set of those   *)
(* that are given a value ("unique", "partial").                           *)
(***************************************************************************)
EXTENDS Naturals, Sequences, FiniteSets

CONSTANTS
  Instances,
  Manifests,       \* by instance: what its compiled schemas define, in the order of the plan
  Catalog,         \* the list of the catalog script
  Databases        \* [indexes, dirty]: what may be found; dirty collections hold duplicates

IsIndex(i) == i = [collection |-> i.collection, keys |-> i.keys, options |-> i.options]

ASSUME IndexAssumption ==
  /\ DOMAIN Catalog \subseteq Nat /\ \A d \in Instances : DOMAIN Manifests[d] \subseteq Nat
  /\ \A k \in DOMAIN Catalog : IsIndex(Catalog[k])
  /\ \A d \in Instances : \A k \in DOMAIN Manifests[d] : IsIndex(Manifests[d][k])
  /\ \A db \in Databases : /\ db = [indexes |-> db.indexes, dirty |-> db.dirty]
                           /\ \A i \in db.indexes : IsIndex(i)

VARIABLES
  database,        \* one of Databases, with the indexes made since
  instance         \* by instance: [at, todo, plan, refused, made]; todo and plan hold the
                   \* positions of definitions in the list being worked on

indexVars == <<database, instance>>

NotStarted == [at |-> "discover", todo |-> {}, plan |-> {}, refused |-> FALSE, made |-> 0]

IndexInit == database \in Databases /\ instance = [d \in Instances |-> NotStarted]

SameIndex(i, j) == i.collection = j.collection /\ i.keys = j.keys
Existing(i) == {j \in database.indexes : SameIndex(i, j)}

SameCompatibilityOptions(i, j) == i.options = j.options

InstanceAt(d, stage) == instance[d].at = stage
InstanceFails(d) == instance' = [instance EXCEPT ![d].at = "failed"]
Foremost(positions) == CHOOSE k \in positions : \A l \in positions : k <= l

-----------------------------------------------------------------------------
(* The application script.                                                 *)

\* Two schemas of one build that disagree on an index end the script at once.
DiscoverIndexDefinitions(d) ==
  /\ InstanceAt(d, "discover") /\ UNCHANGED database
  /\ LET found == {Manifests[d][k] : k \in DOMAIN Manifests[d]}
     IN IF found = {} \/ \E i, j \in found : SameIndex(i, j) /\ ~SameCompatibilityOptions(i, j)
        THEN InstanceFails(d)
        ELSE instance' = [instance EXCEPT ![d].at = "plan", ![d].todo = DOMAIN Manifests[d]]

\* The indexes of one collection are listed, and its definitions planned.
BuildPlan(d) ==
  /\ InstanceAt(d, "plan") /\ instance[d].todo # {} /\ UNCHANGED database
  /\ LET definition == Manifests[d]
         collection == definition[Foremost(instance[d].todo)].collection
         listed == {k \in instance[d].todo : definition[k].collection = collection}
     IN instance' = [instance EXCEPT
          ![d].todo = @ \ listed,
          ![d].plan = @ \cup {k \in listed : Existing(definition[k]) = {}},
          ![d].refused = @ \/ \E k \in listed : \E j \in Existing(definition[k]) :
                                ~SameCompatibilityOptions(definition[k], j)]

\* A conflict anywhere refuses the whole plan before anything is made.
FinishPlan(d) ==
  /\ InstanceAt(d, "plan") /\ instance[d].todo = {} /\ UNCHANGED database
  /\ IF instance[d].refused THEN InstanceFails(d)
     ELSE instance' = [instance EXCEPT ![d].at = "create", ![d].todo = instance[d].plan, ![d].plan = {}]

\* MongoDB answers an index it already has, refuses one it has with other options, and one
\* that is to be unique over duplicates.
Creatable(i) ==
  /\ \A j \in Existing(i) : i.options = j.options
  /\ "unique" \in i.options => i.collection \notin database.dirty \/ Existing(i) # {}

CreateIndex(d, list, next) ==
  LET k == Foremost(instance[d].todo)
  IN IF Creatable(list[k])
     THEN /\ database' = [database EXCEPT !.indexes = @ \cup {list[k]}]
          /\ instance' = [instance EXCEPT ![d].at = next, ![d].todo = @ \ {k}, ![d].made = @ + 1]
     ELSE InstanceFails(d) /\ UNCHANGED database

CreateApplicationIndex(d) ==
  /\ InstanceAt(d, "create") /\ instance[d].todo # {} /\ CreateIndex(d, Manifests[d], "create")

ApplicationIndexesReady(d) ==
  /\ InstanceAt(d, "create") /\ instance[d].todo = {} /\ UNCHANGED database
  /\ instance' = [instance EXCEPT ![d].at = "catalog", ![d].todo = DOMAIN Catalog]

-----------------------------------------------------------------------------
(* The catalog script, one definition after the other; of the options it   *)
(* compares unique and sparse only.                                        *)

OptionMismatch(i, j) == ("unique" \in i.options) # ("unique" \in j.options)

CheckCatalogIndex(d) ==
  /\ InstanceAt(d, "catalog") /\ instance[d].todo # {} /\ UNCHANGED database
  /\ LET k == Foremost(instance[d].todo)
     IN IF Existing(Catalog[k]) = {} THEN instance' = [instance EXCEPT ![d].at = "catalog_create"]
        ELSE IF \E j \in Existing(Catalog[k]) : OptionMismatch(Catalog[k], j) THEN InstanceFails(d)
        ELSE instance' = [instance EXCEPT ![d].todo = @ \ {k}]

CreateCatalogIndex(d) == InstanceAt(d, "catalog_create") /\ CreateIndex(d, Catalog, "catalog")

CatalogIndexesReady(d) ==
  /\ InstanceAt(d, "catalog") /\ instance[d].todo = {} /\ UNCHANGED database
  /\ instance' = [instance EXCEPT ![d].at = "ready"]

\* A script is stopped, or the database does not answer; prestart runs both again.
Restart(d) ==
  /\ instance[d].at \notin {"discover", "ready"} /\ UNCHANGED database
  /\ instance' = [instance EXCEPT ![d] = NotStarted]

IndexNext ==
  \E d \in Instances :
    \/ DiscoverIndexDefinitions(d) \/ BuildPlan(d) \/ FinishPlan(d) \/ CreateApplicationIndex(d)
    \/ ApplicationIndexesReady(d) \/ CheckCatalogIndex(d) \/ CreateCatalogIndex(d)
    \/ CatalogIndexesReady(d) \/ Restart(d)

-----------------------------------------------------------------------------
(* Properties.                                                             *)

\* create-application-indexes.mjs:235-236 ("an incompatible unique or TTL index fails startup
\* without a partial rollout"): an instance that starts has every index its schemas define,
\* with its options, and the catalog's as far as that script compares them, whatever another
\* release provisions meanwhile; one that met a conflict has made none.
StartedHasIndexes ==
  \A d \in Instances :
    /\ instance[d].at = "ready" =>
         /\ \A k \in DOMAIN Manifests[d] : Manifests[d][k] \in database.indexes
         /\ \A k \in DOMAIN Catalog : \E j \in Existing(Catalog[k]) : ~OptionMismatch(Catalog[k], j)
    /\ instance[d].refused => instance[d].made = 0
=============================================================================
