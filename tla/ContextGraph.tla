---------------------------- MODULE ContextGraph ----------------------------
(***************************************************************************)
(* The graph that package versions project (graph_entity, graph_edge) and  *)
(* how a query expands the assets it found along it.  Rows are only ever   *)
(* added, and every version reads the rows of its own manifest: a query    *)
(* keeps the version it started with while others are built.               *)
(*                                                                         *)
(* A build here is any next manifest that validation lets through; which   *)
(* ones governance produces is the subject of Governance.                  *)
(***************************************************************************)
EXTENDS Naturals, Sequences, FiniteSets

CONSTANTS Identity,      \* an asset_type and a canonical_key
          Kind,          \* [Identity -> {"ENTITY", "RELATIONSHIP", "OTHER"}]
          KeyOf,         \* [Identity -> canonical_key]
          Payload,       \* what a revision may say
          Batches,       \* bound: the changes one build may make, each a function of
                         \* some identities to a payload, or to None for a removal
          MaxVersions,   \* bound: versions built
          MaxHops,       \* bound: values of graph_max_hops
          MaxSeeds,      \* bound: assets that the evidence of one query links to
          None

ASSUME ContextGraphAssumption ==
  /\ Kind \in [Identity -> {"ENTITY", "RELATIONSHIP", "OTHER"}]
  /\ DOMAIN KeyOf = Identity
  /\ \A i, j \in Identity :
       (Kind[i] = Kind[j] /\ Kind[i] # "OTHER" /\ KeyOf[i] = KeyOf[j]) => i = j
  /\ None \notin Payload
  /\ \A b \in Batches :
       /\ b \in [DOMAIN b -> Payload \cup {None}]
       /\ DOMAIN b \subseteq Identity /\ IsFiniteSet(DOMAIN b)
       /\ \A i \in DOMAIN b :
            Kind[i] = "RELATIONSHIP" /\ b[i] # None => DOMAIN b[i].ends = {1, 2}
  /\ MaxVersions \in Nat /\ MaxHops \in Nat /\ MaxSeeds \in Nat

VARIABLES
  revisions,   \* context_asset_revision, never changed nor deleted
  versions,    \* package_asset: the revisions of each version, the last one active
  entities,    \* graph_entity, a row per revision; the revision stands for entity_id
  edges,       \* graph_edge
  query        \* the query under way, None before it and with its assets after it

vars == <<revisions, versions, entities, edges, query>>

\* A payload has needs (dependencies), about (entity_keys of a policy) and ends
\* (<<from_entity, to_entity>>, or <<>> if it is not a relationship).
Revision == [identity : Identity, no : 1 .. MaxVersions, payload : Payload]

Active == IF versions = <<>> THEN {} ELSE versions[Len(versions)]
Keys(m) == {KeyOf[r.identity] : r \in m}
OfKind(m, kind) == {r \in m : Kind[r.identity] = kind}

TypeOK ==
  /\ revisions \subseteq Revision
  /\ \A r, s \in revisions : (r.identity = s.identity /\ r.no = s.no) => r = s
  /\ versions \in Seq(SUBSET revisions)
  /\ entities \subseteq revisions
  /\ edges \subseteq [by : revisions, from : entities, to : entities]
  /\ \/ query = None
     \/ /\ query \in [version : 1 .. Len(versions), seeds : SUBSET revisions,
                      hops : 0 .. MaxHops, assets : (SUBSET revisions) \cup {None}]
        /\ query.seeds \subseteq versions[query.version]

Init ==
  /\ revisions = {} /\ versions = <<>>
  /\ entities = {} /\ edges = {}
  /\ query = None

-----------------------------------------------------------------------------
(* The build of a version *)

\* validate_effective, as far as the projection and the expansion rely on it.
Valid(m) ==
  LET entityKeys == Keys(OfKind(m, "ENTITY"))
  IN  \A r \in m :
        /\ r.payload.needs \subseteq Keys(m)
        /\ r.payload.about \subseteq entityKeys
        /\ \A k \in DOMAIN r.payload.ends : r.payload.ends[k] \in entityKeys

\* NextNo, had it been counted from the active manifest (a faulty variant).
NextNoOfActive(i) == 1 + Cardinality({r \in Active : r.identity = i})

\* Revision numbers go on from the last revision of the asset, also of a retired one.
NextNo(i) == 1 + Cardinality({r \in revisions : r.identity = i})

\* The revision that manifest m has of the entity with key k.
EntityOf(m, k) == CHOOSE r \in OfKind(m, "ENTITY") : KeyOf[r.identity] = k

\* EdgesOf, had an edge been unique per relationship revision (a faulty variant).
EdgesOfNewRevisions(m) ==
  {[by |-> r, from |-> EntityOf(m, r.payload.ends[1]), to |-> EntityOf(m, r.payload.ends[2])] :
     r \in {s \in OfKind(m, "RELATIONSHIP") : \A e \in edges : e.by # s}}

\* The edges of manifest m: its relationships, old and new, between its entities.
EdgesOf(m) ==
  {[by |-> r, from |-> EntityOf(m, r.payload.ends[1]), to |-> EntityOf(m, r.payload.ends[2])] :
     r \in OfKind(m, "RELATIONSHIP")}

\* One batch: some identities go, some get a new revision, the others stay.
Build ==
  /\ Len(versions) < MaxVersions
  /\ \E b \in Batches :
       LET fresh == {[identity |-> i, no |-> NextNo(i), payload |-> b[i]] :
                       i \in {j \in DOMAIN b : b[j] # None}}
           m     == {r \in Active : r.identity \notin DOMAIN b} \cup fresh
       IN  /\ \A i \in DOMAIN b : b[i] = None => \E r \in Active : r.identity = i
           /\ Valid(m)
           /\ revisions' = revisions \cup fresh
           /\ versions' = Append(versions, m)
           /\ entities' = entities \cup OfKind(m, "ENTITY")
           /\ edges' = edges \cup EdgesOf(m)
  /\ UNCHANGED query

-----------------------------------------------------------------------------
(* The expansion of a query's assets *)

\* What the two selects return for a manifest, without edges that leave it.
EntitiesIn(m) == entities \cap m
EdgesIn(m)    == {e \in edges : e.by \in m /\ e.from \in EntitiesIn(m) /\ e.to \in EntitiesIn(m)}

\* The keys the seeds name; the entities with one of them are where the walk starts.
SeedKeys(seeds) == Keys(seeds) \cup UNION {r.payload.needs \cup r.payload.about : r \in seeds}

\* Touched, had edges been followed forward only (a faulty variant).
TouchedForward(m, frontier) == {e \in EdgesIn(m) : e.from \in frontier}

Touched(m, frontier) == {e \in EdgesIn(m) : e.from \in frontier \/ e.to \in frontier}

\* Where a walk begins.
Start(m, seeds) ==
  LET start == {r \in EntitiesIn(m) : KeyOf[r.identity] \in SeedKeys(seeds)}
  IN  [visited |-> start, frontier |-> start, selected |-> seeds]

\* One hop of walk w: only what the last hop found is walked from.
Hop(m, w) ==
  LET touched   == Touched(m, w.frontier)
      following == {e.from : e \in touched} \cup {e.to : e \in touched}
  IN  [visited  |-> w.visited \cup following,
       frontier |-> following \ w.visited,
       selected |-> w.selected \cup {e.by : e \in touched}]

\* The walk along the edges, hop by hop.
Walk(m, seeds, hops) ==
  LET after[n \in 0 .. hops] == IF n = 0 THEN Start(m, seeds) ELSE Hop(m, after[n - 1])
  IN  after[hops].selected \cup after[hops].visited

\* One round of the loop that adds what the selected assets depend on.
Round(m, selected) ==
  selected \cup {r \in m : KeyOf[r.identity] \in UNION {s.payload.needs : s \in selected}}

\* The loop ends when nothing is new.  Every round but the last adds an asset, so there
\* are no more rounds than assets.
WithDependencies(m, selected) ==
  LET round[n \in 0 .. Cardinality(m)] == IF n = 0 THEN selected ELSE Round(m, round[n - 1])
  IN  round[Cardinality(m)]

\* CompoundQuery.run takes the active package, the branch finds the assets that the
\* evidence links to.
StartQuery ==
  /\ query = None /\ versions # <<>>
  /\ \E seeds \in SUBSET Active, hops \in 0 .. MaxHops :
       /\ Cardinality(seeds) <= MaxSeeds
       /\ query' = [version |-> Len(versions), seeds |-> seeds, hops |-> hops, assets |-> None]
  /\ UNCHANGED <<revisions, versions, entities, edges>>

Expand ==
  /\ query # None /\ query.assets = None
  /\ LET m == versions[query.version]
     IN  query' = [query EXCEPT !.assets =
                    WithDependencies(m, Walk(m, query.seeds, query.hops))]
  /\ UNCHANGED <<revisions, versions, entities, edges>>

Next == Build \/ StartQuery \/ Expand

Spec == Init /\ [][Next]_vars

-----------------------------------------------------------------------------
(* Properties *)

\* "Historical graph rows remain addressable by old manifests" (builder.py): whatever
\* was built after a version, it reads one entity per entity revision of its manifest,
\* and each of its relationships as one edge between its own revisions of the ends,
\* never between a newer and an older one.
ProjectionIsExact ==
  \A v \in 1 .. Len(versions) :
    LET m == versions[v]
    IN  /\ EntitiesIn(m) = OfKind(m, "ENTITY")
        /\ \A r \in OfKind(m, "RELATIONSHIP") :
             \E e \in EdgesIn(m) :
               /\ {d \in EdgesIn(m) : d.by = r} = {e}
               /\ KeyOf[e.from.identity] = r.payload.ends[1]
               /\ KeyOf[e.to.identity] = r.payload.ends[2]

\* A relationship of m connects the entities a and b.
Linked(m, a, b) ==
  \E r \in OfKind(m, "RELATIONSHIP") :
    {KeyOf[a.identity], KeyOf[b.identity]} = {r.payload.ends[1], r.payload.ends[2]}

\* Entities of m that a chain of at most n relationships of m connects with a key in keys.
Near(m, keys, n) ==
  LET all == OfKind(m, "ENTITY")
  IN  {a \in all : \E len \in 1 .. n + 1 : \E path \in [1 .. len -> all] :
         /\ KeyOf[path[1].identity] \in keys /\ path[len] = a
         /\ \A k \in 1 .. len - 1 : Linked(m, path[k], path[k + 1])}

\* The least superset of some assets of m that has what each of them depends on.
Completed(m, some) ==
  {r \in m : \A all \in SUBSET m :
     (some \subseteq all /\ \A s \in all : {d \in m : KeyOf[d.identity] \in s.payload.needs} \subseteq all)
       => r \in all}

\* However many versions are built meanwhile, a query gets what the manifest it began
\* with says, without any projection: the seeds, the entities within its hops, the
\* relationships that the hops cross, and everything these depend on.
ExpansionIsOfItsVersion ==
  (query # None /\ query.assets # None) =>
    LET m    == versions[query.version]
        keys == SeedKeys(query.seeds)
    IN  query.assets = Completed(m,
          query.seeds \cup Near(m, keys, query.hops) \cup
          {r \in OfKind(m, "RELATIONSHIP") :
             \E a \in Near(m, keys, query.hops - 1) :
               KeyOf[a.identity] \in {r.payload.ends[1], r.payload.ends[2]}})
=============================================================================
