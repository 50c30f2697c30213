---------------------------- MODULE GraphTables ----------------------------
(***************************************************************************)
(* The data of the store in ilo/src/ladybug.rs: the three database tables  *)
(* (Node, Prop, LINK), the three in-memory maps kept beside them           *)
(* (node_cache, link_cache, tag_index), and what one StoreMutation does to *)
(* each of them.  The database half of a mutation is `apply` and its       *)
(* apply_* functions; the memory half is one arm of `sync_cache`.  The two *)
(* halves are written separately in the code, and everything that can go   *)
(* wrong between them follows from the places where they disagree.         *)
(*                                                                         *)
(* Data abstraction.  `label` stands for the columns of a node that are    *)
(* cached and rewritten alike (label, confidence); `rel`, the tags and the *)
(* confidence of a link are fixed at creation and are left out; a property *)
(* is its (owner, key) pair, its value being the concern of another        *)
(* module; timestamps are left out (no column default but 0 is written).   *)
(***************************************************************************)
EXTENDS Naturals, FiniteSets

CONSTANTS
  NodeIds,      \* node identifiers: uid("e"), uid("c"), uid("t"), or a client's turn_id
  LinkIds,      \* link identifiers, always a fresh uid
  NodeTypes,    \* a subset of {"entity", "claim", "turn"}
  LinkTypes,    \* a subset of the seven link types
  Labels,       \* values of the mutable node columns
  Tags,         \* node tags
  Weights,      \* link weights
  Keys,         \* property keys
  TurnKeys,     \* the keys write_batch gives a turn node
  TurnWeight,   \* weight of a link between consecutive turns (0.9)
  Absent        \* no row, or no map entry

ASSUME TypesAssumption ==
  /\ "turn" \in NodeTypes
  /\ "precedes" \in LinkTypes
  /\ TurnWeight \in Weights
  /\ TurnKeys \subseteq Keys
  /\ NodeIds \cap LinkIds = {}

Owners == NodeIds \cup LinkIds

NodeRec == [type : NodeTypes, label : Labels, tags : SUBSET Tags]
LinkRec == [from : NodeIds, to : NodeIds, type : LinkTypes, weight : Weights]

ASSUME AbsentAssumption == Absent \notin NodeRec \cup LinkRec \cup LinkIds

NodeMap == [NodeIds -> NodeRec \cup {Absent}]
LinkMap == [LinkIds -> LinkRec \cup {Absent}]

Tables == [node : NodeMap, link : LinkMap, prop : SUBSET (Owners \X Keys)]
Caches == [node : NodeMap, link : LinkMap, tag : [Tags -> SUBSET NodeIds]]

EmptyTables == [node |-> [n \in NodeIds |-> Absent],
                link |-> [l \in LinkIds |-> Absent],
                prop |-> {}]

EmptyCaches == [node |-> [n \in NodeIds |-> Absent],
                link |-> [l \in LinkIds |-> Absent],
                tag  |-> [t \in Tags |-> {}]]

HasNode(d, n) == d.node[n] # Absent
HasLink(d, l) == d.link[l] # Absent

-----------------------------------------------------------------------------
(* StoreMutation, types.rs *)

CreateNodeOp  == [op : {"CreateNode"}, id : NodeIds, rec : NodeRec]
CreateLinkOp  == [op : {"CreateLink"}, id : LinkIds, rec : LinkRec]
UpdateWeightOp == [op : {"UpdateLinkWeight"}, id : LinkIds, weight : Weights]
DeleteLinkOp  == [op : {"DeleteLink"}, id : LinkIds]
DeleteNodeOp  == [op : {"DeleteNode"}, id : NodeIds]
SetPropertyOp == [op : {"SetProperty"}, owner : Owners, key : Keys]
DeletePropertyOp == [op : {"DeleteProperty"}, owner : Owners, key : Keys]

Mutations ==
  CreateNodeOp \cup CreateLinkOp \cup UpdateWeightOp \cup DeleteLinkOp
    \cup DeleteNodeOp \cup SetPropertyOp \cup DeletePropertyOp

-----------------------------------------------------------------------------
(* The database half: ladybug.rs `apply`. *)

\* CREATE (:Node {id}) : id is the primary key, a second row is an error.
Applicable(d, m) == m.op = "CreateNode" => ~HasNode(d, m.id)

DbCreateNode(d, n, rec) == [d EXCEPT !.node[n] = rec]

\* MATCH (a), (b) CREATE (a)-[:LINK]->(b) : no match, no row, and no error.
DbCreateLink(d, l, rec) ==
  IF HasNode(d, rec.from) /\ HasNode(d, rec.to)
  THEN [d EXCEPT !.link[l] = rec]
  ELSE d

DbUpdateWeight(d, l, w) ==
  IF HasLink(d, l) THEN [d EXCEPT !.link[l].weight = w] ELSE d

DbDeleteLink(d, l) == [d EXCEPT !.link[l] = Absent]

\* Mutant: DELETE without DETACH.
DbDeleteNodeOnly(d, n) ==
  [d EXCEPT !.node[n] = Absent, !.prop = {p \in @ : p[1] # n}]

\* Mutant: the node's properties are forgotten.
DbDeleteNodeKeepingProps(d, n) == [DbDeleteNodeOnly(d, n) EXCEPT !.prop = d.prop]

\* The node's properties, then DETACH DELETE: its links go with it, the
\* properties of those links stay.
DbDeleteNode(d, n) ==
  [node |-> [d.node EXCEPT ![n] = Absent],
   link |-> [l \in LinkIds |->
               IF HasLink(d, l) /\ n \in {d.link[l].from, d.link[l].to}
               THEN Absent ELSE d.link[l]],
   prop |-> {p \in d.prop : p[1] # n}]

\* MERGE on "owner::key"; the owner is not looked up.
DbSetProperty(d, o, k) == [d EXCEPT !.prop = @ \cup {<<o, k>>}]
DbDeleteProperty(d, o, k) == [d EXCEPT !.prop = @ \ {<<o, k>>}]

\* The column updates that handlers send through raw_query; like every MATCH,
\* they change nothing when there is no such row.
DbSetColumns(d, n, label, tags) ==
  IF HasNode(d, n)
  THEN [d EXCEPT !.node[n] = [@ EXCEPT !.label = label, !.tags = tags]]
  ELSE d

DbSetLinkType(d, l, type) ==
  IF HasLink(d, l) THEN [d EXCEPT !.link[l].type = type] ELSE d

Apply(d, m) ==
  CASE m.op = "CreateNode"       -> DbCreateNode(d, m.id, m.rec)
    [] m.op = "CreateLink"       -> DbCreateLink(d, m.id, m.rec)
    [] m.op = "UpdateLinkWeight" -> DbUpdateWeight(d, m.id, m.weight)
    [] m.op = "DeleteLink"       -> DbDeleteLink(d, m.id)
    [] m.op = "DeleteNode"       -> DbDeleteNode(d, m.id)
    [] m.op = "SetProperty"      -> DbSetProperty(d, m.owner, m.key)
    [] m.op = "DeleteProperty"   -> DbDeleteProperty(d, m.owner, m.key)

-----------------------------------------------------------------------------
(* The memory half: the arms of ladybug.rs `sync_cache`. *)

\* Mutants: the entry, or its tags, are not written.
CacheCreateNodeIndexOnly(c, n, rec) ==
  [c EXCEPT !.tag = [t \in Tags |-> IF t \in rec.tags THEN c.tag[t] \cup {n}
                                                      ELSE c.tag[t]]]
CacheCreateNodeUntagged(c, n, rec) == [c EXCEPT !.node[n] = [rec EXCEPT !.tags = {}]]

CacheCreateNode(c, n, rec) ==
  [c EXCEPT !.node[n] = rec,
            !.tag = [t \in Tags |-> IF t \in rec.tags THEN c.tag[t] \cup {n}
                                                      ELSE c.tag[t]]]

\* Inserted whether or not the database found the two endpoints.
CacheCreateLink(c, l, rec) == [c EXCEPT !.link[l] = rec]

\* Mutant: the new weight is written to the database only.
CacheUpdateWeightNot(c, l, w) == c

CacheUpdateWeight(c, l, w) ==
  IF HasLink(c, l) THEN [c EXCEPT !.link[l].weight = w] ELSE c

\* Mutant: the link is deleted from the database only.
CacheDeleteLinkNot(c, l) == c

CacheDeleteLink(c, l) == [c EXCEPT !.link[l] = Absent]

\* Mutants: one of the two maps is forgotten.
CacheDeleteNodeIndexOnly(c, n) == [c EXCEPT !.tag = [t \in Tags |-> c.tag[t] \ {n}]]
CacheDeleteNodeKeepingTags(c, n) == [c EXCEPT !.node[n] = Absent]

\* link_cache is not searched for the node's links.
CacheDeleteNode(c, n) ==
  [c EXCEPT !.node[n] = Absent, !.tag = [t \in Tags |-> c.tag[t] \ {n}]]

Sync(c, m) ==
  CASE m.op = "CreateNode"       -> CacheCreateNode(c, m.id, m.rec)
    [] m.op = "CreateLink"       -> CacheCreateLink(c, m.id, m.rec)
    [] m.op = "UpdateLinkWeight" -> CacheUpdateWeight(c, m.id, m.weight)
    [] m.op = "DeleteLink"       -> CacheDeleteLink(c, m.id)
    [] m.op = "DeleteNode"       -> CacheDeleteNode(c, m.id)
    [] m.op \in {"SetProperty", "DeleteProperty"} -> c

-----------------------------------------------------------------------------
(* write_batch's turn step, and loading the maps from the tables. *)

\* Mutant: a node type that is none.
TurnRecOfNoType(label) == [type |-> "conversation", label |-> label, tags |-> {}]

TurnRec(label) == [type |-> "turn", label |-> label, tags |-> {}]

TurnNodes(d) == {n \in NodeIds : HasNode(d, n) /\ d.node[n].type = "turn"}

\* The turn's node and properties are CREATEd, so each must be new.
TurnApplicable(d, t) ==
  /\ ~HasNode(d, t)
  /\ \A k \in TurnKeys : <<t, k>> \notin d.prop

DbCreateTurn(d, t, label) ==
  [d EXCEPT !.node[t] = TurnRec(label), !.prop = @ \cup ({t} \X TurnKeys)]

PrecedesRec(prev, t) ==
  [from |-> prev, to |-> t, type |-> "precedes", weight |-> TurnWeight]

\* The turn step as one operation: `prev` is the turn the new one is linked from,
\* `link` the link's id, or Absent when the query for `prev` failed (which the
\* code ignores).
TurnOp == [op : {"CreateTurn"}, id : NodeIds, label : Labels,
           link : LinkIds \cup {Absent}, prev : NodeIds]

ApplyTurn(d, m) ==
  LET created == DbCreateTurn(d, m.id, m.label)
  IN IF m.link = Absent THEN created
     ELSE DbCreateLink(created, m.link, PrecedesRec(m.prev, m.id))

CacheTurn(c, m) == [c EXCEPT !.node[m.id] = TurnRec(m.label)]

WarmNodes(d) ==
  [node |-> d.node,
   link |-> EmptyCaches.link,
   tag  |-> [t \in Tags |->
              {n \in NodeIds : HasNode(d, n) /\ t \in d.node[n].tags}]]

Warm(d) == [WarmNodes(d) EXCEPT !.link = d.link]
=============================================================================
