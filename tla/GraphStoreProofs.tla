-------------------------- MODULE GraphStoreProofs --------------------------
(***************************************************************************)
(* The invariants of GraphStore, proved for any sets of nodes, links, tags *)
(* and keys and any length of batch.                                       *)
(*                                                                         *)
(* The argument is one inductive invariant, IndInv.  What the maps say of  *)
(* the tables (`Agrees`) is kept twice: between the committed tables and   *)
(* the maps, and between the transaction's view and the maps as they will  *)
(* be once the batch is replayed.  Each mutation preserves the second      *)
(* agreement, because the two halves of a mutation do the same to a node;  *)
(* a failure falls back on the first, a commit and a replay replace the    *)
(* first by the second.                                                    *)
(*                                                                         *)
(* The second half shows that GraphStore implements AtomicGraph, and that  *)
(* an acknowledged write can be read.  The view of an open transaction is  *)
(* what the batch, so far as it was applied, makes of the committed tables *)
(* (ViewIsRun), so that the commit changes the tables by the whole batch;  *)
(* and both halves of the view hold the last word of every creation and    *)
(* deletion applied so far (LastWordsKept), so that the replay puts it     *)
(* into the maps.                                                          *)
(***************************************************************************)
EXTENDS GraphStore, GraphTablesProofs

-----------------------------------------------------------------------------
(* Each mutation keeps the links between stored nodes. *)

\* A stored link names two node ids.
LEMMA LinkEnds ==
  ASSUME NEW d \in Tables, NEW l \in LinkIds, HasLink(d, l)
  PROVE  d.link[l].from \in NodeIds /\ d.link[l].to \in NodeIds
<1>1. d.link[l] \in LinkRec
  BY DEF HasLink, Tables, LinkMap
<1> QED
  BY <1>1 DEF LinkRec

\* No mutation leaves a stored link without a stored end.
LEMMA ApplyIntegrity ==
  ASSUME NEW d \in Tables, NEW m \in Mutations, Integrity(d)
  PROVE  Integrity(Apply(d, m))
<1> DEFINE e == Apply(d, m)
<1> SUFFICES ASSUME NEW l \in LinkIds, HasLink(e, l)
             PROVE  HasNode(e, e.link[l].from) /\ HasNode(e, e.link[l].to)
  BY DEF Integrity
<1>1. CASE m.op = "CreateNode" /\ m.id \in NodeIds /\ m.rec \in NodeRec
  <2>1. e = DbCreateNode(d, m.id, m.rec)
    BY <1>1 DEF Apply
  <2>2. HasLink(d, l) /\ e.link[l] = d.link[l]
    BY <1>1, <2>1, CreateNodeShape DEF HasLink
  <2> QED
    BY <1>1, <2>1, <2>2, CreateNodeShape, RecsPresent, LinkEnds
       DEF Integrity, HasNode
<1>2. CASE m.op = "CreateLink" /\ m.id \in LinkIds /\ m.rec \in LinkRec
  <2>1. e = DbCreateLink(d, m.id, m.rec)
    BY <1>2 DEF Apply
  <2> QED
    BY <1>2, <2>1, CreateLinkShape DEF Integrity, HasNode, HasLink
<1>3. CASE m.op = "UpdateLinkWeight" /\ m.id \in LinkIds /\ m.weight \in Weights
  <2>1. e = DbUpdateWeight(d, m.id, m.weight)
    BY <1>3 DEF Apply
  <2> QED
    BY <1>3, <2>1, UpdateWeightShape DEF Integrity, HasNode
<1>4. CASE m.op = "DeleteLink" /\ m.id \in LinkIds
  <2>1. e = DbDeleteLink(d, m.id)
    BY <1>4 DEF Apply
  <2> QED
    BY <1>4, <2>1, DeleteLinkShape DEF Integrity, HasNode, HasLink
<1>5. CASE m.op = "DeleteNode" /\ m.id \in NodeIds
  <2>1. e = DbDeleteNode(d, m.id)
    BY <1>5 DEF Apply
  <2>2. /\ HasLink(d, l) /\ e.link[l] = d.link[l]
        /\ d.link[l].from # m.id /\ d.link[l].to # m.id
    BY <1>5, <2>1, DeleteNodeShape DEF HasLink
  <2>3. /\ d.link[l].from \in NodeIds /\ HasNode(d, d.link[l].from)
        /\ d.link[l].to \in NodeIds /\ HasNode(d, d.link[l].to)
    BY <2>2, LinkEnds DEF Integrity
  <2> QED
    BY <1>5, <2>1, <2>2, <2>3, DeleteNodeShape DEF HasNode
<1>6. CASE /\ m.op \in {"SetProperty", "DeleteProperty"}
           /\ m.owner \in Owners /\ m.key \in Keys
  <2>1. e \in {DbSetProperty(d, m.owner, m.key), DbDeleteProperty(d, m.owner, m.key)}
    BY <1>6 DEF Apply
  <2> QED
    BY <1>6, <2>1, PropertyShape DEF Integrity, HasNode, HasLink
<1> QED
  BY <1>1, <1>2, <1>3, <1>4, <1>5, <1>6, MutationKinds

-----------------------------------------------------------------------------
(* Each mutation, done to the tables and to the maps, keeps them in agreement. *)

\* Maps c agree with tables d, given what was loaded at start (w) and which nodes
\* a raw update has rewritten since (s).
Agrees(d, c, w, s) ==
  /\ w # "none" => NodesCached(d, c)
  /\ PhantomsAreTurns(d, c)
  /\ FreshUnless(d, c, s)
  /\ TagsSound(c)
  /\ w # "none" => TagsComplete(c)
  /\ LinksAgree(d, c)
  /\ w = "full" => LinksCached(d, c)

\* An operation on links leaves what is said of the nodes alone.
LEMMA NodesMoveTogether ==
  ASSUME NEW d, NEW c, NEW e, NEW f, NEW w, NEW s,
         Agrees(d, c, w, s),
         e.node = d.node, f.node = c.node, f.tag = c.tag,
         LinksAgree(e, f), w = "full" => LinksCached(e, f)
  PROVE  Agrees(e, f, w, s)
  BY DEF Agrees, NodesCached, PhantomsAreTurns, FreshUnless, TagsSound,
         TagsComplete, HasNode

\* A new id may be in node_cache already, but only as an untagged turn, so
\* tag_index has no entry for it to contradict.
LEMMA SyncCreateNode ==
  ASSUME NEW d \in Tables, NEW c \in Caches, NEW w, NEW s,
         NEW n \in NodeIds, NEW rec \in NodeRec,
         ~HasNode(d, n), Agrees(d, c, w, s)
  PROVE  Agrees(DbCreateNode(d, n, rec), CacheCreateNode(c, n, rec), w, s)
<1> DEFINE e == DbCreateNode(d, n, rec)
           f == CacheCreateNode(c, n, rec)
<1>1. /\ \A k \in NodeIds : e.node[k] = IF k = n THEN rec ELSE d.node[k]
      /\ \A k \in NodeIds : f.node[k] = IF k = n THEN rec ELSE c.node[k]
      /\ rec # Absent
      /\ e.link = d.link /\ f.link = c.link
  BY CreateNodeShape, CacheCreateNodeShape, RecsPresent
<1>2. \A t \in Tags : \A k :
        k \in f.tag[t] <=> k \in c.tag[t] \/ (t \in rec.tags /\ k = n)
  BY CacheCreateNodeShape
<1>3. \A t \in Tags : n \notin c.tag[t]
  BY DEF Agrees, PhantomsAreTurns, TagsSound
<1> HIDE DEF e, f
<1>4. w # "none" => NodesCached(e, f)
  BY <1>1 DEF Agrees, NodesCached, HasNode
<1>5. PhantomsAreTurns(e, f)
  BY <1>1 DEF Agrees, PhantomsAreTurns, HasNode
<1>6. FreshUnless(e, f, s)
  BY <1>1 DEF Agrees, FreshUnless, HasNode
<1>7. TagsSound(f)
  <2>1. \A t \in Tags : c.tag[t] \subseteq NodeIds
    BY DEF Caches
  <2> QED
  BY <1>1, <1>2, <1>3, <2>1 DEF Agrees, TagsSound, HasNode
<1>8. w # "none" => TagsComplete(f)
  <2>1. \A k \in NodeIds : HasNode(c, k) => c.node[k].tags \subseteq Tags
    BY DEF Caches, NodeMap, HasNode, NodeRec
  <2>2. rec.tags \subseteq Tags
    BY DEF NodeRec
  <2> QED
    BY <1>1, <1>2, <2>1, <2>2 DEF Agrees, TagsComplete, HasNode
<1>9. LinksAgree(e, f) /\ (w = "full" => LinksCached(e, f))
  BY <1>1 DEF Agrees, LinksAgree, LinksCached, HasLink
<1> QED
  BY <1>4, <1>5, <1>6, <1>7, <1>8, <1>9 DEF Agrees, e, f

LEMMA SyncDeleteNode ==
  ASSUME NEW d \in Tables, NEW c \in Caches, NEW w, NEW s, NEW n \in NodeIds,
         Agrees(d, c, w, s)
  PROVE  Agrees(DbDeleteNode(d, n), CacheDeleteNode(c, n), w, s)
<1> DEFINE e == DbDeleteNode(d, n)
           f == CacheDeleteNode(c, n)
<1>1. /\ \A k \in NodeIds : e.node[k] = IF k = n THEN Absent ELSE d.node[k]
      /\ \A k \in NodeIds : f.node[k] = IF k = n THEN Absent ELSE c.node[k]
      /\ \A t \in Tags : f.tag[t] = c.tag[t] \ {n}
  BY DeleteNodeShape, CacheDeleteNodeShape
<1>2. /\ \A l \in LinkIds : e.link[l] \in {d.link[l], Absent}
      /\ f.link = c.link
  BY DeleteNodeShape, CacheDeleteNodeShape
<1> HIDE DEF e, f
<1>3. (w # "none" => NodesCached(e, f)) /\ PhantomsAreTurns(e, f) /\ FreshUnless(e, f, s)
  BY <1>1 DEF Agrees, NodesCached, PhantomsAreTurns, FreshUnless, HasNode
<1>4. TagsSound(f)
  <2>1. \A t \in Tags : c.tag[t] \subseteq NodeIds
    BY DEF Caches
  <2> QED
    BY <1>1, <2>1 DEF Agrees, TagsSound, HasNode
<1>5. w # "none" => TagsComplete(f)
  <2>1. \A k \in NodeIds : HasNode(c, k) => c.node[k].tags \subseteq Tags
    BY DEF Caches, NodeMap, HasNode, NodeRec
  <2> QED
    BY <1>1, <2>1 DEF Agrees, TagsComplete, HasNode
<1>6. LinksAgree(e, f) /\ (w = "full" => LinksCached(e, f))
  BY <1>2 DEF Agrees, LinksAgree, LinksCached, HasLink
<1> QED
  BY <1>3, <1>4, <1>5, <1>6 DEF Agrees, e, f

LEMMA SyncCreateLink ==
  ASSUME NEW d \in Tables, NEW c \in Caches, NEW w, NEW s,
         NEW l \in LinkIds, NEW rec \in LinkRec,
         ~HasLink(d, l), Agrees(d, c, w, s)
  PROVE  Agrees(DbCreateLink(d, l, rec), CacheCreateLink(c, l, rec), w, s)
<1> DEFINE e == DbCreateLink(d, l, rec)
           f == CacheCreateLink(c, l, rec)
<1>1. /\ e.node = d.node /\ f.node = c.node /\ f.tag = c.tag
      /\ \A k \in LinkIds : e.link[k] = d.link[k] \/ (k = l /\ e.link[k] = rec)
      /\ \A k \in LinkIds : f.link[k] = IF k = l THEN rec ELSE c.link[k]
      /\ rec # Absent
  BY CreateLinkShape, CacheCreateLinkShape, RecsPresent
<1> HIDE DEF e, f
<1>2. LinksAgree(e, f) /\ (w = "full" => LinksCached(e, f))
  BY <1>1 DEF Agrees, LinksAgree, LinksCached, HasLink
<1> QED
  BY <1>1, <1>2, NodesMoveTogether DEF e, f

LEMMA SyncDeleteLink ==
  ASSUME NEW d \in Tables, NEW c \in Caches, NEW w, NEW s, NEW l \in LinkIds,
         Agrees(d, c, w, s)
  PROVE  Agrees(DbDeleteLink(d, l), CacheDeleteLink(c, l), w, s)
<1> DEFINE e == DbDeleteLink(d, l)
           f == CacheDeleteLink(c, l)
<1>1. /\ e.node = d.node /\ f.node = c.node /\ f.tag = c.tag
      /\ \A k \in LinkIds : e.link[k] = IF k = l THEN Absent ELSE d.link[k]
      /\ \A k \in LinkIds : f.link[k] = IF k = l THEN Absent ELSE c.link[k]
  BY DeleteLinkShape, CacheDeleteLinkShape
<1> HIDE DEF e, f
<1>2. LinksAgree(e, f) /\ (w = "full" => LinksCached(e, f))
  BY <1>1 DEF Agrees, LinksAgree, LinksCached, HasLink
<1> QED
  BY <1>1, <1>2, NodesMoveTogether DEF e, f

LEMMA SyncUpdateWeight ==
  ASSUME NEW d \in Tables, NEW c \in Caches, NEW w, NEW s,
         NEW l \in LinkIds, NEW x \in Weights, Agrees(d, c, w, s)
  PROVE  Agrees(DbUpdateWeight(d, l, x), CacheUpdateWeight(c, l, x), w, s)
<1> DEFINE e == DbUpdateWeight(d, l, x)
           f == CacheUpdateWeight(c, l, x)
<1>1. e.node = d.node /\ f.node = c.node /\ f.tag = c.tag
  BY UpdateWeightShape, CacheUpdateWeightShape
<1>2. LinksAgree(e, f)
  BY UpdateWeightShape, CacheUpdateWeightShape DEF Agrees, LinksAgree
<1>3. w = "full" => LinksCached(e, f)
  BY UpdateWeightShape, CacheUpdateWeightShape DEF Agrees, LinksCached
<1> HIDE DEF e, f
<1> QED
  BY <1>1, <1>2, <1>3, NodesMoveTogether DEF e, f

\* Both halves of any applicable mutation, done together.
LEMMA SyncAgrees ==
  ASSUME NEW d \in Tables, NEW c \in Caches, NEW w, NEW s, NEW m \in Mutations,
         Applicable(d, m), m.op = "CreateLink" => ~HasLink(d, m.id),
         Agrees(d, c, w, s)
  PROVE  Agrees(Apply(d, m), Sync(c, m), w, s)
<1>1. CASE m.op = "CreateNode" /\ m.id \in NodeIds /\ m.rec \in NodeRec
  BY <1>1, SyncCreateNode DEF Apply, Sync, Applicable
<1>2. CASE m.op = "CreateLink" /\ m.id \in LinkIds /\ m.rec \in LinkRec
  BY <1>2, SyncCreateLink DEF Apply, Sync
<1>3. CASE m.op = "UpdateLinkWeight" /\ m.id \in LinkIds /\ m.weight \in Weights
  BY <1>3, SyncUpdateWeight DEF Apply, Sync
<1>4. CASE m.op = "DeleteLink" /\ m.id \in LinkIds
  BY <1>4, SyncDeleteLink DEF Apply, Sync
<1>5. CASE m.op = "DeleteNode" /\ m.id \in NodeIds
  BY <1>5, SyncDeleteNode DEF Apply, Sync
<1>6. CASE /\ m.op \in {"SetProperty", "DeleteProperty"}
           /\ m.owner \in Owners /\ m.key \in Keys
  <2> DEFINE e == Apply(d, m)
  <2>1. e \in {DbSetProperty(d, m.owner, m.key), DbDeleteProperty(d, m.owner, m.key)}
    BY <1>6 DEF Apply
  <2>2. e.node = d.node /\ e.link = d.link /\ Sync(c, m) = c
    BY <1>6, <2>1, PropertyShape DEF Sync
  <2> HIDE DEF e
  <2>3. LinksAgree(e, c) /\ (w = "full" => LinksCached(e, c))
    BY <2>2 DEF Agrees, LinksAgree, LinksCached, HasLink
  <2> QED
    BY <2>2, <2>3, NodesMoveTogether DEF e
<1> QED
  BY <1>1, <1>2, <1>3, <1>4, <1>5, <1>6, MutationKinds

-----------------------------------------------------------------------------
(* Loading the maps, and the turn step. *)

LEMMA EmptyTypes == EmptyTables \in Tables /\ EmptyCaches \in Caches
  BY DEF EmptyTables, EmptyCaches, Tables, Caches, NodeMap, LinkMap

\* Whatever warm_cache managed to load agrees with the tables it was loaded from.
LEMMA WarmAgrees ==
  ASSUME NEW d \in Tables, NEW s
  PROVE  /\ Agrees(d, Warm(d), "full", s)
         /\ Agrees(d, WarmNodes(d), "nodes", s)
         /\ Agrees(d, EmptyCaches, "none", s)
<1>0. \A n \in NodeIds : HasNode(d, n) => d.node[n].tags \subseteq Tags
  BY DEF Tables, NodeMap, NodeRec, HasNode
<1>1. ASSUME NEW c \in {Warm(d), WarmNodes(d)}
      PROVE  /\ NodesCached(d, c) /\ PhantomsAreTurns(d, c) /\ FreshUnless(d, c, s)
             /\ TagsSound(c) /\ TagsComplete(c)
  <2>1. c.node = d.node /\ c.tag = WarmNodes(d).tag
    BY <1>1, WarmShape
  <2>2. \A t \in Tags : \A n :
          n \in c.tag[t] <=> n \in NodeIds /\ HasNode(d, n) /\ t \in d.node[n].tags
    BY <2>1, WarmShape
  <2> HIDE <1>1
  <2> QED
    BY <1>0, <2>1, <2>2
       DEF NodesCached, PhantomsAreTurns, FreshUnless, TagsSound, TagsComplete, HasNode
<1>2. LinksAgree(d, Warm(d)) /\ LinksCached(d, Warm(d)) /\ LinksAgree(d, WarmNodes(d))
  BY WarmShape DEF LinksAgree, LinksCached, HasLink
<1>3. Agrees(d, EmptyCaches, "none", s)
  BY DEF Agrees, EmptyCaches, PhantomsAreTurns, FreshUnless, TagsSound,
         LinksAgree, HasNode, HasLink
<1> QED
  BY <1>1, <1>2, <1>3 DEF Agrees

\* The link to the previous turn is made only between two stored turns.
LEMMA TurnIntegrity ==
  ASSUME NEW d \in Tables, NEW m \in TurnOp, Integrity(d)
  PROVE  Integrity(ApplyTurn(d, m))
<1> DEFINE e == ApplyTurn(d, m)
<1>1. \A k \in NodeIds : HasNode(d, k) => HasNode(e, k)
  BY TurnShape, EmptyTypes DEF HasNode
<1> SUFFICES ASSUME NEW l \in LinkIds, HasLink(e, l)
             PROVE  HasNode(e, e.link[l].from) /\ HasNode(e, e.link[l].to)
  BY DEF Integrity
<1>2. CASE e.link[l] = d.link[l]
  <2>1. HasLink(d, l)
    BY <1>2 DEF HasLink
  <2> QED
    BY <1>1, <1>2, <2>1, LinkEnds DEF Integrity
<1>3. CASE e.link[l] = PrecedesRec(m.prev, m.id) /\ HasNode(e, m.prev) /\ HasNode(e, m.id)
  BY <1>3 DEF PrecedesRec
<1> QED
  BY <1>2, <1>3, TurnShape, EmptyTypes

\* The early entry in node_cache agrees both with the tables without the turn and
\* with the tables with it: the turn is new to the tables, so an old entry for its
\* id is an untagged turn as well.
LEMMA TurnAgrees ==
  ASSUME NEW d \in Tables, NEW c \in Caches, NEW w, NEW s, NEW m \in TurnOp,
         ~HasNode(d, m.id), m.link # Absent => ~HasLink(d, m.link) /\ ~HasLink(c, m.link),
         Agrees(d, c, w, s)
  PROVE  /\ Agrees(d, CacheTurn(c, m), w, s)
         /\ Agrees(ApplyTurn(d, m), CacheTurn(c, m), w, s)
<1> DEFINE e == ApplyTurn(d, m)
           f == CacheTurn(c, m)
           rec == TurnRec(m.label)
           n == m.id
<1>1. /\ \A k \in NodeIds : e.node[k] = IF k = n THEN rec ELSE d.node[k]
      /\ \A k \in NodeIds : f.node[k] = IF k = n THEN rec ELSE c.node[k]
      /\ rec # Absent /\ rec.type = "turn" /\ rec.tags = {} /\ n \in NodeIds
      /\ f.link = c.link /\ f.tag = c.tag
  BY TurnShape
<1>2. \A t \in Tags : n \notin c.tag[t]
  BY <1>1 DEF Agrees, PhantomsAreTurns, TagsSound
<1>3. \A k \in LinkIds :
        e.link[k] = d.link[k] \/ (~HasLink(c, k) /\ e.link[k].type = "precedes")
  <2>1. PrecedesRec(m.prev, m.id).type = "precedes"
    BY DEF PrecedesRec
  <2>2. \A k \in LinkIds : k # Absent
    BY AbsentAssumption
  <2> QED
    BY <2>1, <2>2, TurnShape
<1> HIDE DEF e, f, rec, n
<1>4. (w # "none" => NodesCached(d, f) /\ NodesCached(e, f))
  BY <1>1 DEF Agrees, NodesCached, HasNode
<1>5. PhantomsAreTurns(d, f) /\ PhantomsAreTurns(e, f)
  BY <1>1 DEF Agrees, PhantomsAreTurns, HasNode
<1>6. FreshUnless(d, f, s) /\ FreshUnless(e, f, s)
  <2>1. ~HasNode(d, n)
    BY DEF n
  <2> QED
    BY <1>1, <2>1 DEF Agrees, FreshUnless, HasNode
<1>7. TagsSound(f) /\ (w # "none" => TagsComplete(f))
  <2>1. \A t \in Tags : c.tag[t] \subseteq NodeIds
    BY DEF Caches
  <2> QED
    BY <1>1, <1>2, <2>1 DEF Agrees, TagsSound, TagsComplete, HasNode
<1>8. LinksAgree(d, f) /\ LinksAgree(e, f)
  BY <1>1, <1>3 DEF Agrees, LinksAgree, HasLink
<1>9. w = "full" => LinksCached(d, f) /\ LinksCached(e, f)
  BY <1>1, <1>3 DEF Agrees, LinksCached, HasLink
<1> QED
  BY <1>4, <1>5, <1>6, <1>7, <1>8, <1>9 DEF Agrees, e, f

-----------------------------------------------------------------------------
(* The inductive invariant. *)

\* A transaction is open exactly while a write is running.
TxnOpen == txn = NoTxn <=> phase \in {"down", "idle"}

\* After COMMIT the transaction's view is what is stored.
Committed == phase = "sync" => db = txn.db

\* The maps agree with the committed tables, except between COMMIT and the replay;
\* the maps to come agree with the transaction's view throughout.
MapsAgree ==
  /\ phase # "sync" => Agrees(db, cache, warmed, touched)
  /\ txn # NoTxn => Agrees(txn.db, txn.cache, warmed, touched)

IndInv == TypeOK /\ TxnOpen /\ Committed /\ LinksJoinNodes /\ MapsAgree

LEMMA InitInv == Init => IndInv
<1> SUFFICES ASSUME Init PROVE IndInv
  OBVIOUS
<1>1. TypeOK
  BY EmptyTypes DEF Init, TypeOK
<1>2. Integrity(EmptyTables)
  BY DEF Integrity, EmptyTables, HasLink
<1>3. Agrees(EmptyTables, EmptyCaches, "none", {})
  BY EmptyTypes, WarmAgrees
<1> QED
  BY <1>1, <1>2, <1>3 DEF Init, IndInv, TxnOpen, Committed, LinksJoinNodes, MapsAgree

LEMMA TxnTyped ==
  ASSUME TypeOK, TxnOpen, phase \in {"applying", "sync"}
  PROVE  txn # NoTxn /\ txn.db \in Tables /\ txn.cache \in Caches
  BY DEF TypeOK, TxnOpen, Txns

LEMMA TxnRecord ==
  ASSUME NEW d \in Tables, NEW c \in Caches, NEW t, t = [db |-> d, cache |-> c]
  PROVE  t \in Txns /\ t # NoTxn /\ t.db = d /\ t.cache = c
  BY NoTxnAssumption DEF Txns

LEMMA OpenedType == TypeOK => Opened \in Tables
  BY EmptyTypes DEF TypeOK, Opened

LEMMA GetType ==
  ASSUME TypeOK, NEW n \in NodeIds
  PROVE  /\ CacheAfterGet(n) \in Caches
         /\ CacheAfterGet(n).link = cache.link /\ CacheAfterGet(n).tag = cache.tag
         /\ \A k \in NodeIds :
              CacheAfterGet(n).node[k] =
                IF k = n /\ ~HasNode(cache, n) THEN db.node[n] ELSE cache.node[k]
  BY DEF TypeOK, CacheAfterGet, Caches, Tables, NodeMap

LEMMA SetColumnsShape ==
  ASSUME NEW d \in Tables, NEW n \in NodeIds,
         NEW label \in Labels, NEW tags \in SUBSET Tags
  PROVE  LET e == DbSetColumns(d, n, label, tags) IN
         /\ e \in Tables /\ e.link = d.link
         /\ \A k \in NodeIds :
              /\ k # n => e.node[k] = d.node[k]
              /\ HasNode(e, k) <=> HasNode(d, k)
              /\ HasNode(d, k) => e.node[k].type = d.node[k].type
<1> DEFINE new == [d.node[n] EXCEPT !.label = label, !.tags = tags]
           e == DbSetColumns(d, n, label, tags)
<1>1. CASE HasNode(d, n)
  <2>1. new \in NodeRec /\ new.type = d.node[n].type
    <3>1. d.node[n] \in NodeRec
      BY <1>1 DEF Tables, NodeMap, HasNode
    <3> QED
      BY <3>1 DEF NodeRec
  <2>2. e = [d EXCEPT !.node = [d.node EXCEPT ![n] = new]]
    BY <1>1 DEF DbSetColumns
  <2> HIDE DEF new, e
  <2>3. /\ d.node \in [NodeIds -> NodeRec \cup {Absent}]
        /\ [d.node EXCEPT ![n] = new] \in [NodeIds -> NodeRec \cup {Absent}]
    BY <2>1 DEF Tables, NodeMap
  <2>4. e \in Tables /\ e.link = d.link /\ e.node = [d.node EXCEPT ![n] = new]
    BY <2>2, <2>3 DEF Tables, NodeMap
  <2>5. e.node[n] = new /\ \A k \in NodeIds : k # n => e.node[k] = d.node[k]
    BY <2>3, <2>4
  <2> QED
    BY <1>1, <2>1, <2>4, <2>5, RecsPresent DEF HasNode, e
<1>2. CASE ~HasNode(d, n)
  BY <1>2 DEF DbSetColumns, HasNode
<1> QED
  BY <1>1, <1>2

LEMMA SetLinkTypeShape ==
  ASSUME NEW d \in Tables, NEW l \in LinkIds, NEW type \in LinkTypes
  PROVE  LET e == DbSetLinkType(d, l, type) IN
         /\ e \in Tables /\ e.node = d.node
         /\ \A k \in LinkIds :
              /\ k # l => e.link[k] = d.link[k]
              /\ HasLink(e, k) <=> HasLink(d, k)
              /\ HasLink(d, k) =>
                   /\ e.link[k].from = d.link[k].from
                   /\ e.link[k].to = d.link[k].to
                   /\ e.link[k].weight = d.link[k].weight
<1> DEFINE new == [d.link[l] EXCEPT !.type = type]
           e == DbSetLinkType(d, l, type)
<1>1. CASE HasLink(d, l)
  <2>1. /\ new \in LinkRec /\ new.from = d.link[l].from /\ new.to = d.link[l].to
        /\ new.weight = d.link[l].weight
    <3>1. d.link[l] \in LinkRec
      BY <1>1 DEF Tables, LinkMap, HasLink
    <3> QED
      BY <3>1 DEF LinkRec
  <2>2. e = [d EXCEPT !.link = [d.link EXCEPT ![l] = new]]
    BY <1>1 DEF DbSetLinkType
  <2> HIDE DEF new
  <2> QED
    BY <1>1, <2>1, <2>2, RecsPresent DEF Tables, LinkMap, HasLink
<1>2. CASE ~HasLink(d, l)
  BY <1>2 DEF DbSetLinkType, HasLink
<1> QED
  BY <1>1, <1>2

-----------------------------------------------------------------------------
\* What the two raw updates do, read off their actions.
LEMMA RawNodeStep ==
  ASSUME TypeOK, NEW n \in NodeIds, RawUpdateNode(n)
  PROVE  /\ db' \in Tables /\ db'.link = db.link
         /\ \A k \in NodeIds :
              /\ k # n => db'.node[k] = db.node[k]
              /\ HasNode(db', k) <=> HasNode(db, k)
              /\ HasNode(db, k) => db'.node[k].type = db.node[k].type
  BY SetColumnsShape DEF TypeOK, RawUpdateNode

LEMMA RawLinkStep ==
  ASSUME TypeOK, NEW l \in LinkIds, RawUpdateLinkType(l)
  PROVE  /\ db' \in Tables /\ db'.node = db.node
         /\ \A k \in LinkIds :
              /\ k # l => db'.link[k] = db.link[k]
              /\ HasLink(db', k) <=> HasLink(db, k)
              /\ HasLink(db, k) =>
                   /\ db'.link[k].from = db.link[k].from
                   /\ db'.link[k].to = db.link[k].to
                   /\ db'.link[k].weight = db.link[k].weight
  BY SetLinkTypeShape DEF TypeOK, RawUpdateLinkType

-----------------------------------------------------------------------------
(* Every step preserves it. *)

LEMMA TypeStep ==
  ASSUME TypeOK, TxnOpen, Committed, [Next]_vars
  PROVE  TypeOK' /\ TxnOpen' /\ Committed'
<1> USE DEF TypeOK, TxnOpen, Committed
<1>1. CASE Open
  <2>1. /\ Opened \in Tables /\ Warm(Opened) \in Caches
        /\ WarmNodes(Opened) \in Caches /\ EmptyCaches \in Caches
    BY OpenedType, WarmShape, EmptyTypes
  <2> QED
    BY <1>1, <2>1 DEF Open
<1>2. CASE Crash
  BY <1>2, EmptyTypes DEF Crash
<1>3. CASE Shutdown
  BY <1>3, EmptyTypes DEF Shutdown
<1>4. CASE BeginWrite
  <2>1. txn' \in Txns /\ txn' # NoTxn
    BY <1>4, TxnRecord DEF BeginWrite
  <2> QED
    BY <1>4, <2>1 DEF BeginWrite
<1>5. ASSUME NEW m \in TurnOp, BeginTurn(m)
      PROVE  TypeOK' /\ TxnOpen' /\ Committed'
  <2>1. txn' \in Txns /\ txn' # NoTxn /\ cache' \in Caches
    BY <1>5, TxnRecord, TurnType DEF BeginTurn
  <2> QED
    BY <1>5, <2>1 DEF BeginTurn
<1>6. ASSUME NEW m \in Mutations, ApplyMutation(m)
      PROVE  TypeOK' /\ TxnOpen' /\ Committed'
  <2>1. txn.db \in Tables /\ txn.cache \in Caches
    BY <1>6, TxnTyped DEF ApplyMutation
  <2>2. txn' \in Txns /\ txn' # NoTxn
    BY <1>6, <2>1, TxnRecord, ApplyType, SyncType DEF ApplyMutation
  <2>3. batch' \in Seq(Mutations \cup TurnOp)
    BY <1>6 DEF ApplyMutation
  <2> QED
    BY <1>6, <2>2, <2>3 DEF ApplyMutation
<1>7. CASE Fail
  BY <1>7 DEF Fail
<1>8. CASE Commit
  BY <1>8, TxnTyped DEF Commit
<1>9. CASE SyncCache
  BY <1>9, TxnTyped DEF SyncCache
<1>10. ASSUME NEW n \in NodeIds, RawUpdateNode(n)
       PROVE  TypeOK' /\ TxnOpen' /\ Committed'
  <2>1. db' \in Tables /\ cache' \in Caches
    BY <1>10, GetType, RawNodeStep DEF RawUpdateNode
  <2> QED
    BY <1>10, <2>1 DEF RawUpdateNode
<1>11. ASSUME NEW n \in NodeIds, GetNodeMiss(n)
       PROVE  TypeOK' /\ TxnOpen' /\ Committed'
  BY <1>11, GetType DEF GetNodeMiss
<1>12. ASSUME NEW l \in LinkIds, RawUpdateLinkType(l)
       PROVE  TypeOK' /\ TxnOpen' /\ Committed'
  <2>1. db' \in Tables
    BY <1>12, RawLinkStep
  <2> QED
    BY <1>12, <2>1 DEF RawUpdateLinkType
<1>13. CASE UNCHANGED vars
  BY <1>13 DEF vars
<1> QED
  BY <1>1, <1>2, <1>3, <1>4, <1>5, <1>6, <1>7, <1>8, <1>9, <1>10, <1>11, <1>12, <1>13
     DEF Next

LEMMA LinksStep ==
  ASSUME TypeOK, TxnOpen, LinksJoinNodes, [Next]_vars
  PROVE  LinksJoinNodes'
<1> USE DEF LinksJoinNodes
<1>1. CASE Open
  <2>1. Integrity(EmptyTables)
    BY DEF Integrity, EmptyTables, HasLink
  <2> QED
    BY <1>1, <2>1 DEF Open, Opened, TxnOpen
<1>2. CASE Crash \/ Shutdown \/ Fail \/ SyncCache
  BY <1>2 DEF Crash, Shutdown, Fail, SyncCache, TxnOpen
<1>3. CASE BeginWrite
  BY <1>3, TxnRecord DEF BeginWrite, TypeOK
<1>4. ASSUME NEW m \in TurnOp, BeginTurn(m) PROVE LinksJoinNodes'
  <2>1. txn'.db = ApplyTurn(db, m)
    BY <1>4 DEF BeginTurn
  <2> QED
    BY <1>4, <2>1, TurnIntegrity DEF BeginTurn, TypeOK
<1>5. ASSUME NEW m \in Mutations, ApplyMutation(m) PROVE LinksJoinNodes'
  <2>1. txn'.db = Apply(txn.db, m) /\ txn # NoTxn /\ txn.db \in Tables
    BY <1>5, TxnTyped DEF ApplyMutation
  <2> QED
    BY <1>5, <2>1, ApplyIntegrity DEF ApplyMutation
<1>6. CASE Commit
  BY <1>6, TxnTyped DEF Commit
<1>7. ASSUME NEW n \in NodeIds, RawUpdateNode(n) PROVE LinksJoinNodes'
  <2>1. db'.link = db.link /\ \A k \in NodeIds : HasNode(db, k) => HasNode(db', k)
    BY <1>7, RawNodeStep
  <2>2. Integrity(db')
    BY <2>1, LinkEnds DEF Integrity, HasLink, TypeOK
  <2> QED
    BY <1>7, <2>2 DEF RawUpdateNode
<1>8. ASSUME NEW n \in NodeIds, GetNodeMiss(n) PROVE LinksJoinNodes'
  BY <1>8 DEF GetNodeMiss
<1>9. ASSUME NEW l \in LinkIds, RawUpdateLinkType(l) PROVE LinksJoinNodes'
  <2>1. Integrity(db')
    BY <1>9, RawLinkStep DEF Integrity, HasNode
  <2> QED
    BY <1>9, <2>1 DEF RawUpdateLinkType
<1>10. CASE UNCHANGED vars
  BY <1>10 DEF vars
<1> QED
  BY <1>1, <1>2, <1>3, <1>4, <1>5, <1>6, <1>7, <1>8, <1>9, <1>10 DEF Next

\* A miss can only happen when the nodes were not loaded, and then only adds a
\* copy of the row.
LEMMA GetAgrees ==
  ASSUME TypeOK, NEW n \in NodeIds, NEW s, Agrees(db, cache, warmed, s)
  PROVE  Agrees(db, CacheAfterGet(n), warmed, s)
<1> DEFINE f == CacheAfterGet(n)
<1>1. /\ f.link = cache.link /\ f.tag = cache.tag
      /\ \A k \in NodeIds :
           f.node[k] = IF k = n /\ ~HasNode(cache, n) THEN db.node[n] ELSE cache.node[k]
  BY GetType
<1> HIDE DEF f
<1>2. (warmed # "none" => NodesCached(db, f)) /\ PhantomsAreTurns(db, f)
      /\ FreshUnless(db, f, s)
  BY <1>1 DEF Agrees, NodesCached, PhantomsAreTurns, FreshUnless, HasNode
<1>3. TagsSound(f)
  <2>1. \A t \in Tags : cache.tag[t] \subseteq NodeIds
    BY DEF TypeOK, Caches
  <2> QED
    BY <1>1, <2>1 DEF Agrees, TagsSound, HasNode
<1>4. warmed # "none" => TagsComplete(f)
  BY <1>1 DEF Agrees, NodesCached, TagsComplete, HasNode
<1>5. LinksAgree(db, f) /\ (warmed = "full" => LinksCached(db, f))
  BY <1>1 DEF Agrees, LinksAgree, LinksCached, HasLink
<1> QED
  BY <1>2, <1>3, <1>4, <1>5 DEF Agrees, f

LEMMA RawNodeAgrees ==
  ASSUME TypeOK, NEW n \in NodeIds, RawUpdateNode(n), Agrees(db, cache, warmed, touched)
  PROVE  Agrees(db', cache', warmed', touched')
<1>1. /\ Agrees(db, cache', warmed, touched) /\ warmed' = warmed
      /\ touched' = touched \cup {n}
  BY GetAgrees DEF RawUpdateNode
<1>2. /\ db'.link = db.link
      /\ \A k \in NodeIds :
           /\ k # n => db'.node[k] = db.node[k]
           /\ HasNode(db', k) <=> HasNode(db, k)
           /\ HasNode(db, k) => db'.node[k].type = db.node[k].type
  BY RawNodeStep
<1>3. (warmed # "none" => NodesCached(db', cache')) /\ PhantomsAreTurns(db', cache')
  BY <1>1, <1>2 DEF Agrees, NodesCached, PhantomsAreTurns
<1>4. FreshUnless(db', cache', touched')
  BY <1>1, <1>2 DEF Agrees, FreshUnless
<1>5. LinksAgree(db', cache') /\ (warmed = "full" => LinksCached(db', cache'))
  BY <1>1, <1>2 DEF Agrees, LinksAgree, LinksCached, HasLink
<1> QED
  BY <1>1, <1>3, <1>4, <1>5 DEF Agrees

LEMMA RawLinkAgrees ==
  ASSUME TypeOK, NEW l \in LinkIds, RawUpdateLinkType(l),
         Agrees(db, cache, warmed, touched)
  PROVE  Agrees(db', cache', warmed', touched')
<1>1. cache' = cache /\ warmed' = warmed /\ touched' = touched /\ HasLink(cache, l)
  BY DEF RawUpdateLinkType
<1>2. db'.node = db.node
  BY RawLinkStep
<1>3. LinksAgree(db', cache)
  BY RawLinkStep DEF Agrees, LinksAgree
<1>4. warmed = "full" => LinksCached(db', cache)
  BY <1>1, RawLinkStep DEF Agrees, LinksCached
<1> QED
  BY <1>1, <1>2, <1>3, <1>4, NodesMoveTogether

LEMMA MapsStep ==
  ASSUME TypeOK, TxnOpen, Committed, MapsAgree, [Next]_vars
  PROVE  MapsAgree'
<1> USE DEF MapsAgree
<1>1. CASE Open
  <2>1. Opened \in Tables
    BY OpenedType
  <2>2. Agrees(db', cache', warmed', touched')
    BY <1>1, <2>1, WarmAgrees DEF Open
  <2> QED
    BY <1>1, <2>2 DEF Open, TxnOpen
<1>2. CASE Crash \/ Shutdown
  <2>1. Agrees(db, EmptyCaches, "none", {})
    BY WarmAgrees DEF TypeOK
  <2> QED
    BY <1>2, <2>1 DEF Crash, Shutdown, TxnOpen
<1>3. CASE BeginWrite
  <2>1. txn'.db = db /\ txn'.cache = cache
    BY <1>3 DEF BeginWrite
  <2> QED
    BY <1>3, <2>1 DEF BeginWrite
<1>4. ASSUME NEW m \in TurnOp, BeginTurn(m) PROVE MapsAgree'
  <2>1. txn'.db = ApplyTurn(db, m) /\ txn'.cache = CacheTurn(cache, m)
        /\ cache' = CacheTurn(cache, m)
    BY <1>4 DEF BeginTurn
  <2>2. /\ ~HasNode(db, m.id)
        /\ m.link # Absent => ~HasLink(db, m.link) /\ ~HasLink(cache, m.link)
    BY <1>4 DEF BeginTurn, TurnApplicable, FreshLink
  <2>3. Agrees(db, cache, warmed, touched)
    BY <1>4 DEF BeginTurn
  <2>4. Agrees(db, CacheTurn(cache, m), warmed, touched)
        /\ Agrees(ApplyTurn(db, m), CacheTurn(cache, m), warmed, touched)
    BY <2>2, <2>3, TurnAgrees DEF TypeOK
  <2> QED
    BY <1>4, <2>1, <2>4 DEF BeginTurn
<1>5. ASSUME NEW m \in Mutations, ApplyMutation(m) PROVE MapsAgree'
  <2>1. txn # NoTxn /\ txn.db \in Tables /\ txn.cache \in Caches
    BY <1>5, TxnTyped DEF ApplyMutation
  <2>2. txn'.db = Apply(txn.db, m) /\ txn'.cache = Sync(txn.cache, m)
    BY <1>5 DEF ApplyMutation
  <2>3. Agrees(txn'.db, txn'.cache, warmed, touched)
    BY <1>5, <2>1, <2>2, SyncAgrees DEF ApplyMutation
  <2> QED
    BY <1>5, <2>3 DEF ApplyMutation
<1>6. CASE Fail
  BY <1>6 DEF Fail
<1>7. CASE Commit
  BY <1>7 DEF Commit
<1>8. CASE SyncCache
  <2>1. txn # NoTxn /\ db = txn.db
    BY <1>8, TxnTyped DEF SyncCache, Committed
  <2> QED
    BY <1>8, <2>1 DEF SyncCache
<1>9. ASSUME NEW n \in NodeIds, RawUpdateNode(n) PROVE MapsAgree'
  BY <1>9, RawNodeAgrees DEF RawUpdateNode, TxnOpen
<1>10. ASSUME NEW n \in NodeIds, GetNodeMiss(n) PROVE MapsAgree'
  BY <1>10, GetAgrees DEF GetNodeMiss, TxnOpen
<1>11. ASSUME NEW l \in LinkIds, RawUpdateLinkType(l) PROVE MapsAgree'
  BY <1>11, RawLinkAgrees DEF RawUpdateLinkType, TxnOpen
<1>12. CASE UNCHANGED vars
  BY <1>12 DEF vars
<1> QED
  BY <1>1, <1>2, <1>3, <1>4, <1>5, <1>6, <1>7, <1>8, <1>9, <1>10, <1>11, <1>12
     DEF Next

-----------------------------------------------------------------------------
(* The theorems. *)

\* Every reachable state of the store satisfies the inductive invariant.
THEOREM Invariant == Spec => []IndInv
<1>1. IndInv /\ [Next]_vars => IndInv'
  BY TypeStep, LinksStep, MapsStep DEF IndInv
<1> QED
  BY InitInv, <1>1, PTL DEF Spec

\* The state keeps its types: no statement, failure or restart of ladybug.rs
\* leaves a table, a map or a batch with a value of another kind.
THEOREM TypeCorrect == Spec => []TypeOK
<1>1. IndInv => TypeOK
  BY DEF IndInv
<1> QED
  BY <1>1, Invariant, PTL

\* Every stored link joins two stored nodes, in the committed tables and in an
\* open transaction: apply_create_link and apply_delete_node together see to it.
THEOREM LinksJoin == Spec => []LinksJoinNodes
<1>1. IndInv => LinksJoinNodes
  BY DEF IndInv
<1> QED
  BY <1>1, Invariant, PTL

\* If warm_cache loaded the nodes, node_cache never loses one of them, whatever
\* writes, failures, crashes and raw updates follow.
THEOREM NodesNeverMissing == Spec => []NoNodeMissing
<1>1. IndInv => NoNodeMissing
  BY DEF IndInv, MapsAgree, Agrees, NoNodeMissing, Serving
<1> QED
  BY <1>1, Invariant, PTL

\* A node that only node_cache knows is an untagged turn: nothing but the early
\* insert of write_batch can put it there.
THEOREM PhantomsOnlyTurns == Spec => []OnlyTurnsArePhantoms
<1>1. IndInv => OnlyTurnsArePhantoms
  BY DEF IndInv, MapsAgree, Agrees, OnlyTurnsArePhantoms, Serving
<1> QED
  BY <1>1, Invariant, PTL

\* node_cache differs from a stored row only where raw_query rewrote the row, and
\* never in its type.
THEOREM StalenessBounded == Spec => []StaleOnlyIfRawUpdated
<1>1. IndInv => StaleOnlyIfRawUpdated
  BY DEF IndInv, MapsAgree, Agrees, StaleOnlyIfRawUpdated, Serving
<1> QED
  BY <1>1, Invariant, PTL

\* tag_index lists exactly the tagged nodes of node_cache, although the two maps
\* are updated separately by sync_cache, warm_cache and get_node.
THEOREM TagIndexCorrect == Spec => []TagIndexExact
<1>1. IndInv => TagIndexExact
  BY DEF IndInv, MapsAgree, Agrees, TagIndexExact, Serving
<1> QED
  BY <1>1, Invariant, PTL

\* link_cache and the LINK table agree on the ends and the weight of every link
\* both know, and link_cache misses none but the links between turns.
THEOREM LinkCacheCorrect == Spec => []LinkCacheAgrees
<1>1. IndInv => LinkCacheAgrees
  BY DEF IndInv, MapsAgree, Agrees, LinkCacheAgrees, Serving
<1> QED
  BY <1>1, Invariant, PTL

-----------------------------------------------------------------------------
(* The operations of AtomicGraph are those of GraphTables. *)

LEMMA SameEffect ==
  /\ \A d, m : Atomic!Apply(d, m) = Apply(d, m)
  /\ \A d, m : Atomic!ApplyTurn(d, m) = ApplyTurn(d, m)
<1>1. \A d, n, r : Atomic!DbCreateNode(d, n, r) = DbCreateNode(d, n, r)
  BY DEF Atomic!DbCreateNode, DbCreateNode
<1>2. \A d, l, r : Atomic!DbCreateLink(d, l, r) = DbCreateLink(d, l, r)
  BY DEF Atomic!DbCreateLink, DbCreateLink, Atomic!HasNode, HasNode
<1>3. \A d, l, w : Atomic!DbUpdateWeight(d, l, w) = DbUpdateWeight(d, l, w)
  BY DEF Atomic!DbUpdateWeight, DbUpdateWeight, Atomic!HasLink, HasLink
<1>4. \A d, l : Atomic!DbDeleteLink(d, l) = DbDeleteLink(d, l)
  BY DEF Atomic!DbDeleteLink, DbDeleteLink
<1>5. \A d, n : Atomic!DbDeleteNode(d, n) = DbDeleteNode(d, n)
  BY DEF Atomic!DbDeleteNode, DbDeleteNode, Atomic!HasLink, HasLink
<1>6. \A d, o, k : /\ Atomic!DbSetProperty(d, o, k) = DbSetProperty(d, o, k)
                   /\ Atomic!DbDeleteProperty(d, o, k) = DbDeleteProperty(d, o, k)
  BY DEF Atomic!DbSetProperty, DbSetProperty, Atomic!DbDeleteProperty, DbDeleteProperty
<1>7. \A d, t, label : Atomic!DbCreateTurn(d, t, label) = DbCreateTurn(d, t, label)
  BY DEF Atomic!DbCreateTurn, DbCreateTurn, Atomic!TurnRec, TurnRec
<1>8. \A p, t : Atomic!PrecedesRec(p, t) = PrecedesRec(p, t)
  BY DEF Atomic!PrecedesRec, PrecedesRec
<1>9. \A d, m : Atomic!Apply(d, m) = Apply(d, m)
  BY <1>1, <1>2, <1>3, <1>4, <1>5, <1>6, Zenon DEF Atomic!Apply, Apply
<1>10. \A d, m : Atomic!ApplyTurn(d, m) = ApplyTurn(d, m)
  BY <1>2, <1>7, <1>8, Zenon DEF Atomic!ApplyTurn, ApplyTurn
<1> QED
  BY <1>9, <1>10

LEMMA SameSets ==
  /\ Atomic!TurnOp = TurnOp /\ Atomic!Mutations = Mutations /\ Atomic!Tables = Tables
  /\ Atomic!EmptyTables = EmptyTables
<1>1. Atomic!TurnOp = TurnOp
  BY Zenon DEF Atomic!TurnOp, TurnOp
<1>2. Atomic!NodeRec = NodeRec /\ Atomic!LinkRec = LinkRec /\ Atomic!Owners = Owners
  BY Zenon DEF Atomic!NodeRec, NodeRec, Atomic!LinkRec, LinkRec, Atomic!Owners, Owners
<1>3. Atomic!Tables = Tables
  BY <1>2, Zenon DEF Atomic!Tables, Tables, Atomic!NodeMap, NodeMap, Atomic!LinkMap, LinkMap
<1>4. Atomic!Mutations = Mutations
  BY <1>2, Zenon
     DEF Atomic!Mutations, Atomic!CreateNodeOp, Atomic!CreateLinkOp, Atomic!UpdateWeightOp,
         Atomic!DeleteLinkOp, Atomic!DeleteNodeOp, Atomic!SetPropertyOp,
         Atomic!DeletePropertyOp, Mutations, CreateNodeOp, CreateLinkOp, UpdateWeightOp,
         DeleteLinkOp, DeleteNodeOp, SetPropertyOp, DeletePropertyOp
<1>5. Atomic!EmptyTables = EmptyTables
  BY DEF Atomic!EmptyTables, EmptyTables
<1> QED
  BY <1>1, <1>3, <1>4, <1>5

-----------------------------------------------------------------------------
(* Running a batch, one operation after the other *)

\* f gives the states that d goes through under ops.
Passes(f, d, ops) ==
  f = [i \in 0..Len(ops) |-> IF i = 0 THEN d ELSE Atomic!Effect(f[i - 1], ops[i])]

LEMMA RunPasses ==
  ASSUME NEW d, NEW ops, Len(ops) \in Nat
  PROVE  \E f : Passes(f, d, ops) /\ Atomic!Run(d, ops) = f[Len(ops)]
<1> DEFINE Upto(f, k) ==
             f = [i \in 0..k |-> IF i = 0 THEN d ELSE Atomic!Effect(f[i - 1], ops[i])]
           S == {k \in 0..Len(ops) : \E f : Upto(f, k)}
           F == CHOOSE f : Upto(f, Len(ops))
<1>1. 0 \in S
  <2> DEFINE f == [i \in 0..0 |-> d]
  <2>1. f = [i \in 0..0 |-> IF i = 0 THEN d ELSE Atomic!Effect(f[i - 1], ops[i])]
    OBVIOUS
  <2> HIDE DEF f
  <2> QED
    BY <2>1
<1>2. ASSUME NEW k \in 0..Len(ops), k # Len(ops), k \in S PROVE k + 1 \in S
  <2>1. PICK f : Upto(f, k)
    BY <1>2
  <2>2. k + 1 \in 0..Len(ops) /\ \A i \in 0..(k + 1) : i # 0 => i - 1 \in 0..k
    BY <1>2
  <2> DEFINE g == [i \in 0..(k + 1) |-> IF i = 0 THEN d ELSE Atomic!Effect(f[i - 1], ops[i])]
  <2>3. \A i \in 0..k : g[i] = f[i]
    BY <2>1
  <2>4. Upto(g, k + 1)
    BY <2>2, <2>3
  <2> QED
    BY <2>2, <2>4
<1>3. \E f : Upto(f, Len(ops))
  <2> HIDE DEF S
  <2>1. 0..Len(ops) \subseteq S /\ Len(ops) \in 0..Len(ops)
    BY <1>1, <1>2, CountingUp
  <2> QED
    BY <2>1 DEF S
<1>4. Upto(F, Len(ops))
  BY <1>3
<1>5. Atomic!Run(d, ops) = F[Len(ops)]
  BY DEF Atomic!Run
<1> QED
  BY <1>4, <1>5 DEF Passes

LEMMA RunNothing == ASSUME NEW d PROVE Atomic!Run(d, << >>) = d
<1>1. Len(<< >>) = 0
  OBVIOUS
<1>2. PICK f : Passes(f, d, << >>) /\ Atomic!Run(d, << >>) = f[0]
  BY <1>1, RunPasses
<1> QED
  BY <1>1, <1>2 DEF Passes

\* One more operation acts on what the others made.
LEMMA RunAppend ==
  ASSUME NEW d, NEW T, NEW ops \in Seq(T), NEW m \in T
  PROVE  Atomic!Run(d, Append(ops, m)) = Atomic!Effect(Atomic!Run(d, ops), m)
<1> DEFINE n == Len(ops)
           more == Append(ops, m)
<1>1. n \in Nat /\ Len(more) = n + 1 /\ more[n + 1] = m /\ \A i \in 1..n : more[i] = ops[i]
  OBVIOUS
<1> HIDE DEF n, more
<1>2. PICK f : Passes(f, d, ops) /\ Atomic!Run(d, ops) = f[n]
  BY <1>1, RunPasses DEF n
<1>3. PICK g : Passes(g, d, more) /\ Atomic!Run(d, more) = g[n + 1]
  BY <1>1, RunPasses
<1>4. /\ \A i \in 0..n : f[i] = IF i = 0 THEN d ELSE Atomic!Effect(f[i - 1], ops[i])
      /\ \A i \in 0..(n + 1) : g[i] = IF i = 0 THEN d ELSE Atomic!Effect(g[i - 1], more[i])
  BY <1>1, <1>2, <1>3 DEF Passes, n
<1> DEFINE S == {i \in 0..n : g[i] = f[i]}
<1>5. 0 \in S
  BY <1>1, <1>4
<1>6. ASSUME NEW k \in 0..n, k # n, k \in S PROVE k + 1 \in S
  <2>1. k + 1 \in 0..n /\ k + 1 \in 0..(n + 1) /\ k + 1 \in 1..n /\ (k + 1) - 1 = k /\ k + 1 # 0
    BY <1>1, <1>6
  <2>2. g[k + 1] = Atomic!Effect(g[k], more[k + 1]) /\ f[k + 1] = Atomic!Effect(f[k], ops[k + 1])
    BY <1>4, <2>1
  <2>3. g[k] = f[k]
    BY <1>6
  <2> QED
    BY <1>1, <2>1, <2>2, <2>3
<1>7. g[n] = f[n]
  <2> HIDE DEF S
  <2>1. n \in S
    BY <1>1, <1>5, <1>6, CountingUp
  <2> QED
    BY <2>1 DEF S
<1>8. g[n + 1] = Atomic!Effect(g[n], m)
  <2>1. n + 1 \in 0..(n + 1) /\ n + 1 # 0 /\ (n + 1) - 1 = n
    BY <1>1
  <2> QED
    BY <1>1, <1>4, <2>1
<1> QED
  BY <1>2, <1>3, <1>7, <1>8 DEF more

LEMMA RunOne == ASSUME NEW d, NEW m PROVE Atomic!Run(d, <<m>>) = Atomic!Effect(d, m)
<1>1. << >> \in Seq({m}) /\ m \in {m} /\ Append(<< >>, m) = <<m>>
  OBVIOUS
<1>2. Atomic!Run(d, Append(<< >>, m)) = Atomic!Effect(Atomic!Run(d, << >>), m)
  BY <1>1, RunAppend
<1> QED
  BY <1>1, <1>2, RunNothing, Zenon

-----------------------------------------------------------------------------
(* What an operation does to one node *)

\* m has a word on node n: it creates or deletes it.
WordOn(m, n) == m.op \in {"CreateNode", "DeleteNode"} /\ m.id = n

\* An operation without a word on n leaves n alone in both halves, and adds no
\* property to it but the one it sets.
LEMMA NoWord ==
  ASSUME NEW d \in Tables, NEW c \in Caches, NEW m \in Mutations, NEW n \in NodeIds,
         ~WordOn(m, n)
  PROVE  /\ Apply(d, m).node[n] = d.node[n]
         /\ Sync(c, m).node[n] = c.node[n]
         /\ \A k : <<n, k>> \in Apply(d, m).prop =>
              <<n, k>> \in d.prop \/ (m.op = "SetProperty" /\ m.owner = n /\ m.key = k)
<1>1. CASE m.op = "CreateNode" /\ m.id \in NodeIds /\ m.rec \in NodeRec
  BY <1>1, CreateNodeShape, CacheCreateNodeShape DEF Apply, Sync, WordOn
<1>2. CASE m.op = "CreateLink" /\ m.id \in LinkIds /\ m.rec \in LinkRec
  BY <1>2, CreateLinkShape, CacheCreateLinkShape DEF Apply, Sync
<1>3. CASE m.op = "UpdateLinkWeight" /\ m.id \in LinkIds /\ m.weight \in Weights
  <2>1. DbUpdateWeight(d, m.id, m.weight).prop = d.prop
    BY DEF DbUpdateWeight, Tables
  <2> QED
    BY <1>3, <2>1, UpdateWeightShape, CacheUpdateWeightShape DEF Apply, Sync
<1>4. CASE m.op = "DeleteLink" /\ m.id \in LinkIds
  <2>1. DbDeleteLink(d, m.id).prop = d.prop
    BY DEF DbDeleteLink, Tables
  <2> QED
    BY <1>4, <2>1, DeleteLinkShape, CacheDeleteLinkShape DEF Apply, Sync
<1>5. CASE m.op = "DeleteNode" /\ m.id \in NodeIds
  <2>1. DbDeleteNode(d, m.id).prop \subseteq d.prop
    BY DEF DbDeleteNode
  <2> QED
    BY <1>5, <2>1, DeleteNodeShape, CacheDeleteNodeShape DEF Apply, Sync, WordOn
<1>6. CASE m.op = "SetProperty" /\ m.owner \in Owners /\ m.key \in Keys
  <2>1. Apply(d, m) = DbSetProperty(d, m.owner, m.key) /\ Sync(c, m) = c
    BY <1>6 DEF Apply, Sync
  <2>2. Apply(d, m).prop = d.prop \cup {<<m.owner, m.key>>}
    BY <2>1 DEF DbSetProperty, Tables
  <2> QED
    BY <1>6, <2>1, <2>2, PropertyShape
<1>7. CASE m.op = "DeleteProperty" /\ m.owner \in Owners /\ m.key \in Keys
  <2>1. Apply(d, m) = DbDeleteProperty(d, m.owner, m.key) /\ Sync(c, m) = c
    BY <1>7 DEF Apply, Sync
  <2>2. Apply(d, m).prop = d.prop \ {<<m.owner, m.key>>}
    BY <2>1 DEF DbDeleteProperty, Tables
  <2> QED
    BY <1>7, <2>1, <2>2, PropertyShape
<1> QED
  BY <1>1, <1>2, <1>3, <1>4, <1>5, <1>6, <1>7, MutationKinds

\* One with a word on n makes both halves say it.
LEMMA LatestWord ==
  ASSUME NEW d \in Tables, NEW c \in Caches, NEW m \in Mutations
  PROVE  /\ m.op = "CreateNode" =>
              Apply(d, m).node[m.id] = m.rec /\ Sync(c, m).node[m.id] = m.rec
         /\ m.op = "DeleteNode" =>
              /\ Apply(d, m).node[m.id] = Absent /\ Sync(c, m).node[m.id] = Absent
              /\ \A k : <<m.id, k>> \notin Apply(d, m).prop
<1>1. CASE m.op = "CreateNode"
  BY <1>1, MutationKinds, CreateNodeShape, CacheCreateNodeShape DEF Apply, Sync
<1>2. CASE m.op = "DeleteNode"
  <2>1. m.id \in NodeIds
    BY <1>2, MutationKinds
  <2>2. Apply(d, m) = DbDeleteNode(d, m.id) /\ Sync(c, m) = CacheDeleteNode(c, m.id)
    BY <1>2 DEF Apply, Sync
  <2>3. \A k : <<m.id, k>> \notin Apply(d, m).prop
    BY <2>2 DEF DbDeleteNode
  <2> QED
    BY <1>2, <2>1, <2>2, <2>3, DeleteNodeShape, CacheDeleteNodeShape
<1> QED
  BY <1>1, <1>2

-----------------------------------------------------------------------------
(* The invariant *)

\* Between two writes there is no batch; only a process that is down has a torn log.
NoBatchAtRest ==
  /\ phase \in {"down", "idle"} => batch = << >>
  /\ wal = "corrupt" => phase = "down"

\* The transaction's view is what the batch makes of the committed tables.
ViewIsRun == phase = "applying" => txn.db = Atomic!Run(db, batch)

\* LastWord, of tables d and maps c.
SaysLast(d, c, log, i) ==
  LET n == log[i].id
  IN /\ log[i].op = "CreateNode" => c.node[n] = log[i].rec /\ d.node[n] = log[i].rec
     /\ log[i].op = "DeleteNode" =>
          /\ c.node[n] = Absent /\ d.node[n] = Absent
          /\ \A k \in Keys : <<n, k>> \in d.prop => SetAfter(log, i, k)

\* Both halves of the view say the last word on every node that has one.
LastWordsKept ==
  phase \in {"applying", "sync"} =>
    \A i \in 1..Len(batch) :
      batch[i].op \in {"CreateNode", "DeleteNode"} /\ LastOn(batch, i)
        => SaysLast(txn.db, txn.cache, batch, i)

BatchInv == IndInv /\ NoBatchAtRest /\ ViewIsRun /\ LastWordsKept

LEMMA InitBatchInv == Init => BatchInv
  BY InitInv DEF Init, BatchInv, NoBatchAtRest, ViewIsRun, LastWordsKept

\* The words said so far are still said after one more operation, unless it has a
\* word on the same node; and then it says its own.
LEMMA WordsAppend ==
  ASSUME NEW d \in Tables, NEW c \in Caches, NEW m \in Mutations,
         NEW log \in Seq(Mutations \cup TurnOp),
         \A i \in 1..Len(log) :
           log[i].op \in {"CreateNode", "DeleteNode"} /\ LastOn(log, i)
             => SaysLast(d, c, log, i)
  PROVE  LET more == Append(log, m) IN
         \A i \in 1..Len(more) :
           more[i].op \in {"CreateNode", "DeleteNode"} /\ LastOn(more, i)
             => SaysLast(Apply(d, m), Sync(c, m), more, i)
<1> DEFINE more == Append(log, m)
           e == Apply(d, m)
           f == Sync(c, m)
<1>1. /\ Len(log) \in Nat /\ Len(more) = Len(log) + 1 /\ more[Len(log) + 1] = m
      /\ \A i \in 1..Len(log) : more[i] = log[i]
  OBVIOUS
<1> HIDE DEF more, e, f
<1> SUFFICES ASSUME NEW i \in 1..Len(more), more[i].op \in {"CreateNode", "DeleteNode"},
                    LastOn(more, i)
             PROVE  SaysLast(e, f, more, i)
  BY DEF more, e, f
<1>2. CASE i = Len(log) + 1
  <2>1. more[i] = m
    BY <1>1, <1>2
  <2> QED
    BY <2>1, LatestWord DEF SaysLast, e, f
<1>3. CASE i # Len(log) + 1
  <2>1. i \in 1..Len(log) /\ more[i] = log[i]
    BY <1>1, <1>3
  <2>2. \A j \in (i + 1)..Len(log) : j \in (i + 1)..Len(more) /\ more[j] = log[j]
    BY <1>1, <2>1
  <2>3. Len(log) + 1 \in (i + 1)..Len(more)
    BY <1>1, <2>1
  <2>4. LastOn(log, i)
    BY <2>1, <2>2 DEF LastOn
  <2>5. ~WordOn(m, log[i].id)
    BY <1>1, <2>1, <2>3 DEF LastOn, WordOn
  <2>6. log[i].id \in NodeIds
    <3>1. log[i] \in Mutations \/ log[i] \in TurnOp
      BY <2>1
    <3>2. log[i] \in TurnOp => log[i].op = "CreateTurn"
      BY DEF TurnOp
    <3>3. log[i] \in Mutations
      BY <2>1, <3>1, <3>2
    <3> QED
      BY <2>1, <3>3, MutationKinds
  <2>7. SaysLast(d, c, log, i)
    BY <2>1, <2>4
  <2>8. \A k : SetAfter(log, i, k) => SetAfter(more, i, k)
    BY <2>1, <2>2 DEF SetAfter
  <2>9. \A k : m.op = "SetProperty" /\ m.owner = log[i].id /\ m.key = k => SetAfter(more, i, k)
    BY <1>1, <2>1, <2>3 DEF SetAfter
  <2>10. /\ e.node[log[i].id] = d.node[log[i].id] /\ f.node[log[i].id] = c.node[log[i].id]
         /\ \A k : <<log[i].id, k>> \in e.prop =>
              \/ <<log[i].id, k>> \in d.prop
              \/ m.op = "SetProperty" /\ m.owner = log[i].id /\ m.key = k
    BY <2>5, <2>6, NoWord DEF e, f
  <2> QED
    BY <2>1, <2>7, <2>8, <2>9, <2>10 DEF SaysLast
<1> QED
  BY <1>2, <1>3

LEMMA BatchStep == BatchInv /\ [Next]_vars => BatchInv'
<1> SUFFICES ASSUME BatchInv, [Next]_vars PROVE BatchInv'
  OBVIOUS
<1>0. IndInv'
  BY TypeStep, LinksStep, MapsStep DEF BatchInv, IndInv
<1> SUFFICES (NoBatchAtRest /\ ViewIsRun /\ LastWordsKept)'
  BY <1>0 DEF BatchInv
<1> USE DEF BatchInv, NoBatchAtRest, ViewIsRun, LastWordsKept
<1>1. CASE Open \/ Crash \/ Shutdown \/ Fail \/ SyncCache
  BY <1>1 DEF Open, Crash, Shutdown, Fail, SyncCache
<1>2. CASE BeginWrite
  <2>1. batch' = << >> /\ Len(batch') = 0 /\ txn'.db = db /\ db' = db
    BY <1>2 DEF BeginWrite
  <2> QED
    BY <1>2, <2>1, RunNothing DEF BeginWrite
<1>3. ASSUME NEW m \in TurnOp, BeginTurn(m) PROVE (NoBatchAtRest /\ ViewIsRun /\ LastWordsKept)'
  <2>1. /\ batch' = <<m>> /\ Len(batch') = 1 /\ batch'[1] = m /\ m.op = "CreateTurn"
        /\ txn'.db = ApplyTurn(db, m) /\ db' = db /\ phase' = "applying" /\ wal' = wal
        /\ phase = "idle"
    BY <1>3 DEF BeginTurn, TurnOp
  <2>2. Atomic!Run(db, <<m>>) = Atomic!Effect(db, m)
    BY RunOne
  <2>3. Atomic!Effect(db, m) = ApplyTurn(db, m)
    BY <2>1, SameEffect DEF Atomic!Effect
  <2> QED
    BY <2>1, <2>2, <2>3
<1>4. ASSUME NEW m \in Mutations, ApplyMutation(m)
      PROVE  (NoBatchAtRest /\ ViewIsRun /\ LastWordsKept)'
  <2>1. /\ batch' = Append(batch, m) /\ txn'.db = Apply(txn.db, m)
        /\ txn'.cache = Sync(txn.cache, m)
        /\ db' = db /\ phase' = phase /\ wal' = wal /\ phase = "applying"
    BY <1>4 DEF ApplyMutation
  <2>2. txn.db \in Tables /\ txn.cache \in Caches /\ batch \in Seq(Mutations \cup TurnOp)
    BY <2>1, TxnTyped DEF IndInv, TypeOK
  <2>3. Atomic!Effect(txn.db, m) = Apply(txn.db, m)
    <3>1. m.op # "CreateTurn"
      BY MutationKinds
    <3> QED
      BY <3>1, SameEffect DEF Atomic!Effect
  <2>4. ViewIsRun'
    BY <2>1, <2>2, <2>3, RunAppend
  <2>5. LastWordsKept'
    BY <2>1, <2>2, WordsAppend
  <2> QED
    BY <2>1, <2>4, <2>5
<1>5. CASE Commit
  BY <1>5 DEF Commit
<1>6. ASSUME NEW n \in NodeIds, RawUpdateNode(n) \/ GetNodeMiss(n)
      PROVE  (NoBatchAtRest /\ ViewIsRun /\ LastWordsKept)'
  BY <1>6 DEF RawUpdateNode, GetNodeMiss
<1>7. ASSUME NEW l \in LinkIds, RawUpdateLinkType(l)
      PROVE  (NoBatchAtRest /\ ViewIsRun /\ LastWordsKept)'
  BY <1>7 DEF RawUpdateLinkType
<1>8. CASE UNCHANGED vars
  BY <1>8 DEF vars
<1> QED
  BY <1>1, <1>2, <1>3, <1>4, <1>5, <1>6, <1>7, <1>8 DEF Next

\* The transaction's view is the batch run on the committed tables, and says the last
\* word on every node, in every reachable state.
THEOREM BatchInvariant == Spec => []BatchInv
  BY InitBatchInv, BatchStep, PTL DEF Spec

\* An acknowledged write can be read: whatever else its batch did, however long it
\* was, the map and the tables say the last word it had on a node (write_batch,
\* write_maintenance, sync_cache).
THEOREM AcknowledgedReadable == Spec => AcknowledgedWritesRead
<1>1. ASSUME BatchInv, SyncCache,
             NEW i \in 1..Len(batch), batch[i].op \in {"CreateNode", "DeleteNode"},
             LastOn(batch, i)
      PROVE  LastWord(batch, i)
  <2>1. SaysLast(txn.db, txn.cache, batch, i)
    BY <1>1 DEF BatchInv, LastWordsKept, SyncCache
  <2>2. cache' = txn.cache /\ db' = txn.db
    BY <1>1 DEF BatchInv, IndInv, Committed, SyncCache
  <2> QED
    BY <2>1, <2>2 DEF SaysLast, LastWord
<1>2. BatchInv =>
        [SyncCache =>
           \A i \in 1..Len(batch) :
             batch[i].op \in {"CreateNode", "DeleteNode"} /\ LastOn(batch, i)
               => LastWord(batch, i)]_vars
  BY <1>1
<1> QED
  BY BatchInvariant, <1>2, PTL DEF AcknowledgedWritesRead

-----------------------------------------------------------------------------
(* The refinement, step by step *)

LEMMA InitRefines == Init => Atomic!AInit
  BY SameSets DEF Init, Atomic!AInit

\* Rewriting columns of a node leaves the structure alone.
LEMMA ColumnsRefine ==
  ASSUME BatchInv, NEW n \in NodeIds, RawUpdateNode(n)
  PROVE  Atomic!Rewrite
<1>1. /\ db' \in Tables /\ db'.link = db.link /\ db \in Tables
      /\ \A k \in NodeIds :
           /\ k # n => db'.node[k] = db.node[k]
           /\ HasNode(db', k) <=> HasNode(db, k)
           /\ HasNode(db, k) => db'.node[k].type = db.node[k].type
  BY RawNodeStep DEF BatchInv, IndInv, TypeOK
<1>2. db'.prop = db.prop
  <2>1. PICK label \in Labels, tags \in SUBSET Tags : db' = DbSetColumns(db, n, label, tags)
    BY DEF RawUpdateNode
  <2> QED
    BY <1>1, <2>1 DEF DbSetColumns, Tables
<1>3. ASSUME NEW l \in LinkIds, HasLink(db, l)
      PROVE  [db.link[l] EXCEPT !.type = db'.link[l].type] = db'.link[l]
  <2>1. db.link[l] \in LinkRec /\ db'.link[l] = db.link[l]
    BY <1>1, <1>3 DEF Tables, LinkMap, HasLink
  <2> QED
    BY <2>1 DEF LinkRec
<1>4. Atomic!SameStructure(db, db')
  BY <1>1, <1>2, <1>3 DEF Atomic!SameStructure, Atomic!HasNode, HasNode, Atomic!HasLink, HasLink
<1> QED
  BY <1>1, <1>4, SameSets DEF RawUpdateNode, Atomic!Rewrite

\* So does rewriting the type of a link.
LEMMA LinkTypeRefines ==
  ASSUME BatchInv, NEW l \in LinkIds, RawUpdateLinkType(l)
  PROVE  Atomic!Rewrite
<1>0. db \in Tables
  BY DEF BatchInv, IndInv, TypeOK
<1>1. PICK type \in LinkTypes : db' = DbSetLinkType(db, l, type)
  BY DEF RawUpdateLinkType
<1>2. /\ db' \in Tables /\ db'.node = db.node
      /\ \A k \in LinkIds :
           /\ k # l => db'.link[k] = db.link[k]
           /\ HasLink(db', k) <=> HasLink(db, k)
  BY <1>0, <1>1, SetLinkTypeShape
<1>3. db'.prop = db.prop
  BY <1>0, <1>1 DEF DbSetLinkType, Tables
<1>4. ASSUME NEW k \in LinkIds, HasLink(db, k)
      PROVE  [db.link[k] EXCEPT !.type = db'.link[k].type] = db'.link[k]
  <2>1. db.link[k] \in LinkRec
    BY <1>0, <1>4 DEF Tables, LinkMap, HasLink
  <2>2. CASE k # l
    <3>1. db'.link[k] = db.link[k]
      BY <1>2, <2>2
    <3> QED
      BY <2>1, <3>1 DEF LinkRec
  <2>3. CASE k = l
    <3>1. db'.link[k] = [db.link[k] EXCEPT !.type = type]
      BY <1>0, <1>1, <1>4, <2>3 DEF DbSetLinkType, Tables, LinkMap
    <3> QED
      BY <2>1, <3>1 DEF LinkRec
  <2> QED
    BY <2>2, <2>3
<1>5. Atomic!SameStructure(db, db')
  BY <1>2, <1>3, <1>4 DEF Atomic!SameStructure, Atomic!HasNode, HasNode, Atomic!HasLink, HasLink
<1> QED
  BY <1>2, <1>5, SameSets DEF RawUpdateLinkType, Atomic!Rewrite

LEMMA NextRefines == BatchInv /\ [Next]_vars => [Atomic!ANext]_(Atomic!avars)
<1> SUFFICES ASSUME BatchInv, [Next]_vars PROVE [Atomic!ANext]_(Atomic!avars)
  OBVIOUS
<1> USE DEF BatchInv, NoBatchAtRest, Atomic!ANext
<1>1. CASE Open
  BY <1>1, SameSets DEF Open, Opened, Atomic!Start
<1>2. CASE Crash \/ Shutdown
  <2>1. wal \in {"clean", "dirty", "corrupt"}
    BY DEF IndInv, TypeOK
  <2>2. CASE Crash
    BY <2>2 DEF Crash, Atomic!Stop
  <2>3. CASE Shutdown
    <3>1. wal # "corrupt" /\ batch = << >> /\ batch' = << >> /\ wal' \in {"clean", wal}
          /\ phase = "idle" /\ phase' = "down" /\ db' = db
      BY <2>3 DEF Shutdown
    <3> QED
      BY <2>1, <3>1 DEF Atomic!Stop
  <2> QED
    BY <1>2, <2>2, <2>3
<1>3. CASE BeginWrite
  BY <1>3 DEF BeginWrite, Atomic!Request
<1>4. ASSUME NEW m \in TurnOp, BeginTurn(m) PROVE Atomic!ANext
  <2>1. batch' = <<m>> /\ Len(batch') = 1 /\ Head(batch') = m
    BY <1>4 DEF BeginTurn
  <2>2. Atomic!TurnApplicable(db, m.id)
    BY <1>4 DEF BeginTurn, TurnApplicable, Atomic!TurnApplicable, HasNode, Atomic!HasNode
  <2> QED
    BY <1>4, <2>1, <2>2, SameSets DEF BeginTurn, Atomic!Request
<1>5. ASSUME NEW m \in Mutations, ApplyMutation(m) PROVE Atomic!ANext
  <2>1. /\ phase = "applying" /\ Applicable(txn.db, m) /\ batch' = Append(batch, m)
        /\ UNCHANGED <<db, phase, wal>>
    BY <1>5 DEF ApplyMutation
  <2>2. batch \in Seq(Mutations \cup TurnOp)
    BY DEF IndInv, TypeOK
  <2>3. batch' # << >> /\ Atomic!Front(batch') = batch /\ Atomic!Last(batch') = m
    <3>1. /\ Len(batch') = Len(batch) + 1 /\ batch' # << >> /\ batch'[Len(batch')] = m
          /\ SubSeq(batch', 1, Len(batch') - 1) = batch
      BY <2>1, <2>2
    <3> QED
      BY <3>1 DEF Atomic!Front, Atomic!Last
  <2>4. txn.db = Atomic!Result
    BY <2>1 DEF ViewIsRun, Atomic!Result
  <2>5. Atomic!Applicable(Atomic!Result, m)
    BY <2>1, <2>4 DEF Applicable, Atomic!Applicable, HasNode, Atomic!HasNode
  <2> QED
    BY <2>1, <2>3, <2>5, SameSets DEF Atomic!Extend
<1>6. CASE Fail
  BY <1>6 DEF Fail, Atomic!Refuse
<1>7. CASE Commit
  BY <1>7 DEF Commit, ViewIsRun, Atomic!Decide, Atomic!Result
<1>8. CASE SyncCache
  BY <1>8 DEF SyncCache, Atomic!Acknowledge
<1>9. ASSUME NEW n \in NodeIds, RawUpdateNode(n) PROVE Atomic!ANext
  BY <1>9, ColumnsRefine
<1>10. ASSUME NEW n \in NodeIds, GetNodeMiss(n) PROVE UNCHANGED Atomic!avars
  BY <1>10 DEF GetNodeMiss, Atomic!avars
<1>11. ASSUME NEW l \in LinkIds, RawUpdateLinkType(l) PROVE Atomic!ANext
  BY <1>11, LinkTypeRefines
<1>12. CASE UNCHANGED vars
  BY <1>12 DEF vars, Atomic!avars
<1> QED
  BY <1>1, <1>2, <1>3, <1>4, <1>5, <1>6, <1>7, <1>8, <1>9, <1>10, <1>11, <1>12 DEF Next

\* The store implements the atomic graph: statement by statement, with failures,
\* crashes and raw updates anywhere, the committed tables only ever go from the graph
\* before a whole batch to the graph after it (begin, apply, commit of ladybug.rs).
THEOREM StoreIsAtomic == Spec => WritesAreAtomic
  BY BatchInvariant, InitRefines, NextRefines, PTL DEF Spec, WritesAreAtomic, Atomic!ASpec
=============================================================================
