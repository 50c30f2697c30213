-------------------------- MODULE HandlersProofs --------------------------
(***************************************************************************)
(* The invariants of Handlers, and its action property, proved for any     *)
(* requests, shapes, identifiers, labels and stored database.              *)
(*                                                                         *)
(* The argument is one inductive invariant, IInv. What it says of the      *)
(* stored state (the maps against the tables, the index against the maps,  *)
(* what is owed) is kept only because of what it says of each request on   *)
(* its way: before its write a request holds a plan whose new identifiers  *)
(* nobody else has (Owned, PlansNodes, PlansLinks), whose links lead to    *)
(* what is stored, planned or has been deleted since (Grounded), and whose *)
(* new entities have labels nobody stored unless the request was overtaken *)
(* (Unmet); after its write the index still waits for what node_cache has  *)
(* (Answering). Two histories mark what the code lets drift: renamed the   *)
(* nodes whose row a PATCH changed behind the maps, missed those that the  *)
(* last start did not load.                                                *)
(*                                                                         *)
(* A batch runs through MapThenFoldSet, which is well founded only over a  *)
(* finite plan. The lemmas on it give the tables and the maps after a      *)
(* batch entry by entry; a write is then the batch and the turn, or        *)
(* nothing (GrownBy), a deletion takes away (Lost), a read or a PATCH      *)
(* fills in a map entry or changes a label (Touched), and each of these    *)
(* relations keeps the parts of the invariant once for all handlers.       *)
(***************************************************************************)
EXTENDS Handlers, GraphTablesProofs, FiniteSetTheorems

-----------------------------------------------------------------------------
(* A batch, one mutation after the other *)

\* What the batches of the handlers are made of.
Changes == Creations \cup DeletePropertyOp \cup DeleteLinkOp \cup DeleteNodeOp

LEMMA ChangeKinds ==
  ASSUME NEW m \in Changes
  PROVE  /\ m \in Mutations
         /\ \/ m.op = "CreateNode" /\ m.id \in NodeIds /\ m.rec \in NodeRec
            \/ m.op = "CreateLink" /\ m.id \in LinkIds /\ m.rec \in LinkRec
            \/ m.op = "DeleteLink" /\ m.id \in LinkIds
            \/ m.op = "DeleteNode" /\ m.id \in NodeIds
            \/ m.op = "SetProperty" /\ m.owner \in Owners /\ m.key \in Keys
            \/ m.op = "DeleteProperty" /\ m.owner \in Owners /\ m.key \in Keys
  BY DEF Changes, Creations, Mutations, CreateNodeOp, CreateLinkOp, DeleteLinkOp,
         DeleteNodeOp, SetPropertyOp, DeletePropertyOp

\* The last of some mutations is one of them, and none comes after it.
LEMMA LastIsLast ==
  ASSUME NEW P \in SUBSET Changes, P # {}
  PROVE  LastOf(P) \in P /\ \A m \in P : Turn(m) <= Turn(LastOf(P))
<1>1. \A m \in P : Turn(m) \in 1..6
  <2>1. DOMAIN Kinds = 1..6
    BY DEF Kinds
  <2>2. ASSUME NEW m \in P PROVE \E k \in DOMAIN Kinds : Kinds[k] = m.op
    <3>1. m.op \in {"CreateNode", "SetProperty", "CreateLink", "DeleteProperty", "DeleteLink",
                    "DeleteNode"}
      <4>1. m \in Changes
        OBVIOUS
      <4> QED
        BY <4>1, ChangeKinds
    <3>2. /\ Kinds[1] = "CreateNode" /\ Kinds[2] = "SetProperty" /\ Kinds[3] = "CreateLink"
          /\ Kinds[4] = "DeleteProperty" /\ Kinds[5] = "DeleteLink" /\ Kinds[6] = "DeleteNode"
      BY DEF Kinds
    <3> QED
      BY <2>1, <3>1, <3>2
  <2> QED
    BY <2>1, <2>2 DEF Turn
<1> DEFINE R == OpToRel(<, Nat)
           Left == {6 - Turn(m) : m \in P}
<1>2. Left \subseteq Nat /\ Left # {}
  BY <1>1
<1>3. PICK x \in Left : \A y \in Left : <<y, x>> \notin R
  <2>1. IsWellFoundedOn(R, Nat)
    BY NatLessThanWellFounded
  <2> HIDE DEF R, Left
  <2> QED
    BY <1>2, <2>1, WFMin
<1>4. PICK m \in P : x = 6 - Turn(m)
  OBVIOUS
<1>5. \A k \in P : Turn(k) <= Turn(m)
  <2> SUFFICES ASSUME NEW k \in P, ~(Turn(k) <= Turn(m)) PROVE FALSE
    OBVIOUS
  <2>1. 6 - Turn(k) \in Left /\ 6 - Turn(k) < x /\ x \in Nat /\ 6 - Turn(k) \in Nat
    BY <1>1, <1>4
  <2> QED
    BY <1>3, <2>1 DEF OpToRel
<1> QED
  BY <1>5 DEF LastOf

\* What holds of no mutations, and of any if it holds of those without the last, holds
\* of all.
LEMMA OneByOne ==
  ASSUME NEW P \in SUBSET Changes, IsFiniteSet(P), NEW G, {} \in G,
         \A Q \in SUBSET P : Q # {} /\ Q \ {LastOf(Q)} \in G => Q \in G
  PROVE  P \in G
<1> DEFINE R == StrictSubsetOrdering(P)
           Rest == (SUBSET P) \ G
<1> SUFFICES ASSUME Rest # {} PROVE FALSE
  OBVIOUS
<1>1. IsWellFoundedOn(R, SUBSET P)
  BY FS_StrictSubsetOrderingWellFounded, FS_FiniteSubsetsOfFinite
<1>2. PICK Q \in Rest : \A t \in Rest : <<t, Q>> \notin R
  <2> HIDE DEF R
  <2>1. Rest \subseteq SUBSET P
    OBVIOUS
  <2> HIDE DEF Rest
  <2> QED
    BY <1>1, <2>1, WFMin
<1>3. Q \in SUBSET P /\ Q # {} /\ Q \notin G
  OBVIOUS
<1>4. LastOf(Q) \in Q
  BY <1>3, LastIsLast
<1>5. Q \ {LastOf(Q)} \in SUBSET P /\ <<Q \ {LastOf(Q)}, Q>> \in R
  BY <1>3, <1>4 DEF StrictSubsetOrdering
<1>6. Q \ {LastOf(Q)} \in G
  BY <1>2, <1>5
<1> QED
  BY <1>3, <1>6

\* f gives what each part of P makes of s.
Passes(f, s, P) ==
  f = [t \in SUBSET P |-> IF t = {} THEN s ELSE Pass(LastOf(t), f[t \ {LastOf(t)}])]

LEMMA AfterPasses ==
  ASSUME NEW d, NEW c, NEW P \in SUBSET Changes, IsFiniteSet(P)
  PROVE  \E f : Passes(f, [db |-> d, cache |-> c], P) /\ After(d, c, P) = f[P]
<1> DEFINE s == [db |-> d, cache |-> c]
           F == CHOOSE f : Passes(f, s, P)
           n == Cardinality(P)
           Small(k) == {t \in SUBSET P : Cardinality(t) <= k}
           Upto(f, k) == f = [t \in Small(k) |->
                                IF t = {} THEN s ELSE Pass(LastOf(t), f[t \ {LastOf(t)}])]
           S == {k \in 0..n : \E f : Upto(f, k)}
<1>1. After(d, c, P) = F[P]
  BY DEF After, MapThenFoldSet, Passes
<1>0. n \in Nat
  BY FS_CardinalityType
<1>2. ASSUME NEW t \in SUBSET P
      PROVE  /\ Cardinality(t) \in 0..n
             /\ t # {} => /\ Cardinality(t) # 0
                          /\ Cardinality(t \ {LastOf(t)}) = Cardinality(t) - 1
  <2>1. IsFiniteSet(t) /\ Cardinality(t) <= n
    BY FS_Subset
  <2>2. Cardinality(t) \in Nat /\ (Cardinality(t) = 0 <=> t = {})
    BY <2>1, FS_CardinalityType, FS_EmptySet
  <2>3. t # {} => LastOf(t) \in t
    BY LastIsLast
  <2>4. t # {} => Cardinality(t \ {LastOf(t)}) = Cardinality(t) - 1
    BY <2>1, <2>3, FS_RemoveElement
  <2> QED
    BY <1>0, <2>1, <2>2, <2>4
<1>3. 0 \in S
  <2> DEFINE f == [t \in Small(0) |-> s]
  <2>1. ASSUME NEW t \in Small(0) PROVE t = {}
    <3>1. Cardinality(t) \in 0..n /\ Cardinality(t) <= 0 /\ (t # {} => Cardinality(t) # 0)
      BY <1>2
    <3> HIDE DEF n
    <3> QED
      BY <1>0, <3>1
  <2>2. Upto(f, 0)
    BY <2>1
  <2>3. 0 \in 0..n
    BY <1>0
  <2> HIDE DEF f, Upto
  <2> QED
    BY <2>2, <2>3
<1>4. ASSUME NEW k \in 0..n, k # n, k \in S PROVE k + 1 \in S
  <2>1. PICK f : Upto(f, k)
    BY <1>4
  <2> DEFINE g == [t \in Small(k + 1) |->
                     IF t = {} THEN s ELSE Pass(LastOf(t), f[t \ {LastOf(t)}])]
  <2>2. ASSUME NEW t \in Small(k + 1), t # {} PROVE t \ {LastOf(t)} \in Small(k)
    BY <1>2, <2>2
  <2>3. ASSUME NEW t \in Small(k) PROVE t \in Small(k + 1)
    <3>1. Cardinality(t) \in 0..n /\ Cardinality(t) <= k
      BY <1>2
    <3>2. Cardinality(t) <= k + 1
      <4> HIDE DEF n
      <4> QED
        BY <1>0, <3>1
    <3> QED
      BY <3>2
  <2>4. ASSUME NEW t \in Small(k) PROVE g[t] = f[t]
    BY <2>1, <2>3, <2>4
  <2>5. Upto(g, k + 1)
    <3>1. \A t \in Small(k + 1) : t # {} => f[t \ {LastOf(t)}] = g[t \ {LastOf(t)}]
      BY <2>2, <2>4
    <3> HIDE DEF Small
    <3> QED
      BY <3>1
  <2>6. k + 1 \in 0..n
    BY <1>0, <1>4
  <2> HIDE DEF Upto, g
  <2> QED
    BY <2>5, <2>6
<1>5. n \in S
  <2> HIDE DEF S, n
  <2>1. 0..n \subseteq S /\ n \in 0..n
    BY <1>0, <1>3, <1>4, CountingUp
  <2> QED
    BY <2>1
<1>6. PICK f : Upto(f, n)
  BY <1>5
<1>7. Small(n) = SUBSET P
  <2>1. ASSUME NEW t \in SUBSET P PROVE Cardinality(t) <= n
    <3>1. Cardinality(t) \in 0..n
      BY <1>2
    <3> HIDE DEF n
    <3> QED
      BY <1>0, <3>1
  <2> QED
    BY <2>1
<1>8. Passes(f, s, P)
  BY <1>6, <1>7 DEF Passes
<1> QED
  BY <1>1, <1>8

LEMMA AfterNothing ==
  ASSUME NEW d, NEW c
  PROVE  After(d, c, {}) = [db |-> d, cache |-> c]
<1>1. IsFiniteSet({})
  BY FS_EmptySet
<1>2. PICK f : Passes(f, [db |-> d, cache |-> c], {}) /\ After(d, c, {}) = f[{}]
  BY <1>1, AfterPasses
<1> QED
  BY <1>2 DEF Passes

\* The last mutation of a batch acts on what the others made.
LEMMA AfterLast ==
  ASSUME NEW d, NEW c, NEW P \in SUBSET Changes, IsFiniteSet(P), P # {}
  PROVE  After(d, c, P) = Pass(LastOf(P), After(d, c, P \ {LastOf(P)}))
<1> DEFINE s == [db |-> d, cache |-> c]
           Q == P \ {LastOf(P)}
<1>1. Q \in SUBSET Changes /\ IsFiniteSet(Q) /\ Q \in SUBSET P
  BY FS_Subset
<1>2. PICK f : Passes(f, s, P) /\ After(d, c, P) = f[P]
  BY AfterPasses
<1>3. PICK g : Passes(g, s, Q) /\ After(d, c, Q) = g[Q]
  BY <1>1, AfterPasses
<1> DEFINE G == {t \in SUBSET Q : f[t] = g[t]}
<1>4. {} \in G
  BY <1>1, <1>2, <1>3 DEF Passes
<1>5. ASSUME NEW t \in SUBSET Q, t # {}, t \ {LastOf(t)} \in G PROVE t \in G
  <2>1. t \in SUBSET P
    BY <1>1
  <2>2. f[t] = Pass(LastOf(t), f[t \ {LastOf(t)}]) /\ g[t] = Pass(LastOf(t), g[t \ {LastOf(t)}])
    BY <1>2, <1>3, <1>5, <2>1 DEF Passes
  <2> QED
    BY <1>5, <2>2
<1>6. Q \in G
  <2> HIDE DEF G, Q
  <2> QED
    BY <1>1, <1>4, <1>5, OneByOne
<1>7. f[P] = Pass(LastOf(P), f[Q])
  BY <1>2 DEF Passes
<1> QED
  BY <1>2, <1>3, <1>6, <1>7

-----------------------------------------------------------------------------
(* What a batch of creations makes, and what one of deletions leaves *)

\* Nothing is created twice.
Distinct(P) ==
  \A m, k \in P :
    m.op \in {"CreateNode", "CreateLink"} /\ m.op = k.op /\ m.id = k.id => m = k

\* Tables e and maps f are d and c with the creations of P.
Made(d, c, P, e, f) ==
  /\ e \in Tables /\ f \in Caches
  /\ \A m \in P : m.op = "CreateNode" => e.node[m.id] = m.rec /\ f.node[m.id] = m.rec
  /\ \A n \in NodeIds :
       (\A m \in P : m.op = "CreateNode" => m.id # n)
         => e.node[n] = d.node[n] /\ f.node[n] = c.node[n]
  /\ \A m \in P :
       m.op = "CreateLink" =>
         /\ f.link[m.id] = m.rec
         /\ e.link[m.id] = IF HasNode(e, m.rec.from) /\ HasNode(e, m.rec.to)
                           THEN m.rec ELSE d.link[m.id]
  /\ \A l \in LinkIds :
       (\A m \in P : m.op = "CreateLink" => m.id # l)
         => e.link[l] = d.link[l] /\ f.link[l] = c.link[l]

\* Nodes are created before links.
LEMMA NodesFirst ==
  ASSUME NEW P \in SUBSET Changes, P # {}, LastOf(P).op = "CreateNode", NEW m \in P
  PROVE  m.op # "CreateLink"
<1>1. Turn(m) <= Turn(LastOf(P))
  BY LastIsLast
<1>2. /\ DOMAIN Kinds = 1..6
      /\ Kinds[1] = "CreateNode" /\ Kinds[2] = "SetProperty" /\ Kinds[3] = "CreateLink"
      /\ Kinds[4] = "DeleteProperty" /\ Kinds[5] = "DeleteLink" /\ Kinds[6] = "DeleteNode"
  BY DEF Kinds
<1>3. Turn(LastOf(P)) = 1
  BY <1>2 DEF Turn
<1>4. m.op = "CreateLink" => Turn(m) = 3
  BY <1>2 DEF Turn
<1> QED
  BY <1>1, <1>3, <1>4

LEMMA MadeOneMore ==
  ASSUME NEW d \in Tables, NEW c \in Caches, NEW P \in SUBSET Creations, P # {},
         Distinct(P), NEW e0, NEW f0, Made(d, c, P \ {LastOf(P)}, e0, f0)
  PROVE  Made(d, c, P, Apply(e0, LastOf(P)), Sync(f0, LastOf(P)))
<1> DEFINE m == LastOf(P)
           Q == P \ {m}
           e == Apply(e0, m)
           f == Sync(f0, m)
<1>1. P \in SUBSET Changes /\ m \in P /\ m \in Changes /\ P = Q \cup {m}
  BY LastIsLast DEF Changes
<1>2. e0 \in Tables /\ f0 \in Caches
  BY DEF Made
<1>3. ASSUME NEW k \in Q, k.op = m.op, m.op \in {"CreateNode", "CreateLink"} PROVE k.id # m.id
  BY <1>1, <1>3 DEF Distinct
<1>4. \A k \in Q : k \in Changes
  BY <1>1
<1>5. Made(d, c, Q, e0, f0)
  OBVIOUS
<1> SUFFICES Made(d, c, P, e, f)
  OBVIOUS
<1> HIDE DEF m, Q
<1>6. CASE m.op = "CreateNode" /\ m.id \in NodeIds /\ m.rec \in NodeRec
  <2>0. e = DbCreateNode(e0, m.id, m.rec) /\ f = CacheCreateNode(f0, m.id, m.rec)
    BY <1>6 DEF Apply, Sync
  <2> HIDE DEF e, f
  <2>1. \A k \in P : k.op # "CreateLink"
    BY <1>1, <1>6, NodesFirst DEF m
  <2>2. /\ e \in Tables /\ f \in Caches /\ e.link = e0.link /\ f.link = f0.link
        /\ \A n \in NodeIds : e.node[n] = IF n = m.id THEN m.rec ELSE e0.node[n]
        /\ \A n \in NodeIds : f.node[n] = IF n = m.id THEN m.rec ELSE f0.node[n]
    BY <1>2, <1>6, <2>0, CreateNodeShape, CacheCreateNodeShape
  <2>3. \A k \in Q : k.op = "CreateNode" => k.id \in NodeIds /\ k.id # m.id
    BY <1>3, <1>4, <1>6, ChangeKinds
  <2> HIDE DEF e, f
  <2> QED
    BY <1>1, <1>5, <1>6, <2>1, <2>2, <2>3 DEF Made
<1>7. CASE m.op = "CreateLink" /\ m.id \in LinkIds /\ m.rec \in LinkRec
  <2>0. e = DbCreateLink(e0, m.id, m.rec) /\ f = CacheCreateLink(f0, m.id, m.rec)
    BY <1>7 DEF Apply, Sync
  <2> HIDE DEF e, f
  <2>1. /\ e \in Tables /\ f \in Caches /\ e.node = e0.node /\ f.node = f0.node
        /\ \A l \in LinkIds : e.link[l] = IF l = m.id /\ HasNode(e0, m.rec.from) /\ HasNode(e0, m.rec.to)
                                          THEN m.rec ELSE e0.link[l]
        /\ \A l \in LinkIds : f.link[l] = IF l = m.id THEN m.rec ELSE f0.link[l]
    BY <1>2, <1>7, <2>0, CreateLinkShape, CacheCreateLinkShape
  <2>2. \A k \in Q : k.op = "CreateLink" => k.id \in LinkIds /\ k.id # m.id
    BY <1>3, <1>4, <1>7, ChangeKinds
  <2>3. e0.link[m.id] = d.link[m.id]
    BY <1>5, <1>7, <2>2 DEF Made
  <2> HIDE DEF e, f
  <2> QED
    BY <1>1, <1>5, <1>7, <2>1, <2>2, <2>3 DEF Made, HasNode
<1>8. CASE m.op = "SetProperty" /\ m.owner \in Owners /\ m.key \in Keys
  <2>1. e \in Tables /\ e.node = e0.node /\ e.link = e0.link /\ f = f0
    BY <1>2, <1>8, PropertyShape DEF Apply, Sync
  <2> HIDE DEF e, f
  <2> QED
    BY <1>1, <1>5, <1>8, <2>1, <1>2 DEF Made, HasNode
<1>9. m.op \in {"CreateNode", "CreateLink", "SetProperty"}
  BY <1>1 DEF Creations, CreateNodeOp, CreateLinkOp, SetPropertyOp
<1> QED
  BY <1>1, <1>6, <1>7, <1>8, <1>9, ChangeKinds DEF m

LEMMA AfterCreations ==
  ASSUME NEW d \in Tables, NEW c \in Caches, NEW P \in SUBSET Creations, IsFiniteSet(P),
         Distinct(P)
  PROVE  Made(d, c, P, After(d, c, P).db, After(d, c, P).cache)
<1> DEFINE G == {Q \in SUBSET P : Made(d, c, Q, After(d, c, Q).db, After(d, c, Q).cache)}
<1>1. {} \in G
  BY AfterNothing DEF Made
<1>2. ASSUME NEW Q \in SUBSET P, Q # {}, Q \ {LastOf(Q)} \in G PROVE Q \in G
  <2>1. Q \in SUBSET Creations /\ Q \in SUBSET Changes /\ IsFiniteSet(Q) /\ Distinct(Q)
    BY FS_Subset DEF Distinct, Changes
  <2>2. LET before == After(d, c, Q \ {LastOf(Q)})
        IN /\ After(d, c, Q).db = Apply(before.db, LastOf(Q))
           /\ After(d, c, Q).cache = Sync(before.cache, LastOf(Q))
    BY <1>2, <2>1, AfterLast DEF Pass
  <2> QED
    BY <1>2, <2>1, <2>2, MadeOneMore
<1>3. P \in SUBSET Changes
  BY DEF Changes
<1>4. P \in G
  <2> HIDE DEF G
  <2> QED
    BY <1>1, <1>2, <1>3, OneByOne
<1> QED
  BY <1>4
-----------------------------------------------------------------------------
(* The invariant.  Its parts about one request take the request, the tables d, *)
(* the maps c, the nodes and links that are gone, and the nodes that do not    *)
(* count (but, off, ren) as parameters.                                        *)

Nodes(P) == {m \in P : m.op = "CreateNode"}
NewEntities(P) == {m \in Nodes(P) : m.rec.type = "entity"}
LinksIn(P) == {m \in P : m.op = "CreateLink"}

\* d has an entity with label x, other than some that do not count.
HasLabel(d, x, but) ==
  \E n \in NodeIds \ but : HasNode(d, n) /\ d.node[n].type = "entity" /\ d.node[n].label = x

\* What a request made an identifier for is in no table and no map, and was never
\* there; no link leads to it.
Unused(id, d, c, gone) ==
  /\ id \notin gone \cup TurnIds
  /\ id \in NodeIds => ~HasNode(d, id) /\ ~HasNode(c, id)
  /\ id \in LinkIds => ~HasLink(d, id) /\ ~HasLink(c, id)
  /\ \A l \in LinkIds : HasLink(c, l) => id # c.link[l].from /\ id # c.link[l].to

\* The nodes of a plan have new identifiers, or such that connect found and someone
\* else deleted, and none is there twice.
PlansNodes(h, gone) ==
  /\ \A m \in Nodes(h.plan) :
       m.id \in h.own \/ (h.shape.endpoint = "connect" /\ m.id \in Range(h.ends) \cap gone)
  /\ h.twice \/ \A m, k \in Nodes(h.plan) : m.id = k.id => m = k

\* The links of a plan have new identifiers, and lead to what is known.
PlansLinks(h, d, gone) ==
  \A m \in LinksIn(h.plan) :
    /\ m.id \in h.own
    /\ \A k \in LinksIn(h.plan) : m.id = k.id => m = k
    /\ \A n \in {m.rec.from, m.rec.to} : n \in h.own \cup gone \cup TurnIds \/ HasNode(d, n)

\* connect has still to look whether end n is there.
Unchecked(h, n) ==
  h.shape.endpoint = "connect" /\ \E i \in DOMAIN h.ends : h.ends[i] = n /\ h.at <= i + 2

Met(h) == {h.ids[x] : x \in Mapped(h)} \cup Range(h.ends)

\* What a request has resolved is stored, planned, or deleted since.
Grounded(h, d, gone) ==
  \A n \in Met(h) :
    \/ n \in gone \/ HasNode(d, n)
    \/ \E m \in Nodes(h.plan) : m.id = n
    \/ n \in h.own /\ Unchecked(h, n)

\* A planned entity is what its label resolves to.
Sourced(h) ==
  \A m \in NewEntities(h.plan) :
    IF h.shape.endpoint \in {"link", "connect", "update"}
    THEN \E i \in DOMAIN h.ends : m.id = h.ends[i] /\ m.rec.label = h.shape.ends[i]
    ELSE h.ids[m.rec.label] = m.id

\* No entity that counts has the label of a planned one, unless nobody looked.
Unmet(h, d, gone, but) ==
  /\ \A m \in NewEntities(h.plan) :
       \/ m.id \in gone
       \/ h.shape.endpoint = "ingest" /\ m.rec.label \in Range(h.shape.entities)
       \/ ~HasLabel(d, m.rec.label, but)
  /\ h.shape.endpoint = "connect" =>
       \A i \in DOMAIN h.ends : h.ends[i] \in h.own => ~HasLabel(d, h.shape.ends[i], but)

\* An embedding is that of the label of the entity it goes to, or the entity is
\* among those for which it may not be.  ingest has none.
PlansEmbeds(h) ==
  /\ \A p \in h.embeds :
       \E m \in Nodes(h.plan) : m.id = p[1] /\ (m.id \in h.shifts \/ m.rec.label = p[2])
  /\ h.shape.endpoint = "ingest" => h.embeds = {}

\* The turn of batch is new, that of remember has the id the request gave.
TurnKnown(h) ==
  IF h.shape.endpoint = "batch" THEN h.turn \in h.own ELSE h.turn = h.shape.turn

\* How far a request is in its script says what it has planned and resolved.
InScript(h) ==
  /\ h.shape.endpoint = "batch" /\ h.at = 1 => h.plan = {}
  /\ h.shape.endpoint \in {"link", "connect", "update"} =>
       Len(h.ends) = IF h.at = 1 THEN 0
                     ELSE IF h.shape.endpoint = "update" \/ (h.shape.endpoint = "connect" /\ h.at = 2)
                          THEN 1 ELSE 2

\* Before its write.
Preparing(h, d, gone) ==
  /\ PlansNodes(h, gone)
  /\ PlansLinks(h, d, gone)
  /\ Grounded(h, d, gone)
  /\ Sourced(h)
  /\ PlansEmbeds(h)
  /\ TurnKnown(h)
  /\ InScript(h)

\* d has what m creates, but for a label it was given since.
Stays(m, d, ren) ==
  IF m.op = "CreateNode"
  THEN /\ m.rec.type = "entity"
       /\ HasNode(d, m.id) /\ d.node[m.id].type = "entity"
       /\ m.id \notin ren => d.node[m.id] = m.rec
  ELSE d.link[m.id] = m.rec

\* After its write.
Answering(h, d, c, gone, off, ren) ==
  /\ h.plan \subseteq CreateNodeOp \cup CreateLinkOp
  /\ h.own = {} /\ h.shifts = {}
  /\ \A m \in h.plan :
       Involved(m) \cap gone = {} =>
         Stays(m, d, ren) /\ (m.op = "CreateNode" => c.node[m.id] = m.rec)
  /\ \A p \in h.embeds :
       \/ p[1] \in gone \cup off \cup ren
       \/ HasNode(d, p[1]) /\ d.node[p[1]].label = p[2]

\* The entities that a request looking for their label may not find.
Excused == raced \cup renamed

OneRequest(r, h) ==
  /\ h.at \in 1..Len(Todo(h))
  /\ IF Unwritten(h) THEN /\ Preparing(h, db, deleted)
                          /\ r \in overtaken \/ Unmet(h, db, deleted, Excused)
                     ELSE /\ Answering(h, db, cache, deleted, shifted, renamed)
                          /\ r \notin overtaken

Owned ==
  \A r \in Requests : Running(r) =>
    \A id \in req[r].own :
      /\ Unused(id, db, cache, deleted)
      /\ \A q \in Requests \ {r} : Running(q) => id \notin req[q].own

\* node_cache has the stored nodes that were loaded, as they are but for their labels,
\* and maybe turns whose write was rolled back.
NodesCached ==
  \A n \in NodeIds :
    /\ HasNode(db, n) => n \in missed \/ HasNode(cache, n)
    /\ HasNode(db, n) /\ HasNode(cache, n) =>
         /\ cache.node[n].type = db.node[n].type
         /\ n \in renamed \/ cache.node[n] = db.node[n]
    /\ HasNode(cache, n) /\ ~HasNode(db, n) => n \in TurnIds /\ cache.node[n].type = "turn"

LinksAgree ==
  \A l \in LinkIds : HasLink(db, l) /\ HasLink(cache, l) => cache.link[l] = db.link[l]

\* An entity is stored, and cached with label x, or was deleted.
Backed(n, x) ==
  \/ n \in deleted
  \/ /\ HasNode(db, n) /\ HasNode(cache, n)
     /\ cache.node[n].type = "entity" /\ cache.node[n].label = x

IndexBacked ==
  \A n \in NodeIds :
    /\ index.nodes[n] # Absent => Backed(n, index.nodes[n].label)
    /\ \A x \in Labels : index.listed[<<n, x>>] > 0 => Backed(n, x)

\* An owed entity that was loaded is listed under the label it has in node_cache.
Listed(n) == HasNode(cache, n) /\ n \in search_fts(index, cache.node[n].label)

OwedKept ==
  \A m \in owed :
    /\ Involved(m) \cap deleted = {}
    /\ Stays(m, db, renamed)
    /\ m.op = "CreateNode" => m.id \in missed \/ Listed(m.id)

IInv ==
  /\ TypeOK
  /\ Owned
  /\ \A r \in Requests : Running(r) => OneRequest(r, req[r])
  /\ NodesCached
  /\ missed \subseteq raced
  /\ LinksAgree
  /\ PhantomLinksExplained
  /\ IndexBacked
  /\ OwedKept
  /\ EmbeddingsInStep
  /\ DuplicatesExplained

-----------------------------------------------------------------------------
(* Scripts, identifiers, resolution *)

Seeks == {"turn", "entities", "claims", "extra", "ends", "from", "to", "checkfrom", "checkto"}

\* What the scripts look like: they have one write, every seeking scope comes before
\* it and every other one after it, and each ends in a write or a merge.
LEMMA Scopes ==
  ASSUME NEW h \in Handler, NEW i \in 1..Len(Todo(h))
  PROVE  /\ Todo(h)[i] \in Seeks \cup {"write", "embed", "merge"}
         /\ Todo(h)[i] \in Seeks =>
              i + 1 \in 1..Len(Todo(h)) /\ Todo(h)[i + 1] \in Seeks \cup {"write"}
         /\ Todo(h)[i] \in {"write", "embed", "merge"} => i = Len(Todo(h)) \/ i + 1 \in 1..Len(Todo(h))
         /\ Todo(h)[i] \in Seeks \cup {"write"} =>
              \E j \in i..Len(Todo(h)) : Todo(h)[j] = "write"
         /\ Todo(h)[i] \in {"embed", "merge"} =>
              \A j \in i..Len(Todo(h)) : Todo(h)[j] # "write"
         /\ Todo(h)[i] = "write" =>
              /\ i # Len(Todo(h)) => /\ Todo(h)[i + 1] \in {"embed", "merge"}
                                     /\ h.shape.endpoint \in {"remember", "ingest", "entities", "batch"}
              /\ i = Len(Todo(h)) => h.shape.endpoint \in {"claims", "link", "connect", "update"}
              /\ h.shape.endpoint = "connect" => i = 5
              /\ h.shape.endpoint \in {"link", "update"} => i # 1
         /\ Todo(h)[i] = "embed" => i # Len(Todo(h)) /\ Todo(h)[i + 1] = "merge"
         /\ Todo(h)[i] = "merge" => i = Len(Todo(h))
         /\ Todo(h)[i] = "turn" => h.shape.endpoint = "batch" /\ i = 1
         /\ Todo(h)[i] = "entities" => h.shape.endpoint \in {"remember", "entities", "batch"}
         /\ Todo(h)[i] = "claims" => h.shape.endpoint \in {"remember", "ingest", "claims", "batch"}
         /\ Todo(h)[i] = "extra" => h.shape.endpoint = "remember"
         /\ Todo(h)[i] = "ends" => h.shape.endpoint = "link" /\ i = 1
         /\ Todo(h)[i] = "from" => h.shape.endpoint \in {"connect", "update"} /\ i = 1
         /\ Todo(h)[i] = "to" => h.shape.endpoint = "connect" /\ i = 2
         /\ Todo(h)[i] = "checkfrom" => h.shape.endpoint = "connect" /\ i = 3
         /\ Todo(h)[i] = "checkto" => h.shape.endpoint = "connect" /\ i = 4
<1> DEFINE e == h.shape.endpoint
<1>1. e \in Endpoints
  BY ShapesAssumption DEF Handler, AllShapes
<1>2. CASE e = "remember"
  BY <1>2 DEF Todo, Script, Seeks
<1>3. CASE e = "ingest"
  BY <1>3 DEF Todo, Script, Seeks
<1>4. CASE e = "entities"
  BY <1>4 DEF Todo, Script, Seeks
<1>5. CASE e = "claims"
  BY <1>5 DEF Todo, Script, Seeks
<1>6. CASE e = "batch"
  BY <1>6 DEF Todo, Script, Seeks
<1>7. CASE e = "link"
  BY <1>7 DEF Todo, Script, Seeks
<1>8. CASE e = "connect"
  BY <1>8 DEF Todo, Script, Seeks
<1>9. CASE e = "update"
  BY <1>9 DEF Todo, Script, Seeks
<1> QED
  BY <1>1, <1>2, <1>3, <1>4, <1>5, <1>6, <1>7, <1>8, <1>9 DEF Endpoints

\* Identifiers that occur nowhere are unused, and no request has made them.
LEMMA NewIds ==
  ASSUME NEW id \in NewNodes \cup NewLinks
  PROVE  /\ Unused(id, db, cache, deleted)
         /\ \A q \in Requests : Running(q) => id \notin req[q].own
         /\ id \in Owners
<1>1. id \notin TurnIds
  BY IdsAssumption, TypesAssumption DEF NewNodes, NewLinks
<1>2. ~Occurs(id) /\ id \in Owners
  BY DEF NewNodes, NewLinks, Owners
<1> QED
  BY <1>1, <1>2 DEF Occurs, Unused

LEMMA NamedNames ==
  ASSUME NEW things, NEW ids, Enough(things, ids)
  PROVE  /\ Named(things, ids) \in [things -> ids]
         /\ \A x, y \in things : Named(things, ids)[x] = Named(things, ids)[y] => x = y
<1>1. Named(things, ids) \in Namings(things, ids)
  BY DEF Enough, Named
<1> QED
  BY <1>1 DEF Namings, IsInjective

LEMMA UidIn ==
  ASSUME NEW ids, ids # {}
  PROVE  uid(ids) \in ids
  BY DEF uid

\* What is found under a label is stored; if nothing is, no entity has the label.
LEMMA MatchesStored ==
  ASSUME TypeOK, NodesCached, missed \subseteq raced, NEW x \in Labels
  PROVE  /\ Matches(x) \subseteq NodeIds
         /\ \A n \in Matches(x) : HasNode(db, n)
         /\ Matches(x) = {} => ~HasLabel(db, x, Excused)
<1>1. ASSUME NEW n \in Matches(x) PROVE HasNode(db, n)
  <2>1. n \in NodeIds /\ HasNode(cache, n) /\ cache.node[n].type = "entity"
    BY DEF Matches
  <2> QED
    BY <2>1 DEF NodesCached
<1>2. ASSUME NEW n \in NodeIds \ Excused, HasNode(db, n), db.node[n].type = "entity", db.node[n].label = x
      PROVE n \in Matches(x)
  <2>1. HasNode(cache, n) /\ cache.node[n] = db.node[n]
    BY <1>2 DEF NodesCached, Excused
  <2> QED
    BY <1>2, <2>1, LabelsAssumption DEF Matches
<1> QED
  BY <1>1, <1>2 DEF Matches, HasLabel

LEMMA Finding ==
  ASSUME TypeOK, NodesCached, missed \subseteq raced, NEW labels \in SUBSET Labels, NEW ids \in SUBSET NodeIds,
         Enough(Unresolved(labels), ids), NEW found \in Resolutions(labels, ids)
  PROVE  /\ found \in [labels -> NodeIds]
         /\ Unresolved(labels) \subseteq labels
         /\ \A x \in Unresolved(labels) : found[x] \in ids /\ ~HasLabel(db, x, Excused)
         /\ \A x, y \in Unresolved(labels) : found[x] = found[y] => x = y
         /\ \A x \in labels \ Unresolved(labels) : HasNode(db, found[x])
<1>1. /\ Named(Unresolved(labels), ids) \in [Unresolved(labels) -> ids]
      /\ \A x, y \in Unresolved(labels) :
           Named(Unresolved(labels), ids)[x] = Named(Unresolved(labels), ids)[y] => x = y
  BY NamedNames
<1>2. /\ found \in [labels -> NodeIds]
      /\ \A x \in labels : IF x \in Unresolved(labels)
                           THEN found[x] = Named(Unresolved(labels), ids)[x]
                           ELSE found[x] \in Matches(x)
  BY DEF Resolutions
<1>3. Unresolved(labels) \subseteq labels /\ \A x \in Unresolved(labels) : Matches(x) = {}
  BY DEF Unresolved
<1> QED
  BY <1>1, <1>2, <1>3, MatchesStored

-----------------------------------------------------------------------------
(* Read scopes *)

LEMMA RunningHandler ==
  ASSUME TypeOK, NEW r \in Requests, Running(r)
  PROVE  req[r] \in Handler
  BY DEF TypeOK, Running

LEMMA HandlerRuns ==
  ASSUME NEW h \in Handler
  PROVE  h \notin {Waiting, Done}
  BY RestingAssumption

\* A step that only gives request r the state g, with identifiers it had or new ones.
LEMMA ReadStep ==
  ASSUME IInv, NEW r \in Requests, Reads, NEW g \in Handler, req' = [req EXCEPT ![r] = g],
         \A id \in g.own : (Running(r) /\ id \in req[r].own) \/ id \in NewNodes \cup NewLinks,
         g.at \in 1..Len(Todo(g)), Unwritten(g),
         Preparing(g, db, deleted), r \in overtaken \/ Unmet(g, db, deleted, Excused)
  PROVE  IInv'
<1>1. /\ UNCHANGED <<db, cache, stored_vectors, cached_vectors, index, deleted, owed, shifted,
                     overtaken, raced, renamed, missed>>
  BY DEF Reads, vectors, histories
<1>2. /\ req \in [Requests -> Handler \cup {Waiting, Done}]
      /\ req'[r] = g /\ \A q \in Requests \ {r} : req'[q] = req[q]
      /\ Running(r)' /\ \A q \in Requests \ {r} : Running(q)' <=> Running(q)
  <2>1. req \in [Requests -> Handler \cup {Waiting, Done}]
    BY DEF IInv, TypeOK
  <2>2. req'[r] = g /\ \A q \in Requests \ {r} : req'[q] = req[q]
    BY <2>1
  <2> QED
    BY <2>1, <2>2, HandlerRuns DEF Running
<1>3. TypeOK'
  <2>1. req' \in [Requests -> Handler \cup {Waiting, Done}]
    BY <1>2
  <2>2. overtaken' \in SUBSET {q \in Requests : Running(q)'}
    BY <1>1, <1>2 DEF IInv, TypeOK
  <2> QED
    BY <1>1, <2>1, <2>2 DEF IInv, TypeOK
<1>4. Owned'
  <2> SUFFICES ASSUME NEW p \in Requests, Running(p)', NEW id \in req'[p].own
               PROVE  /\ Unused(id, db, cache, deleted)
                      /\ \A q \in Requests \ {p} : Running(q)' => id \notin req'[q].own
    BY <1>1 DEF Owned
  <2>1. CASE p = r
    <3>1. CASE Running(r) /\ id \in req[r].own
      BY <1>2, <2>1, <3>1 DEF IInv, Owned
    <3>2. CASE id \in NewNodes \cup NewLinks
      BY <1>2, <2>1, <3>2, NewIds
    <3> QED
      BY <1>2, <2>1, <3>1, <3>2
  <2>2. CASE p # r
    <3>1. Running(p) /\ id \in req[p].own
      BY <1>2, <2>2
    <3>2. Unused(id, db, cache, deleted) /\ \A q \in Requests \ {p} : Running(q) => id \notin req[q].own
      BY <3>1 DEF IInv, Owned
    <3>3. id \notin g.own
      BY <2>2, <3>1, <3>2, NewIds
    <3> QED
      BY <1>2, <3>2, <3>3
  <2> QED
    BY <2>1, <2>2
<1>5. \A q \in Requests : Running(q)' => OneRequest(q, req[q])'
  <2> SUFFICES ASSUME NEW q \in Requests, Running(q)' PROVE OneRequest(q, req[q])'
    OBVIOUS
  <2>1. CASE q = r
    BY <1>1, <1>2, <2>1 DEF OneRequest, Excused
  <2>2. CASE q # r
    <3>1. OneRequest(q, req[q])
      BY <1>2, <2>2 DEF IInv
    <3> QED
      BY <1>1, <1>2, <2>2, <3>1 DEF OneRequest, Excused
  <2> QED
    BY <2>1, <2>2
<1>6. /\ NodesCached' /\ LinksAgree' /\ PhantomLinksExplained'
      /\ EmbeddingsInStep' /\ DuplicatesExplained' /\ (missed \subseteq raced)'
  BY <1>1 DEF IInv, NodesCached, LinksAgree, PhantomLinksExplained, EmbeddingsInStep,
              DuplicatesExplained
<1>7. IndexBacked' /\ OwedKept'
  BY <1>1 DEF IInv, IndexBacked, Backed, OwedKept, Listed
<1> QED
  BY <1>3, <1>4, <1>5, <1>6, <1>7 DEF IInv

\* What the mutations of a batch are.
LEMMA NewNodeFields ==
  ASSUME NEW n \in NodeIds, NEW type \in NodeTypes, NEW x \in Labels
  PROVE  /\ NewNode(n, type, x) \in Creations
         /\ NewNode(n, type, x) \in CreateNodeOp
         /\ NewNode(n, type, x).op = "CreateNode"
         /\ NewNode(n, type, x).id = n
         /\ NewNode(n, type, x).rec.type = type
         /\ NewNode(n, type, x).rec.label = x
  BY DEF NewNode, Creations, CreateNodeOp, NodeRec

LEMMA NewLinkFields ==
  ASSUME NEW l \in LinkIds, NEW from \in NodeIds, NEW to \in NodeIds, NEW type \in LinkTypes
  PROVE  /\ NewLink(l, from, to, type) \in Creations
         /\ NewLink(l, from, to, type) \in CreateLinkOp
         /\ NewLink(l, from, to, type).op = "CreateLink"
         /\ NewLink(l, from, to, type).id = l
         /\ NewLink(l, from, to, type).rec.from = from
         /\ NewLink(l, from, to, type).rec.to = to
  BY TypesAssumption DEF NewLink, Creations, CreateLinkOp, LinkRec

LEMMA NewPropsFields ==
  ASSUME NEW owner \in Owners, NEW keys \in SUBSET Keys
  PROVE  \A m \in NewProps(owner, keys) : m \in Creations /\ m.op = "SetProperty"
  BY DEF NewProps, Creations, SetPropertyOp

\* Which handlers a seeking scope belongs to, and where it comes.
LEMMA SeekingScope ==
  ASSUME IInv, NEW r \in Requests, NEW step, At(r, step)
  PROVE  LET h == req[r] IN
         /\ step = "turn" => h.shape.endpoint = "batch" /\ h.at = 1
         /\ step = "entities" => h.shape.endpoint \in {"remember", "entities", "batch"}
         /\ step = "claims" => h.shape.endpoint \in {"remember", "ingest", "claims", "batch"}
         /\ step = "extra" => h.shape.endpoint = "remember"
         /\ step = "ends" => h.shape.endpoint = "link" /\ h.at = 1
         /\ step = "from" => h.shape.endpoint \in {"connect", "update"} /\ h.at = 1
         /\ step = "to" => h.shape.endpoint = "connect" /\ h.at = 2
         /\ step = "checkfrom" => h.shape.endpoint = "connect" /\ h.at = 3
         /\ step = "checkto" => h.shape.endpoint = "connect" /\ h.at = 4
<1> DEFINE h == req[r]
<1>1. h \in Handler /\ h.at \in 1..Len(Todo(h)) /\ Todo(h)[h.at] = step
  BY RunningHandler DEF At, IInv, OneRequest
<1> HIDE DEF h
<1> QED
  BY <1>1, Scopes DEF h

\* The state a seeking scope finds its request in, and leaves it in.
LEMMA Seeking ==
  ASSUME IInv, NEW r \in Requests, NEW step \in Seeks, At(r, step)
  PROVE  /\ TypeOK /\ NodesCached /\ missed \subseteq raced
         /\ Running(r) /\ req[r] \in Handler
         /\ req[r].at \in 1..Len(Todo(req[r])) /\ Todo(req[r])[req[r].at] = step
         /\ Preparing(req[r], db, deleted)
         /\ r \in overtaken \/ Unmet(req[r], db, deleted, Excused)
         /\ \A g \in Handler : g.shape = req[r].shape /\ g.at = req[r].at + 1 =>
              g.at \in 1..Len(Todo(g)) /\ Unwritten(g)
<1> DEFINE h == req[r]
<1>1. Running(r) /\ h \in Handler /\ h.at \in 1..Len(Todo(h)) /\ Todo(h)[h.at] = step
  BY RunningHandler DEF At, IInv, OneRequest
<1>2. Unwritten(h)
  BY <1>1, Scopes DEF Unwritten
<1>3. Preparing(h, db, deleted) /\ (r \in overtaken \/ Unmet(h, db, deleted, Excused))
  BY <1>1, <1>2 DEF IInv, OneRequest
<1>4. ASSUME NEW g \in Handler, g.shape = h.shape, g.at = h.at + 1
      PROVE  g.at \in 1..Len(Todo(g)) /\ Unwritten(g)
  <2>1. Todo(g) = Todo(h)
    BY <1>4 DEF Todo
  <2>2. g.at \in 1..Len(Todo(g)) /\ Todo(g)[g.at] \in Seeks \cup {"write"}
    <3>1. h.at + 1 \in 1..Len(Todo(h)) /\ Todo(h)[h.at + 1] \in Seeks \cup {"write"}
      BY <1>1, Scopes
    <3> QED
      BY <1>4, <2>1, <3>1
  <2> QED
    BY <2>2, Scopes DEF Unwritten
<1> QED
  BY <1>1, <1>3, <1>4 DEF IInv

\* A scope of a handler without ends: it maps more labels, adds nodes with new
\* identifiers, each under a label nothing was found for, and links with new identifiers.
Keeps(h, k) ==
  /\ k.shape = h.shape /\ k.at = h.at /\ k.ends = h.ends /\ k.twice = h.twice
  /\ h.own \subseteq k.own /\ h.plan \subseteq k.plan

MapsMore(h, k, d) ==
  \A x \in Labels :
    IF h.ids[x] # Absent THEN k.ids[x] = h.ids[x]
    ELSE k.ids[x] # Absent =>
           HasNode(d, k.ids[x]) \/ \E m \in Nodes(k.plan) : m.id = k.ids[x]

AddsNodes(h, k, d, but) ==
  \A m \in Nodes(k.plan) \ h.plan :
    /\ m.id \in k.own
    /\ \A n \in Nodes(h.plan) : m.id # n.id
    /\ \A n \in Nodes(k.plan) \ h.plan : m.id = n.id => m = n
    /\ m.rec.type = "entity" => k.ids[m.rec.label] = m.id /\ ~HasLabel(d, m.rec.label, but)

AddsLinks(h, k, d, gone) ==
  \A m \in LinksIn(k.plan) \ h.plan :
    /\ m.id \in k.own \ h.own
    /\ \A l \in LinksIn(k.plan) \ h.plan : m.id = l.id => m = l
    /\ \A n \in {m.rec.from, m.rec.to} :
         n \in k.own \cup gone \cup TurnIds \cup Met(k) \/ HasNode(d, n)

LEMMA Growing ==
  ASSUME NEW h \in Handler, NEW k \in Handler, NEW g, NEW d, NEW gone, NEW but,
         Preparing(h, d, gone),
         h.shape.endpoint \notin {"link", "connect", "update"},
         Keeps(h, k), MapsMore(h, k, d), AddsNodes(h, k, d, but), AddsLinks(h, k, d, gone),
         PlansEmbeds(k), TurnKnown(k),
         h.at \in Nat \ {0}, g = [k EXCEPT !.at = @ + 1]
  PROVE  Preparing(g, d, gone) /\ (Unmet(h, d, gone, but) => Unmet(g, d, gone, but))
<1>0. /\ g.shape = k.shape /\ g.at = k.at + 1 /\ g.ends = k.ends /\ g.turn = k.turn /\ g.own = k.own /\ g.plan = k.plan
      /\ g.ids = k.ids /\ g.twice = k.twice /\ g.embeds = k.embeds /\ g.shifts = k.shifts
  BY DEF Handler
<1>1. /\ PlansNodes(h, gone) /\ PlansLinks(h, d, gone) /\ Grounded(h, d, gone) /\ Sourced(h)
  BY DEF Preparing
<1>2. /\ \A m \in Nodes(k.plan) : m \in Nodes(h.plan) \/ m \in Nodes(k.plan) \ h.plan
      /\ \A m \in LinksIn(k.plan) : m \in LinksIn(h.plan) \/ m \in LinksIn(k.plan) \ h.plan
      /\ Nodes(h.plan) \subseteq Nodes(k.plan) /\ LinksIn(h.plan) \subseteq LinksIn(k.plan)
      /\ NewEntities(h.plan) \subseteq NewEntities(k.plan)
  BY DEF Nodes, LinksIn, NewEntities, Keeps
<1>3. /\ \A m \in Nodes(h.plan) : m.id \in h.own
      /\ \A m \in LinksIn(h.plan) : m.id \in h.own
  BY <1>1 DEF PlansNodes, PlansLinks
<1>4. PlansNodes(k, gone)
  BY <1>1, <1>2, <1>3 DEF PlansNodes, Keeps, AddsNodes
<1>5. Grounded(k, d, gone)
  <2> SUFFICES ASSUME NEW n \in Met(k)
               PROVE n \in gone \/ HasNode(d, n) \/ \E m \in Nodes(k.plan) : m.id = n
    BY DEF Grounded
  <2>1. CASE n \in Met(h)
    BY <1>1, <1>2, <2>1 DEF Grounded, Unchecked
  <2>2. CASE n \notin Met(h)
    BY <2>2 DEF Met, Mapped, Keeps, MapsMore
  <2> QED
    BY <2>1, <2>2
<1>6. PlansLinks(k, d, gone)
  <2> SUFFICES ASSUME NEW m \in LinksIn(k.plan)
               PROVE  /\ m.id \in k.own
                      /\ \A l \in LinksIn(k.plan) : m.id = l.id => m = l
                      /\ \A n \in {m.rec.from, m.rec.to} :
                           n \in k.own \cup gone \cup TurnIds \/ HasNode(d, n)
    BY DEF PlansLinks
  <2>1. m.id \in k.own /\ \A l \in LinksIn(k.plan) : m.id = l.id => m = l
    BY <1>1, <1>2, <1>3 DEF PlansLinks, Keeps, AddsLinks
  <2>2. \A n \in Met(k) : n \in k.own \cup gone \/ HasNode(d, n)
    BY <1>4, <1>5 DEF Grounded, PlansNodes, Unchecked, Keeps
  <2>3. CASE m \in LinksIn(h.plan)
    BY <1>1, <2>1, <2>3 DEF PlansLinks, Keeps
  <2>4. CASE m \in LinksIn(k.plan) \ h.plan
    BY <2>1, <2>2, <2>4 DEF AddsLinks
  <2> QED
    BY <1>2, <2>3, <2>4
<1>7. \A m \in NewEntities(k.plan) : m \in NewEntities(h.plan) \/ m \in Nodes(k.plan) \ h.plan
  BY DEF NewEntities, Nodes
<1>8. \A m \in NewEntities(k.plan) : m.rec.type = "entity"
  BY DEF NewEntities
<1>9. Sourced(k)
  <2> SUFFICES ASSUME NEW m \in NewEntities(k.plan) PROVE k.ids[m.rec.label] = m.id
    BY DEF Sourced, Keeps
  <2>1. CASE m \in NewEntities(h.plan)
    <3>1. h.ids[m.rec.label] = m.id /\ m \in h.plan
      BY <1>1, <2>1 DEF Sourced, NewEntities, Nodes
    <3>2. m \in CreateNodeOp
      BY <2>1 DEF Handler, NewEntities, Nodes, Creations, CreateLinkOp, SetPropertyOp
    <3>3. m.rec.label \in Labels /\ m.id # Absent
      BY <3>2, IdsAssumption DEF CreateNodeOp, NodeRec
    <3> QED
      BY <3>1, <3>3 DEF MapsMore
  <2> QED
    BY <1>7, <1>8, <2>1 DEF AddsNodes
<1>10. Unmet(h, d, gone, but) => Unmet(k, d, gone, but)
  BY <1>7, <1>8 DEF Unmet, Keeps, AddsNodes
<1>11. h.shape.endpoint = k.shape.endpoint
  BY DEF Keeps
<1>12. /\ PlansNodes(g, gone) /\ PlansLinks(g, d, gone) /\ PlansEmbeds(g)
  BY <1>0, <1>4, <1>6 DEF PlansNodes, PlansLinks, PlansEmbeds
<1>13. Grounded(g, d, gone) /\ Sourced(g) /\ TurnKnown(g)
  BY <1>0, <1>5, <1>9, <1>11 DEF Grounded, Met, Mapped, Unchecked, Sourced, TurnKnown
<1>15. InScript(g)
  BY <1>0, <1>11 DEF InScript, Keeps
<1>14. Unmet(h, d, gone, but) => Unmet(g, d, gone, but)
  BY <1>0, <1>10 DEF Unmet
<1> QED
  BY <1>12, <1>13, <1>14, <1>15 DEF Preparing

LEMMA Advanced ==
  ASSUME NEW h \in Handler
  PROVE  [h EXCEPT !.at = @ + 1] \in Handler
  BY DEF Handler

LEMMA GrowStep ==
  ASSUME IInv, NEW r \in Requests, NEW step \in Seeks, At(r, step), Reads,
         req[r].shape.endpoint \notin {"link", "connect", "update"},
         NEW k \in Handler, Continue(r, k),
         Keeps(req[r], k), MapsMore(req[r], k, db), AddsNodes(req[r], k, db, Excused),
         AddsLinks(req[r], k, db, deleted), PlansEmbeds(k), TurnKnown(k),
         \A id \in k.own : id \in req[r].own \/ id \in NewNodes \cup NewLinks
  PROVE  IInv'
<1> DEFINE h == req[r]
           g == [k EXCEPT !.at = @ + 1]
<1>1. /\ h \in Handler /\ Running(r) /\ Preparing(h, db, deleted)
      /\ r \in overtaken \/ Unmet(h, db, deleted, Excused)
  BY Seeking
<1>2. g \in Handler
  BY Advanced
<1>3. g.shape = k.shape /\ g.at = k.at + 1 /\ g.own = k.own
  BY DEF Handler
<1>4. req' = [req EXCEPT ![r] = g]
  BY DEF Continue
<1>7. h.at \in Nat \ {0}
  <2>1. h.at \in 1..Len(Todo(h)) /\ h.at \in Nat
    BY Seeking DEF Handler
  <2> QED
    BY <2>1
<1>5. Preparing(g, db, deleted) /\ (Unmet(h, db, deleted, Excused) => Unmet(g, db, deleted, Excused))
  <2> HIDE DEF h
  <2> QED
    BY <1>1, <1>7, Growing DEF h
<1>6. g.at \in 1..Len(Todo(g)) /\ Unwritten(g)
  BY <1>2, <1>3, Seeking DEF Keeps
<1> HIDE DEF g
<1> QED
  BY <1>1, <1>2, <1>3, <1>4, <1>5, <1>6, ReadStep

\* A scope that a handler without ends has nothing to do in.
LEMMA Passing ==
  ASSUME IInv, NEW r \in Requests, NEW step \in Seeks, At(r, step), Reads,
         req[r].shape.endpoint \notin {"link", "connect", "update"}, Continue(r, req[r])
  PROVE  IInv'
<1> DEFINE h == req[r]
<1>1. h \in Handler /\ Preparing(h, db, deleted)
  BY Seeking
<1> HIDE DEF h
<1>2. Keeps(h, h) /\ MapsMore(h, h, db) /\ AddsNodes(h, h, db, Excused) /\ AddsLinks(h, h, db, deleted)
  BY DEF Keeps, MapsMore, AddsNodes, AddsLinks, Nodes, LinksIn
<1>3. PlansEmbeds(h) /\ TurnKnown(h)
  BY <1>1 DEF Preparing
<1> QED
  BY <1>1, <1>2, <1>3, GrowStep DEF h

LEMMA ExtraStep ==
  ASSUME IInv, NEW r \in Requests, Extra(r)
  PROVE  IInv'
<1> DEFINE h == req[r]
           labels == Unmapped(h, h.shape.extra)
           known == labels \ Unresolved(labels)
           name == Named(known, NewLinks)
<1>1. At(r, "extra") /\ Reads /\ "extra" \in Seeks
  BY DEF Extra, Seeks
<1>2. /\ TypeOK /\ NodesCached /\ missed \subseteq raced /\ Running(r)
      /\ h \in Handler /\ h.at \in 1..Len(Todo(h)) /\ h.shape.endpoint = "remember"
      /\ Preparing(h, db, deleted)
  BY <1>1, Seeking, SeekingScope
<1>3. CASE ~Completes(h)
  BY <1>1, <1>2, <1>3, Passing DEF Extra
<1>4. CASE Completes(h)
  <2>1. PICK found \in Resolutions(known, NewNodes) :
          Continue(r, [With(h, found) EXCEPT
            !.own = @ \cup {name[x] : x \in known},
            !.plan = @ \cup {NewLink(name[x], h.turn, found[x], "references") : x \in known}])
    BY <1>4 DEF Extra
  <2>2. labels \in SUBSET Labels /\ known \in SUBSET Labels /\ \A x \in known : h.ids[x] = Absent
    BY <1>2, ShapesAssumption DEF Handler, AllShapes, Unmapped
  <2>3. h.turn \in TurnIds /\ h.turn \in NodeIds
    <3>1. h.turn = h.shape.turn /\ h.turn # Absent
      BY <1>2, <1>4 DEF Preparing, TurnKnown, Completes
    <3>2. h.shape.turn \in TurnIds \cup {Absent}
      BY <1>2, ShapesAssumption DEF Handler, AllShapes
    <3> QED
      BY <3>1, <3>2, IdsAssumption
  <2>4. found \in [known -> NodeIds] /\ \A x \in known : HasNode(db, found[x])
    <3>1. Unresolved(known) = {}
      BY DEF Unresolved
    <3>2. Enough({}, NewNodes)
      <4>1. [x \in {} |-> 0] \in [{} -> NewNodes]
        OBVIOUS
      <4> QED
        BY <4>1 DEF Enough, Namings, IsInjective
    <3>3. NewNodes \in SUBSET NodeIds /\ Enough(Unresolved(known), NewNodes)
      BY <3>1, <3>2 DEF NewNodes
    <3> HIDE DEF known
    <3> QED
      BY <1>2, <2>2, <3>1, <3>3, Finding
  <2>5. Enough(known, NewLinks)
    BY <1>4 DEF Extra
  <2>6. name \in [known -> NewLinks] /\ \A x, y \in known : name[x] = name[y] => x = y
    BY <2>5, NamedNames
  <2>7. NewLinks \subseteq LinkIds /\ LinkIds \subseteq Owners /\ \A l \in NewLinks : l \notin h.own
    BY <1>2, NewIds DEF NewLinks, Owners
  <2> DEFINE made == {name[x] : x \in known}
             adds == {NewLink(name[x], h.turn, found[x], "references") : x \in known}
             k == [With(h, found) EXCEPT !.own = @ \cup made, !.plan = @ \cup adds]
  <2>8. Continue(r, k)
    BY <2>1
  <2> HIDE DEF labels, known, name
  <2>9. made \subseteq NewLinks
    BY <2>6
  <2>10. adds \subseteq Creations
         /\ \A m \in adds :
              /\ m.op = "CreateLink" /\ m.id \in made
              /\ m.rec.from = h.turn /\ m.rec.to \in NodeIds /\ HasNode(db, m.rec.to)
              /\ \A l \in adds : m.id = l.id => m = l
    <3>1. ASSUME NEW x \in known
          PROVE  LET m == NewLink(name[x], h.turn, found[x], "references") IN
                 /\ m \in Creations /\ m.op = "CreateLink" /\ m.id = name[x]
                 /\ m.rec.from = h.turn /\ m.rec.to = found[x]
      BY <2>3, <2>4, <2>6, <2>7, NewLinkFields, KindsAssumption
    <3> QED
      BY <2>4, <2>6, <3>1
  <2> HIDE DEF made, adds
  <2>11. k \in Handler
    BY <1>2, <2>2, <2>4, <2>7, <2>9, <2>10 DEF With, Handler
  <2>12. /\ k.shape = h.shape /\ k.at = h.at /\ k.ends = h.ends /\ k.turn = h.turn
         /\ k.own = h.own \cup made /\ k.plan = h.plan \cup adds
         /\ k.twice = h.twice /\ k.embeds = h.embeds /\ k.shifts = h.shifts
         /\ \A x \in Labels : k.ids[x] = IF x \in known THEN found[x] ELSE h.ids[x]
    BY <1>2, <2>4 DEF With, Handler
  <2> HIDE DEF k
  <2>13. Keeps(h, k) /\ TurnKnown(k)
    BY <1>2, <2>12 DEF Keeps, Preparing, TurnKnown
  <2>14. MapsMore(h, k, db)
    BY <2>2, <2>4, <2>12 DEF MapsMore
  <2>15. AddsNodes(h, k, db, Excused)
    BY <2>10, <2>12 DEF AddsNodes, Nodes
  <2>16. AddsLinks(h, k, db, deleted)
    <3>1. \A m \in LinksIn(k.plan) \ h.plan : m \in adds
      BY <2>12 DEF LinksIn
    <3>2. \A id \in made : id \in k.own \ h.own
      BY <2>7, <2>9, <2>12
    <3>3. \A m \in adds : \A n \in {m.rec.from, m.rec.to} : n \in TurnIds \/ HasNode(db, n)
      BY <2>3, <2>10
    <3> QED
      BY <2>10, <3>1, <3>2, <3>3 DEF AddsLinks
  <2>17. PlansEmbeds(k)
    BY <1>2, <2>12 DEF Preparing, PlansEmbeds, Nodes
  <2> QED
    BY <1>1, <1>2, <2>8, <2>9, <2>11, <2>12, <2>13, <2>14, <2>15, <2>16, <2>17, GrowStep
<1> QED
  BY <1>3, <1>4

LEMMA ClaimsStep ==
  ASSUME IInv, NEW r \in Requests, Claims(r)
  PROVE  IInv'
<1> DEFINE h == req[r]
<1>2. /\ TypeOK /\ NodesCached /\ missed \subseteq raced /\ Running(r)
      /\ h \in Handler /\ h.at \in 1..Len(Todo(h)) /\ Todo(h)[h.at] = "claims"
      /\ Preparing(h, db, deleted)
  <2>1. At(r, "claims") /\ "claims" \in Seeks
    BY DEF Claims, Seeks
  <2> QED
    BY <2>1, Seeking
<1>0. h.shape.endpoint \notin {"link", "connect", "update"}
  <2>1. At(r, "claims")
    BY DEF Claims
  <2> QED
    BY <2>1, SeekingScope
<1> DEFINE claim == uid(NewNodes)
           labels == Unmapped(h, h.shape.claim)
           new == Unresolved(labels)
           sources == IF h.shape.endpoint = "ingest" THEN Mapped(h) ELSE {}
           links == (h.shape.claim \X {"evidence"}) \cup (sources \X {"source"})
           name == Named(links, NewLinks)
           link(g, k) == IF k[2] = "evidence" THEN NewLink(name[k], claim, g.ids[k[1]], "relates")
                                              ELSE NewLink(name[k], g.ids[k[1]], claim, "relates")
<1>1. At(r, "claims") /\ Reads /\ "claims" \in Seeks
  BY DEF Claims, Seeks
<1>3. CASE h.shape.claim = Absent \/ (h.shape.endpoint = "remember" /\ ~Completes(h))
  BY <1>0, <1>1, <1>2, <1>3, Passing DEF Claims
<1>4. CASE ~(h.shape.claim = Absent \/ (h.shape.endpoint = "remember" /\ ~Completes(h)))
  <2>1. /\ Enough(new \cup {Absent}, NewNodes) /\ Enough(links, NewLinks)
        /\ \E found \in Resolutions(labels, NewNodes \ {claim}) :
             Continue(r, [With(h, found) EXCEPT
               !.own = @ \cup {claim} \cup {found[x] : x \in new} \cup {name[l] : l \in links},
               !.plan = @ \cup {NewNode(claim, "claim", Content)} \cup Creating(found, new)
                          \cup {link(With(h, found), l) : l \in links}])
    BY <1>4 DEF Claims
  <2>2. PICK found \in Resolutions(labels, NewNodes \ {claim}) :
             Continue(r, [With(h, found) EXCEPT
               !.own = @ \cup {claim} \cup {found[x] : x \in new} \cup {name[l] : l \in links},
               !.plan = @ \cup {NewNode(claim, "claim", Content)} \cup Creating(found, new)
                          \cup {link(With(h, found), l) : l \in links}])
    BY <2>1
  <2>3. /\ h.shape.claim \in SUBSET Labels /\ labels \in SUBSET Labels /\ sources \in SUBSET Labels
        /\ new \subseteq labels
        /\ labels = {x \in h.shape.claim : h.ids[x] = Absent}
        /\ \A x \in sources : h.ids[x] # Absent
    <3>1. h.shape.claim \in (SUBSET Labels) \cup {Absent}
      BY <1>2, ShapesAssumption DEF Handler, AllShapes
    <3> QED
      BY <1>4, <3>1 DEF Unmapped, Mapped, Unresolved
  <2>4. /\ NewNodes \subseteq NodeIds /\ NewLinks \subseteq LinkIds
        /\ NodeIds \subseteq Owners /\ LinkIds \subseteq Owners
        /\ \A id \in NewNodes \cup NewLinks : id \notin h.own
    BY <1>2, NewIds DEF NewNodes, NewLinks, Owners
  <2>5. claim \in NewNodes
    <3>1. Named(new \cup {Absent}, NewNodes) \in [new \cup {Absent} -> NewNodes]
      BY <2>1, NamedNames
    <3> QED
      BY <3>1, UidIn
  <2>6. Enough(new, NewNodes \ {claim})
    <3> DEFINE f == Named(new \cup {Absent}, NewNodes)
               g == [x \in new |-> IF f[x] = claim THEN f[Absent] ELSE f[x]]
    <3>1. f \in [new \cup {Absent} -> NewNodes]
          /\ \A x, y \in new \cup {Absent} : f[x] = f[y] => x = y
      BY <2>1, NamedNames
    <3>2. Absent \notin new
      BY <2>3, IdsAssumption
    <3> HIDE DEF f, new, claim
    <3>3. g \in [new -> NewNodes \ {claim}]
      BY <3>1, <3>2
    <3>4. \A x, y \in new : g[x] = g[y] => x = y
      BY <3>1, <3>2
    <3> HIDE DEF g
    <3>5. g \in Namings(new, NewNodes \ {claim})
      BY <3>3, <3>4 DEF Namings, IsInjective
    <3> QED
      BY <3>5 DEF Enough
  <2>7. /\ found \in [labels -> NodeIds]
        /\ \A x \in new : found[x] \in NewNodes \ {claim} /\ ~HasLabel(db, x, Excused)
        /\ \A x, y \in new : found[x] = found[y] => x = y
        /\ \A x \in labels \ new : HasNode(db, found[x])
    <3> DEFINE ids == NewNodes \ {claim}
    <3>1. /\ ids \in SUBSET NodeIds /\ Enough(Unresolved(labels), ids)
          /\ found \in Resolutions(labels, ids)
      BY <2>4, <2>6
    <3>0. TypeOK /\ NodesCached /\ missed \subseteq raced /\ labels \in SUBSET Labels
      BY <1>2, <2>3
    <3> HIDE DEF ids, labels, h, claim, sources, links, name, link
    <3>2. /\ found \in [labels -> NodeIds]
          /\ \A x \in new : found[x] \in ids /\ ~HasLabel(db, x, Excused)
          /\ \A x, y \in new : found[x] = found[y] => x = y
          /\ \A x \in labels \ new : HasNode(db, found[x])
      BY <3>0, <3>1, Finding
    <3> QED
      BY <3>2 DEF ids
  <2>8. name \in [links -> NewLinks] /\ \A x, y \in links : name[x] = name[y] => x = y
    <3>1. Enough(links, NewLinks)
      BY <2>1
    <3> HIDE DEF links
    <3> QED
      BY <3>1, NamedNames
  <2> DEFINE own == {claim} \cup {found[x] : x \in new} \cup {name[l] : l \in links}
             made == Creating(found, new)
             joins == {link(With(h, found), l) : l \in links}
             k == [With(h, found) EXCEPT
                     !.own = @ \cup {claim} \cup {found[x] : x \in new} \cup {name[l] : l \in links},
                     !.plan = @ \cup {NewNode(claim, "claim", Content)} \cup made \cup joins]
  <2>9. Continue(r, k)
    BY <2>2
  <2>10. /\ With(h, found) \in Handler
         /\ \A x \in Labels : With(h, found).ids[x] = IF x \in labels THEN found[x] ELSE h.ids[x]
    BY <1>2, <2>3, <2>7 DEF With, Handler
  <2>11. \A l \in links : /\ l[1] \in Labels /\ With(h, found).ids[l[1]] # Absent
    <3>1. \A l \in links : l[1] \in h.shape.claim \/ l[1] \in sources
      OBVIOUS
    <3>2. \A x \in labels : found[x] # Absent
      BY <2>7, IdsAssumption
    <3> HIDE DEF sources, links, labels
    <3> QED
      BY <2>3, <2>10, <3>1, <3>2
  <2>12. \A l \in links : With(h, found).ids[l[1]] \in NodeIds
    BY <2>10, <2>11 DEF Handler
  <2> HIDE DEF claim, labels, new, links, name, sources
  <2>13. own \subseteq NewNodes \cup NewLinks /\ claim \in own /\ \A x \in new : found[x] \in own
    BY <2>5, <2>7, <2>8
  <2>14. /\ NewNode(claim, "claim", Content) \in Creations
         /\ NewNode(claim, "claim", Content).op = "CreateNode"
         /\ NewNode(claim, "claim", Content).id = claim
         /\ NewNode(claim, "claim", Content).rec.type = "claim"
    BY <2>4, <2>5, NewNodeFields, KindsAssumption, LabelsAssumption
  <2>15. \A m \in made :
           /\ m \in Creations /\ m.op = "CreateNode" /\ m.rec.label \in new
           /\ m.id = found[m.rec.label] /\ m.id # claim /\ m.id \in NewNodes
           /\ \A n \in made : m.id = n.id => m = n
    <3>1. \A x \in new : LET m == NewNode(found[x], "entity", x) IN
            m \in Creations /\ m.op = "CreateNode" /\ m.id = found[x] /\ m.rec.label = x
      BY <2>3, <2>4, <2>7, NewNodeFields, KindsAssumption
    <3> QED
      BY <2>7, <3>1 DEF Creating
  <2>16. \A m \in joins :
           /\ m \in Creations /\ m.op = "CreateLink" /\ m.id \in NewLinks /\ m.id \in own
           /\ \E l \in links : {m.rec.from, m.rec.to} = {claim, With(h, found).ids[l[1]]}
           /\ \A n \in joins : m.id = n.id => m = n
    <3>1. \A l \in links : LET m == link(With(h, found), l) IN
            /\ m \in Creations /\ m.op = "CreateLink" /\ m.id = name[l]
            /\ {m.rec.from, m.rec.to} = {claim, With(h, found).ids[l[1]]}
      BY <2>4, <2>5, <2>8, <2>12, NewLinkFields, KindsAssumption
    <3>2. \A l \in links : name[l] \in NewLinks /\ name[l] \in own
      BY <2>8
    <3> HIDE DEF link, own
    <3>3. \A m \in joins : \E l \in links : m = link(With(h, found), l)
      OBVIOUS
    <3> HIDE DEF joins
    <3>4. ASSUME NEW m \in joins, NEW n \in joins, m.id = n.id PROVE m = n
      BY <2>8, <3>1, <3>3, <3>4
    <3> HIDE DEF h, link
    <3>5. ASSUME NEW m \in joins
          PROVE  /\ m \in Creations /\ m.op = "CreateLink" /\ m.id \in NewLinks /\ m.id \in own
                 /\ \E l \in links : {m.rec.from, m.rec.to} = {claim, With(h, found).ids[l[1]]}
      <4>1. PICK l \in links : m = link(With(h, found), l)
        BY <3>3
      <4> QED
        BY <3>1, <3>2, <4>1
    <3> QED
      BY <3>4, <3>5
  <2>17. \A x \in new : \E m \in made : m.op = "CreateNode" /\ m.id = found[x]
    <3>1. \A x \in new : NewNode(found[x], "entity", x) \in made
      BY DEF Creating
    <3>2. \A x \in new : LET m == NewNode(found[x], "entity", x) IN m.op = "CreateNode" /\ m.id = found[x]
      BY DEF NewNode
    <3> QED
      BY <3>1, <3>2
  <2> HIDE DEF made, joins, own
  <2>18. k \in Handler
    <3>1. own \subseteq Owners
      BY <2>4, <2>13
    <3> QED
      BY <2>10, <2>14, <2>15, <2>16, <3>1 DEF Handler, own
  <2>19. /\ k.shape = h.shape /\ k.at = h.at /\ k.ends = h.ends /\ k.turn = h.turn
         /\ k.own = h.own \cup own
         /\ k.plan = h.plan \cup {NewNode(claim, "claim", Content)} \cup made \cup joins
         /\ k.twice = h.twice /\ k.embeds = h.embeds /\ k.shifts = h.shifts
         /\ k.ids = With(h, found).ids
         /\ \A x \in Labels : k.ids[x] = IF x \in labels THEN found[x] ELSE h.ids[x]
    <3>1. LET w == With(h, found) IN
          /\ w.shape = h.shape /\ w.at = h.at /\ w.ends = h.ends /\ w.turn = h.turn
          /\ w.own = h.own /\ w.plan = h.plan
          /\ w.twice = h.twice /\ w.embeds = h.embeds /\ w.shifts = h.shifts
      BY <1>2 DEF With, Handler
    <3> QED
      BY <2>10, <3>1 DEF Handler, own
  <2> HIDE DEF k
  <2>20. Keeps(h, k) /\ TurnKnown(k)
    BY <1>2, <2>19 DEF Keeps, Preparing, TurnKnown
  <2>21. MapsMore(h, k, db)
    <3>1. \A x \in new : \E m \in Nodes(k.plan) : m.id = found[x]
      BY <2>17, <2>19 DEF Nodes
    <3>2. ASSUME NEW x \in Labels, h.ids[x] # Absent PROVE k.ids[x] = h.ids[x]
      BY <2>3, <2>19, <3>2
    <3>3. ASSUME NEW x \in Labels, h.ids[x] = Absent, k.ids[x] # Absent
          PROVE  HasNode(db, k.ids[x]) \/ \E m \in Nodes(k.plan) : m.id = k.ids[x]
      <4>1. x \in labels /\ k.ids[x] = found[x]
        BY <2>19, <3>3
      <4> QED
        BY <2>7, <3>1, <4>1
    <3> QED
      BY <3>2, <3>3 DEF MapsMore
  <2>22. AddsNodes(h, k, db, Excused)
    <3>1. \A m \in Nodes(k.plan) \ h.plan : m = NewNode(claim, "claim", Content) \/ m \in made
      BY <2>16, <2>19 DEF Nodes
    <3>2. \A m \in made : m.id \in k.own \ h.own
      BY <2>4, <2>13, <2>15, <2>19
    <3>3. claim \in k.own \ h.own
      BY <2>4, <2>5, <2>13, <2>19
    <3>5. \A m \in Nodes(h.plan) : m.id \in h.own
      BY <1>0, <1>2 DEF Preparing, PlansNodes
    <3>4. \A m \in made : k.ids[m.rec.label] = m.id /\ ~HasLabel(db, m.rec.label, Excused)
      BY <2>3, <2>7, <2>15, <2>19
    <3> QED
      BY <2>14, <2>15, <3>1, <3>2, <3>3, <3>4, <3>5 DEF AddsNodes
  <2>23. AddsLinks(h, k, db, deleted)
    <3>1. \A m \in LinksIn(k.plan) \ h.plan : m \in joins
      BY <2>14, <2>15, <2>19 DEF LinksIn
    <3>2. \A m \in joins : m.id \in k.own \ h.own
      BY <2>4, <2>16, <2>19
    <3>3. \A l \in links : k.ids[l[1]] \in Met(k)
      BY <2>11, <2>19 DEF Met, Mapped
    <3>4. \A m \in joins : \A n \in {m.rec.from, m.rec.to} : n = claim \/ n \in Met(k)
      BY <2>16, <2>19, <3>3
    <3>5. claim \in k.own
      BY <2>13, <2>19
    <3> QED
      BY <2>16, <3>1, <3>2, <3>4, <3>5 DEF AddsLinks
  <2>24. PlansEmbeds(k)
    BY <1>2, <2>19 DEF Preparing, PlansEmbeds, Nodes
  <2>25. \A id \in k.own : id \in h.own \/ id \in NewNodes \cup NewLinks
    BY <2>13, <2>19
  <2> QED
    BY SMTT(30), <1>0, <1>1, <1>2, <2>9, <2>18, <2>20, <2>21, <2>22, <2>23, <2>24, <2>25, GrowStep
<1> QED
  BY <1>3, <1>4

\* If all labels get a node and every embedding is there, both are counted alike.
LEMMA PairedInStep ==
  ASSUME NEW shape \in Shapes, NEW new, new = Range(shape.entities),
         shape.endpoint = "remember" => shape.unembedded \cap new = {},
         NEW i \in DOMAIN shape.entities, NEW j \in DOMAIN shape.entities,
         Place(shape.entities, new, i) = EmbeddingPlace(shape, j)
  PROVE  i = j
<1> DEFINE labels == shape.entities
<1>1. labels \in Seq(Labels) /\ i \in Nat /\ j \in Nat /\ i \in 1..Len(labels) /\ j \in 1..Len(labels)
  BY ShapesAssumption DEF AllShapes
<1>2. \A k \in 1..Len(labels) : labels[k] \in new /\ labels[k] \in Labels
  BY <1>1 DEF Range
<1>3. ASSUME NEW S, NEW n \in 1..Len(labels), \A k \in 1..Len(labels) : labels[k] \in S
      PROVE  Place(labels, S, n) = n
  <2>1. {k \in 1..n : labels[k] \in S} = 1..n
    BY <1>1, <1>3
  <2>2. Cardinality(1..n) = n
    BY <1>1, FS_Interval
  <2> QED
    BY <2>1, <2>2 DEF Place
<1>4. Place(labels, new, i) = i
  BY <1>1, <1>2, <1>3
<1>5. EmbeddingPlace(shape, j) = j
  <2>1. CASE shape.endpoint = "remember"
    <3>1. \A k \in 1..Len(labels) : labels[k] \in Labels \ shape.unembedded
      BY <1>2, <2>1
    <3> QED
      BY <1>1, <1>3, <2>1, <3>1 DEF EmbeddingPlace
  <2> QED
    BY <2>1 DEF EmbeddingPlace
<1> QED
  BY <1>4, <1>5

LEMMA EntitiesStep ==
  ASSUME IInv, NEW r \in Requests, Entities(r)
  PROVE  IInv'
<1> DEFINE h == req[r]
<1>2. /\ TypeOK /\ NodesCached /\ missed \subseteq raced /\ Running(r)
      /\ h \in Handler /\ h.at \in 1..Len(Todo(h)) /\ Todo(h)[h.at] = "entities"
      /\ Preparing(h, db, deleted)
  <2>1. At(r, "entities") /\ "entities" \in Seeks
    BY DEF Entities, Seeks
  <2> QED
    BY <2>1, Seeking
<1>3. h.shape.endpoint \notin {"link", "connect", "update", "ingest"}
  <2>1. At(r, "entities")
    BY DEF Entities
  <2> QED
    BY <2>1, SeekingScope
<1> DEFINE labels == Unmapped(h, Range(h.shape.entities))
           new == Unresolved(labels)
           instep == /\ new = Range(h.shape.entities)
                     /\ h.shape.endpoint = "remember" => h.shape.unembedded \cap new = {}
<1>1. At(r, "entities") /\ Reads /\ "entities" \in Seeks
  BY DEF Entities, Seeks
<1>4. PICK found \in Resolutions(labels, NewNodes) :
        Continue(r, [With(h, found) EXCEPT
          !.own = @ \cup {found[x] : x \in new},
          !.embeds = Paired(h.shape, found, new),
          !.shifts = IF instep THEN {} ELSE {found[x] : x \in new},
          !.plan = @ \cup Creating(found, new) \cup (UNION {NewProps(found[x], Keys) : x \in labels})]
          )
  BY Zenon DEF Entities
<1>5. /\ labels \in SUBSET Labels /\ new \subseteq labels
      /\ \A x \in labels : h.ids[x] = Absent
      /\ h.shape \in Shapes /\ h.shape.entities \in Seq(Labels)
  <2>1. h.shape \in Shapes /\ h.shape.entities \in Seq(Labels)
    BY <1>2, ShapesAssumption DEF Handler, AllShapes
  <2>2. Range(h.shape.entities) \subseteq Labels
    BY <2>1 DEF Range
  <2> QED
    BY <2>1, <2>2 DEF Unmapped, Unresolved
<1>6. /\ NewNodes \subseteq NodeIds /\ NodeIds \subseteq Owners
      /\ \A id \in NewNodes : id \notin h.own
  BY <1>2, NewIds DEF NewNodes, Owners
<1>7. /\ found \in [labels -> NodeIds]
      /\ \A x \in new : found[x] \in NewNodes /\ ~HasLabel(db, x, Excused)
      /\ \A x, y \in new : found[x] = found[y] => x = y
      /\ \A x \in labels \ new : HasNode(db, found[x])
  <2>1. /\ NewNodes \in SUBSET NodeIds /\ Enough(Unresolved(labels), NewNodes)
        /\ found \in Resolutions(labels, NewNodes)
    BY <1>6 DEF Entities
  <2>2. TypeOK /\ NodesCached /\ missed \subseteq raced /\ labels \in SUBSET Labels
    BY <1>2, <1>5
  <2> HIDE DEF labels, h
  <2> QED
    BY <2>1, <2>2, Finding
<1> DEFINE own == {found[x] : x \in new}
           made == Creating(found, new)
           sets == UNION {NewProps(found[x], Keys) : x \in labels}
           embeds == Paired(h.shape, found, new)
           shifts == IF instep THEN {} ELSE own
           k == [With(h, found) EXCEPT
                   !.own = @ \cup own, !.embeds = embeds, !.shifts = shifts,
                   !.plan = @ \cup made \cup sets]
<1>8. Continue(r, k)
  BY <1>4
<1> HIDE DEF instep, new
<1>9. \A p \in embeds :
        \E m \in Nodes(made) : m.id = p[1] /\ (m.id \in shifts \/ m.rec.label = p[2])
  <2> SUFFICES ASSUME NEW p \in embeds
               PROVE \E m \in Nodes(made) : m.id = p[1] /\ (m.id \in shifts \/ m.rec.label = p[2])
    OBVIOUS
  <2> DEFINE ls == h.shape.entities
  <2>1. PICK i \in DOMAIN ls, j \in DOMAIN ls :
           /\ ls[i] \in new /\ Place(ls, new, i) = EmbeddingPlace(h.shape, j)
           /\ p = <<found[ls[i]], ls[j]>>
    BY DEF Paired
  <2> DEFINE m == NewNode(found[ls[i]], "entity", ls[i])
  <2>2. m \in made /\ m.op = "CreateNode" /\ m.id = found[ls[i]] /\ m.rec.label = ls[i]
    BY <2>1 DEF Creating, NewNode
  <2>3. CASE instep
    <3>1. i = j
      BY <1>5, <2>1, <2>3, PairedInStep DEF instep
    <3> QED
      BY <2>1, <2>2, <3>1 DEF Nodes
  <2>4. CASE ~instep
    BY <2>1, <2>2, <2>4 DEF Nodes
  <2> QED
    BY <2>3, <2>4
<1>10. embeds \in SUBSET (NodeIds \X Labels)
  BY DEF Paired
<1>11. own \subseteq NewNodes /\ shifts \subseteq own
  BY <1>7
<1> HIDE DEF labels, embeds
<1>12. \A m \in made :
         /\ m \in Creations /\ m.op = "CreateNode" /\ m.rec.label \in new
         /\ m.id = found[m.rec.label] /\ m.id \in NewNodes /\ m.id \in own
         /\ \A n \in made : m.id = n.id => m = n
  <2>1. \A x \in new : LET m == NewNode(found[x], "entity", x) IN
          m \in Creations /\ m.op = "CreateNode" /\ m.id = found[x] /\ m.rec.label = x
    BY <1>5, <1>6, <1>7, NewNodeFields, KindsAssumption
  <2> QED
    BY <1>7, <2>1 DEF Creating
<1>13. \A x \in new : \E m \in made : m.op = "CreateNode" /\ m.id = found[x]
  <2>1. \A x \in new : NewNode(found[x], "entity", x) \in made
    BY DEF Creating
  <2>2. \A x \in new : LET m == NewNode(found[x], "entity", x) IN m.op = "CreateNode" /\ m.id = found[x]
    BY DEF NewNode
  <2> QED
    BY <2>1, <2>2
<1>14. \A m \in sets : m \in Creations /\ m.op = "SetProperty"
  BY <1>6, <1>7, NewPropsFields
<1> HIDE DEF own, made, sets, shifts
<1>15. k \in Handler
  <2>1. With(h, found) \in Handler
    BY <1>2, <1>5, <1>7 DEF With, Handler
  <2>2. own \subseteq Owners /\ shifts \subseteq NodeIds /\ made \subseteq Creations /\ sets \subseteq Creations
    BY <1>6, <1>11, <1>12, <1>14
  <2> QED
    BY <1>10, <2>1, <2>2 DEF Handler
<1>16. /\ k.shape = h.shape /\ k.at = h.at /\ k.ends = h.ends /\ k.turn = h.turn
       /\ k.own = h.own \cup own /\ k.plan = h.plan \cup made \cup sets
       /\ k.twice = h.twice /\ k.embeds = embeds /\ k.shifts = shifts
       /\ \A x \in Labels : k.ids[x] = IF x \in labels THEN found[x] ELSE h.ids[x]
  BY <1>2, <1>7 DEF With, Handler
<1> HIDE DEF k
<1>17. Keeps(h, k) /\ TurnKnown(k)
  BY <1>2, <1>16 DEF Keeps, Preparing, TurnKnown
<1>18. MapsMore(h, k, db)
  <2>1. \A x \in new : \E m \in Nodes(k.plan) : m.id = found[x]
    BY <1>13, <1>16 DEF Nodes
  <2>2. ASSUME NEW x \in Labels, h.ids[x] # Absent PROVE k.ids[x] = h.ids[x]
    BY <1>5, <1>16, <2>2
  <2>3. ASSUME NEW x \in Labels, h.ids[x] = Absent, k.ids[x] # Absent
        PROVE  HasNode(db, k.ids[x]) \/ \E m \in Nodes(k.plan) : m.id = k.ids[x]
    <3>1. x \in labels /\ k.ids[x] = found[x]
      BY <1>16, <2>3
    <3> QED
      BY <1>7, <2>1, <3>1
  <2> QED
    BY <2>2, <2>3 DEF MapsMore
<1>19. AddsNodes(h, k, db, Excused)
  <2>1. \A m \in Nodes(k.plan) \ h.plan : m \in made
    BY <1>14, <1>16 DEF Nodes
  <2>2. \A m \in made : m.id \in k.own /\ m.id \notin h.own
    BY <1>6, <1>12, <1>16
  <2>3. \A m \in made : k.ids[m.rec.label] = m.id /\ ~HasLabel(db, m.rec.label, Excused)
    BY <1>5, <1>7, <1>12, <1>16
  <2>4. \A m \in Nodes(h.plan) : m.id \in h.own
    BY <1>2, <1>3 DEF Preparing, PlansNodes
  <2> QED
    BY <1>12, <2>1, <2>2, <2>3, <2>4 DEF AddsNodes
<1>20. AddsLinks(h, k, db, deleted)
  BY <1>12, <1>14, <1>16 DEF AddsLinks, LinksIn
<1>21. PlansEmbeds(k)
  BY <1>3, <1>9, <1>16 DEF PlansEmbeds, Nodes
<1>22. \A id \in k.own : id \in h.own \/ id \in NewNodes \cup NewLinks
  BY <1>11, <1>16
<1> QED
  BY <1>1, <1>3, <1>8, <1>15, <1>17, <1>18, <1>19, <1>20, <1>21, <1>22, GrowStep

LEMMA BatchTurnStep ==
  ASSUME IInv, NEW r \in Requests, BatchTurn(r)
  PROVE  IInv'
<1> DEFINE h == req[r]
<1>2. /\ TypeOK /\ NodesCached /\ missed \subseteq raced /\ Running(r)
      /\ h \in Handler /\ h.at \in 1..Len(Todo(h)) /\ Todo(h)[h.at] = "turn"
      /\ Preparing(h, db, deleted)
  <2>1. At(r, "turn") /\ "turn" \in Seeks
    BY DEF BatchTurn, Seeks
  <2> QED
    BY <2>1, Seeking
<1>3. h.shape.endpoint = "batch" /\ h.at = 1
  <2>1. At(r, "turn")
    BY DEF BatchTurn
  <2> QED
    BY <2>1, SeekingScope
<1> DEFINE prevs == {n \in NodeIds : HasNode(cache, n) /\ cache.node[n].type = "turn"}
           links == (IF prevs # {} /\ h.shape.turn # Absent THEN {"precedes"} ELSE {})
                      \cup (IF h.shape.raw THEN {"raw"} ELSE {})
           name == Named(links, NewLinks)
           turns == IF h.shape.turn # Absent
                    THEN {NewNode(h.turn, "turn", Content)} \cup NewProps(h.turn, TurnKeys) ELSE {}
           own == {name[x] : x \in links}
<1>1. At(r, "turn") /\ Reads /\ "turn" \in Seeks /\ Enough(links, NewLinks)
  BY DEF BatchTurn, Seeks
<1>4. PICK prev \in IF "precedes" \in links THEN prevs ELSE {Absent},
           from \in IF "raw" \in links THEN Seen ELSE {Absent},
           to \in IF "raw" \in links THEN Seen ELSE {Absent} :
         Continue(r, [h EXCEPT
            !.own = @ \cup own,
            !.plan = @ \cup turns
              \cup {IF x = "raw" THEN NewLink(name[x], from, to, h.shape.type)
                                 ELSE NewLink(name[x], prev, h.turn, "precedes") : x \in links}])
  BY Zenon DEF BatchTurn
<1> DEFINE link(x) == IF x = "raw" THEN NewLink(name[x], from, to, h.shape.type)
                                   ELSE NewLink(name[x], prev, h.turn, "precedes")
           joins == {link(x) : x \in links}
           k == [h EXCEPT !.own = @ \cup own, !.plan = @ \cup turns \cup joins]
<1>5. Continue(r, k)
  BY <1>4
<1>6. name \in [links -> NewLinks] /\ \A x, y \in links : name[x] = name[y] => x = y
  <2> HIDE DEF links
  <2> QED
    BY <1>1, NamedNames
<1>7. /\ NewLinks \subseteq LinkIds /\ LinkIds \subseteq Owners /\ NodeIds \subseteq Owners
      /\ \A id \in NewLinks : id \notin h.own
  BY <1>2, NewIds DEF NewLinks, Owners
<1>8. h.turn \in h.own /\ h.turn \in NodeIds /\ h.plan = {}
  <2>1. h.turn \in h.own /\ h.plan = {}
    BY <1>2, <1>3 DEF Preparing, TurnKnown, InScript
  <2>2. h.turn \in NodeIds \cup {Absent} /\ h.own \subseteq Owners
    BY <1>2 DEF Handler
  <2> QED
    BY <2>1, <2>2, AbsentAssumption, IdsAssumption DEF Owners
<1>9. \A n \in Seen \cup prevs : n \in NodeIds /\ (n \in deleted \cup TurnIds \/ HasNode(db, n))
  BY <1>2, IdsAssumption DEF NodesCached, Seen, Known
<1>10. /\ "raw" \in links => from \in Seen /\ to \in Seen
       /\ "precedes" \in links => prev \in prevs
       /\ \A x \in links : x \in {"raw", "precedes"}
  BY <1>4
<1>11. h.shape.type \in LinkTypes
  BY <1>2, ShapesAssumption DEF Handler, AllShapes
<1> HIDE DEF links, name, prevs, h
<1>12. \A x \in links : LET m == link(x) IN
         /\ m \in Creations /\ m.op = "CreateLink" /\ m.id = name[x]
         /\ \A n \in {m.rec.from, m.rec.to} : n \in deleted \cup TurnIds \/ HasNode(db, n) \/ n = h.turn
  <2> SUFFICES ASSUME NEW x \in links
               PROVE  LET m == link(x) IN
                      /\ m \in Creations /\ m.op = "CreateLink" /\ m.id = name[x]
                      /\ \A n \in {m.rec.from, m.rec.to} :
                           n \in deleted \cup TurnIds \/ HasNode(db, n) \/ n = h.turn
    OBVIOUS
  <2>1. name[x] \in LinkIds
    BY <1>6, <1>7
  <2>2. CASE x = "raw"
    BY <1>9, <1>10, <1>11, <2>1, <2>2, NewLinkFields
  <2>3. CASE x # "raw"
    BY <1>8, <1>9, <1>10, <2>1, <2>3, NewLinkFields, TypesAssumption
  <2> QED
    BY <2>2, <2>3
<1>13. \A m \in joins :
         /\ m \in Creations /\ m.op = "CreateLink" /\ m.id \in NewLinks /\ m.id \in own
         /\ \A n \in {m.rec.from, m.rec.to} : n \in deleted \cup TurnIds \/ HasNode(db, n) \/ n = h.turn
         /\ \A l \in joins : m.id = l.id => m = l
  <2>1. \A x \in links : name[x] \in NewLinks /\ name[x] \in own
    BY <1>6
  <2>2. \A m \in joins : \E x \in links : m = link(x)
    OBVIOUS
  <2> HIDE DEF link, joins, own
  <2>3. ASSUME NEW m \in joins, NEW l \in joins, m.id = l.id PROVE m = l
    BY <1>6, <1>12, <2>2, <2>3
  <2> QED
    BY <1>12, <2>1, <2>2, <2>3
<1>14. /\ \A m \in turns : m \in Creations /\ m.op # "CreateLink"
       /\ \A m \in Nodes(turns) :
            m.id = h.turn /\ m.rec.type = "turn" /\ \A n \in Nodes(turns) : m = n
  <2>1. LET m == NewNode(h.turn, "turn", Content) IN
          m \in Creations /\ m.op = "CreateNode" /\ m.id = h.turn /\ m.rec.type = "turn"
    BY <1>8, NewNodeFields, TypesAssumption, LabelsAssumption
  <2>2. \A m \in NewProps(h.turn, TurnKeys) : m \in Creations /\ m.op = "SetProperty"
    BY <1>7, <1>8, NewPropsFields, TypesAssumption
  <2> QED
    BY <2>1, <2>2 DEF Nodes
<1> HIDE DEF joins, turns, own
<1>15. own \subseteq NewLinks
  BY <1>6 DEF own
<1>16. k \in Handler
  <2>1. own \subseteq Owners /\ joins \subseteq Creations /\ turns \subseteq Creations
    BY <1>7, <1>13, <1>14, <1>15
  <2> QED
    BY <1>2, <2>1 DEF Handler
<1>17. /\ k.shape = h.shape /\ k.at = h.at /\ k.ends = h.ends /\ k.turn = h.turn
       /\ k.own = h.own \cup own /\ k.plan = h.plan \cup turns \cup joins
       /\ k.twice = h.twice /\ k.embeds = h.embeds /\ k.shifts = h.shifts /\ k.ids = h.ids
  BY <1>2 DEF Handler
<1> HIDE DEF k
<1>18. Keeps(h, k) /\ TurnKnown(k) /\ MapsMore(h, k, db)
  BY <1>2, <1>17 DEF Keeps, MapsMore, Preparing, TurnKnown
<1>19. AddsNodes(h, k, db, Excused)
  <2>1. \A m \in Nodes(k.plan) : m \in Nodes(turns)
    BY <1>8, <1>13, <1>17 DEF Nodes
  <2> QED
    BY <1>8, <1>14, <1>17, <2>1 DEF AddsNodes, Nodes
<1>20. AddsLinks(h, k, db, deleted)
  <2>1. \A m \in LinksIn(k.plan) \ h.plan : m \in joins
    BY <1>14, <1>17 DEF LinksIn
  <2>2. \A m \in joins : m.id \in k.own \ h.own
    BY <1>7, <1>13, <1>17
  <2>3. h.turn \in k.own
    BY <1>8, <1>17
  <2> QED
    BY <1>13, <2>1, <2>2, <2>3 DEF AddsLinks
<1>21. PlansEmbeds(k)
  BY <1>2, <1>17 DEF Preparing, PlansEmbeds, Nodes
<1>22. \A id \in k.own : id \in h.own \/ id \in NewNodes \cup NewLinks
  BY <1>15, <1>17
<1> QED
  BY <1>1, <1>3, <1>5, <1>16, <1>18, <1>19, <1>20, <1>21, <1>22, GrowStep DEF h

\* As GrowStep, for any handler.
LEMMA StepOn ==
  ASSUME IInv, NEW r \in Requests, NEW step \in Seeks, At(r, step), Reads,
         NEW k \in Handler, k.shape = req[r].shape, k.at = req[r].at, Continue(r, k),
         \A id \in k.own : id \in req[r].own \/ id \in NewNodes \cup NewLinks,
         NEW g, g = [k EXCEPT !.at = @ + 1], Preparing(g, db, deleted),
         Unmet(req[r], db, deleted, Excused) => Unmet(g, db, deleted, Excused)
  PROVE  IInv'
<1>1. /\ req[r] \in Handler /\ Running(r)
      /\ r \in overtaken \/ Unmet(req[r], db, deleted, Excused)
  BY Seeking
<1>2. g \in Handler
  BY Advanced
<1>3. g.shape = k.shape /\ g.at = k.at + 1 /\ g.own = k.own
  BY DEF Handler
<1>4. req' = [req EXCEPT ![r] = g]
  BY DEF Continue
<1>5. g.at \in 1..Len(Todo(g)) /\ Unwritten(g)
  BY <1>2, <1>3, Seeking
<1> QED
  BY <1>1, <1>2, <1>3, <1>4, <1>5, ReadStep

LEMMA NextFields ==
  ASSUME NEW k \in Handler
  PROVE  LET g == [k EXCEPT !.at = @ + 1] IN
         /\ g.shape = k.shape /\ g.at = k.at + 1 /\ g.ids = k.ids /\ g.ends = k.ends
         /\ g.turn = k.turn /\ g.plan = k.plan /\ g.own = k.own /\ g.twice = k.twice
         /\ g.embeds = k.embeds /\ g.shifts = k.shifts
  BY DEF Handler

\* The labels at the ends of a link, and that of an updated entity.
LEMMA EndLabels ==
  ASSUME NEW shape \in Shapes, shape.endpoint \in {"link", "connect", "update"}
  PROVE  /\ shape.ends[1] \in Labels
         /\ shape.endpoint # "update" => shape.ends[2] \in Labels
         /\ shape.type \in LinkTypes
  BY ShapesAssumption DEF AllShapes

LEMMA EndsStep ==
  ASSUME IInv, NEW r \in Requests, Ends(r)
  PROVE  IInv'
<1> DEFINE h == req[r]
<1>2. /\ TypeOK /\ NodesCached /\ missed \subseteq raced /\ Running(r)
      /\ h \in Handler /\ h.at \in 1..Len(Todo(h)) /\ Todo(h)[h.at] = "ends"
      /\ Preparing(h, db, deleted)
  <2>1. At(r, "ends") /\ "ends" \in Seeks
    BY DEF Ends, Seeks
  <2> QED
    BY <2>1, Seeking
<1>3. h.shape.endpoint = "link" /\ h.at = 1
  <2>1. At(r, "ends")
    BY DEF Ends
  <2> QED
    BY <2>1, SeekingScope
<1> DEFINE new == {i \in {1, 2} : Matches(h.shape.ends[i]) = {}}
           name == Named(new, NewNodes)
           link == uid(NewLinks)
           made == {NewNode(name[i], "entity", h.shape.ends[i]) : i \in new}
           own == {name[i] : i \in new} \cup {link}
<1>1. At(r, "ends") /\ Reads /\ "ends" \in Seeks /\ Enough(new, NewNodes) /\ NewLinks # {}
  BY DEF Ends, Seeks
<1>4. PICK a \in NodeIds, b \in NodeIds :
         /\ IF 1 \in new THEN a = name[1] ELSE a \in Matches(h.shape.ends[1])
         /\ IF 2 \in new THEN b = name[2] ELSE b \in Matches(h.shape.ends[2])
         /\ Continue(r, [h EXCEPT
               !.ends = <<a, b>>,
               !.own = @ \cup {name[i] : i \in new} \cup {link},
               !.plan = @ \cup made \cup {NewLink(link, a, b, h.shape.type)}])
  BY Zenon DEF Ends
<1>5. h.shape \in Shapes /\ h.shape.ends[1] \in Labels /\ h.shape.ends[2] \in Labels /\ h.shape.type \in LinkTypes
  BY <1>2, <1>3, EndLabels DEF Handler
<1>6. name \in [new -> NewNodes] /\ \A x, y \in new : name[x] = name[y] => x = y
  <2> HIDE DEF new
  <2> QED
    BY <1>1, NamedNames
<1>7. /\ NewNodes \subseteq NodeIds /\ NewLinks \subseteq LinkIds
      /\ NodeIds \subseteq Owners /\ LinkIds \subseteq Owners
      /\ \A id \in NewNodes \cup NewLinks : id \notin h.own
  BY <1>2, NewIds DEF NewNodes, NewLinks, Owners
<1>8. link \in NewLinks
  BY <1>1, UidIn
<1>9. /\ a \in own \/ HasNode(db, a)
      /\ b \in own \/ HasNode(db, b)
      /\ \A i \in new : ~HasLabel(db, h.shape.ends[i], Excused)
      /\ 1 \in new => a = name[1]
      /\ 2 \in new => b = name[2]
      /\ 1 \notin new => HasNode(db, a)
      /\ 2 \notin new => HasNode(db, b)
  <2>1. \A x \in Labels : (Matches(x) = {} => ~HasLabel(db, x, Excused)) /\ \A m \in Matches(x) : HasNode(db, m)
    BY <1>2, MatchesStored
  <2>2. \A i \in new : (i = 1 \/ i = 2) /\ Matches(h.shape.ends[i]) = {}
    OBVIOUS
  <2>3. /\ 1 \in new => a = name[1]
        /\ 1 \notin new => a \in Matches(h.shape.ends[1])
        /\ 2 \in new => b = name[2]
        /\ 2 \notin new => b \in Matches(h.shape.ends[2])
    BY <1>4
  <2>4. /\ 1 \in new => name[1] \in own
        /\ 2 \in new => name[2] \in own
    OBVIOUS
  <2> HIDE DEF new, name, own
  <2> QED
    BY <1>5, <2>1, <2>2, <2>3, <2>4
<1>10. new \subseteq {1, 2}
  OBVIOUS
<1> DEFINE join == NewLink(link, a, b, h.shape.type)
           k == [h EXCEPT !.ends = <<a, b>>, !.own = @ \cup {name[i] : i \in new} \cup {link},
                          !.plan = @ \cup made \cup {join}]
           g == [k EXCEPT !.at = @ + 1]
<1>11. Continue(r, k)
  BY <1>4
<1> HIDE DEF new, name, link
<1>12. own \subseteq NewNodes \cup NewLinks
  BY <1>6, <1>8
<1>13. \A m \in made :
         /\ m \in Creations /\ m.op = "CreateNode" /\ m.id \in NewNodes /\ m.id \in own
         /\ \E i \in new : m.rec.label = h.shape.ends[i] /\ m.id = name[i]
         /\ \A n \in made : m.id = n.id => m = n
  <2>1. \A i \in new : LET m == NewNode(name[i], "entity", h.shape.ends[i]) IN
          m \in Creations /\ m.op = "CreateNode" /\ m.id = name[i] /\ m.rec.label = h.shape.ends[i]
    <3> SUFFICES ASSUME NEW i \in new
                 PROVE  LET m == NewNode(name[i], "entity", h.shape.ends[i]) IN
                        /\ m \in Creations /\ m.op = "CreateNode" /\ m.id = name[i]
                        /\ m.rec.label = h.shape.ends[i]
      OBVIOUS
    <3>1. name[i] \in NodeIds /\ h.shape.ends[i] \in Labels
      BY <1>5, <1>6, <1>7, <1>10
    <3> QED
      BY <3>1, NewNodeFields, KindsAssumption
  <2> QED
    BY <1>6, <2>1
<1>14. \A i \in new : \E m \in made : m.op = "CreateNode" /\ m.id = name[i]
  <2>1. \A i \in new : LET m == NewNode(name[i], "entity", h.shape.ends[i]) IN
          m.op = "CreateNode" /\ m.id = name[i]
    BY DEF NewNode
  <2> QED
    BY <2>1
<1>15. /\ join \in Creations /\ join.op = "CreateLink" /\ join.id = link
       /\ join.rec.from = a /\ join.rec.to = b
  BY <1>5, <1>7, <1>8, NewLinkFields
<1> HIDE DEF made, join
<1>16. k \in Handler
  <2>1. own \subseteq Owners /\ made \subseteq Creations /\ <<a, b>> \in Seq(NodeIds)
    BY <1>7, <1>12, <1>13
  <2> QED
    BY <1>2, <1>15, <2>1 DEF Handler
<1>17. /\ k.shape = h.shape /\ k.at = h.at /\ k.ends = <<a, b>> /\ k.turn = h.turn
       /\ k.own = h.own \cup own /\ k.plan = h.plan \cup made \cup {join}
       /\ k.twice = h.twice /\ k.embeds = h.embeds /\ k.shifts = h.shifts /\ k.ids = h.ids
  BY <1>2 DEF Handler
<1> HIDE DEF own, k
<1>18. /\ g.shape = h.shape /\ g.at = h.at + 1 /\ g.ends = <<a, b>> /\ g.turn = h.turn
       /\ g.own = h.own \cup own /\ g.plan = h.plan \cup made \cup {join}
       /\ g.twice = h.twice /\ g.embeds = h.embeds /\ g.shifts = h.shifts /\ g.ids = h.ids
  BY <1>16, <1>17, NextFields
<1> HIDE DEF g
<1>19. /\ Nodes(g.plan) = Nodes(h.plan) \cup made
       /\ LinksIn(g.plan) = LinksIn(h.plan) \cup {join}
  BY <1>13, <1>15, <1>18 DEF Nodes, LinksIn
<1>20. /\ \A m \in Nodes(h.plan) : m.id \in h.own
       /\ \A m \in LinksIn(h.plan) : m.id \in h.own
       /\ NewEntities(h.plan) = {}
  <2>1. DOMAIN h.ends = {}
    BY <1>2, <1>3 DEF Preparing, InScript, Handler
  <2> QED
    BY <1>2, <1>3, <2>1 DEF Preparing, PlansNodes, PlansLinks, Sourced
<1>21. PlansNodes(g, deleted)
  <2>1. \A m \in made : m.id \notin h.own
    BY <1>7, <1>13
  <2> QED
    BY <1>2, <1>13, <1>18, <1>19, <1>20, <2>1 DEF Preparing, PlansNodes
<1>22. PlansLinks(g, db, deleted)
  <2>1. join.id \in own /\ join.id \notin h.own
    BY <1>7, <1>8, <1>15 DEF own
  <2>2. \A n \in {join.rec.from, join.rec.to} : n \in own \/ HasNode(db, n)
    BY <1>9, <1>15
  <2>3. PlansLinks(h, db, deleted)
    BY <1>2 DEF Preparing
  <2> QED
    BY <1>18, <1>19, <1>20, <2>1, <2>2, <2>3 DEF PlansLinks
<1>23. Grounded(g, db, deleted)
  <2> SUFFICES ASSUME NEW n \in Met(g)
               PROVE n \in deleted \/ HasNode(db, n) \/ \E m \in Nodes(g.plan) : m.id = n
    BY DEF Grounded
  <2>1. n \in Met(h) \/ n \in {a, b}
    BY <1>18 DEF Met, Mapped, Range
  <2>2. CASE n \in Met(h)
    BY <1>2, <1>3, <1>19, <2>2 DEF Preparing, Grounded, Unchecked
  <2>3. CASE n = a
    BY <1>9, <1>14, <1>19, <2>3
  <2>4. CASE n = b
    BY <1>9, <1>14, <1>19, <2>4
  <2> QED
    BY <2>1, <2>2, <2>3, <2>4
<1>24. \A m \in NewEntities(g.plan) : m \in made
  BY <1>19, <1>20 DEF NewEntities
<1>25. Sourced(g)
  <2> SUFFICES ASSUME NEW m \in NewEntities(g.plan)
               PROVE \E i \in DOMAIN g.ends : m.id = g.ends[i] /\ m.rec.label = g.shape.ends[i]
    BY <1>3, <1>18 DEF Sourced
  <2>1. PICK i \in new : m.rec.label = h.shape.ends[i] /\ m.id = name[i]
    BY <1>13, <1>24
  <2>2. DOMAIN g.ends = {1, 2} /\ g.ends[1] = a /\ g.ends[2] = b
    BY <1>18
  <2> QED
    BY <1>9, <1>10, <1>18, <2>1, <2>2
<1>26. Unmet(g, db, deleted, Excused)
  BY <1>3, <1>9, <1>13, <1>18, <1>24 DEF Unmet
<1>27. PlansEmbeds(g)
  BY <1>2, <1>18, <1>19 DEF Preparing, PlansEmbeds
<1>28. TurnKnown(g) /\ InScript(g)
  BY <1>2, <1>3, <1>18 DEF Preparing, TurnKnown, InScript
<1>29. Preparing(g, db, deleted)
  BY <1>21, <1>22, <1>23, <1>25, <1>27, <1>28 DEF Preparing
<1>30. \A id \in k.own : id \in h.own \/ id \in NewNodes \cup NewLinks
  BY <1>12, <1>17
<1> QED
  BY <1>1, <1>11, <1>16, <1>17, <1>26, <1>29, <1>30, StepOn DEF g

LEMMA EndStep ==
  ASSUME IInv, NEW r \in Requests, NEW step, NEW i, End(r, step, i),
         (step = "from" /\ i = 1) \/ (step = "to" /\ i = 2)
  PROVE  IInv'
<1> DEFINE h == req[r]
<1>2. /\ TypeOK /\ NodesCached /\ missed \subseteq raced /\ Running(r)
      /\ h \in Handler /\ h.at \in 1..Len(Todo(h)) /\ Todo(h)[h.at] = step
      /\ Preparing(h, db, deleted)
  <2>1. At(r, step) /\ step \in Seeks
    BY DEF End, Seeks
  <2> QED
    BY <2>1, Seeking
<1>3. /\ h.shape.endpoint \in {"connect", "update"} /\ h.at = i
      /\ h.shape.endpoint = "update" => i = 1
  <2>1. At(r, step)
    BY DEF End
  <2> QED
    BY <2>1, SeekingScope
<1> DEFINE label == h.shape.ends[i]
           new == Matches(label) = {}
           connects == h.shape.endpoint = "connect"
<1>1. At(r, step) /\ Reads /\ step \in Seeks /\ (new => NewNodes # {})
  BY DEF End, Seeks
<1> DEFINE own(n) == IF new THEN {n} ELSE {}
           adds(n) == IF h.shape.endpoint # "update" THEN {}
                      ELSE NewProps(n, Keys) \cup (IF new THEN {NewNode(n, "entity", label)} ELSE {})
           k(n) == [h EXCEPT !.ends = Append(@, n), !.own = @ \cup own(n), !.plan = @ \cup adds(n)]
<1>4. PICK n \in IF new THEN {uid(NewNodes)} ELSE Matches(label) : Continue(r, k(n))
  BY Zenon DEF End
<1> DEFINE g == [k(n) EXCEPT !.at = @ + 1]
<1>5. h.shape \in Shapes /\ label \in Labels
  BY <1>2, <1>3, EndLabels DEF Handler
<1>6. /\ NewNodes \subseteq NodeIds /\ NodeIds \subseteq Owners
      /\ \A id \in NewNodes : id \notin h.own /\ Unused(id, db, cache, deleted)
  BY <1>2, NewIds DEF NewNodes, Owners
<1>7. /\ new => n \in NewNodes /\ ~HasLabel(db, label, Excused)
      /\ ~new => HasNode(db, n)
      /\ n \in NodeIds
  BY <1>1, <1>2, <1>4, <1>5, <1>6, MatchesStored, UidIn
<1>8. /\ h.ends \in Seq(NodeIds) /\ Len(h.ends) = i - 1 /\ DOMAIN h.ends = 1..(i - 1)
  BY <1>2, <1>3 DEF Preparing, InScript, Handler
<1>9. /\ Append(h.ends, n) \in Seq(NodeIds) /\ Len(Append(h.ends, n)) = i
      /\ DOMAIN Append(h.ends, n) = 1..i
      /\ Append(h.ends, n)[i] = n
      /\ \A j \in DOMAIN h.ends : Append(h.ends, n)[j] = h.ends[j]
  BY <1>7, <1>8
<1>10. /\ \A m \in adds(n) : m \in Creations /\ m.op # "CreateLink"
       /\ \A m \in Nodes(adds(n)) : ~connects /\ new /\ m.id = n /\ m.rec.label = label
       /\ ~connects /\ new => \E m \in Nodes(adds(n)) : m.id = n
       /\ \A m, l \in Nodes(adds(n)) : m = l
  <2>1. LET m == NewNode(n, "entity", label) IN
          m \in Creations /\ m.op = "CreateNode" /\ m.id = n /\ m.rec.label = label
    BY <1>5, <1>7, NewNodeFields, KindsAssumption
  <2>2. \A m \in NewProps(n, Keys) : m \in Creations /\ m.op = "SetProperty"
    BY <1>6, <1>7, NewPropsFields
  <2> HIDE DEF h, label, new
  <2> QED
    BY <1>3, <2>1, <2>2 DEF Nodes
<1> HIDE DEF label, adds, new
<1>11. k(n) \in Handler
  <2>1. own(n) \subseteq Owners /\ adds(n) \subseteq Creations
    BY <1>6, <1>7, <1>10
  <2> HIDE DEF own
  <2> QED
    BY <1>2, <1>9, <2>1 DEF Handler
<1>12. /\ k(n).shape = h.shape /\ k(n).at = h.at /\ k(n).ends = Append(h.ends, n) /\ k(n).turn = h.turn
       /\ k(n).own = h.own \cup own(n) /\ k(n).plan = h.plan \cup adds(n)
       /\ k(n).twice = h.twice /\ k(n).embeds = h.embeds /\ k(n).shifts = h.shifts /\ k(n).ids = h.ids
  BY <1>2 DEF Handler
<1> HIDE DEF k
<1>13. /\ g.shape = h.shape /\ g.at = h.at + 1 /\ g.ends = Append(h.ends, n) /\ g.turn = h.turn
       /\ g.own = h.own \cup own(n) /\ g.plan = h.plan \cup adds(n)
       /\ g.twice = h.twice /\ g.embeds = h.embeds /\ g.shifts = h.shifts /\ g.ids = h.ids
  BY <1>11, <1>12, NextFields
<1> HIDE DEF g
<1>14. /\ DOMAIN g.ends = 1..i /\ g.ends[i] = n /\ \A j \in DOMAIN h.ends : g.ends[j] = h.ends[j]
       /\ \A j \in DOMAIN g.ends : j = i \/ j \in DOMAIN h.ends
       /\ i \in DOMAIN g.ends /\ DOMAIN h.ends \subseteq DOMAIN g.ends
       /\ Range(h.ends) \subseteq Range(g.ends)
  <2>1. i \in {1, 2}
    OBVIOUS
  <2> QED
    BY <1>8, <1>9, <1>13, <2>1 DEF Range
<1>15. /\ Nodes(g.plan) = Nodes(h.plan) \cup Nodes(adds(n))
       /\ LinksIn(g.plan) = LinksIn(h.plan)
  BY <1>10, <1>13 DEF Nodes, LinksIn
<1>16. PlansNodes(h, deleted) /\ Grounded(h, db, deleted) /\ Sourced(h)
  BY <1>2 DEF Preparing
\* No node that was there before is the new one.
<1>17. new => /\ \A m \in Nodes(h.plan) : m.id # n
              /\ \A j \in DOMAIN h.ends : h.ends[j] # n
  <2> SUFFICES ASSUME new PROVE /\ \A m \in Nodes(h.plan) : m.id # n
                                /\ \A j \in DOMAIN h.ends : h.ends[j] # n
    OBVIOUS
  <2>1. n \notin h.own /\ n \notin deleted /\ ~HasNode(db, n)
    BY <1>6, <1>7 DEF Unused
  <2>2. \A m \in Nodes(h.plan) : m.id # n
    BY <1>16, <2>1 DEF PlansNodes
  <2>3. ASSUME NEW j \in DOMAIN h.ends PROVE h.ends[j] # n
    <3>1. h.ends[j] \in Met(h)
      BY DEF Met, Range
    <3> QED
      BY <1>16, <2>1, <2>2, <3>1 DEF Grounded
  <2> QED
    BY <2>2, <2>3
<1>18. PlansNodes(g, deleted)
  BY <1>10, <1>13, <1>14, <1>15, <1>16, <1>17 DEF PlansNodes
<1>19. PlansLinks(g, db, deleted)
  BY <1>2, <1>13, <1>15 DEF Preparing, PlansLinks
<1>20. Grounded(g, db, deleted)
  <2> SUFFICES ASSUME NEW x \in Met(g)
               PROVE \/ x \in deleted \/ HasNode(db, x)
                     \/ \E m \in Nodes(g.plan) : m.id = x
                     \/ x \in g.own /\ Unchecked(g, x)
    BY DEF Grounded
  <2>1. x \in Met(h) \/ x = n
    BY <1>13, <1>14 DEF Met, Mapped, Range
  <2>2. CASE x \in Met(h)
    <3>1. CASE x \in h.own /\ Unchecked(h, x)
      <4>1. PICK j \in DOMAIN h.ends : h.ends[j] = x
        BY <3>1 DEF Unchecked
      <4>2. connects /\ g.ends[j] = x /\ j = 1 /\ g.at <= j + 2
        BY <1>3, <1>8, <1>13, <1>14, <3>1, <4>1 DEF Unchecked
      <4>3. Unchecked(g, x)
        BY <1>13, <1>14, <4>1, <4>2 DEF Unchecked
      <4> QED
        BY <1>13, <3>1, <4>3
    <3> QED
      BY <1>15, <1>16, <2>2, <3>1 DEF Grounded
  <2>3. CASE x = n
    <3>1. CASE ~new
      BY <1>7, <2>3, <3>1
    <3>2. CASE new /\ connects
      <4>1. Unchecked(g, n)
        <5>1. g.at <= i + 2
          BY <1>3, <1>13
        <5> QED
          BY <1>13, <1>14, <3>2, <5>1 DEF Unchecked
      <4> QED
        BY <1>13, <2>3, <3>2, <4>1
    <3>3. CASE new /\ ~connects
      BY <1>10, <1>15, <2>3, <3>3
    <3> QED
      BY <3>1, <3>2, <3>3
  <2> QED
    BY <2>1, <2>2, <2>3
<1>21. \A m \in NewEntities(g.plan) : m \in NewEntities(h.plan) \/ m \in Nodes(adds(n))
  BY <1>15 DEF NewEntities
<1>22. Sourced(g)
  <2> SUFFICES ASSUME NEW m \in NewEntities(g.plan)
               PROVE \E j \in DOMAIN g.ends : m.id = g.ends[j] /\ m.rec.label = g.shape.ends[j]
    BY <1>3, <1>13 DEF Sourced
  <2>1. CASE m \in NewEntities(h.plan)
    BY <1>3, <1>13, <1>14, <1>16, <2>1 DEF Sourced
  <2>2. CASE m \in Nodes(adds(n))
    BY <1>10, <1>13, <1>14, <2>2 DEF label
  <2> QED
    BY <1>21, <2>1, <2>2
<1>23. Unmet(h, db, deleted, Excused) => Unmet(g, db, deleted, Excused)
  <2> SUFFICES ASSUME Unmet(h, db, deleted, Excused) PROVE Unmet(g, db, deleted, Excused)
    OBVIOUS
  <2>1. \A m \in NewEntities(g.plan) : m.id \in deleted \/ ~HasLabel(db, m.rec.label, Excused)
    BY <1>3, <1>7, <1>10, <1>21 DEF Unmet
  <2>2. ASSUME connects, NEW j \in DOMAIN g.ends, g.ends[j] \in g.own
        PROVE  ~HasLabel(db, h.shape.ends[j], Excused)
    <3>1. CASE j \in DOMAIN h.ends /\ h.ends[j] \in h.own
      BY <2>2, <3>1 DEF Unmet
    <3>2. CASE j \in DOMAIN h.ends /\ h.ends[j] \notin h.own
      BY <1>13, <1>14, <1>17, <2>2, <3>2
    <3>3. CASE j = i /\ new
      BY <1>7, <3>3 DEF label
    <3>4. CASE j = i /\ ~new
      <4>1. n \in h.own
        BY <1>13, <1>14, <2>2, <3>4
      <4>2. Unused(n, db, cache, deleted)
        BY <1>2, <4>1 DEF IInv, Owned
      <4> QED
        BY <1>7, <3>4, <4>2 DEF Unused
    <3> QED
      BY <1>14, <3>1, <3>2, <3>3, <3>4
  <2> QED
    BY <1>13, <2>1, <2>2 DEF Unmet
<1>24. PlansEmbeds(g)
  BY <1>2, <1>13, <1>15 DEF Preparing, PlansEmbeds
<1>25. TurnKnown(g)
  BY <1>2, <1>3, <1>13 DEF Preparing, TurnKnown
<1>26. InScript(g)
  BY <1>3, <1>9, <1>13 DEF InScript
<1>27. Preparing(g, db, deleted)
  BY <1>18, <1>19, <1>20, <1>22, <1>24, <1>25, <1>26 DEF Preparing
<1>28. \A id \in k(n).own : id \in h.own \/ id \in NewNodes \cup NewLinks
  BY <1>7, <1>12
<1>29. g = [k(n) EXCEPT !.at = @ + 1]
  BY DEF g
<1> QED
  BY <1>1, <1>4, <1>11, <1>12, <1>23, <1>27, <1>28, <1>29, StepOn

-----------------------------------------------------------------------------
(* What one get_node caches, and one PATCH writes *)

\* Tables e and maps f are d and c, but for what nodes of ren have in their columns,
\* and stored nodes that are cached now.
Touched(d, c, ren, e, f) ==
  /\ e \in Tables /\ f \in Caches
  /\ e.link = d.link /\ f.link = c.link
  /\ \A n \in NodeIds :
       /\ HasNode(e, n) <=> HasNode(d, n)
       /\ HasNode(d, n) => e.node[n].type = d.node[n].type
       /\ n \in ren \/ e.node[n] = d.node[n]
       /\ HasNode(c, n) => f.node[n] = c.node[n]
       /\ HasNode(f, n) /\ ~HasNode(c, n) => f.node[n] = d.node[n]

LEMMA TouchedRequests ==
  ASSUME NEW d, NEW c \in Caches, NEW ren, NEW e, NEW f, Touched(d, c, ren, e, f), NEW gone
  PROVE  /\ \A h \in Handler : Preparing(h, d, gone) => Preparing(h, e, gone)
         /\ \A h \in Handler : \A but, more :
              Unmet(h, d, gone, but) /\ but \cup ren \subseteq more => Unmet(h, e, gone, more)
         /\ \A h \in Handler : \A off, old :
              Answering(h, d, c, gone, off, old) /\ old \subseteq ren
                => Answering(h, e, f, gone, off, ren)
         /\ \A id : Unused(id, d, c, gone) => Unused(id, e, f, gone)
<1>1. ASSUME NEW h \in Handler, Preparing(h, d, gone) PROVE Preparing(h, e, gone)
  <2>1. PlansLinks(h, e, gone)
    <3> SUFFICES ASSUME NEW m \in LinksIn(h.plan), NEW n \in {m.rec.from, m.rec.to}
                 PROVE  n \in h.own \cup gone \cup TurnIds \/ HasNode(e, n)
      BY <1>1 DEF Preparing, PlansLinks
    <3>1. m \in CreateLinkOp
      BY <1>1 DEF LinksIn, Handler, Creations, CreateNodeOp, SetPropertyOp
    <3>2. n \in NodeIds
      BY <3>1 DEF CreateLinkOp, LinkRec
    <3> QED
      BY <1>1, <3>2 DEF Preparing, PlansLinks, Touched
  <2>2. Grounded(h, e, gone)
    <3> SUFFICES ASSUME NEW n \in Met(h)
                 PROVE  \/ n \in gone \/ HasNode(e, n)
                        \/ \E m \in Nodes(h.plan) : m.id = n
                        \/ n \in h.own /\ Unchecked(h, n)
      BY DEF Grounded
    <3>1. n \in NodeIds
      BY <1>1 DEF Met, Mapped, Range, Handler
    <3> QED
      BY <1>1, <3>1 DEF Preparing, Grounded, Touched
  <2> QED
    BY <1>1, <2>1, <2>2 DEF Preparing
<1>2. ASSUME NEW h \in Handler, NEW but, NEW more, Unmet(h, d, gone, but), but \cup ren \subseteq more
      PROVE  Unmet(h, e, gone, more)
  <2>1. \A x : HasLabel(e, x, more) => HasLabel(d, x, but)
    BY <1>2 DEF HasLabel, Touched
  <2> QED
    BY <1>2, <2>1 DEF Unmet
<1>3. ASSUME NEW h \in Handler, NEW off, NEW old, Answering(h, d, c, gone, off, old), old \subseteq ren
      PROVE  Answering(h, e, f, gone, off, ren)
  <2>1. ASSUME NEW m \in h.plan, Involved(m) \cap gone = {}
        PROVE  Stays(m, e, ren) /\ (m.op = "CreateNode" => f.node[m.id] = m.rec)
    <3>1. Stays(m, d, old) /\ (m.op = "CreateNode" => c.node[m.id] = m.rec)
      BY <1>3, <2>1 DEF Answering
    <3>2. m \in CreateNodeOp \cup CreateLinkOp
      BY <1>3 DEF Answering
    <3>3. m.op = "CreateNode" => m.id \in NodeIds /\ m.rec # Absent
      BY <3>2, AbsentAssumption DEF CreateNodeOp, CreateLinkOp
    <3> QED
      BY <1>3, <3>1, <3>3 DEF Stays, Touched, HasNode
  <2>2. ASSUME NEW p \in h.embeds
        PROVE  p[1] \in gone \cup off \cup ren \/ (HasNode(e, p[1]) /\ e.node[p[1]].label = p[2])
    <3>1. p[1] \in NodeIds
      BY DEF Handler
    <3> QED
      BY <1>3, <3>1 DEF Answering, Touched
  <2> QED
    BY <1>3, <2>1, <2>2 DEF Answering
<1>4. ASSUME NEW id, Unused(id, d, c, gone) PROVE Unused(id, e, f, gone)
  BY <1>4 DEF Unused, Touched, HasNode, HasLink
<1> QED
  BY <1>1, <1>2, <1>3, <1>4

\* A request may go on to a state that would do with the tables as they were.
LEMMA TouchStep ==
  ASSUME IInv, Touched(db, cache, renamed', db', cache'),
         renamed' \in SUBSET NodeIds, renamed \subseteq renamed',
         cached_vectors' \in [NodeIds -> Labels \cup {Absent}],
         UNCHANGED <<stored_vectors, index, deleted, owed, shifted, overtaken, raced, missed>>,
         req' \in [Requests -> Handler \cup {Waiting, Done}],
         \A q \in Requests : Running(q)' <=> Running(q),
         \A q \in Requests : Running(q) =>
           \/ req'[q] = req[q]
           \/ /\ req'[q].own = req[q].own
              /\ req'[q].at \in 1..Len(Todo(req'[q])) /\ Unwritten(req'[q])
              /\ Preparing(req'[q], db, deleted)
              /\ q \in overtaken \/ Unmet(req'[q], db, deleted, Excused)
  PROVE  IInv'
<1>1. cache \in Caches /\ db \in Tables
  BY DEF IInv, TypeOK
<1>2. /\ \A h \in Handler : Preparing(h, db, deleted) => Preparing(h, db', deleted)
      /\ \A h \in Handler : \A but, more :
           Unmet(h, db, deleted, but) /\ but \cup renamed' \subseteq more => Unmet(h, db', deleted, more)
      /\ \A h \in Handler : \A off, old :
           Answering(h, db, cache, deleted, off, old) /\ old \subseteq renamed'
             => Answering(h, db', cache', deleted, off, renamed')
      /\ \A id : Unused(id, db, cache, deleted) => Unused(id, db', cache', deleted)
  BY <1>1, TouchedRequests, Zenon
<1>3. \A q \in Requests : Running(q) => req[q] \in Handler /\ req'[q] \in Handler
  BY RunningHandler DEF IInv, Running
<1>4. TypeOK'
  BY DEF IInv, TypeOK, Touched
<1>5. Owned'
  <2> SUFFICES ASSUME NEW r \in Requests, Running(r)', NEW id \in req'[r].own
               PROVE  /\ Unused(id, db', cache', deleted)
                      /\ \A q \in Requests \ {r} : Running(q)' => id \notin req'[q].own
    BY DEF Owned
  <2>1. \A q \in Requests : Running(q) => req'[q].own = req[q].own
    OBVIOUS
  <2> QED
    BY <1>2, <2>1 DEF IInv, Owned
<1>6. ASSUME NEW q \in Requests, Running(q)' PROVE OneRequest(q, req[q])'
  <2>1. Running(q) /\ OneRequest(q, req[q]) /\ req'[q] \in Handler
    BY <1>3, <1>6 DEF IInv
  <2>2. Excused' = raced \cup renamed' /\ Excused \cup renamed' \subseteq Excused'
    BY DEF Excused
  <2>3. CASE Unwritten(req'[q]) /\ req'[q].at \in 1..Len(Todo(req'[q])) /\ Preparing(req'[q], db, deleted)
             /\ (q \in overtaken \/ Unmet(req'[q], db, deleted, Excused))
    <3>1. Preparing(req'[q], db', deleted) /\ (q \in overtaken \/ Unmet(req'[q], db', deleted, Excused'))
      BY <1>2, <2>1, <2>2, <2>3
    <3> QED
      BY <2>3, <3>1 DEF OneRequest
  <2>4. CASE ~Unwritten(req[q]) /\ req'[q] = req[q]
    <3>1. /\ req[q].at \in 1..Len(Todo(req[q])) /\ q \notin overtaken
          /\ Answering(req[q], db, cache, deleted, shifted, renamed)
      BY <2>1, <2>4 DEF OneRequest
    <3>2. Answering(req'[q], db', cache', deleted, shifted, renamed')
      BY <1>2, <2>1, <2>4, <3>1
    <3> QED
      BY <2>4, <3>1, <3>2 DEF OneRequest
  <2>5. Unwritten(req[q]) =>
          /\ req[q].at \in 1..Len(Todo(req[q])) /\ Preparing(req[q], db, deleted)
          /\ q \in overtaken \/ Unmet(req[q], db, deleted, Excused)
    BY <2>1 DEF OneRequest
  <2> QED
    BY <2>1, <2>3, <2>4, <2>5
<1>7. NodesCached'
  BY DEF IInv, NodesCached, Touched, HasNode
<1>8. LinksAgree'
  BY DEF IInv, LinksAgree, Touched, HasLink
<1>9. PhantomLinksExplained'
  <2> SUFFICES ASSUME NEW l \in LinkIds, HasLink(cache', l), ~HasLink(db', l)
               PROVE  \E end \in {cache'.link[l].from, cache'.link[l].to} :
                        ~HasNode(db', end) \/ end \in deleted \/ end \in TurnIds
    BY DEF PhantomLinksExplained
  <2>1. HasLink(cache, l) /\ ~HasLink(db, l) /\ cache'.link[l] = cache.link[l]
    BY DEF Touched, HasLink
  <2>2. cache.link[l].from \in NodeIds /\ cache.link[l].to \in NodeIds
    BY <1>1, <2>1 DEF Caches, LinkMap, LinkRec, HasLink
  <2> QED
    BY <2>1, <2>2 DEF IInv, PhantomLinksExplained, Touched
<1>10. IndexBacked'
  <2>1. \A n \in NodeIds : \A x : Backed(n, x) => Backed(n, x)'
    BY DEF Backed, Touched, HasNode
  <2> QED
    BY <1>1, <2>1 DEF IInv, IndexBacked
<1>11. OwedKept'
  <2> SUFFICES ASSUME NEW m \in owed
               PROVE  /\ Involved(m) \cap deleted = {}
                      /\ Stays(m, db', renamed')
                      /\ m.op = "CreateNode" => m.id \in missed \/ Listed(m.id)'
    BY DEF OwedKept
  <2>1. /\ Involved(m) \cap deleted = {}
        /\ Stays(m, db, renamed)
        /\ m.op = "CreateNode" => m.id \in missed \/ Listed(m.id)
    BY DEF IInv, OwedKept
  <2>2. m \in CreateNodeOp \cup CreateLinkOp
    BY DEF IInv, TypeOK
  <2>3. m.op = "CreateNode" => m.id \in NodeIds
    BY <2>2 DEF CreateNodeOp, CreateLinkOp
  <2>4. Stays(m, db', renamed')
    BY <2>1, <2>3 DEF Stays, Touched
  <2>5. m.op = "CreateNode" /\ Listed(m.id) => Listed(m.id)'
    BY <2>3 DEF Listed, Touched, HasNode
  <2> QED
    BY <2>1, <2>4, <2>5
<1>12. EmbeddingsInStep'
  BY DEF IInv, EmbeddingsInStep, Touched
<1>13. DuplicatesExplained'
  BY DEF IInv, DuplicatesExplained, SameEntity, Touched
<1>14. (missed \subseteq raced)'
  BY DEF IInv
<1> QED
  BY <1>4, <1>5, <1>6, <1>7, <1>8, <1>9, <1>10, <1>11, <1>12, <1>13, <1>14 DEF IInv

LEMMA FetchTouches ==
  ASSUME TypeOK, NEW n \in NodeIds, Fetch(n)
  PROVE  /\ Touched(db, cache, {}, db, cache')
         /\ cached_vectors' \in [NodeIds -> Labels \cup {Absent}]
<1>1. db \in Tables /\ cache \in Caches
  BY DEF TypeOK
<1>2. CASE HasNode(cache, n)
  BY <1>1, <1>2 DEF Fetch, Touched, TypeOK
<1>3. CASE ~HasNode(cache, n)
  <2>1. cache' = [cache EXCEPT !.node[n] = db.node[n]]
    BY <1>3 DEF Fetch
  <2>2. cached_vectors' \in [NodeIds -> Labels \cup {Absent}]
    BY <1>3 DEF Fetch, TypeOK
  <2>3. db.node[n] \in NodeRec \cup {Absent}
    BY <1>1 DEF Tables, NodeMap
  <2>4. /\ cache' \in Caches /\ cache'.link = cache.link
        /\ \A m \in NodeIds : cache'.node[m] = IF m = n THEN db.node[n] ELSE cache.node[m]
    BY <1>1, <2>1, <2>3 DEF Caches, NodeMap
  <2> QED
    BY <1>1, <1>3, <2>2, <2>4 DEF Touched, HasNode
<1> QED
  BY <1>2, <1>3

LEMMA GetNodeStep ==
  ASSUME IInv, NEW n \in NodeIds, GetNode(n)
  PROVE  IInv'
<1>1. /\ Fetch(n)
      /\ UNCHANGED <<db, stored_vectors, index, req, deleted, owed, shifted, overtaken, raced,
                     renamed, missed>>
  BY DEF GetNode, histories
<1>2. Touched(db, cache, {}, db, cache') /\ cached_vectors' \in [NodeIds -> Labels \cup {Absent}]
  BY <1>1, FetchTouches DEF IInv
<1>3. Touched(db, cache, renamed', db', cache')
  BY <1>1, <1>2 DEF Touched
<1>4. /\ renamed' \in SUBSET NodeIds /\ req' \in [Requests -> Handler \cup {Waiting, Done}]
      /\ \A q \in Requests : Running(q)' <=> Running(q)
  BY <1>1 DEF IInv, TypeOK, Running
<1> QED
  BY <1>1, <1>2, <1>3, <1>4, TouchStep

LEMMA UpdateEntityStep ==
  ASSUME IInv, NEW n \in NodeIds, UpdateEntity(n)
  PROVE  IInv'
<1>1. /\ Fetch(n) /\ renamed' = IF db'.node = db.node THEN renamed ELSE renamed \cup {n}
      /\ UNCHANGED <<stored_vectors, index, req, deleted, owed, shifted, overtaken, raced, missed>>
  BY DEF UpdateEntity
<1>2. PICK x \in Labels, tags \in SUBSET Tags, keys \in SUBSET Keys :
        db' = [DbSetColumns(db, n, x, tags) EXCEPT !.prop = @ \cup ({n} \X keys)]
  BY Zenon DEF UpdateEntity
<1>3. Touched(db, cache, {}, db, cache') /\ cached_vectors' \in [NodeIds -> Labels \cup {Absent}]
  BY <1>1, FetchTouches DEF IInv
<1>4. db \in Tables
  BY DEF IInv, TypeOK
<1> DEFINE set == DbSetColumns(db, n, x, tags)
<1>5. /\ set \in Tables /\ set.link = db.link
      /\ \A m \in NodeIds \ {n} : set.node[m] = db.node[m]
      /\ HasNode(set, n) <=> HasNode(db, n)
      /\ HasNode(db, n) => set.node[n].type = db.node[n].type
  <2>1. CASE HasNode(db, n)
    <3> DEFINE rec == [db.node[n] EXCEPT !.label = x, !.tags = tags]
    <3>1. db.node[n] \in NodeRec
      BY <1>4, <2>1 DEF Tables, NodeMap, HasNode
    <3>2. rec \in NodeRec /\ rec.type = db.node[n].type
      BY <3>1 DEF NodeRec
    <3>3. rec # Absent
      BY <3>2, AbsentAssumption
    <3>4. set = [db EXCEPT !.node[n] = rec]
      BY <2>1 DEF DbSetColumns
    <3> HIDE DEF rec, set
    <3> QED
      BY <1>4, <2>1, <3>2, <3>3, <3>4 DEF Tables, NodeMap, HasNode
  <2>2. CASE ~HasNode(db, n)
    BY <1>4, <2>2 DEF DbSetColumns
  <2> QED
    BY <2>1, <2>2
<1> HIDE DEF set
<1>6. db' = [set EXCEPT !.prop = @ \cup ({n} \X keys)]
  BY <1>2 DEF set
<1>7. db' \in Tables /\ db'.node = set.node /\ db'.link = set.link
  BY <1>5, <1>6 DEF Tables, Owners
<1>8. Touched(db, cache, renamed', db', cache')
  <2>1. \A m \in NodeIds : m \in renamed' \/ db'.node[m] = db.node[m]
    BY <1>1, <1>5, <1>7
  <2>2. \A m \in NodeIds : /\ HasNode(db', m) <=> HasNode(db, m)
                           /\ HasNode(db, m) => db'.node[m].type = db.node[m].type
    BY <1>5, <1>7 DEF HasNode
  <2> QED
    BY <1>3, <1>5, <1>7, <2>1, <2>2 DEF Touched
<1>9. /\ renamed' \in SUBSET NodeIds /\ renamed \subseteq renamed'
      /\ req' \in [Requests -> Handler \cup {Waiting, Done}]
      /\ \A q \in Requests : Running(q)' <=> Running(q)
  BY <1>1 DEF IInv, TypeOK, Running
<1> QED
  BY <1>1, <1>3, <1>8, <1>9, TouchStep

\* A request goes on to a state that would do with the tables and maps as they were.
LEMMA FetchStepOn ==
  ASSUME IInv, NEW r \in Requests, NEW step \in Seeks, At(r, step),
         NEW n \in NodeIds, Fetch(n), UNCHANGED <<db, stored_vectors, index, histories>>,
         NEW k \in Handler, k.shape = req[r].shape, k.at = req[r].at, Continue(r, k),
         k.own = req[r].own,
         NEW g, g = [k EXCEPT !.at = @ + 1], Preparing(g, db, deleted),
         Unmet(req[r], db, deleted, Excused) => Unmet(g, db, deleted, Excused)
  PROVE  IInv'
<1>1. /\ req[r] \in Handler /\ Running(r)
      /\ r \in overtaken \/ Unmet(req[r], db, deleted, Excused)
  BY Seeking
<1>2. g \in Handler
  BY Advanced
<1>3. g.shape = k.shape /\ g.at = k.at + 1 /\ g.own = k.own
  BY DEF Handler
<1>4. req' = [req EXCEPT ![r] = g]
  BY DEF Continue
<1>5. g.at \in 1..Len(Todo(g)) /\ Unwritten(g)
  BY <1>2, <1>3, Seeking
<1>6. UNCHANGED <<db, stored_vectors, index, deleted, owed, shifted, overtaken, raced, renamed, missed>>
  BY DEF histories
<1>7. Touched(db, cache, {}, db, cache') /\ cached_vectors' \in [NodeIds -> Labels \cup {Absent}]
  BY FetchTouches DEF IInv
<1>8. Touched(db, cache, renamed', db', cache')
  BY <1>6, <1>7 DEF Touched
<1>9. /\ req \in [Requests -> Handler \cup {Waiting, Done}] /\ renamed \in SUBSET NodeIds
  BY DEF IInv, TypeOK
<1>10. /\ req' \in [Requests -> Handler \cup {Waiting, Done}]
       /\ req'[r] = g /\ \A q \in Requests \ {r} : req'[q] = req[q]
  BY <1>2, <1>4, <1>9
<1>11. \A q \in Requests : Running(q)' <=> Running(q)
  BY <1>1, <1>2, <1>10, HandlerRuns DEF Running
<1>12. \A q \in Requests : Running(q) =>
         \/ req'[q] = req[q]
         \/ /\ req'[q].own = req[q].own
            /\ req'[q].at \in 1..Len(Todo(req'[q])) /\ Unwritten(req'[q])
            /\ Preparing(req'[q], db, deleted)
            /\ q \in overtaken \/ Unmet(req'[q], db, deleted, Excused)
  BY <1>1, <1>3, <1>5, <1>10
<1> QED
  BY <1>6, <1>7, <1>8, <1>9, <1>10, <1>11, <1>12, TouchStep

LEMMA CheckStep ==
  ASSUME IInv, NEW r \in Requests, NEW step, NEW i, Check(r, step, i),
         (step = "checkfrom" /\ i = 1) \/ (step = "checkto" /\ i = 2)
  PROVE  IInv'
<1> DEFINE h == req[r]
           n == h.ends[i]
           made == NewNode(n, "entity", h.shape.ends[i])
           adds == IF Known(n) THEN {} ELSE {made}
           k == IF Known(n) THEN h
                ELSE [h EXCEPT !.plan = @ \cup {made}, !.twice = @ \/ \E m \in h.plan : m.id = n]
           g == [k EXCEPT !.at = @ + 1]
<1>1. /\ At(r, step) /\ step \in Seeks /\ Continue(r, k) /\ Fetch(n)
      /\ UNCHANGED <<db, stored_vectors, index, histories>>
  BY DEF Check, Seeks
<1>2. /\ TypeOK /\ NodesCached /\ missed \subseteq raced /\ Running(r)
      /\ h \in Handler /\ h.at \in 1..Len(Todo(h)) /\ Todo(h)[h.at] = step
      /\ Preparing(h, db, deleted)
  BY <1>1, Seeking
<1>3. h.shape.endpoint = "connect" /\ h.at = i + 2
  <2>1. At(r, step)
    BY <1>1
  <2> QED
    BY <2>1, SeekingScope
<1>4. h.ends \in Seq(NodeIds) /\ Len(h.ends) = 2 /\ DOMAIN h.ends = 1..2 /\ n \in NodeIds /\ n \in Range(h.ends)
  <2>1. h.at # 1 /\ h.at # 2 /\ InScript(h)
    BY <1>2, <1>3 DEF Preparing
  <2>2. Len(h.ends) = 2
    BY <1>3, <2>1 DEF InScript
  <2>3. h.ends \in Seq(NodeIds)
    BY <1>2 DEF Handler
  <2> QED
    BY <2>2, <2>3 DEF Range
<1>5. h.shape \in Shapes /\ h.shape.ends[i] \in Labels
  BY <1>2, <1>3, EndLabels DEF Handler
<1>6. made \in Creations /\ made.op = "CreateNode" /\ made.id = n /\ made.rec.label = h.shape.ends[i]
  BY <1>4, <1>5, NewNodeFields, KindsAssumption
<1> HIDE DEF made
<1>7. k \in Handler
  <2>1. (h.twice \/ \E m \in h.plan : m.id = n) \in BOOLEAN
    BY <1>2 DEF Handler
  <2> QED
    BY <1>2, <1>6, <2>1 DEF Handler
<1>8. /\ k.shape = h.shape /\ k.at = h.at /\ k.ends = h.ends /\ k.turn = h.turn
      /\ k.own = h.own /\ k.plan = h.plan \cup adds
      /\ k.embeds = h.embeds /\ k.shifts = h.shifts /\ k.ids = h.ids
  BY <1>2 DEF Handler
<1>9. /\ h.twice => k.twice
      /\ ~Known(n) /\ (\E m \in h.plan : m.id = n) => k.twice
  BY <1>2 DEF Handler
<1> HIDE DEF k
<1>10. /\ g.shape = h.shape /\ g.at = h.at + 1 /\ g.ends = h.ends /\ g.turn = h.turn
       /\ g.own = h.own /\ g.plan = h.plan \cup adds
       /\ g.embeds = h.embeds /\ g.shifts = h.shifts /\ g.ids = h.ids
       /\ g.twice = k.twice
  BY <1>7, <1>8, NextFields
<1> HIDE DEF g
<1>11. /\ Nodes(g.plan) = Nodes(h.plan) \cup adds
       /\ LinksIn(g.plan) = LinksIn(h.plan)
       /\ \A m \in adds : m = made /\ ~Known(n)
       /\ ~Known(n) => made \in adds
  BY <1>6, <1>10 DEF Nodes, LinksIn
<1> HIDE DEF adds
<1>12. PlansNodes(h, deleted) /\ Grounded(h, db, deleted) /\ Sourced(h)
  BY <1>2 DEF Preparing
<1>13. \A id \in h.own : Unused(id, db, cache, deleted)
  BY <1>2 DEF IInv, Owned
\* What is not there is new or was deleted.
<1>14. ~Known(n) => n \in h.own \/ n \in deleted
  <2>1. n \in Met(h)
    BY <1>4 DEF Met
  <2> QED
    BY <1>12, <2>1 DEF Grounded, PlansNodes, Known
<1>15. PlansNodes(g, deleted)
  <2>1. g.twice \/ \A m, l \in Nodes(g.plan) : m.id = l.id => m = l
    <3> SUFFICES ASSUME ~g.twice, NEW m \in Nodes(g.plan), NEW l \in Nodes(g.plan), m.id = l.id
                 PROVE  m = l
      OBVIOUS
    <3>1. \A x, y \in Nodes(h.plan) : x.id = y.id => x = y
      BY <1>9, <1>10, <1>12 DEF PlansNodes
    <3>2. \A x \in adds : \A y \in Nodes(h.plan) : x.id # y.id
      BY <1>6, <1>9, <1>10, <1>11 DEF Nodes
    <3> QED
      BY <1>11, <3>1, <3>2
  <2> QED
    BY <1>3, <1>4, <1>6, <1>10, <1>11, <1>12, <1>14, <2>1 DEF PlansNodes
<1>16. PlansLinks(g, db, deleted)
  BY <1>2, <1>10, <1>11 DEF Preparing, PlansLinks
<1>17. Grounded(g, db, deleted)
  <2> SUFFICES ASSUME NEW x \in Met(g)
               PROVE \/ x \in deleted \/ HasNode(db, x)
                     \/ \E m \in Nodes(g.plan) : m.id = x
                     \/ x \in g.own /\ Unchecked(g, x)
    BY DEF Grounded
  <2>1. x \in Met(h)
    BY <1>10 DEF Met, Mapped
  <2>2. CASE x \in h.own /\ Unchecked(h, x)
    <3>1. PICK j \in DOMAIN h.ends : h.ends[j] = x /\ h.at <= j + 2
      BY <2>2 DEF Unchecked
    <3>2. CASE j = i
      <4>1. ~Known(n)
        BY <1>4, <1>13, <2>2, <3>1, <3>2 DEF Unused, Known
      <4> QED
        BY <1>6, <1>11, <3>1, <3>2, <4>1
    <3>3. CASE j # i
      <4>1. g.at <= j + 2
        BY <1>3, <1>4, <1>10, <3>1, <3>3
      <4> QED
        BY <1>3, <1>10, <2>2, <3>1, <4>1 DEF Unchecked
    <3> QED
      BY <3>2, <3>3
  <2> QED
    BY <1>11, <1>12, <2>1, <2>2 DEF Grounded
<1>18. \A m \in NewEntities(g.plan) : m \in NewEntities(h.plan) \/ (m = made /\ ~Known(n))
  BY <1>11 DEF NewEntities
<1>19. Sourced(g)
  <2> SUFFICES ASSUME NEW m \in NewEntities(g.plan)
               PROVE \E j \in DOMAIN g.ends : m.id = g.ends[j] /\ m.rec.label = g.shape.ends[j]
    BY <1>3, <1>10 DEF Sourced
  <2>1. CASE m \in NewEntities(h.plan)
    BY <1>3, <1>10, <1>12, <2>1 DEF Sourced
  <2>2. CASE m = made
    BY <1>4, <1>6, <1>10, <2>2
  <2> QED
    BY <1>18, <2>1, <2>2
<1>20. Unmet(h, db, deleted, Excused) => Unmet(g, db, deleted, Excused)
  <2> SUFFICES ASSUME Unmet(h, db, deleted, Excused) PROVE Unmet(g, db, deleted, Excused)
    OBVIOUS
  <2>1. ASSUME NEW m \in NewEntities(g.plan)
        PROVE  m.id \in deleted \/ ~HasLabel(db, m.rec.label, Excused)
    <3>1. CASE m \in NewEntities(h.plan)
      BY <1>3, <3>1 DEF Unmet
    <3>2. CASE m = made /\ ~Known(n)
      BY <1>3, <1>4, <1>6, <1>14, <3>2 DEF Unmet
    <3> QED
      BY <1>18, <3>1, <3>2
  <2> QED
    BY <1>3, <1>10, <2>1 DEF Unmet
<1>21. PlansEmbeds(g)
  BY <1>2, <1>10, <1>11 DEF Preparing, PlansEmbeds
<1>22. TurnKnown(g)
  BY <1>2, <1>10 DEF Preparing, TurnKnown
<1>23. InScript(g)
  <2>1. Len(h.ends) = 2 /\ g.at # 1 /\ g.at # 2
    BY <1>3, <1>4, <1>10
  <2> QED
    BY <1>3, <1>10, <2>1 DEF InScript
<1>24. Preparing(g, db, deleted)
  BY <1>15, <1>16, <1>17, <1>19, <1>21, <1>22, <1>23 DEF Preparing
<1>25. g = [k EXCEPT !.at = @ + 1]
  BY DEF g
<1> QED
  BY <1>1, <1>4, <1>7, <1>8, <1>20, <1>24, <1>25, FetchStepOn

-----------------------------------------------------------------------------
(* A request comes in. *)

LEMMA Starting ==
  ASSUME NEW g \in Handler, g.at = 1
  PROVE  g.at \in 1..Len(Todo(g)) /\ Unwritten(g)
<1>1. g.shape.endpoint \in Endpoints
  BY ShapesAssumption DEF Handler, AllShapes
<1>2. 1 \in 1..Len(Todo(g)) /\ Todo(g)[1] \in Seeks
  BY <1>1 DEF Todo, Script, Seeks, Endpoints
<1> QED
  BY <1>2, Scopes DEF Unwritten

LEMMA ReceivedFields ==
  ASSUME NEW shape \in Shapes
  PROVE  LET start == Received(shape) IN
         /\ start \in Handler
         /\ start.shape = shape /\ start.at = 1 /\ start.turn = shape.turn
         /\ start.ids = [x \in Labels |-> Absent] /\ start.ends = << >>
         /\ start.plan = {} /\ start.own = {} /\ start.embeds = {} /\ start.shifts = {}
<1>1. shape.turn \in NodeIds \cup {Absent}
  BY ShapesAssumption, IdsAssumption DEF AllShapes
<1> QED
  BY <1>1 DEF Received, Handler

\* A request that has planned at most the entity of its source.
LEMMA ArriveWith ==
  ASSUME IInv, NEW r \in Requests, req[r] = Waiting, Reads,
         NEW g \in Handler, req' = [req EXCEPT ![r] = g],
         g.at = 1, g.ends = << >>, g.embeds = {}, g.own \subseteq NewNodes,
         TurnKnown(g),
         \/ g.plan = {} /\ g.ids = [x \in Labels |-> Absent]
         \/ /\ g.shape.endpoint = "ingest"
            /\ \E source \in Range(g.shape.entities) : \E new \in g.own :
                 /\ g.plan = {NewNode(new, "entity", source)}
                 /\ g.ids = [[x \in Labels |-> Absent] EXCEPT ![source] = new]
  PROVE  IInv'
<1>1. ~Running(r)
  BY DEF Running
<1>2. g.at \in 1..Len(Todo(g)) /\ Unwritten(g)
  BY Starting
<1>3. Range(g.ends) = {} /\ DOMAIN g.ends = {} /\ Len(g.ends) = 0
  BY DEF Range
<1>4. CASE g.plan = {} /\ g.ids = [x \in Labels |-> Absent]
  <2>1. Nodes(g.plan) = {} /\ LinksIn(g.plan) = {} /\ NewEntities(g.plan) = {} /\ Met(g) = {}
    BY <1>3, <1>4 DEF Nodes, LinksIn, NewEntities, Met, Mapped
  <2>2. PlansNodes(g, deleted) /\ PlansLinks(g, db, deleted) /\ PlansEmbeds(g)
    BY <2>1 DEF PlansNodes, PlansLinks, PlansEmbeds
  <2>3. Grounded(g, db, deleted) /\ Sourced(g) /\ InScript(g)
    BY <1>3, <1>4, <2>1 DEF Grounded, Sourced, InScript
  <2>4. Unmet(g, db, deleted, Excused)
    BY <1>3, <2>1 DEF Unmet
  <2> QED
    BY <1>1, <1>2, <2>2, <2>3, <2>4, ReadStep DEF Preparing
<1>5. CASE /\ g.shape.endpoint = "ingest"
           /\ \E source \in Range(g.shape.entities) : \E new \in g.own :
                 /\ g.plan = {NewNode(new, "entity", source)}
                 /\ g.ids = [[x \in Labels |-> Absent] EXCEPT ![source] = new]
  <2>1. PICK source \in Range(g.shape.entities), new \in g.own :
          /\ g.plan = {NewNode(new, "entity", source)}
          /\ g.ids = [[x \in Labels |-> Absent] EXCEPT ![source] = new]
    BY <1>5
  <2>2. source \in Labels /\ new \in NodeIds
    BY ShapesAssumption DEF Handler, AllShapes, Range, NewNodes
  <2> DEFINE m == NewNode(new, "entity", source)
  <2>3. m.op = "CreateNode" /\ m.id = new /\ m.rec.label = source /\ m.rec.type = "entity"
    BY DEF NewNode
  <2> HIDE DEF m
  <2>4. g.plan = {m}
    BY <2>1 DEF m
  <2>5. Nodes(g.plan) = {m} /\ LinksIn(g.plan) = {} /\ NewEntities(g.plan) = {m}
    BY <2>3, <2>4 DEF Nodes, LinksIn, NewEntities
  <2>6. Met(g) \subseteq {new} /\ g.ids[source] = new
    BY <1>3, <2>1, <2>2 DEF Met, Mapped
  <2>7. PlansNodes(g, deleted) /\ PlansLinks(g, db, deleted) /\ PlansEmbeds(g)
    BY <2>1, <2>3, <2>5 DEF PlansNodes, PlansLinks, PlansEmbeds
  <2>8. Grounded(g, db, deleted) /\ Sourced(g) /\ InScript(g)
    BY <1>3, <1>5, <2>3, <2>5, <2>6 DEF Grounded, Sourced, InScript
  <2>9. Unmet(g, db, deleted, Excused)
    BY <1>5, <2>1, <2>3, <2>5 DEF Unmet
  <2> QED
    BY <1>1, <1>2, <2>7, <2>8, <2>9, ReadStep DEF Preparing
<1> QED
  BY <1>4, <1>5

LEMMA ArriveStep ==
  ASSUME IInv, NEW r \in Requests, Arrive(r)
  PROVE  IInv'
<1> DEFINE new == uid(NewNodes)
<1>1. PICK shape \in Shapes :
        LET start == Received(shape)
        IN /\ shape.endpoint \in {"ingest", "batch"} => NewNodes # {}
           /\ CASE shape.endpoint = "ingest" ->
                     \E source \in Range(shape.entities) :
                       req' = [req EXCEPT ![r] =
                         [start EXCEPT !.plan = {NewNode(new, "entity", source)},
                                       !.ids[source] = new, !.own = {new}]]
                [] shape.endpoint = "batch" ->
                     req' = [req EXCEPT ![r] = [start EXCEPT !.turn = new, !.own = {new}]]
                [] OTHER -> req' = [req EXCEPT ![r] = start]
  BY DEF Arrive
<1> DEFINE start == Received(shape)
<1>2. req[r] = Waiting /\ Reads
  BY DEF Arrive
<1>3. /\ start \in Handler
      /\ start.shape = shape /\ start.at = 1 /\ start.turn = shape.turn
      /\ start.ids = [x \in Labels |-> Absent] /\ start.ends = << >>
      /\ start.plan = {} /\ start.own = {} /\ start.embeds = {} /\ start.shifts = {}
  BY ReceivedFields
<1>4. shape.endpoint \in {"ingest", "batch"} => new \in NewNodes /\ new \in NodeIds /\ new \in Owners
  BY <1>1, UidIn DEF NewNodes, Owners
<1> HIDE DEF new, start
<1>5. CASE shape.endpoint = "ingest"
  <2>1. PICK source \in Range(shape.entities) :
          req' = [req EXCEPT ![r] =
            [start EXCEPT !.plan = {NewNode(new, "entity", source)},
                          !.ids[source] = new, !.own = {new}]]
    BY <1>1, <1>5 DEF start
  <2> DEFINE ids == [start.ids EXCEPT ![source] = new]
             g == [start EXCEPT !.plan = {NewNode(new, "entity", source)}, !.ids = ids, !.own = {new}]
  <2>2. req' = [req EXCEPT ![r] = g]
    BY <2>1
  <2>3. source \in Labels
    BY ShapesAssumption DEF AllShapes, Range
  <2>4. ids \in [Labels -> NodeIds \cup {Absent}]
    BY <1>3, <1>4, <1>5, <2>3
  <2>5. NewNode(new, "entity", source) \in Creations
    BY <1>4, <1>5, <2>3, NewNodeFields, KindsAssumption
  <2>6. ids = [[x \in Labels |-> Absent] EXCEPT ![source] = new]
    BY <1>3
  <2> HIDE DEF ids
  <2>7. g \in Handler
    BY <1>3, <1>4, <1>5, <2>4, <2>5 DEF Handler
  <2>8. /\ g.shape = shape /\ g.at = 1 /\ g.turn = shape.turn /\ g.ids = ids /\ g.ends = << >>
        /\ g.plan = {NewNode(new, "entity", source)} /\ g.own = {new} /\ g.embeds = {}
    BY <1>3 DEF Handler
  <2> HIDE DEF g
  <2>9. TurnKnown(g) /\ g.own \subseteq NewNodes
    BY <1>4, <1>5, <2>8 DEF TurnKnown
  <2>10. \E s \in Range(g.shape.entities) : \E n \in g.own :
           /\ g.plan = {NewNode(n, "entity", s)}
           /\ g.ids = [[x \in Labels |-> Absent] EXCEPT ![s] = n]
    BY <2>6, <2>8
  <2> QED
    BY <1>2, <1>5, <2>2, <2>7, <2>8, <2>9, <2>10, ArriveWith
<1>6. CASE shape.endpoint = "batch"
  <2> DEFINE g == [start EXCEPT !.turn = new, !.own = {new}]
  <2>1. req' = [req EXCEPT ![r] = g]
    BY <1>1, <1>6 DEF start
  <2>2. g \in Handler
    BY <1>3, <1>4, <1>6 DEF Handler
  <2>3. /\ g.shape = shape /\ g.at = 1 /\ g.turn = new /\ g.ids = start.ids /\ g.ends = << >>
        /\ g.plan = {} /\ g.own = {new} /\ g.embeds = {}
    BY <1>3 DEF Handler
  <2> HIDE DEF g
  <2>4. TurnKnown(g) /\ g.own \subseteq NewNodes
    BY <1>4, <1>6, <2>3 DEF TurnKnown
  <2> QED
    BY <1>2, <1>3, <2>1, <2>2, <2>3, <2>4, ArriveWith
<1>7. CASE shape.endpoint \notin {"ingest", "batch"}
  <2>1. req' = [req EXCEPT ![r] = start]
    BY <1>1, <1>7 DEF start
  <2>2. TurnKnown(start) /\ start.own \subseteq NewNodes
    BY <1>3, <1>7 DEF TurnKnown
  <2> QED
    BY <1>2, <1>3, <2>1, <2>2, ArriveWith
<1> QED
  BY <1>5, <1>6, <1>7

-----------------------------------------------------------------------------
(* The index *)

\* What the index lists under a label is in one of the lists it was built from.
LEMMA Built ==
  ASSUME NEW first \in Docs, NEW then \in Docs
  PROVE  /\ build(first, then) \in Index
         /\ \A n \in NodeIds :
              build(first, then).nodes[n] # Absent =>
                build(first, then).nodes[n] \in {first[n], then[n]}
         /\ \A n \in NodeIds : \A x \in Labels :
              build(first, then).listed[<<n, x>>] > 0 <=>
                \E docs \in {first, then} : docs[n] # Absent /\ docs[n].label = x
<1> DEFINE b == build(first, then)
<1>1. /\ b.nodes = [n \in NodeIds |-> IF then[n] # Absent THEN then[n] ELSE first[n]]
      /\ b.listed = [e \in NodeIds \X Labels |->
                       Listings(first, e[1], e[2]) + Listings(then, e[1], e[2])]
      /\ b.vectors = [n \in NodeIds |->
                  IF Vector(then, n) # Absent THEN Vector(then, n) ELSE Vector(first, n)]
      /\ b = [nodes |-> b.nodes, listed |-> b.listed, vectors |-> b.vectors]
  BY DEF build
<1>2. b.nodes \in Docs
  BY <1>1 DEF Docs
<1>3. \A docs, n, x : Listings(docs, n, x) \in {0, 1}
  BY DEF Listings
<1>4. b.listed \in [NodeIds \X Labels -> 0..2]
  <2>1. \A e \in NodeIds \X Labels :
          Listings(first, e[1], e[2]) + Listings(then, e[1], e[2]) \in 0..2
    BY <1>3
  <2> QED
    BY <1>1, <2>1
<1>5. ASSUME NEW docs \in Docs, NEW n \in NodeIds PROVE Vector(docs, n) \in Labels \cup {Absent}
  BY DEF Docs, Doc, Vector
<1>6. b.vectors \in [NodeIds -> Labels \cup {Absent}]
  BY <1>1, <1>5
<1>7. ASSUME NEW n \in NodeIds, NEW x \in Labels
      PROVE b.listed[<<n, x>>] > 0 <=>
              \E docs \in {first, then} : docs[n] # Absent /\ docs[n].label = x
  <2>1. b.listed[<<n, x>>] = Listings(first, n, x) + Listings(then, n, x)
    BY <1>1
  <2>2. \A docs : Listings(docs, n, x) = IF docs[n] # Absent /\ docs[n].label = x THEN 1 ELSE 0
    BY DEF Listings
  <2>3. b.listed[<<n, x>>] > 0 <=> (Listings(first, n, x) = 1 \/ Listings(then, n, x) = 1)
    BY <1>3, <2>1
  <2> QED
    BY <2>2, <2>3
<1>8. b \in Index
  BY <1>1, <1>2, <1>4, <1>6 DEF Index
<1> QED
  BY <1>1, <1>7, <1>8

\* What is cached is indexed under its label.
LEMMA IndexedDocs ==
  ASSUME NEW c \in Caches, NEW v \in [NodeIds -> Labels \cup {Absent}]
  PROVE  /\ Indexed(c, v) \in Docs
         /\ \A n \in NodeIds :
              /\ Indexed(c, v)[n] # Absent <=> HasNode(c, n) /\ c.node[n].type = "entity"
              /\ Indexed(c, v)[n] # Absent => Indexed(c, v)[n].label = c.node[n].label
<1>1. \A n \in NodeIds : HasNode(c, n) => c.node[n] \in NodeRec
  BY DEF Caches, NodeMap, HasNode
<1>2. \A n \in NodeIds : HasNode(c, n) => [label |-> c.node[n].label, vector |-> v[n]] \in Doc
  BY <1>1 DEF Doc, NodeRec
<1>3. \A doc \in Doc : doc # Absent
  BY DocAssumption
<1> QED
  BY <1>2, <1>3 DEF Indexed, Docs

\* n is stored, and cached as an entity with label x.
CachedAs(d, c, n, x) ==
  HasNode(d, n) /\ HasNode(c, n) /\ c.node[n].type = "entity" /\ c.node[n].label = x

\* The index after a merge of the cached entities, or after its first building.
LEMMA IndexAfter ==
  ASSUME NEW d \in Tables, NEW c \in Caches, NEW v \in [NodeIds -> Labels \cup {Absent}],
         NEW first \in Docs, NEW gone, NEW ix, ix = build(first, Indexed(c, v)),
         \A n \in NodeIds : HasNode(c, n) /\ c.node[n].type = "entity" => HasNode(d, n),
         \A n \in NodeIds : first[n] # Absent =>
           n \in gone \/ CachedAs(d, c, n, first[n].label)
  PROVE  /\ ix \in Index
         /\ \A n \in NodeIds :
              /\ ix.nodes[n] # Absent =>
                   n \in gone \/ CachedAs(d, c, n, ix.nodes[n].label)
              /\ \A x \in Labels : ix.listed[<<n, x>>] > 0 =>
                   n \in gone \/ CachedAs(d, c, n, x)
         /\ \A n \in NodeIds : \A x \in Labels :
              HasNode(c, n) /\ c.node[n].type = "entity" /\ c.node[n].label = x => n \in search_fts(ix, x)
<1> DEFINE docs == Indexed(c, v)
<1>1. /\ docs \in Docs
      /\ \A n \in NodeIds :
           /\ docs[n] # Absent <=> HasNode(c, n) /\ c.node[n].type = "entity"
           /\ docs[n] # Absent => docs[n].label = c.node[n].label
  BY IndexedDocs
<1> HIDE DEF docs
<1>2. /\ ix \in Index
      /\ \A n \in NodeIds : ix.nodes[n] # Absent => ix.nodes[n] \in {first[n], docs[n]}
      /\ \A n \in NodeIds : \A x \in Labels :
           ix.listed[<<n, x>>] > 0 <=> \E s \in {first, docs} : s[n] # Absent /\ s[n].label = x
  BY <1>1, Built DEF docs
<1>3. \A n \in NodeIds : docs[n] # Absent =>
        CachedAs(d, c, n, docs[n].label)
  BY <1>1 DEF CachedAs
<1> QED
  BY <1>1, <1>2, <1>3 DEF search_fts

-----------------------------------------------------------------------------
(* The steps after the write, and those that end requests *)

\* Request r alone gets another state; those it shares the tables with keep theirs.
LEMMA OneMoves ==
  ASSUME TypeOK, NEW r \in Requests, NEW v, req' = [req EXCEPT ![r] = v]
  PROVE  /\ req'[r] = v
         /\ \A q \in Requests \ {r} : req'[q] = req[q] /\ (Running(q)' <=> Running(q))
         /\ Running(r)' <=> v \notin {Waiting, Done}
         /\ v \in Handler \cup {Done} => req' \in [Requests -> Handler \cup {Waiting, Done}]
<1>1. req \in [Requests -> Handler \cup {Waiting, Done}]
  BY DEF TypeOK
<1> QED
  BY <1>1 DEF Running

LEMMA OthersStay ==
  ASSUME IInv, NEW r \in Requests, NEW v, req' = [req EXCEPT ![r] = v],
         UNCHANGED <<db, cache, deleted, shifted, raced, renamed>>,
         overtaken' = overtaken \ {r} \/ UNCHANGED overtaken
  PROVE  \A q \in Requests \ {r} : Running(q)' => OneRequest(q, req[q])'
<1> SUFFICES ASSUME NEW q \in Requests \ {r}, Running(q)' PROVE OneRequest(q, req[q])'
  OBVIOUS
<1>1. req'[q] = req[q] /\ Running(q)
  BY OneMoves DEF IInv
<1>2. OneRequest(q, req[q])
  BY <1>1 DEF IInv
<1>3. q \in overtaken' <=> q \in overtaken
  OBVIOUS
<1> QED
  BY <1>1, <1>2, <1>3 DEF OneRequest, Excused

\* A step that leaves the tables, maps and histories of nodes alone and ends request r or
\* lets it go on, after its write.
LEMMA LaterStep ==
  ASSUME IInv, NEW r \in Requests, NEW v \in Handler \cup {Done}, req' = [req EXCEPT ![r] = v],
         UNCHANGED <<db, cache, deleted, shifted, raced, renamed>>,
         missed' \in SUBSET missed, \A n \in missed \ missed' : HasNode(cache, n),
         overtaken' = overtaken \ {r} \/ (UNCHANGED overtaken /\ r \notin overtaken),
         v # Done => /\ v.at \in 1..Len(Todo(v)) /\ ~Unwritten(v) /\ r \notin overtaken
                     /\ Answering(v, db, cache, deleted, shifted, renamed),
         stored_vectors' \in [NodeIds -> Labels \cup {Absent}],
         cached_vectors' \in [NodeIds -> Labels \cup {Absent}],
         index' \in Index, owed' \in SUBSET (CreateNodeOp \cup CreateLinkOp),
         IndexBacked', OwedKept', EmbeddingsInStep'
  PROVE  IInv'
<1>1. /\ req'[r] = v
      /\ \A q \in Requests \ {r} : req'[q] = req[q] /\ (Running(q)' <=> Running(q))
      /\ Running(r)' <=> v \notin {Waiting, Done}
      /\ req' \in [Requests -> Handler \cup {Waiting, Done}]
      /\ TypeOK
  BY OneMoves DEF IInv
<1>2. TypeOK'
  <2>1. overtaken' \in SUBSET {q \in Requests : Running(q)'}
    BY <1>1 DEF TypeOK
  <2> QED
    BY <1>1, <2>1 DEF TypeOK
<1>3. Owned'
  BY <1>1 DEF IInv, Owned, Answering
<1>4. \A q \in Requests : Running(q)' => OneRequest(q, req[q])'
  <2>1. \A q \in Requests \ {r} : Running(q)' => OneRequest(q, req[q])'
    BY OthersStay
  <2>2. Running(r)' => OneRequest(r, req[r])'
    BY <1>1 DEF OneRequest
  <2> QED
    BY <2>1, <2>2
<1>5. NodesCached' /\ LinksAgree' /\ PhantomLinksExplained' /\ DuplicatesExplained'
      /\ (missed \subseteq raced)'
  BY DEF IInv, NodesCached, LinksAgree, PhantomLinksExplained, DuplicatesExplained
<1> QED
  BY <1>2, <1>3, <1>4, <1>5 DEF IInv

LEMMA DisconnectStep ==
  ASSUME IInv, NEW r \in Requests, Disconnect(r)
  PROVE  IInv'
<1>1. /\ req' = [req EXCEPT ![r] = Done] /\ overtaken' = overtaken \ {r}
      /\ UNCHANGED <<db, cache, stored_vectors, cached_vectors, index, deleted, owed, shifted, raced,
                     renamed, missed>>
  BY DEF Disconnect, vectors
<1>2. IndexBacked' /\ OwedKept' /\ EmbeddingsInStep'
  BY <1>1 DEF IInv, IndexBacked, Backed, OwedKept, Listed, EmbeddingsInStep
<1> QED
  BY <1>1, <1>2, LaterStep DEF IInv, TypeOK

\* What a scope after the write finds.
LEMMA Later ==
  ASSUME IInv, NEW r \in Requests, NEW step \in {"embed", "merge"}, At(r, step)
  PROVE  LET h == req[r] IN
         /\ h \in Handler /\ h.at \in 1..Len(Todo(h)) /\ Todo(h)[h.at] = step
         /\ ~Unwritten(h) /\ r \notin overtaken
         /\ Answering(h, db, cache, deleted, shifted, renamed)
<1> DEFINE h == req[r]
<1>1. Running(r) /\ h \in Handler /\ h.at \in 1..Len(Todo(h)) /\ Todo(h)[h.at] = step
  BY RunningHandler DEF At, IInv, OneRequest
<1>2. ~Unwritten(h)
  <2> HIDE DEF h
  <2> QED
    BY <1>1, Scopes DEF Unwritten
<1> QED
  BY <1>1, <1>2 DEF IInv, OneRequest

LEMMA EmbedStep ==
  ASSUME IInv, NEW r \in Requests, Embed(r)
  PROVE  IInv'
<1> DEFINE h == req[r]
           k == [h EXCEPT !.embeds = {}]
           g == [k EXCEPT !.at = @ + 1]
           to(n) == {x \in Labels : <<n, x>> \in h.embeds}
<1>1. At(r, "embed")
  BY DEF Embed
<1>2. /\ h \in Handler /\ h.at \in 1..Len(Todo(h)) /\ Todo(h)[h.at] = "embed"
      /\ ~Unwritten(h) /\ r \notin overtaken
      /\ Answering(h, db, cache, deleted, shifted, renamed)
  BY <1>1, Later
<1>3. /\ h.at # Len(Todo(h)) /\ h.at + 1 \in 1..Len(Todo(h)) /\ Todo(h)[h.at + 1] = "merge"
  <2> HIDE DEF h
  <2> QED
    BY <1>2, Scopes
<1>4. /\ k \in Handler /\ k.shape = h.shape /\ k.at = h.at /\ k.plan = h.plan /\ k.own = h.own
      /\ k.shifts = h.shifts /\ k.embeds = {}
  BY <1>2 DEF Handler
<1>5. /\ Proceed(r, k)
      /\ stored_vectors' = [n \in NodeIds |-> IF HasNode(db, n) /\ \E x \in Labels : <<n, x>> \in h.embeds
                                              THEN CHOOSE x \in Labels : <<n, x>> \in h.embeds
                                              ELSE stored_vectors[n]]
      /\ UNCHANGED <<db, cache, cached_vectors, index, deleted, shifted, overtaken, raced,
                     renamed, missed>>
  BY DEF Embed
<1> HIDE DEF k
<1>6. /\ g.shape = h.shape /\ g.at = h.at + 1 /\ g.plan = h.plan /\ g.own = h.own
      /\ g.shifts = h.shifts /\ g.embeds = {} /\ g \in Handler
  BY <1>4, NextFields, Advanced
<1>7. req' = [req EXCEPT ![r] = g] /\ UNCHANGED owed
  BY <1>3, <1>4, <1>5 DEF Proceed, Continue, Todo
<1> HIDE DEF g
<1>8. Todo(g) = Todo(h)
  BY <1>6 DEF Todo
<1>9. ~Unwritten(g)
  BY <1>3, <1>6, <1>8, Scopes DEF Unwritten
<1>10. Answering(g, db, cache, deleted, shifted, renamed)
  BY <1>2, <1>6 DEF Answering
<1>11. g.at \in 1..Len(Todo(g))
  BY <1>3, <1>6, <1>8
<1>12. ASSUME NEW n \in NodeIds
       PROVE  /\ stored_vectors'[n] \in Labels \cup {Absent}
              /\ n \notin shifted \cup renamed \cup deleted /\ stored_vectors'[n] # Absent =>
                   HasNode(db, n) /\ stored_vectors'[n] = db.node[n].label
  <2>1. CASE HasNode(db, n) /\ \E x \in Labels : <<n, x>> \in h.embeds
    <3>1. stored_vectors'[n] \in Labels /\ <<n, stored_vectors'[n]>> \in h.embeds
      BY <1>5, <2>1
    <3> DEFINE p == <<n, stored_vectors'[n]>>
    <3>2. p \in h.embeds /\ p[1] = n /\ p[2] = stored_vectors'[n]
      BY <3>1
    <3>3. \/ p[1] \in deleted \cup shifted \cup renamed
          \/ HasNode(db, p[1]) /\ db.node[p[1]].label = p[2]
      BY <1>2, <3>2 DEF Answering
    <3> QED
      BY <3>1, <3>2, <3>3
  <2>2. CASE ~(HasNode(db, n) /\ \E x \in Labels : <<n, x>> \in h.embeds)
    BY <1>5, <2>2 DEF IInv, TypeOK, EmbeddingsInStep
  <2> QED
    BY <2>1, <2>2
<1>13. stored_vectors' \in [NodeIds -> Labels \cup {Absent}]
  BY <1>5, <1>12
<1>14. EmbeddingsInStep'
  BY <1>5, <1>12 DEF EmbeddingsInStep
<1>15. IndexBacked' /\ OwedKept'
  BY <1>5, <1>7 DEF IInv, IndexBacked, Backed, OwedKept, Listed
<1> HIDE DEF h
<1>16. g \in Handler \cup {Done} /\ g # Done
  BY <1>6, HandlerRuns
<1>17. cached_vectors' \in [NodeIds -> Labels \cup {Absent}] /\ index' \in Index
       /\ owed' \in SUBSET (CreateNodeOp \cup CreateLinkOp)
  BY <1>5, <1>7 DEF IInv, TypeOK
<1> QED
  BY <1>2, <1>5, <1>6, <1>7, <1>9, <1>10, <1>11, <1>13, <1>14, <1>15, <1>16, <1>17, LaterStep

\* A cached entity is stored: what is cached only is a turn.
LEMMA CachedEntities ==
  ASSUME NodesCached
  PROVE  \A n \in NodeIds : HasNode(cache, n) /\ cache.node[n].type = "entity" => HasNode(db, n)
  BY DEF NodesCached

LEMMA MergeStep ==
  ASSUME IInv, NEW r \in Requests, Merge(r)
  PROVE  IInv'
<1> DEFINE h == req[r]
<1>1. /\ At(r, "merge") /\ index' = merge(index, Indexed(cache, cached_vectors)) /\ Proceed(r, h)
      /\ missed' = {n \in missed : ~HasNode(cache, n)}
      /\ UNCHANGED <<db, cache, stored_vectors, cached_vectors, deleted, shifted, overtaken, raced,
                     renamed>>
  BY DEF Merge, vectors
<1>2. /\ h \in Handler /\ h.at \in 1..Len(Todo(h)) /\ Todo(h)[h.at] = "merge"
      /\ ~Unwritten(h) /\ r \notin overtaken
      /\ Answering(h, db, cache, deleted, shifted, renamed)
  BY <1>1, Later
<1>3. h.at = Len(Todo(h))
  <2> HIDE DEF h
  <2> QED
    BY <1>2, Scopes
<1>4. req' = [req EXCEPT ![r] = Done] /\ owed' = StillOwed(owed \cup h.plan, deleted)
  BY <1>1, <1>3 DEF Proceed
<1>5. /\ index.nodes \in Docs /\ db \in Tables /\ cache \in Caches
      /\ cached_vectors \in [NodeIds -> Labels \cup {Absent}]
  BY DEF IInv, TypeOK, Index
<1>6. \A n \in NodeIds : index.nodes[n] # Absent =>
        n \in deleted \/ CachedAs(db, cache, n, index.nodes[n].label)
  BY DEF IInv, IndexBacked, Backed, CachedAs
<1>7. index' = build(index.nodes, Indexed(cache, cached_vectors))
  BY <1>1 DEF merge
<1>8. \A n \in NodeIds : HasNode(cache, n) /\ cache.node[n].type = "entity" => HasNode(db, n)
  BY CachedEntities DEF IInv
<1>9. /\ index' \in Index
      /\ \A n \in NodeIds :
            /\ index'.nodes[n] # Absent => n \in deleted \/ CachedAs(db, cache, n, index'.nodes[n].label)
            /\ \A x \in Labels : index'.listed[<<n, x>>] > 0 => n \in deleted \/ CachedAs(db, cache, n, x)
      /\ \A n \in NodeIds : \A x \in Labels :
           HasNode(cache, n) /\ cache.node[n].type = "entity" /\ cache.node[n].label = x
             => n \in search_fts(index', x)
  BY <1>5, <1>6, <1>7, <1>8, IndexAfter DEF CachedAs
<1>10. IndexBacked'
  BY <1>1, <1>9 DEF IndexBacked, Backed, CachedAs
<1>11. h.plan \subseteq CreateNodeOp \cup CreateLinkOp
  BY <1>2 DEF Answering
<1>12. owed' \in SUBSET (CreateNodeOp \cup CreateLinkOp)
  BY <1>4, <1>11 DEF IInv, TypeOK, StillOwed
<1>13. OwedKept'
  <2> SUFFICES ASSUME NEW m \in owed'
               PROVE  /\ Involved(m) \cap deleted = {}
                      /\ Stays(m, db, renamed)
                      /\ m.op = "CreateNode" => m.id \in missed' \/ Listed(m.id)'
    BY <1>1 DEF OwedKept
  <2>1. Involved(m) \cap deleted = {} /\ (m \in owed \/ m \in h.plan)
    BY <1>4 DEF StillOwed
  <2>2. Stays(m, db, renamed)
    BY <1>2, <2>1 DEF IInv, OwedKept, Answering
  <2>3. ASSUME m.op = "CreateNode" PROVE m.id \in missed' \/ Listed(m.id)'
    <3>1. m \in CreateNodeOp
      BY <1>12, <2>3 DEF CreateLinkOp
    <3>2. m.id \in NodeIds /\ m.rec \in NodeRec
      BY <3>1 DEF CreateNodeOp
    <3>3. CASE HasNode(cache, m.id)
      <4>1. cache.node[m.id].type = "entity"
        BY <2>2, <2>3, <3>2, <3>3 DEF Stays, IInv, NodesCached
      <4>2. cache.node[m.id].label \in Labels
        BY <1>5, <3>2, <3>3 DEF Caches, NodeMap, NodeRec, HasNode
      <4>3. m.id \in search_fts(index', cache.node[m.id].label)
        BY <1>9, <3>2, <3>3, <4>1, <4>2
      <4> QED
        BY <1>1, <3>3, <4>3 DEF Listed
    <3>4. CASE ~HasNode(cache, m.id)
      <4>1. m \notin h.plan
        BY <1>2, <2>1, <2>3, <3>2, <3>4, RecsPresent DEF Answering, HasNode
      <4>2. m.id \in missed
        BY <2>1, <2>3, <3>4, <4>1 DEF IInv, OwedKept, Listed
      <4> QED
        BY <1>1, <3>4, <4>2
    <3> QED
      BY <3>3, <3>4
  <2> QED
    BY <2>1, <2>2, <2>3
<1>14. EmbeddingsInStep'
  BY <1>1 DEF IInv, EmbeddingsInStep
<1>15. /\ stored_vectors' \in [NodeIds -> Labels \cup {Absent}]
       /\ cached_vectors' \in [NodeIds -> Labels \cup {Absent}]
  BY <1>1 DEF IInv, TypeOK
<1>16. missed' \in SUBSET missed /\ \A n \in missed \ missed' : HasNode(cache, n)
  BY <1>1
<1> QED
  BY <1>1, <1>2, <1>4, <1>9, <1>10, <1>12, <1>13, <1>14, <1>15, <1>16, LaterStep

\* What holds of the maps and the index right after they were loaded from the tables,
\* as far as they were.
LEMMA LoadedMaps ==
  ASSUME NEW d \in Tables, NEW c \in Loaded(d), NEW v \in [NodeIds -> Labels \cup {Absent}],
         NEW ix, ix = build(NoDocs, Indexed(c, v))
  PROVE  /\ c \in Caches
         /\ \A n \in NodeIds : HasNode(c, n) => c.node[n] = d.node[n]
         /\ \A l \in LinkIds : HasLink(c, l) => c.link[l] = d.link[l]
         /\ ix \in Index
         /\ \A n \in NodeIds :
              /\ ix.nodes[n] # Absent => CachedAs(d, c, n, ix.nodes[n].label)
              /\ \A x \in Labels : ix.listed[<<n, x>>] > 0 => CachedAs(d, c, n, x)
         /\ \A n \in NodeIds : \A x \in Labels :
              HasNode(c, n) /\ c.node[n].type = "entity" /\ c.node[n].label = x => n \in search_fts(ix, x)
<1>1. /\ c \in Caches
      /\ \A n \in NodeIds : HasNode(c, n) => c.node[n] = d.node[n]
      /\ \A l \in LinkIds : HasLink(c, l) => c.link[l] = d.link[l]
  <2>1. CASE c = EmptyCaches
    BY <2>1 DEF EmptyCaches, Caches, NodeMap, LinkMap, HasNode, HasLink
  <2>2. CASE c = WarmNodes(d)
    BY <2>2 DEF WarmNodes, EmptyCaches, Tables, Caches, NodeMap, LinkMap, HasLink
  <2>3. CASE c = Warm(d)
    BY <2>3, WarmShape
  <2> QED
    BY <2>1, <2>2, <2>3 DEF Loaded
<1>2. NoDocs \in Docs /\ \A n \in NodeIds : NoDocs[n] = Absent
  BY DEF NoDocs, Docs
<1>3. \A n \in NodeIds : HasNode(c, n) => HasNode(d, n)
  BY <1>1 DEF HasNode
<1> DEFINE none == {}
<1>4. /\ ix \in Index
      /\ \A n \in NodeIds :
           /\ ix.nodes[n] # Absent => n \in none \/ CachedAs(d, c, n, ix.nodes[n].label)
           /\ \A x \in Labels : ix.listed[<<n, x>>] > 0 => n \in none \/ CachedAs(d, c, n, x)
      /\ \A n \in NodeIds : \A x \in Labels :
           HasNode(c, n) /\ c.node[n].type = "entity" /\ c.node[n].label = x => n \in search_fts(ix, x)
  <2> HIDE DEF none
  <2>1. \A n \in NodeIds : NoDocs[n] # Absent =>
          n \in none \/ CachedAs(d, c, n, NoDocs[n].label)
    BY <1>2
  <2> QED
    BY <1>1, <1>2, <1>3, <2>1, IndexAfter
<1> QED
  BY <1>1, <1>4

LEMMA RestartStep ==
  ASSUME IInv, Restart
  PROVE  IInv'
<1>1. /\ req' = [r \in Requests |-> IF Running(r) THEN Done ELSE req[r]]
      /\ cache' \in Loaded(db)
      /\ cached_vectors' = [n \in NodeIds |-> IF HasNode(cache', n) THEN stored_vectors[n] ELSE Absent]
      /\ index' = build(NoDocs, Indexed(cache', cached_vectors'))
      /\ overtaken' = {}
      /\ missed' = {n \in NodeIds : HasNode(db, n) /\ ~HasNode(cache', n)}
      /\ raced' = raced \cup missed'
      /\ UNCHANGED <<db, stored_vectors, deleted, owed, shifted, renamed>>
  BY DEF Restart
<1>2. TypeOK /\ db \in Tables /\ stored_vectors \in [NodeIds -> Labels \cup {Absent}]
  BY DEF IInv, TypeOK
<1>0. cached_vectors' \in [NodeIds -> Labels \cup {Absent}]
  BY <1>1, <1>2
<1>3. /\ cache' \in Caches
      /\ \A n \in NodeIds : HasNode(cache', n) => cache'.node[n] = db.node[n]
      /\ \A l \in LinkIds : HasLink(cache', l) => cache'.link[l] = db.link[l]
      /\ index' \in Index
      /\ \A n \in NodeIds :
           /\ index'.nodes[n] # Absent => CachedAs(db, cache', n, index'.nodes[n].label)
           /\ \A x \in Labels : index'.listed[<<n, x>>] > 0 => CachedAs(db, cache', n, x)
      /\ \A n \in NodeIds : \A x \in Labels :
           HasNode(cache', n) /\ cache'.node[n].type = "entity" /\ cache'.node[n].label = x
             => n \in search_fts(index', x)
  BY <1>0, <1>1, <1>2, LoadedMaps
<1>4. \A r \in Requests : ~Running(r)'
  BY <1>1 DEF Running
<1>5. TypeOK'
  <2>1. req' \in [Requests -> Handler \cup {Waiting, Done}]
    BY <1>1, <1>2 DEF TypeOK
  <2>2. missed' \in SUBSET NodeIds /\ raced' \in SUBSET NodeIds
    BY <1>1, <1>2 DEF TypeOK
  <2> QED
    BY <1>0, <1>1, <1>2, <1>3, <2>1, <2>2 DEF TypeOK
<1>6. Owned' /\ \A r \in Requests : Running(r)' => OneRequest(r, req[r])'
  BY <1>4 DEF Owned
<1>7. NodesCached' /\ LinksAgree' /\ PhantomLinksExplained' /\ (missed \subseteq raced)'
  BY <1>1, <1>3 DEF NodesCached, LinksAgree, PhantomLinksExplained, HasNode, HasLink
<1>8. IndexBacked'
  BY <1>1, <1>3 DEF IndexBacked, Backed, CachedAs
<1>9. OwedKept'
  <2> SUFFICES ASSUME NEW m \in owed
               PROVE  /\ Involved(m) \cap deleted = {}
                      /\ Stays(m, db, renamed)
                      /\ m.op = "CreateNode" => m.id \in missed' \/ Listed(m.id)'
    BY <1>1 DEF OwedKept
  <2>1. Involved(m) \cap deleted = {} /\ Stays(m, db, renamed)
    BY DEF IInv, OwedKept
  <2>2. ASSUME m.op = "CreateNode" PROVE m.id \in missed' \/ Listed(m.id)'
    <3>1. m \in CreateNodeOp
      BY <1>2, <2>2 DEF TypeOK, CreateLinkOp
    <3>2. m.id \in NodeIds /\ HasNode(db, m.id) /\ db.node[m.id].type = "entity"
      BY <2>1, <2>2, <3>1 DEF CreateNodeOp, Stays
    <3>3. CASE HasNode(cache', m.id)
      <4>1. cache'.node[m.id].type = "entity" /\ cache'.node[m.id].label \in Labels
        BY <1>2, <1>3, <3>2, <3>3 DEF Tables, NodeMap, NodeRec, HasNode
      <4> QED
        BY <1>3, <3>2, <3>3, <4>1 DEF Listed
    <3> QED
      BY <1>1, <3>2, <3>3
  <2> QED
    BY <2>1, <2>2
<1>10. EmbeddingsInStep' /\ DuplicatesExplained'
  BY <1>1 DEF IInv, EmbeddingsInStep, DuplicatesExplained
<1> QED
  BY <1>5, <1>6, <1>7, <1>8, <1>9, <1>10 DEF IInv

LEMMA StartsWell == Init => IInv
<1> SUFFICES ASSUME Init PROVE IInv
  OBVIOUS
<1>1. db \in Tables
  BY ShapesAssumption DEF Init
<1>2. stored_vectors \in [NodeIds -> Labels \cup {Absent}] /\ cached_vectors = stored_vectors
  BY DEF Init
<1>3. cache = Warm(db) /\ index = build(NoDocs, Indexed(cache, cached_vectors))
  BY DEF Init
<1>4. /\ cache \in Caches /\ cache.node = db.node /\ cache.link = db.link
      /\ index \in Index
      /\ \A n \in NodeIds :
           /\ index.nodes[n] # Absent => CachedAs(db, cache, n, index.nodes[n].label)
           /\ \A x \in Labels : index.listed[<<n, x>>] > 0 => CachedAs(db, cache, n, x)
  <2>1. cache \in Loaded(db)
    BY <1>3 DEF Loaded
  <2>2. cache.node = db.node /\ cache.link = db.link
    BY <1>1, <1>3, WarmShape
  <2> QED
    BY <1>1, <1>2, <1>3, <2>1, <2>2, LoadedMaps
<1>5. \A r \in Requests : ~Running(r)
  BY DEF Init, Running
<1>6. req \in [Requests -> Handler \cup {Waiting, Done}]
  BY DEF Init
<1>7. /\ deleted = {} /\ owed = {} /\ shifted = {} /\ overtaken = {} /\ raced \subseteq NodeIds
      /\ renamed = {} /\ missed = {}
  BY DEF Init
<1>8. TypeOK
  BY <1>1, <1>2, <1>4, <1>6, <1>7 DEF TypeOK
<1>9. Owned /\ \A r \in Requests : Running(r) => OneRequest(r, req[r])
  BY <1>5 DEF Owned
<1>10. NodesCached /\ LinksAgree /\ PhantomLinksExplained /\ missed \subseteq raced
  BY <1>4, <1>7 DEF NodesCached, LinksAgree, PhantomLinksExplained, HasNode, HasLink
<1>11. IndexBacked /\ OwedKept
  BY <1>4, <1>7 DEF IndexBacked, Backed, CachedAs, OwedKept
<1>12. EmbeddingsInStep
  BY DEF Init, EmbeddingsInStep
<1>13. DuplicatesExplained
  BY DEF Init, DuplicatesExplained
<1> QED
  BY <1>8, <1>9, <1>10, <1>11, <1>12, <1>13 DEF IInv

-----------------------------------------------------------------------------
(* A batch of deletions *)

Deletions == DeletePropertyOp \cup DeleteLinkOp \cup DeleteNodeOp

\* Tables e and maps f are d and c without what P deletes.
Erased(d, c, P, e, f) ==
  /\ e \in Tables /\ f \in Caches
  /\ \A n \in NodeIds :
       /\ OldNode(n) \in P => e.node[n] = Absent /\ f.node[n] = Absent
       /\ OldNode(n) \notin P => e.node[n] = d.node[n] /\ f.node[n] = c.node[n]
  /\ \A l \in LinkIds :
       /\ OldLink(l) \in P => e.link[l] = Absent /\ f.link[l] = Absent
       /\ OldLink(l) \notin P => f.link[l] = c.link[l]
       /\ e.link[l] # d.link[l] =>
            /\ e.link[l] = Absent
            /\ OldLink(l) \in P \/ \E n \in {d.link[l].from, d.link[l].to} : OldNode(n) \in P

LEMMA DeletionKinds ==
  ASSUME NEW m \in Deletions
  PROVE  \/ m.op = "DeleteProperty" /\ m.owner \in Owners /\ m.key \in Keys
         \/ m.op = "DeleteLink" /\ m.id \in LinkIds /\ m = OldLink(m.id)
         \/ m.op = "DeleteNode" /\ m.id \in NodeIds /\ m = OldNode(m.id)
  BY DEF Deletions, DeletePropertyOp, DeleteLinkOp, DeleteNodeOp, OldLink, OldNode

LEMMA ErasedOneMore ==
  ASSUME NEW d \in Tables, NEW c \in Caches, NEW P \in SUBSET Deletions, P # {},
         NEW m \in P, NEW e0, NEW f0, Erased(d, c, P \ {m}, e0, f0)
  PROVE  Erased(d, c, P, Apply(e0, m), Sync(f0, m))
<1> DEFINE Q == P \ {m}
           e == Apply(e0, m)
           f == Sync(f0, m)
<1>1. e0 \in Tables /\ f0 \in Caches
  BY DEF Erased
<1>2. /\ \A n : OldNode(n) \in P <=> OldNode(n) \in Q \/ OldNode(n) = m
      /\ \A l : OldLink(l) \in P <=> OldLink(l) \in Q \/ OldLink(l) = m
  OBVIOUS
<1>3. /\ \A n : OldNode(n).op = "DeleteNode" /\ OldNode(n).id = n
      /\ \A l : OldLink(l).op = "DeleteLink" /\ OldLink(l).id = l
  BY DEF OldNode, OldLink
<1>4. Erased(d, c, Q, e0, f0)
  OBVIOUS
<1> SUFFICES Erased(d, c, P, e, f)
  OBVIOUS
<1> HIDE DEF Q
<1>5. CASE m.op = "DeleteProperty" /\ m.owner \in Owners /\ m.key \in Keys
  <2>1. e \in Tables /\ e.node = e0.node /\ e.link = e0.link /\ f = f0
    BY <1>1, <1>5, PropertyShape DEF Apply, Sync
  <2>2. /\ \A n : OldNode(n) \in P <=> OldNode(n) \in Q
        /\ \A l : OldLink(l) \in P <=> OldLink(l) \in Q
    BY <1>2, <1>3, <1>5
  <2> HIDE DEF e, f
  <2> QED
    BY <1>4, <2>1, <2>2 DEF Erased
<1>6. CASE m.op = "DeleteLink" /\ m.id \in LinkIds /\ m = OldLink(m.id)
  <2>1. /\ e \in Tables /\ e.node = e0.node
        /\ \A k \in LinkIds : e.link[k] = IF k = m.id THEN Absent ELSE e0.link[k]
    BY <1>1, <1>6, DeleteLinkShape DEF Apply
  <2>2. /\ f \in Caches /\ f.node = f0.node
        /\ \A k \in LinkIds : f.link[k] = IF k = m.id THEN Absent ELSE f0.link[k]
    BY <1>1, <1>6, CacheDeleteLinkShape DEF Sync
  <2>3. /\ \A n : OldNode(n) \in P <=> OldNode(n) \in Q
        /\ \A l : OldLink(l) \in P <=> OldLink(l) \in Q \/ l = m.id
    BY <1>2, <1>3, <1>6
  <2> HIDE DEF e, f
  <2> QED
    BY <1>4, <2>1, <2>2, <2>3 DEF Erased
<1>7. CASE m.op = "DeleteNode" /\ m.id \in NodeIds /\ m = OldNode(m.id)
  <2>1. /\ e \in Tables
        /\ \A k \in NodeIds : e.node[k] = IF k = m.id THEN Absent ELSE e0.node[k]
        /\ \A k \in LinkIds :
             e.link[k] = IF HasLink(e0, k) /\ m.id \in {e0.link[k].from, e0.link[k].to}
                         THEN Absent ELSE e0.link[k]
    BY <1>1, <1>7, DeleteNodeShape DEF Apply
  <2>2. /\ f \in Caches /\ f.link = f0.link
        /\ \A k \in NodeIds : f.node[k] = IF k = m.id THEN Absent ELSE f0.node[k]
    BY <1>1, <1>7, CacheDeleteNodeShape DEF Sync
  <2>3. /\ \A n : OldNode(n) \in P <=> OldNode(n) \in Q \/ n = m.id
        /\ \A l : OldLink(l) \in P <=> OldLink(l) \in Q
    BY <1>2, <1>3, <1>7
  <2> HIDE DEF e, f
  <2>4. ASSUME NEW l \in LinkIds, e.link[l] # d.link[l]
        PROVE  /\ e.link[l] = Absent
               /\ OldLink(l) \in P \/ \E n \in {d.link[l].from, d.link[l].to} : OldNode(n) \in P
    <3>1. CASE e0.link[l] # d.link[l]
      BY <1>4, <2>1, <2>3, <3>1 DEF Erased
    <3>2. CASE e0.link[l] = d.link[l]
      BY <2>1, <2>3, <2>4, <3>2
    <3> QED
      BY <3>1, <3>2
  <2>5. \A l \in LinkIds :
          /\ OldLink(l) \in P => e.link[l] = Absent /\ f.link[l] = Absent
          /\ OldLink(l) \notin P => f.link[l] = c.link[l]
    BY <1>4, <2>1, <2>2, <2>3 DEF Erased, HasLink
  <2>6. \A n \in NodeIds :
          /\ OldNode(n) \in P => e.node[n] = Absent /\ f.node[n] = Absent
          /\ OldNode(n) \notin P => e.node[n] = d.node[n] /\ f.node[n] = c.node[n]
    BY <1>4, <2>1, <2>2, <2>3 DEF Erased
  <2> QED
    BY <2>1, <2>2, <2>4, <2>5, <2>6 DEF Erased
<1> QED
  BY <1>5, <1>6, <1>7, DeletionKinds

LEMMA AfterDeletions ==
  ASSUME NEW d \in Tables, NEW c \in Caches, NEW P \in SUBSET Deletions, IsFiniteSet(P)
  PROVE  Erased(d, c, P, After(d, c, P).db, After(d, c, P).cache)
<1> DEFINE G == {Q \in SUBSET P : Erased(d, c, Q, After(d, c, Q).db, After(d, c, Q).cache)}
<1>1. {} \in G
  BY AfterNothing DEF Erased
<1>2. ASSUME NEW Q \in SUBSET P, Q # {}, Q \ {LastOf(Q)} \in G PROVE Q \in G
  <2>1. Q \in SUBSET Deletions /\ Q \in SUBSET Changes /\ IsFiniteSet(Q)
    BY FS_Subset DEF Deletions, Changes
  <2>2. LET before == After(d, c, Q \ {LastOf(Q)})
        IN /\ After(d, c, Q).db = Apply(before.db, LastOf(Q))
           /\ After(d, c, Q).cache = Sync(before.cache, LastOf(Q))
    BY <1>2, <2>1, AfterLast DEF Pass
  <2>3. LastOf(Q) \in Q
    BY <1>2, <2>1, LastIsLast
  <2> QED
    BY <1>2, <2>1, <2>2, <2>3, ErasedOneMore
<1>3. P \in SUBSET Changes
  BY DEF Deletions, Changes
<1>4. P \in G
  <2> HIDE DEF G
  <2> QED
    BY <1>1, <1>2, <1>3, OneByOne
<1> QED
  BY <1>4

\* There are finitely many things to delete, and to create if nothing is created twice.
LEMMA FinitePairs ==
  ASSUME NEW op
  PROVE  IsFiniteSet([op : {op}, owner : Owners, key : Keys])
<1> DEFINE T == [op : {op}, owner : Owners, key : Keys]
           S == Owners \X Keys
           f == [p \in S |-> [op |-> op, owner |-> p[1], key |-> p[2]]]
<1>1. IsFiniteSet(S)
  BY FiniteAssumption, FS_Union, FS_Product DEF Owners
<1>2. f \in Surjection(S, T)
  <2>1. f \in [S -> T]
    OBVIOUS
  <2>2. ASSUME NEW t \in T PROVE \E s \in S : f[s] = t
    <3>1. <<t.owner, t.key>> \in S /\ f[<<t.owner, t.key>>] = t
      OBVIOUS
    <3> QED
      BY <3>1
  <2> QED
    BY <2>1, <2>2 DEF Surjection
<1> HIDE DEF S, T, f
<1>3. IsFiniteSet(T)
  BY <1>1, <1>2, FS_Surjection
<1> QED
  BY <1>3 DEF T

LEMMA FiniteById ==
  ASSUME NEW P, NEW ids, IsFiniteSet(ids), \A m \in P : m.id \in ids,
         \A m, k \in P : m.id = k.id => m = k
  PROVE  IsFiniteSet(P)
<1> DEFINE f == [m \in P |-> m.id]
<1>1. f \in Injection(P, ids)
  BY DEF Injection, IsInjective
<1> HIDE DEF f
<1> QED
  BY <1>1, FS_Injection

LEMMA FiniteDeletions == \A P \in SUBSET Deletions : IsFiniteSet(P)
<1>1. IsFiniteSet(DeletePropertyOp)
  BY FinitePairs DEF DeletePropertyOp
<1>2. IsFiniteSet(DeleteLinkOp)
  <2>1. \A m \in DeleteLinkOp : m.id \in LinkIds
    BY DEF DeleteLinkOp
  <2>2. \A m, k \in DeleteLinkOp : m.id = k.id => m = k
    BY DEF DeleteLinkOp
  <2> QED
    BY <2>1, <2>2, FiniteAssumption, FiniteById
<1>3. IsFiniteSet(DeleteNodeOp)
  <2>1. \A m \in DeleteNodeOp : m.id \in NodeIds
    BY DEF DeleteNodeOp
  <2>2. \A m, k \in DeleteNodeOp : m.id = k.id => m = k
    BY DEF DeleteNodeOp
  <2> QED
    BY <2>1, <2>2, FiniteAssumption, FiniteById
<1>4. IsFiniteSet(Deletions)
  BY <1>1, <1>2, <1>3, FS_Union DEF Deletions
<1> QED
  BY <1>4, FS_Subset

LEMMA FiniteCreations ==
  ASSUME NEW P \in SUBSET Creations, Distinct(P)
  PROVE  IsFiniteSet(P)
<1>1. IsFiniteSet(Nodes(P))
  <2>1. \A m \in Nodes(P) : m.id \in NodeIds
    BY DEF Nodes, Creations, CreateNodeOp, CreateLinkOp, SetPropertyOp
  <2>2. \A m, k \in Nodes(P) : m.id = k.id => m = k
    BY DEF Nodes, Distinct
  <2> QED
    BY <2>1, <2>2, FiniteAssumption, FiniteById
<1>2. IsFiniteSet(LinksIn(P))
  <2>1. \A m \in LinksIn(P) : m.id \in LinkIds
    BY DEF LinksIn, Creations, CreateNodeOp, CreateLinkOp, SetPropertyOp
  <2>2. \A m, k \in LinksIn(P) : m.id = k.id => m = k
    BY DEF LinksIn, Distinct
  <2> QED
    BY <2>1, <2>2, FiniteAssumption, FiniteById
<1> DEFINE rest == {m \in P : m \in SetPropertyOp}
<1>3. IsFiniteSet(SetPropertyOp)
  BY FinitePairs DEF SetPropertyOp
<1>4. IsFiniteSet(rest)
  BY <1>3, FS_Subset
<1>5. P = Nodes(P) \cup LinksIn(P) \cup rest
  BY DEF Nodes, LinksIn, Creations, CreateNodeOp, CreateLinkOp, SetPropertyOp
<1> HIDE DEF rest
<1>6. IsFiniteSet(Nodes(P) \cup LinksIn(P))
  BY <1>1, <1>2, FS_Union
<1>7. IsFiniteSet((Nodes(P) \cup LinksIn(P)) \cup rest)
  BY <1>4, <1>6, FS_Union
<1> QED
  BY <1>5, <1>7

-----------------------------------------------------------------------------
(* The deleting handlers *)

\* e and f have lost nodes and links that are gone now.
Lost(d, c, gone, e, f, gone2) ==
  /\ e \in Tables /\ f \in Caches /\ gone \subseteq gone2
  /\ \A n \in NodeIds :
       \/ e.node[n] = d.node[n] /\ f.node[n] = c.node[n]
       \/ n \in gone2 /\ e.node[n] = Absent /\ f.node[n] = Absent
  /\ \A l \in LinkIds :
       /\ f.link[l] \in {c.link[l], Absent}
       /\ e.link[l] \in {d.link[l], Absent}
       /\ HasLink(d, l) /\ ~HasLink(e, l) =>
            \/ l \in gone2 /\ ~HasLink(f, l)
            \/ {d.link[l].from, d.link[l].to} \cap gone2 # {}

\* Who is preparing its write goes on with less.
LEMMA StillPreparing ==
  ASSUME NEW h \in Handler, NEW d, NEW e, NEW gone, NEW gone2, gone \subseteq gone2,
         \A n \in NodeIds : HasNode(d, n) => HasNode(e, n) \/ n \in gone2,
         Preparing(h, d, gone)
  PROVE  Preparing(h, e, gone2)
<1>1. PlansNodes(h, gone2)
  BY DEF Preparing, PlansNodes
<1>2. PlansLinks(h, e, gone2)
  <2>1. \A m \in LinksIn(h.plan) : m.rec.from \in NodeIds /\ m.rec.to \in NodeIds
    BY DEF Handler, LinksIn, Creations, CreateNodeOp, SetPropertyOp, CreateLinkOp, LinkRec
  <2> QED
    BY <2>1 DEF Preparing, PlansLinks
<1>3. Grounded(h, e, gone2)
  <2>1. Met(h) \subseteq NodeIds
    BY DEF Handler, Met, Mapped, Range
  <2> QED
    BY <2>1 DEF Preparing, Grounded
<1> QED
  BY <1>1, <1>2, <1>3 DEF Preparing

LEMMA StillUnmet ==
  ASSUME NEW h, NEW d, NEW e, NEW gone, NEW gone2, gone \subseteq gone2, NEW but,
         \A x : HasLabel(e, x, but) => HasLabel(d, x, but), Unmet(h, d, gone, but)
  PROVE  Unmet(h, e, gone2, but)
  BY DEF Unmet

\* What a promise is about is kept unless it is gone.
LEMMA StillThere ==
  ASSUME NEW d, NEW c, NEW gone, NEW e, NEW f, NEW gone2, Lost(d, c, gone, e, f, gone2),
         NEW ren, NEW m \in CreateNodeOp \cup CreateLinkOp, Stays(m, d, ren),
         Involved(m) \cap gone2 = {}
  PROVE  /\ Stays(m, e, ren)
         /\ m.op = "CreateNode" => m.id \in NodeIds /\ f.node[m.id] = c.node[m.id]
<1>1. CASE m \in CreateNodeOp
  <2>1. m.op = "CreateNode" /\ m.id \in NodeIds /\ m.id \notin gone2
    BY <1>1 DEF CreateNodeOp, Involved
  <2> QED
    BY <2>1 DEF Stays, Lost, HasNode
<1>2. CASE m \in CreateLinkOp
  <2>1. /\ m.op = "CreateLink" /\ m.id \in LinkIds /\ m.rec \in LinkRec
        /\ m.id \notin gone2 /\ m.rec.from \notin gone2 /\ m.rec.to \notin gone2
    BY <1>2 DEF CreateLinkOp, Involved
  <2>2. d.link[m.id] = m.rec /\ HasLink(d, m.id)
    BY <2>1, RecsPresent DEF Stays, HasLink
  <2>3. HasLink(e, m.id)
    BY <2>1, <2>2 DEF Lost
  <2> QED
    BY <2>1, <2>2, <2>3 DEF Stays, Lost, HasLink
<1> QED
  BY <1>1, <1>2

\* A request deletes nodes and links that there are, or that links lead to.
LEMMA LostStep ==
  ASSUME IInv, Lost(db, cache, deleted, db', cache', deleted'),
         deleted' \in SUBSET Owners,
         \A id \in deleted' \ deleted :
           \/ id \in NodeIds /\ (HasNode(db, id) \/ HasNode(cache, id))
           \/ id \in LinkIds /\ HasLink(cache, id)
           \/ \E l \in LinkIds : HasLink(cache, l) /\ id = cache.link[l].from,
         owed' = StillOwed(owed, deleted'),
         stored_vectors' \in [NodeIds -> Labels \cup {Absent}],
         cached_vectors' \in [NodeIds -> Labels \cup {Absent}],
         \A n \in NodeIds \ deleted' : stored_vectors'[n] = stored_vectors[n],
         UNCHANGED <<index, req, shifted, overtaken, raced, renamed, missed>>
  PROVE  IInv'
<1>1. TypeOK'
  <2>1. \A r \in Requests : Running(r)' <=> Running(r)
    BY DEF Running
  <2> QED
    BY <2>1 DEF IInv, TypeOK, Lost, StillOwed
<1>2. /\ \A n \in NodeIds : HasNode(db, n) => HasNode(db', n) \/ n \in deleted'
      /\ \A n \in NodeIds : HasNode(db', n) => db'.node[n] = db.node[n]
      /\ \A n \in NodeIds : HasNode(cache', n) => cache'.node[n] = cache.node[n]
      /\ \A l \in LinkIds : HasLink(db', l) => db'.link[l] = db.link[l]
      /\ \A l \in LinkIds : HasLink(cache', l) => cache'.link[l] = cache.link[l]
      /\ deleted \subseteq deleted'
      /\ \A n \in NodeIds \ deleted' : db'.node[n] = db.node[n] /\ cache'.node[n] = cache.node[n]
  BY DEF Lost, HasNode, HasLink
<1>3. \A x : HasLabel(db', x, Excused) => HasLabel(db, x, Excused)
  BY <1>2 DEF HasLabel, HasNode
<1>4. Owned'
  <2> SUFFICES ASSUME NEW r \in Requests, Running(r), NEW id \in req[r].own
               PROVE  /\ Unused(id, db', cache', deleted')
                      /\ \A q \in Requests \ {r} : Running(q) => id \notin req[q].own
    BY DEF Owned, Running
  <2>1. Unused(id, db, cache, deleted) /\ \A q \in Requests \ {r} : Running(q) => id \notin req[q].own
    BY DEF IInv, Owned
  <2>2. id \notin deleted'
    BY <2>1 DEF Unused
  <2>3. Unused(id, db', cache', deleted')
    BY <1>2, <2>1, <2>2 DEF Unused, HasNode, HasLink
  <2> QED
    BY <2>1, <2>3
<1>5. \A r \in Requests : Running(r)' => OneRequest(r, req[r])'
  <2> SUFFICES ASSUME NEW r \in Requests, Running(r) PROVE OneRequest(r, req[r])'
    BY DEF Running
  <2> DEFINE h == req[r]
  <2>1. h \in Handler /\ OneRequest(r, h)
    BY RunningHandler DEF IInv
  <2> HIDE DEF h
  <2>2. CASE Unwritten(h)
    <3>1. Preparing(h, db, deleted) /\ (r \in overtaken \/ Unmet(h, db, deleted, Excused))
      BY <2>1, <2>2 DEF OneRequest
    <3>2. Preparing(h, db', deleted')
      BY <1>2, <2>1, <3>1, StillPreparing
    <3>3. Unmet(h, db, deleted, Excused) => Unmet(h, db', deleted', Excused)
      BY <1>2, <1>3, StillUnmet
    <3>4. Excused' = Excused
      BY DEF Excused
    <3> QED
      BY <2>1, <2>2, <3>1, <3>2, <3>3, <3>4 DEF OneRequest, h
  <2>3. CASE ~Unwritten(h)
    <3>1. Answering(h, db, cache, deleted, shifted, renamed) /\ r \notin overtaken
      BY <2>1, <2>3 DEF OneRequest
    <3>2. ASSUME NEW m \in h.plan, Involved(m) \cap deleted' = {}
          PROVE  Stays(m, db', renamed) /\ (m.op = "CreateNode" => cache'.node[m.id] = m.rec)
      <4>1. /\ m \in CreateNodeOp \cup CreateLinkOp /\ Stays(m, db, renamed)
            /\ m.op = "CreateNode" => cache.node[m.id] = m.rec
        BY <1>2, <3>1, <3>2 DEF Answering
      <4>2. /\ Stays(m, db', renamed)
            /\ m.op = "CreateNode" => m.id \in NodeIds /\ cache'.node[m.id] = cache.node[m.id]
        BY <3>2, <4>1, StillThere
      <4> QED
        BY <4>1, <4>2
    <3>3. \A p \in h.embeds : p[1] \in deleted' \cup shifted \cup renamed \/ (HasNode(db', p[1]) /\ db'.node[p[1]].label = p[2])
      <4>1. \A p \in h.embeds : p[1] \in NodeIds
        BY <2>1 DEF Handler
      <4>2. \A p \in h.embeds : p[1] \in deleted \cup shifted \cup renamed \/ (HasNode(db, p[1]) /\ db.node[p[1]].label = p[2])
        BY <3>1 DEF Answering
      <4> QED
        BY <1>2, <4>1, <4>2
    <3>4. Answering(h, db', cache', deleted', shifted, renamed)
      BY <3>1, <3>2, <3>3 DEF Answering
    <3> QED
      BY <2>1, <2>3, <3>1, <3>4 DEF OneRequest, h
  <2> QED
    BY <2>2, <2>3
<1>6. NodesCached'
  BY DEF IInv, NodesCached, Lost, HasNode
<1>7. LinksAgree'
  BY <1>2 DEF IInv, LinksAgree, HasLink
<1>8. PhantomLinksExplained'
  <2> SUFFICES ASSUME NEW l \in LinkIds, HasLink(cache', l), ~HasLink(db', l)
               PROVE  \E end \in {cache'.link[l].from, cache'.link[l].to} :
                        ~HasNode(db', end) \/ end \in deleted' \/ end \in TurnIds
    BY DEF PhantomLinksExplained
  <2>1. cache'.link[l] = cache.link[l] /\ HasLink(cache, l)
    BY <1>2 DEF HasLink
  <2>2. CASE HasLink(db, l)
    <3>1. {db.link[l].from, db.link[l].to} \cap deleted' # {}
      BY <2>2 DEF Lost
    <3>2. cache.link[l] = db.link[l]
      BY <2>1, <2>2 DEF IInv, LinksAgree
    <3> QED
      BY <2>1, <3>1, <3>2
  <2>3. CASE ~HasLink(db, l)
    <3>1. PICK end \in {cache.link[l].from, cache.link[l].to} :
            ~HasNode(db, end) \/ end \in deleted \/ end \in TurnIds
      BY <2>1, <2>3 DEF IInv, PhantomLinksExplained
    <3>2. end \in NodeIds
      BY <2>1 DEF IInv, TypeOK, Caches, LinkMap, LinkRec, HasLink
    <3> QED
      BY <1>2, <2>1, <3>1, <3>2 DEF HasNode
  <2> QED
    BY <2>2, <2>3
<1>9. IndexBacked'
  <2>1. \A n \in NodeIds : \A x : Backed(n, x) => Backed(n, x)'
    BY <1>2 DEF Backed, HasNode
  <2> QED
    BY <2>1 DEF IInv, IndexBacked
<1>10. OwedKept'
  <2> SUFFICES ASSUME NEW m \in owed'
               PROVE  /\ Involved(m) \cap deleted' = {}
                      /\ Stays(m, db', renamed)
                      /\ m.op = "CreateNode" => m.id \in missed \/ Listed(m.id)'
    BY DEF OwedKept
  <2>1. m \in owed /\ Involved(m) \cap deleted' = {}
    BY DEF StillOwed
  <2>2. /\ m \in CreateNodeOp \cup CreateLinkOp /\ Stays(m, db, renamed)
        /\ m.op = "CreateNode" => m.id \in missed \/ Listed(m.id)
    BY <2>1 DEF IInv, TypeOK, OwedKept
  <2>3. /\ Stays(m, db', renamed)
        /\ m.op = "CreateNode" => cache'.node[m.id] = cache.node[m.id]
    BY <2>1, <2>2, StillThere
  <2>4. m.op = "CreateNode" /\ Listed(m.id) => Listed(m.id)'
    BY <2>3 DEF Listed, HasNode
  <2> QED
    BY <2>1, <2>2, <2>3, <2>4
<1>11. EmbeddingsInStep'
  <2> SUFFICES ASSUME NEW n \in NodeIds \ (shifted \cup renamed \cup deleted'), stored_vectors'[n] # Absent
               PROVE  HasNode(db', n) /\ stored_vectors'[n] = db'.node[n].label
    BY DEF EmbeddingsInStep
  <2>1. stored_vectors[n] # Absent /\ n \notin deleted /\ db'.node[n] = db.node[n]
    BY <1>2
  <2> QED
    BY <2>1 DEF IInv, EmbeddingsInStep, HasNode
<1>12. DuplicatesExplained'
  BY <1>2 DEF IInv, DuplicatesExplained, SameEntity, HasNode
<1>13. (missed \subseteq raced)'
  BY DEF IInv
<1> QED
  BY <1>1, <1>4, <1>5, <1>6, <1>7, <1>8, <1>9, <1>10, <1>11, <1>12, <1>13 DEF IInv

\* What a batch of deletions is, and what it deletes.
Dropping(owners, links, nodes) ==
  (UNION {OldProps(n) : n \in owners}) \cup {OldLink(l) : l \in links} \cup {OldNode(n) : n \in nodes}

LEMMA DeletedOps ==
  ASSUME NEW owners \in SUBSET Owners, NEW links \in SUBSET LinkIds, NEW nodes \in SUBSET NodeIds,
         db \in Tables
  PROVE  LET P == Dropping(owners, links, nodes) IN
         /\ P \in SUBSET Deletions /\ IsFiniteSet(P)
         /\ \A n : OldNode(n) \in P <=> n \in nodes
         /\ \A l : OldLink(l) \in P <=> l \in links
<1> DEFINE P == Dropping(owners, links, nodes)
<1>1. \A n \in Owners : \A m \in OldProps(n) : m \in DeletePropertyOp /\ m.op = "DeleteProperty"
  BY DEF OldProps, DeletePropertyOp, Tables
<1>2. /\ \A l \in LinkIds : OldLink(l) \in DeleteLinkOp
      /\ \A l : OldLink(l).op = "DeleteLink" /\ OldLink(l).id = l
  BY DEF OldLink, DeleteLinkOp
<1>3. /\ \A n \in NodeIds : OldNode(n) \in DeleteNodeOp
      /\ \A n : OldNode(n).op = "DeleteNode" /\ OldNode(n).id = n
  BY DEF OldNode, DeleteNodeOp
<1>4. P \in SUBSET Deletions
  BY <1>1, <1>2, <1>3 DEF Deletions, Dropping
<1>5. /\ \A n : OldNode(n) \in P <=> n \in nodes
      /\ \A l : OldLink(l) \in P <=> l \in links
  BY <1>1, <1>2, <1>3 DEF Dropping
<1> QED
  BY <1>4, <1>5, FiniteDeletions

LEMMA DeleteLoses ==
  ASSUME IInv, NEW nodes \in SUBSET NodeIds, NEW links \in SUBSET LinkIds, Delete(nodes, links),
         \A l \in links : HasLink(cache, l) /\ cache.link[l].from \in nodes
  PROVE  Lost(db, cache, deleted, db', cache', deleted')
<1> DEFINE P == (UNION {OldProps(n) : n \in nodes}) \cup {OldLink(l) : l \in links}
                  \cup {OldNode(n) : n \in nodes}
<1>1. Applied(db, cache, P) /\ deleted' = deleted \cup nodes
  BY DEF Delete
<1>2. db \in Tables /\ cache \in Caches
  BY DEF IInv, TypeOK
<1>3. nodes \in SUBSET Owners
  BY DEF Owners
<1>4. /\ P \in SUBSET Deletions /\ IsFiniteSet(P)
      /\ \A n : OldNode(n) \in P <=> n \in nodes
      /\ \A l : OldLink(l) \in P <=> l \in links
  <2> HIDE DEF P
  <2>1. P = Dropping(nodes, links, nodes)
    BY DEF P, Dropping
  <2> QED
    BY <1>2, <1>3, <2>1, DeletedOps
<1> HIDE DEF P
<1>5. Erased(db, cache, P, db', cache')
  BY <1>1, <1>2, <1>4, AfterDeletions DEF Applied
<1>6. \A n \in NodeIds :
        \/ db'.node[n] = db.node[n] /\ cache'.node[n] = cache.node[n]
        \/ n \in deleted' /\ db'.node[n] = Absent /\ cache'.node[n] = Absent
  BY <1>1, <1>4, <1>5 DEF Erased
<1>7. ASSUME NEW l \in LinkIds
      PROVE  /\ cache'.link[l] \in {cache.link[l], Absent}
             /\ db'.link[l] \in {db.link[l], Absent}
             /\ HasLink(db, l) /\ ~HasLink(db', l) =>
                  {db.link[l].from, db.link[l].to} \cap deleted' # {}
  <2>1. /\ cache'.link[l] \in {cache.link[l], Absent}
        /\ db'.link[l] \in {db.link[l], Absent}
        /\ db'.link[l] # db.link[l] =>
             l \in links \/ \E n \in {db.link[l].from, db.link[l].to} : n \in nodes
    BY <1>4, <1>5 DEF Erased
  <2>2. HasLink(db, l) /\ l \in links => db.link[l].from \in nodes
    BY DEF IInv, LinksAgree
  <2> QED
    BY <1>1, <2>1, <2>2 DEF HasLink
<1> QED
  BY <1>1, <1>5, <1>6, <1>7 DEF Lost, Erased

LEMMA DeleteStep ==
  ASSUME IInv, NEW nodes \in SUBSET NodeIds, NEW links \in SUBSET LinkIds, Delete(nodes, links),
         \A n \in nodes : \/ HasNode(db, n) \/ HasNode(cache, n)
                          \/ \E l \in LinkIds : HasLink(cache, l) /\ n = cache.link[l].from,
         \A l \in links : HasLink(cache, l) /\ cache.link[l].from \in nodes
  PROVE  IInv' /\ Lost(db, cache, deleted, db', cache', deleted')
<1>1. /\ deleted' = deleted \cup nodes
      /\ owed' = StillOwed(owed, deleted')
      /\ stored_vectors' = Without(stored_vectors, nodes)
      /\ cached_vectors' = Without(cached_vectors, nodes)
      /\ UNCHANGED <<index, req, shifted, overtaken, raced, renamed, missed>>
  BY DEF Delete
<1>2. /\ TypeOK
      /\ stored_vectors \in [NodeIds -> Labels \cup {Absent}]
      /\ cached_vectors \in [NodeIds -> Labels \cup {Absent}]
  BY DEF IInv, TypeOK
<1>3. Lost(db, cache, deleted, db', cache', deleted')
  BY DeleteLoses
<1>4. /\ stored_vectors' \in [NodeIds -> Labels \cup {Absent}]
      /\ cached_vectors' \in [NodeIds -> Labels \cup {Absent}]
      /\ \A n \in NodeIds \ deleted' : stored_vectors'[n] = stored_vectors[n]
  BY <1>1, <1>2 DEF Without
<1>5. deleted' \in SUBSET Owners
  BY <1>1, <1>2 DEF TypeOK, Owners
<1>6. \A id \in deleted' \ deleted :
        \/ id \in NodeIds /\ (HasNode(db, id) \/ HasNode(cache, id))
        \/ id \in LinkIds /\ HasLink(cache, id)
        \/ \E l \in LinkIds : HasLink(cache, l) /\ id = cache.link[l].from
  BY <1>1
<1> QED
  BY <1>1, <1>3, <1>4, <1>5, <1>6, LostStep

LEMMA CachedEnds ==
  ASSUME TypeOK, NEW l \in LinkIds, HasLink(cache, l)
  PROVE  cache.link[l].from \in NodeIds /\ cache.link[l].to \in NodeIds
         /\ cache.link[l].type \in LinkTypes
  BY DEF TypeOK, Caches, LinkMap, LinkRec, HasLink

LEMMA DeleteEntityStep ==
  ASSUME IInv, NEW n \in NodeIds, DeleteEntity(n)
  PROVE  IInv' /\ Lost(db, cache, deleted, db', cache', deleted')
<1> DEFINE claims == {cache.link[l].from : l \in CachedLinks(NodeIds, {n}, {"relates"})}
           nodes == claims \cup {n}
           links == CachedLinks(nodes, NodeIds, LinkTypes)
<1>1. Known(n) /\ Delete(nodes, links)
  BY DEF DeleteEntity
<1>2. \A l \in CachedLinks(NodeIds, {n}, {"relates"}) : l \in LinkIds /\ HasLink(cache, l)
  BY DEF CachedLinks
<1>3. nodes \in SUBSET NodeIds
  BY <1>2, CachedEnds DEF IInv
<1>4. \A m \in nodes : \/ HasNode(db, m) \/ HasNode(cache, m)
                       \/ \E l \in LinkIds : HasLink(cache, l) /\ m = cache.link[l].from
  BY <1>1, <1>2 DEF Known
<1> HIDE DEF nodes
<1>5. links \in SUBSET LinkIds /\ \A l \in links : HasLink(cache, l) /\ cache.link[l].from \in nodes
  BY DEF CachedLinks
<1> QED
  BY <1>1, <1>3, <1>4, <1>5, DeleteStep

LEMMA DeleteClaimStep ==
  ASSUME IInv, NEW n \in NodeIds, DeleteClaim(n)
  PROVE  IInv' /\ Lost(db, cache, deleted, db', cache', deleted')
<1> DEFINE links == CachedLinks({n}, NodeIds, {"relates"})
           nodes == {n}
<1>1. Known(n) /\ Delete(nodes, links)
  BY DEF DeleteClaim
<1>2. links \in SUBSET LinkIds /\ \A l \in links : HasLink(cache, l) /\ cache.link[l].from \in nodes
  BY DEF CachedLinks
<1>3. nodes \in SUBSET NodeIds /\ \A m \in nodes : HasNode(db, m) \/ HasNode(cache, m)
  BY <1>1 DEF Known
<1> HIDE DEF nodes, links
<1> QED
  BY <1>1, <1>2, <1>3, DeleteStep

LEMMA DeleteLinkStep ==
  ASSUME IInv, NEW l \in LinkIds, DeleteLink(l)
  PROVE  IInv' /\ Lost(db, cache, deleted, db', cache', deleted')
<1> DEFINE owners == {l}
           P == OldProps(l) \cup {OldLink(l)}
           none == {}
<1>1. /\ HasLink(cache, l) /\ Applied(db, cache, P) /\ deleted' = deleted \cup {l}
      /\ owed' = StillOwed(owed, deleted')
      /\ UNCHANGED <<stored_vectors, cached_vectors, index, req, shifted, overtaken, raced, renamed, missed>>
  BY DEF DeleteLink, vectors
<1>2. /\ TypeOK /\ db \in Tables /\ cache \in Caches
  BY DEF IInv, TypeOK
<1>3. l \in Owners
  BY DEF Owners
<1>4. /\ P \in SUBSET Deletions /\ IsFiniteSet(P)
      /\ \A n : OldNode(n) \in P <=> n \in none
      /\ \A k : OldLink(k) \in P <=> k \in owners
  <2>1. P = Dropping(owners, owners, none)
    BY DEF Dropping
  <2>2. owners \in SUBSET Owners /\ owners \in SUBSET LinkIds /\ none \in SUBSET NodeIds
    BY <1>3
  <2> HIDE DEF P, owners, none
  <2> QED
    BY <1>2, <2>1, <2>2, DeletedOps
<1> HIDE DEF P
<1>5. Erased(db, cache, P, db', cache')
  BY <1>1, <1>2, <1>4, AfterDeletions DEF Applied
<1>6. Lost(db, cache, deleted, db', cache', deleted')
  BY <1>1, <1>4, <1>5 DEF Lost, Erased, HasLink
<1>7. deleted' \in SUBSET Owners
  BY <1>1, <1>2, <1>3 DEF TypeOK
<1>8. /\ stored_vectors' \in [NodeIds -> Labels \cup {Absent}]
      /\ cached_vectors' \in [NodeIds -> Labels \cup {Absent}]
      /\ \A n \in NodeIds \ deleted' : stored_vectors'[n] = stored_vectors[n]
      /\ UNCHANGED <<index, req, shifted, overtaken, raced, renamed, missed>>
  BY <1>1, <1>2 DEF TypeOK
<1>9. \A id \in deleted' \ deleted :
        \/ id \in NodeIds /\ (HasNode(db, id) \/ HasNode(cache, id))
        \/ id \in LinkIds /\ HasLink(cache, id)
        \/ \E k \in LinkIds : HasLink(cache, k) /\ id = cache.link[k].from
  BY <1>1
<1> QED
  BY <1>1, <1>6, <1>7, <1>8, <1>9, LostStep

-----------------------------------------------------------------------------
(* The write *)

\* The tables d1 and maps c1 that the completed turn makes of d and c: T holds the turn, L
\* the link that may lead to it.
TurnMade(d, c, T, L, d1, c1) ==
  /\ d1 \in Tables /\ c1 \in Caches
  /\ \A n \in NodeIds :
       IF n \in T THEN /\ ~HasNode(d, n) /\ HasNode(d1, n)
                       /\ d1.node[n].type = "turn" /\ c1.node[n] = d1.node[n]
                  ELSE d1.node[n] = d.node[n] /\ c1.node[n] = c.node[n]
  /\ \A l \in LinkIds :
       /\ c1.link[l] = c.link[l]
       /\ d1.link[l] = d.link[l] \/ (l \in L /\ ~HasLink(d, l))

\* Tables e and maps f have in addition what P creates, and the turn.
Grown(d, c, P, T, L, e, f) ==
  /\ e \in Tables /\ f \in Caches
  /\ \A n \in NodeIds :
       /\ HasNode(d, n) => e.node[n] = d.node[n] /\ f.node[n] = c.node[n]
       /\ ~HasNode(d, n) /\ HasNode(e, n) =>
            /\ f.node[n] = e.node[n]
            /\ \/ \E m \in Nodes(P) : m.id = n /\ e.node[n] = m.rec
               \/ n \in T /\ e.node[n].type = "turn"
       /\ ~HasNode(e, n) => f.node[n] = c.node[n]
       /\ n \in T => HasNode(e, n)
  /\ \A m \in Nodes(P) : e.node[m.id] = m.rec /\ f.node[m.id] = m.rec
  /\ \A m \in LinksIn(P) :
       /\ f.link[m.id] = m.rec
       /\ e.link[m.id] = IF HasNode(e, m.rec.from) /\ HasNode(e, m.rec.to) THEN m.rec ELSE Absent
  /\ \A l \in LinkIds :
       (\A m \in LinksIn(P) : m.id # l) =>
         /\ f.link[l] = c.link[l]
         /\ e.link[l] = d.link[l] \/ (l \in L /\ ~HasLink(d, l))

\* What may be written: nothing in it is there.
Fresh(d, P, T, L) ==
  /\ P \in SUBSET Creations /\ Distinct(P)
  /\ \A m \in Nodes(P) : ~HasNode(d, m.id) /\ m.id \notin T
  /\ \A m \in LinksIn(P) : ~HasLink(d, m.id) /\ m.id \notin L

LEMMA WriteMakes ==
  ASSUME NEW d \in Tables, NEW c \in Caches, NEW P, NEW T, NEW L, Fresh(d, P, T, L),
         NEW d1, NEW c1, TurnMade(d, c, T, L, d1, c1),
         NEW e, e = After(d1, c1, P).db, NEW f, f = After(d1, c1, P).cache
  PROVE  Grown(d, c, P, T, L, e, f)
<1>1. P \in SUBSET Creations /\ Distinct(P) /\ IsFiniteSet(P)
  BY FiniteCreations DEF Fresh
<1>2. d1 \in Tables /\ c1 \in Caches
  BY DEF TurnMade
<1>3. Made(d1, c1, P, e, f)
  BY <1>1, <1>2, AfterCreations
<1>4. /\ e \in Tables /\ f \in Caches
      /\ \A m \in Nodes(P) : e.node[m.id] = m.rec /\ f.node[m.id] = m.rec
      /\ \A n \in NodeIds : (\A m \in Nodes(P) : m.id # n) => e.node[n] = d1.node[n] /\ f.node[n] = c1.node[n]
      /\ \A m \in LinksIn(P) :
           /\ f.link[m.id] = m.rec
           /\ e.link[m.id] = IF HasNode(e, m.rec.from) /\ HasNode(e, m.rec.to)
                             THEN m.rec ELSE d1.link[m.id]
      /\ \A l \in LinkIds : (\A m \in LinksIn(P) : m.id # l) => e.link[l] = d1.link[l] /\ f.link[l] = c1.link[l]
  BY <1>3 DEF Made, Nodes, LinksIn
<1>5. /\ \A m \in Nodes(P) : m.id \in NodeIds /\ m.rec # Absent
      /\ \A m \in LinksIn(P) : m.id \in LinkIds
  BY <1>1, RecsPresent DEF Nodes, LinksIn, Creations, CreateNodeOp, CreateLinkOp, SetPropertyOp
<1>6. ASSUME NEW n \in NodeIds
      PROVE  /\ HasNode(d, n) => e.node[n] = d.node[n] /\ f.node[n] = c.node[n]
             /\ ~HasNode(d, n) /\ HasNode(e, n) =>
                  /\ f.node[n] = e.node[n]
                  /\ \/ \E m \in Nodes(P) : m.id = n /\ e.node[n] = m.rec
                     \/ n \in T /\ e.node[n].type = "turn"
             /\ ~HasNode(e, n) => f.node[n] = c.node[n]
             /\ n \in T => HasNode(e, n)
  <2>1. CASE \E m \in Nodes(P) : m.id = n
    BY <1>4, <1>5, <2>1 DEF Fresh, HasNode
  <2>2. CASE \A m \in Nodes(P) : m.id # n
    BY <1>4, <2>2 DEF TurnMade, HasNode
  <2> QED
    BY <2>1, <2>2
<1>7. \A m \in LinksIn(P) : d1.link[m.id] = Absent
  BY <1>5 DEF Fresh, TurnMade, HasLink
<1>8. \A l \in LinkIds :
       (\A m \in LinksIn(P) : m.id # l) =>
         /\ f.link[l] = c.link[l]
         /\ e.link[l] = d.link[l] \/ (l \in L /\ ~HasLink(d, l))
  BY <1>4 DEF TurnMade
<1>9. \A m \in LinksIn(P) :
       /\ f.link[m.id] = m.rec
       /\ e.link[m.id] = IF HasNode(e, m.rec.from) /\ HasNode(e, m.rec.to) THEN m.rec ELSE Absent
  BY <1>4, <1>7
<1> QED
  BY <1>4, <1>6, <1>8, <1>9 DEF Grown

\* The state a write finds its request in.
LEMMA Writing ==
  ASSUME IInv, NEW r \in Requests, At(r, "write")
  PROVE  LET h == req[r] IN
         /\ Running(r) /\ h \in Handler
         /\ h.at \in 1..Len(Todo(h)) /\ Todo(h)[h.at] = "write"
         /\ Preparing(h, db, deleted)
         /\ r \in overtaken \/ Unmet(h, db, deleted, Excused)
         /\ h.turn \in NodeIds \/ (h.turn = Absent /\ h.shape.endpoint # "batch")
         /\ Completes(h) => h.turn \in TurnIds
         /\ h.shape.endpoint = "connect" => h.at = 5 /\ h.ends \in Seq(NodeIds) /\ Len(h.ends) = 2
         /\ h.shape.endpoint \in {"link", "update"} =>
              /\ h.ends \in Seq(NodeIds)
              /\ Len(h.ends) = IF h.shape.endpoint = "link" THEN 2 ELSE 1
<1> DEFINE h == req[r]
<1>1. Running(r) /\ h \in Handler /\ h.at \in 1..Len(Todo(h)) /\ Todo(h)[h.at] = "write"
  BY RunningHandler DEF At, IInv, OneRequest
<1>2. Unwritten(h)
  <2> HIDE DEF h
  <2> QED
    BY <1>1, Scopes DEF Unwritten
<1>3. Preparing(h, db, deleted) /\ (r \in overtaken \/ Unmet(h, db, deleted, Excused))
  BY <1>1, <1>2 DEF IInv, OneRequest
<1>4. /\ h.shape.endpoint = "connect" => h.at = 5
      /\ h.shape.endpoint \in {"link", "update"} => h.at # 1
  <2> HIDE DEF h
  <2> QED
    BY <1>1, Scopes
<1>5. h.turn \in NodeIds \/ (h.turn = Absent /\ h.shape.endpoint # "batch")
  <2>1. Absent \notin Owners
    BY IdsAssumption, AbsentAssumption DEF Owners
  <2>2. h.shape.endpoint = "batch" => h.turn \in h.own
    BY <1>3 DEF Preparing, TurnKnown
  <2> QED
    BY <1>1, <2>1, <2>2 DEF Handler
<1>6. Completes(h) => h.turn \in TurnIds
  <2>1. h.shape \in Shapes
    BY <1>1 DEF Handler
  <2> QED
    BY <1>3, <2>1, ShapesAssumption DEF Completes, Preparing, TurnKnown, AllShapes
<1>7. h.ends \in Seq(NodeIds) /\ InScript(h)
  BY <1>1, <1>3 DEF Handler, Preparing
<1>8. h.shape.endpoint = "connect" => Len(h.ends) = 2
  <2>1. h.shape.endpoint = "connect" => h.at # 1 /\ h.at # 2
    BY <1>4
  <2> QED
    BY <1>7, <2>1 DEF InScript
<1>9. h.shape.endpoint \in {"link", "update"} =>
        Len(h.ends) = IF h.shape.endpoint = "link" THEN 2 ELSE 1
  BY <1>4, <1>7 DEF InScript
<1> QED
  BY <1>1, <1>3, <1>4, <1>5, <1>6, <1>7, <1>8, <1>9

\* The links that a request adds to its plan when it writes.
LEMMA LastLinksFields ==
  ASSUME IInv, NEW r \in Requests, At(r, "write"), Enough(Links(req[r]), NewLinks)
  PROVE  LET h == req[r] IN
         \A m \in LastLinks(h) :
           /\ m \in Creations /\ m.op = "CreateLink" /\ m.id \in NewLinks
           /\ \A k \in LastLinks(h) : m.id = k.id => m = k
           /\ \A n \in {m.rec.from, m.rec.to} :
                \/ n \in Met(h)
                \/ n = h.turn /\ (n \in TurnIds \/ n \in h.own)
<1> DEFINE h == req[r]
           name == Named(Links(h), NewLinks)
           link(k) == IF k[2] = "context" THEN NewLink(name[k], h.turn, h.ids[k[1]], "references")
                      ELSE NewLink(name[k], h.ends[1], h.ends[2], h.shape.type)
<1>1. /\ h \in Handler /\ Preparing(h, db, deleted)
      /\ h.turn \in NodeIds \/ (h.turn = Absent /\ h.shape.endpoint # "batch")
      /\ Completes(h) => h.turn \in TurnIds
      /\ h.shape.endpoint = "connect" => h.ends \in Seq(NodeIds) /\ Len(h.ends) = 2
  BY Writing
<1>2. LastLinks(h) = {link(k) : k \in Links(h)}
  BY DEF LastLinks
<1>3. name \in [Links(h) -> NewLinks] /\ \A x, y \in Links(h) : name[x] = name[y] => x = y
  BY NamedNames
<1>4. NewLinks \subseteq LinkIds
  BY DEF NewLinks
<1>5. h.shape.endpoint = "batch" => h.turn \in h.own
  BY <1>1 DEF Preparing, TurnKnown
<1> HIDE DEF h
<1>6. ASSUME NEW k \in Links(h), k[2] = "context"
      PROVE  /\ k[1] \in Mapped(h) /\ h.ids[k[1]] \in NodeIds /\ h.ids[k[1]] \in Met(h)
             /\ h.turn \in NodeIds /\ (h.turn \in TurnIds \/ h.turn \in h.own)
  <2>1. k[1] \in Mapped(h) /\ (Completes(h) \/ h.shape.endpoint = "batch")
    BY <1>6 DEF Links
  <2>2. h.ids[k[1]] \in NodeIds /\ h.ids[k[1]] \in Met(h)
    BY <1>1, <2>1 DEF Mapped, Met, Handler
  <2> QED
    BY <1>1, <1>5, <2>1, <2>2 DEF Completes
<1>7. ASSUME NEW k \in Links(h), k[2] # "context"
      PROVE  /\ h.ends[1] \in NodeIds /\ h.ends[2] \in NodeIds /\ h.shape.type \in LinkTypes
             /\ h.ends[1] \in Met(h) /\ h.ends[2] \in Met(h)
  <2>1. h.shape.endpoint = "connect"
    BY <1>7 DEF Links
  <2>2. h.shape.type \in LinkTypes
    BY <1>1, <2>1, EndLabels DEF Handler
  <2>3. h.ends \in Seq(NodeIds) /\ DOMAIN h.ends = 1..2
    BY <1>1, <2>1
  <2> QED
    BY <2>2, <2>3 DEF Met, Range
<1> HIDE DEF name
<1>8. ASSUME NEW k \in Links(h)
      PROVE  /\ link(k) \in Creations /\ link(k).op = "CreateLink" /\ link(k).id = name[k]
             /\ \A n \in {link(k).rec.from, link(k).rec.to} :
                  n \in Met(h) \/ (n = h.turn /\ (n \in TurnIds \/ n \in h.own))
  <2>1. name[k] \in LinkIds
    BY <1>3, <1>4
  <2>2. CASE k[2] = "context"
    BY <1>6, <2>1, <2>2, NewLinkFields, KindsAssumption
  <2>3. CASE k[2] # "context"
    BY <1>7, <2>1, <2>3, NewLinkFields
  <2> QED
    BY <2>2, <2>3
<1> HIDE DEF link
<1> QED
  BY <1>2, <1>3, <1>8 DEF h

Plan(r) == req[r].plan \cup LastLinks(req[r])
NewTurn(r) == IF Completes(req[r]) THEN {req[r].turn} ELSE {}
SpareLinks(r) == NewLinks \ {m.id : m \in LastLinks(req[r])}

\* What a request writes.
LEMMA PlanIsFresh ==
  ASSUME IInv, NEW r \in Requests, At(r, "write"), Enough(Links(req[r]), NewLinks),
         ~req[r].twice, \A m \in Plan(r) : Applicable(db, m)
  PROVE  LET h == req[r] IN
         /\ Fresh(db, Plan(r), NewTurn(r), SpareLinks(r))
         /\ Nodes(Plan(r)) = Nodes(h.plan)
         /\ \A m \in Nodes(Plan(r)) : m.id \in h.own \/ m.id \in deleted
         /\ \A m \in LinksIn(Plan(r)) :
              /\ m.id \in h.own \/ m.id \in NewLinks
              /\ \A n \in {m.rec.from, m.rec.to} : n \in h.own \cup deleted \cup TurnIds \/ HasNode(db, n)
<1> DEFINE h == req[r]
           last == LastLinks(h)
           P == h.plan \cup last
<1>0. Plan(r) = P
  BY DEF Plan
<1>1. /\ h \in Handler /\ Preparing(h, db, deleted) /\ Running(r)
      /\ Completes(h) => h.turn \in TurnIds
  BY Writing
<1>2. \A m \in last :
           /\ m \in Creations /\ m.op = "CreateLink" /\ m.id \in NewLinks
           /\ \A k \in last : m.id = k.id => m = k
           /\ \A n \in {m.rec.from, m.rec.to} :
                n \in Met(h) \/ (n = h.turn /\ (n \in TurnIds \/ n \in h.own))
  BY LastLinksFields
<1>3. PlansNodes(h, deleted) /\ PlansLinks(h, db, deleted) /\ Grounded(h, db, deleted)
  BY <1>1 DEF Preparing
<1>4. \A id \in h.own : Unused(id, db, cache, deleted)
  BY <1>1 DEF IInv, Owned
<1>5. /\ \A id \in NewLinks : id \notin h.own /\ id \in LinkIds /\ ~HasLink(db, id)
  BY <1>1, NewIds DEF Unused, NewLinks
<1>14. ~h.twice /\ \A m \in P : Applicable(db, m)
  BY <1>0
<1>15. h.plan \in SUBSET Creations
  BY <1>1 DEF Handler
<1> HIDE DEF h, last
<1>6. /\ Nodes(P) = Nodes(h.plan) /\ LinksIn(P) = LinksIn(h.plan) \cup last
  BY <1>2 DEF Nodes, LinksIn
<1>7. P \in SUBSET Creations
  BY <1>2, <1>15
<1>8. \A n \in Met(h) : n \in h.own \cup deleted \/ HasNode(db, n)
  BY <1>3 DEF Grounded, PlansNodes
<1>9. \A m \in Nodes(P) :
       \/ (m.id \in h.own \/ m.id \in deleted) /\ ~HasNode(db, m.id) /\ m.id \notin TurnIds
       \/ h.shape.endpoint = "connect"
  BY <1>3, <1>4, <1>6, <1>14 DEF PlansNodes, Unused, Applicable, Nodes
<1>10. \A m \in Nodes(P) : (m.id \in h.own \/ m.id \in deleted) /\ ~HasNode(db, m.id)
  BY <1>3, <1>6, <1>14 DEF PlansNodes, Applicable, Nodes
<1>11. \A m \in Nodes(P) : m.id \notin NewTurn(r)
  BY <1>1, <1>9 DEF NewTurn, Completes, h
<1>12. \A m \in LinksIn(P) :
         /\ m.id \in h.own \/ m.id \in NewLinks
         /\ m.id \notin SpareLinks(r) /\ ~HasLink(db, m.id)
         /\ \A n \in {m.rec.from, m.rec.to} : n \in h.own \cup deleted \cup TurnIds \/ HasNode(db, n)
  <2>1. ASSUME NEW m \in LinksIn(h.plan)
        PROVE  /\ m.id \in h.own
               /\ m.id \notin SpareLinks(r) /\ ~HasLink(db, m.id)
               /\ \A n \in {m.rec.from, m.rec.to} : n \in h.own \cup deleted \cup TurnIds \/ HasNode(db, n)
    <3>1. m.id \in h.own /\ \A n \in {m.rec.from, m.rec.to} : n \in h.own \cup deleted \cup TurnIds \/ HasNode(db, n)
      BY <1>3 DEF PlansLinks
    <3>2. m.id \in LinkIds
      BY <1>15 DEF LinksIn, Creations, CreateNodeOp, CreateLinkOp, SetPropertyOp
    <3> QED
      BY <1>4, <1>5, <3>1, <3>2 DEF Unused, SpareLinks
  <2>2. ASSUME NEW m \in last
        PROVE  /\ m.id \in NewLinks
               /\ m.id \notin SpareLinks(r) /\ ~HasLink(db, m.id)
               /\ \A n \in {m.rec.from, m.rec.to} : n \in h.own \cup deleted \cup TurnIds \/ HasNode(db, n)
    BY <1>2, <1>5, <1>8 DEF SpareLinks, last, h
  <2> QED
    BY <1>6, <2>1, <2>2
<1>13. Distinct(P)
  <2>1. \A m, k \in Nodes(P) : m.id = k.id => m = k
    BY <1>3, <1>6, <1>14 DEF PlansNodes
  <2>2. ASSUME NEW m \in LinksIn(P), NEW k \in LinksIn(P), m.id = k.id PROVE m = k
    <3>1. \A x \in LinksIn(h.plan) : x.id \in h.own /\ \A y \in LinksIn(h.plan) : x.id = y.id => x = y
      BY <1>3 DEF PlansLinks
    <3>2. \A x \in last : x.id \notin h.own /\ \A y \in last : x.id = y.id => x = y
      BY <1>2, <1>5
    <3> QED
      BY <1>6, <2>2, <3>1, <3>2
  <2> QED
    BY <2>1, <2>2 DEF Distinct, Nodes, LinksIn
<1> HIDE DEF P
<1>16. Fresh(db, P, NewTurn(r), SpareLinks(r))
  BY <1>7, <1>10, <1>11, <1>12, <1>13 DEF Fresh
<1> QED
  BY <1>0, <1>6, <1>10, <1>12, <1>16 DEF h

\* What a write makes of the tables and the maps.
LEMMA WriteGrown ==
  ASSUME IInv, NEW r \in Requests, Write(r)
  PROVE  /\ Fresh(db, Plan(r), NewTurn(r), SpareLinks(r))
         /\ Grown(db, cache, Plan(r), NewTurn(r), SpareLinks(r), db', cache')
<1> DEFINE h == req[r]
           P == Plan(r)
           T == NewTurn(r)
           L == SpareLinks(r)
<1>1. /\ At(r, "write") /\ Enough(Links(h), NewLinks) /\ ~h.twice
      /\ \A m \in P : Applicable(db, m)
      /\ IF Completes(h)
         THEN /\ TurnApplicable(db, h.turn)
              /\ \E m \in Turns(h) : Applied(ApplyTurn(db, m), CacheTurn(cache, m), P)
         ELSE Applied(db, cache, P)
  BY DEF Write, Plan
<1>2. db \in Tables /\ cache \in Caches
  BY DEF IInv, TypeOK
<1>3. Fresh(db, P, T, L)
  BY <1>1, PlanIsFresh
<1>4. Completes(h) => h.turn \in TurnIds /\ h.turn \in NodeIds
  <2>1. Completes(h) => h.turn \in TurnIds
    BY <1>1, Writing
  <2> QED
    BY <2>1, IdsAssumption
<1> SUFFICES Grown(db, cache, P, T, L, db', cache')
  BY <1>3
<1>5. CASE ~Completes(h)
  <2>1. T = {}
    BY <1>5 DEF NewTurn
  <2>2. TurnMade(db, cache, T, L, db, cache)
    BY <1>2, <2>1 DEF TurnMade
  <2>3. db' = After(db, cache, P).db /\ cache' = After(db, cache, P).cache
    BY <1>1, <1>5 DEF Applied
  <2> HIDE DEF P, T, L
  <2> QED
    BY <1>2, <1>3, <2>2, <2>3, WriteMakes
<1>6. CASE Completes(h)
  <2>1. PICK m \in Turns(h) : Applied(ApplyTurn(db, m), CacheTurn(cache, m), P)
    BY <1>1, <1>6
  <2>2. T = {h.turn} /\ ~HasNode(db, h.turn) /\ h.turn \in NodeIds
    BY <1>1, <1>4, <1>6 DEF NewTurn, TurnApplicable
  <2>3. m \in TurnOp /\ m.id = h.turn /\ m.link \in {Absent} \cup L
    <3>1. L \subseteq LinkIds
      BY DEF SpareLinks, NewLinks
    <3>2. Turns(h) = {[op |-> "CreateTurn", id |-> h.turn, label |-> Content,
                       link |-> link, prev |-> prev]
                      : link \in {Absent} \cup {l \in L : l = uid(L)},
                        prev \in TurnNodes(DbCreateTurn(db, h.turn, Content))}
      BY DEF Turns, SpareLinks
    <3>3. TurnNodes(DbCreateTurn(db, h.turn, Content)) \subseteq NodeIds
      BY DEF TurnNodes
    <3> HIDE DEF L, h
    <3>4. PICK link \in {Absent} \cup L, prev \in NodeIds :
            m = [op |-> "CreateTurn", id |-> h.turn, label |-> Content, link |-> link, prev |-> prev]
      BY <3>2, <3>3
    <3> QED
      BY <2>2, <3>1, <3>4, LabelsAssumption DEF TurnOp
  <2> DEFINE d1 == ApplyTurn(db, m)
             c1 == CacheTurn(cache, m)
  <2>4. d1 \in Tables /\ c1 \in Caches
    BY <1>2, <2>3, TurnType
  <2>5. /\ TurnRec(m.label) # Absent /\ TurnRec(m.label).type = "turn"
        /\ \A k \in NodeIds :
              /\ d1.node[k] = IF k = m.id THEN TurnRec(m.label) ELSE db.node[k]
              /\ c1.node[k] = IF k = m.id THEN TurnRec(m.label) ELSE cache.node[k]
        /\ c1.link = cache.link
        /\ \A k \in LinkIds : d1.link[k] = db.link[k] \/ k = m.link
    BY <1>2, <2>3, TurnShape
  <2>6. \A l \in L : ~HasLink(db, l)
    BY NewIds DEF SpareLinks, NewLinks, Unused
  <2>7. Absent \notin LinkIds
    BY AbsentAssumption
  <2> HIDE DEF d1, c1, L, P, T, h
  <2>8. TurnMade(db, cache, T, L, d1, c1)
    BY <2>2, <2>3, <2>4, <2>5, <2>6, <2>7 DEF TurnMade, HasNode
  <2>9. db' = After(d1, c1, P).db /\ cache' = After(d1, c1, P).cache
    BY <2>1 DEF Applied, d1, c1
  <2> QED
    BY <1>2, <1>3, <2>8, <2>9, WriteMakes
<1> QED
  BY <1>5, <1>6

\* What a write leaves alone: the tables grow, and what grew has identifiers that the
\* request r made, that were deleted before, or that clients give to turns.
GrownBy(r, d, c, P, e, f) ==
  /\ \A n \in NodeIds :
       /\ HasNode(d, n) => HasNode(e, n) /\ e.node[n] = d.node[n] /\ f.node[n] = c.node[n]
       /\ HasNode(e, n) /\ ~HasNode(d, n) =>
            /\ f.node[n] = e.node[n]
            /\ n \in req[r].own \cup deleted \cup TurnIds
            /\ \/ \E m \in Nodes(req[r].plan) : m.id = n /\ e.node[n] = m.rec
               \/ n \in TurnIds /\ e.node[n].type = "turn"
       /\ ~HasNode(e, n) => f.node[n] = c.node[n]
  /\ \A m \in Nodes(req[r].plan) : m.id \in NodeIds /\ HasNode(e, m.id)
                                   /\ e.node[m.id] = m.rec /\ f.node[m.id] = m.rec
  /\ \A m \in LinksIn(P) :
       /\ m.id \in LinkIds /\ HasLink(f, m.id) /\ f.link[m.id] = m.rec
       /\ e.link[m.id] = IF HasNode(e, m.rec.from) /\ HasNode(e, m.rec.to) THEN m.rec ELSE Absent
       /\ m.rec.from \in NodeIds /\ m.rec.to \in NodeIds
       /\ \A n \in {m.rec.from, m.rec.to} : n \in req[r].own \cup deleted \cup TurnIds \/ HasNode(d, n)
  /\ \A l \in LinkIds :
       \/ /\ l \in req[r].own \cup NewLinks /\ ~HasLink(d, l)
          /\ \E m \in LinksIn(P) : m.id = l
       \/ f.link[l] = c.link[l] /\ e.link[l] = d.link[l]
       \/ f.link[l] = c.link[l] /\ ~HasLink(d, l) /\ l \in NewLinks

LEMMA WriteGrows ==
  ASSUME IInv, NEW r \in Requests, Write(r)
  PROVE  /\ db' \in Tables /\ cache' \in Caches
         /\ Plan(r) \in SUBSET Creations
         /\ GrownBy(r, db, cache, Plan(r), db', cache')
         /\ Completes(req[r]) => HasNode(db', req[r].turn)
<1> DEFINE h == req[r]
           P == Plan(r)
           T == NewTurn(r)
           L == SpareLinks(r)
<1>1. At(r, "write") /\ Enough(Links(h), NewLinks) /\ ~h.twice /\ \A m \in P : Applicable(db, m)
  BY DEF Write, Plan
<1>2. Fresh(db, P, T, L) /\ Grown(db, cache, P, T, L, db', cache')
  BY WriteGrown
<1>3. /\ Nodes(P) = Nodes(h.plan)
      /\ \A m \in Nodes(P) : m.id \in h.own \/ m.id \in deleted
      /\ \A m \in LinksIn(P) :
            /\ m.id \in h.own \/ m.id \in NewLinks
            /\ \A n \in {m.rec.from, m.rec.to} : n \in h.own \cup deleted \cup TurnIds \/ HasNode(db, n)
  BY <1>1, PlanIsFresh
<1>4. T \subseteq TurnIds /\ (Completes(h) => h.turn \in T /\ h.turn \in NodeIds)
  <2>1. Completes(h) => h.turn \in TurnIds
    BY <1>1, Writing
  <2> QED
    BY <2>1, IdsAssumption DEF NewTurn
<1>5. L \subseteq NewLinks
  BY DEF SpareLinks
<1>6. /\ P \in SUBSET Creations
      /\ \A m \in Nodes(P) : m.id \in NodeIds /\ m.rec # Absent
      /\ \A m \in LinksIn(P) : /\ m.id \in LinkIds /\ m.rec # Absent
                               /\ m.rec.from \in NodeIds /\ m.rec.to \in NodeIds
  BY <1>2, RecsPresent DEF Fresh, Nodes, LinksIn, Creations, CreateNodeOp, CreateLinkOp, SetPropertyOp,
                           LinkRec
<1> HIDE DEF P, T, L, h
<1>7. GrownBy(r, db, cache, P, db', cache')
  <2>1. ASSUME NEW n \in NodeIds
        PROVE  /\ HasNode(db, n) => HasNode(db', n) /\ db'.node[n] = db.node[n] /\ cache'.node[n] = cache.node[n]
               /\ HasNode(db', n) /\ ~HasNode(db, n) =>
                    /\ cache'.node[n] = db'.node[n]
                    /\ n \in h.own \cup deleted \cup TurnIds
                    /\ \/ \E m \in Nodes(h.plan) : m.id = n /\ db'.node[n] = m.rec
                       \/ n \in TurnIds /\ db'.node[n].type = "turn"
               /\ ~HasNode(db', n) => cache'.node[n] = cache.node[n]
    <3>1. /\ HasNode(db, n) => db'.node[n] = db.node[n] /\ cache'.node[n] = cache.node[n]
          /\ ~HasNode(db, n) /\ HasNode(db', n) =>
              /\ cache'.node[n] = db'.node[n]
              /\ \/ \E m \in Nodes(P) : m.id = n /\ db'.node[n] = m.rec
                 \/ n \in T /\ db'.node[n].type = "turn"
          /\ ~HasNode(db', n) => cache'.node[n] = cache.node[n]
      BY <1>2 DEF Grown
    <3> QED
      BY <1>3, <1>4, <3>1 DEF HasNode
  <2>2. \A m \in Nodes(h.plan) : m.id \in NodeIds /\ HasNode(db', m.id)
                                 /\ db'.node[m.id] = m.rec /\ cache'.node[m.id] = m.rec
    BY <1>2, <1>3, <1>6 DEF Grown, HasNode
  <2>3. \A m \in LinksIn(P) :
          /\ m.id \in LinkIds /\ HasLink(cache', m.id) /\ cache'.link[m.id] = m.rec
          /\ db'.link[m.id] = IF HasNode(db', m.rec.from) /\ HasNode(db', m.rec.to) THEN m.rec ELSE Absent
          /\ m.rec.from \in NodeIds /\ m.rec.to \in NodeIds
          /\ \A n \in {m.rec.from, m.rec.to} : n \in h.own \cup deleted \cup TurnIds \/ HasNode(db, n)
    BY <1>2, <1>3, <1>6 DEF Grown, HasLink
  <2>4. ASSUME NEW l \in LinkIds
        PROVE  \/ /\ l \in h.own \cup NewLinks /\ ~HasLink(db, l)
                  /\ \E m \in LinksIn(P) : m.id = l
               \/ cache'.link[l] = cache.link[l] /\ db'.link[l] = db.link[l]
               \/ cache'.link[l] = cache.link[l] /\ ~HasLink(db, l) /\ l \in NewLinks
    <3>1. CASE \E m \in LinksIn(P) : m.id = l
      BY <1>2, <1>3, <3>1 DEF Fresh
    <3>2. CASE \A m \in LinksIn(P) : m.id # l
      BY <1>2, <1>5, <3>2 DEF Grown
    <3> QED
      BY <3>1, <3>2
  <2> QED
    BY <2>1, <2>2, <2>3, <2>4 DEF GrownBy, h
<1>8. Completes(h) => HasNode(db', h.turn)
  BY <1>2, <1>4 DEF Grown
<1>9. db' \in Tables /\ cache' \in Caches
  BY <1>2 DEF Grown
<1> QED
  BY <1>6, <1>7, <1>8, <1>9 DEF P, h

\* What was there stays.
LEMMA StaysWhenGrown ==
  ASSUME NEW r, NEW d, NEW c, NEW P, NEW e, NEW f, GrownBy(r, d, c, P, e, f), NEW ren,
         NEW m \in CreateNodeOp \cup CreateLinkOp, Stays(m, d, ren)
  PROVE  /\ Stays(m, e, ren)
         /\ m.op = "CreateNode" => m.id \in NodeIds /\ f.node[m.id] = c.node[m.id]
<1>1. CASE m \in CreateNodeOp
  <2>1. m.op = "CreateNode" /\ m.id \in NodeIds
    BY <1>1 DEF CreateNodeOp
  <2>2. /\ m.rec.type = "entity" /\ HasNode(d, m.id) /\ d.node[m.id].type = "entity"
        /\ m.id \notin ren => d.node[m.id] = m.rec
    BY <2>1 DEF Stays
  <2>3. HasNode(e, m.id) /\ e.node[m.id] = d.node[m.id] /\ f.node[m.id] = c.node[m.id]
    BY <2>1, <2>2 DEF GrownBy
  <2> QED
    BY <2>1, <2>2, <2>3 DEF Stays
<1>2. CASE m \in CreateLinkOp
  <2>1. m.op = "CreateLink" /\ m.id \in LinkIds /\ m.rec # Absent
    BY <1>2, RecsPresent DEF CreateLinkOp
  <2>2. d.link[m.id] = m.rec
    BY <2>1 DEF Stays
  <2>3. e.link[m.id] = m.rec
    BY <2>1, <2>2 DEF GrownBy, HasLink
  <2> QED
    BY <2>1, <2>3 DEF Stays
<1> QED
  BY <1>1, <1>2

\* What is promised after a write is kept.
LEMMA PromisedKept ==
  ASSUME IInv, NEW r \in Requests, Write(r), NEW m \in Promised(req[r], Plan(r))
  PROVE  /\ m \in CreateNodeOp \cup CreateLinkOp
         /\ Involved(m) \cap deleted = {} =>
              Stays(m, db', renamed) /\ (m.op = "CreateNode" => cache'.node[m.id] = m.rec)
         /\ req[r].shape.endpoint \in {"claims", "link", "connect", "update"} => m.op # "CreateNode"
<1> DEFINE h == req[r]
           P == Plan(r)
<1>1. /\ At(r, "write") /\ P \in SUBSET Creations
      /\ GrownBy(r, db, cache, P, db', cache')
      /\ Completes(h) => HasNode(db', h.turn)
  BY WriteGrows DEF Write
<1>2. /\ Grounded(h, db, deleted) /\ h \in Handler
      /\ h.shape.endpoint = "connect" => h.at = 5 /\ h.ends \in Seq(NodeIds) /\ Len(h.ends) = 2
  BY <1>1, Writing DEF Preparing
<1>3. Nodes(P) = Nodes(h.plan)
  BY PlanIsFresh DEF Write, Plan
<1> HIDE DEF P
<1>4. \A n \in Met(h) : n \in NodeIds /\ (n \in deleted \/ HasNode(db', n))
  <2>1. Met(h) \subseteq NodeIds
    BY <1>2 DEF Handler, Met, Mapped, Range
  <2>2. \A n \in NodeIds : ~Unchecked(h, n)
    BY <1>2 DEF Unchecked
  <2> HIDE DEF h
  <2> QED
    BY <1>1, <1>2, <2>1, <2>2 DEF Grounded, GrownBy, h
<1>5. ASSUME NEW n \in Resolved(h, P) PROVE n \in deleted \/ HasNode(db', n)
  <2>1. \/ n \in Met(h)
        \/ \E k \in Nodes(P) : n = k.id
        \/ Completes(h) /\ n = h.turn
    BY DEF Resolved, Met, Nodes
  <2> QED
    BY <1>1, <1>3, <1>4, <2>1 DEF GrownBy
<1>6. /\ m \in P
      /\ \/ /\ m.op = "CreateNode" /\ m.rec.type = "entity"
            /\ h.shape.endpoint \notin {"claims", "link", "connect", "update"}
         \/ m.op = "CreateLink" /\ {m.rec.from, m.rec.to} \subseteq Resolved(h, P)
  BY DEF Promised, P, h
<1>7. m \in CreateNodeOp \cup CreateLinkOp
  BY <1>1, <1>6 DEF Creations, SetPropertyOp
<1>8. CASE m.op = "CreateNode" /\ m.rec.type = "entity" /\ h.shape.endpoint \notin {"claims", "link", "connect", "update"}
  <2>1. m \in Nodes(h.plan)
    BY <1>3, <1>6, <1>8 DEF Nodes
  <2> QED
    BY <1>1, <1>7, <1>8, <2>1 DEF GrownBy, Stays
<1>9. CASE m.op = "CreateLink" /\ {m.rec.from, m.rec.to} \subseteq Resolved(h, P)
  <2>1. m \in LinksIn(P)
    BY <1>6, <1>9 DEF LinksIn
  <2>2. db'.link[m.id] = IF HasNode(db', m.rec.from) /\ HasNode(db', m.rec.to) THEN m.rec ELSE Absent
    BY <1>1, <2>1 DEF GrownBy
  <2>3. Involved(m) \cap deleted = {} => m.rec.from \notin deleted /\ m.rec.to \notin deleted
    BY <1>9 DEF Involved
  <2> QED
    BY <1>5, <1>7, <1>9, <2>2, <2>3 DEF Stays
<1> QED
  BY <1>6, <1>7, <1>8, <1>9

\* A request after its write, and in its next scope.
LEMMA WrittenFields ==
  ASSUME NEW h \in Handler, h.at \in 1..Len(Todo(h)), Todo(h)[h.at] = "write",
         NEW ms \in SUBSET Creations
  PROVE  LET k == Written(h, ms)
             g == [k EXCEPT !.at = @ + 1]
         IN /\ k.plan = ms /\ (k.at = Len(Todo(k)) <=> h.at = Len(Todo(h)))
            /\ h.at = Len(Todo(h)) => h.shape.endpoint \in {"claims", "link", "connect", "update"}
            /\ h.shape.endpoint = "ingest" => h.at # Len(Todo(h))
            /\ h.at # Len(Todo(h)) =>
                 /\ g \in Handler /\ g.at \in 1..Len(Todo(g)) /\ ~Unwritten(g)
                 /\ g.plan = ms /\ g.own = {} /\ g.shifts = {} /\ g.embeds = h.embeds
<1> DEFINE skips == h.embeds = {} /\ h.at < Len(Todo(h)) /\ Todo(h)[h.at + 1] = "embed"
           at == IF skips THEN h.at + 1 ELSE h.at
           k == Written(h, ms)
           g == [k EXCEPT !.at = @ + 1]
           none == [x \in Labels |-> Absent]
<1>1. /\ k \in Handler /\ k.shape = h.shape /\ k.at = at /\ k.plan = ms /\ k.own = {}
      /\ k.shifts = {} /\ k.embeds = h.embeds
  <2>1. k = [h EXCEPT !.ids = none, !.ends = << >>, !.own = {}, !.plan = ms, !.shifts = {}, !.at = at]
    BY DEF Written
  <2>2. none \in [Labels -> NodeIds \cup {Absent}] /\ << >> \in Seq(NodeIds) /\ at \in Nat
    BY DEF Handler
  <2> HIDE DEF k, at, none
  <2> QED
    BY <2>1, <2>2 DEF Handler
<1> HIDE DEF k
<1>2. /\ g \in Handler /\ g.shape = h.shape /\ g.at = at + 1 /\ g.plan = ms /\ g.own = {}
      /\ g.shifts = {} /\ g.embeds = h.embeds
  BY <1>1, Advanced, NextFields
<1> HIDE DEF g
<1>3. Todo(k) = Todo(h) /\ Todo(g) = Todo(h)
  BY <1>1, <1>2 DEF Todo
<1>4. /\ h.at # Len(Todo(h)) => /\ h.at + 1 \in 1..Len(Todo(h)) /\ Todo(h)[h.at + 1] \in {"embed", "merge"}
                                /\ h.shape.endpoint \in {"remember", "ingest", "entities", "batch"}
      /\ h.at = Len(Todo(h)) => h.shape.endpoint \in {"claims", "link", "connect", "update"}
  BY Scopes
<1>5. h.at # Len(Todo(h)) =>
        /\ at # Len(Todo(h)) /\ at + 1 \in 1..Len(Todo(h))
        /\ Todo(h)[at + 1] \in {"embed", "merge"}
  <2>1. CASE h.at # Len(Todo(h)) /\ skips
    <3>1. h.at + 1 # Len(Todo(h)) /\ Todo(h)[h.at + 2] = "merge" /\ h.at + 1 \in 1..Len(Todo(h))
      <4>1. Todo(h)[h.at + 1] = "embed" /\ h.at + 1 \in 1..Len(Todo(h))
        BY <1>4, <2>1
      <4>2. h.at + 1 # Len(Todo(h)) /\ Todo(h)[(h.at + 1) + 1] = "merge"
        BY <4>1, Scopes
      <4> QED
        BY <4>1, <4>2
    <3>2. at = h.at + 1 /\ h.at \in Nat /\ Len(Todo(h)) \in Nat
      <4>1. h.shape.endpoint \in Endpoints
        BY ShapesAssumption DEF Handler, AllShapes
      <4>2. Len(Todo(h)) \in Nat
        BY <4>1 DEF Todo, Script, Endpoints
      <4> QED
        BY <2>1, <4>2
    <3> QED
      BY <3>1, <3>2
  <2>2. CASE ~skips
    BY <1>4, <2>2
  <2> QED
    BY <2>1, <2>2
<1>6. h.at = Len(Todo(h)) => at = h.at
  OBVIOUS
<1> HIDE DEF at
<1>7. h.at # Len(Todo(h)) => g.at \in 1..Len(Todo(g)) /\ ~Unwritten(g)
  BY <1>2, <1>3, <1>5, Scopes DEF Unwritten
<1>8. k.plan = ms /\ (k.at = Len(Todo(k)) <=> h.at = Len(Todo(h)))
  BY <1>1, <1>3, <1>5, <1>6
<1> QED
  BY <1>2, <1>4, <1>7, <1>8 DEF k, g

\* Who wrote goes on, or has replied.
LEMMA WriteGoesOn ==
  ASSUME IInv, NEW r \in Requests, Write(r)
  PROVE  LET ms == Promised(req[r], Plan(r)) IN
         \/ /\ req' = [req EXCEPT ![r] = Done] /\ owed' = StillOwed(owed \cup ms, deleted)
            /\ req[r].shape.endpoint \in {"claims", "link", "connect", "update"}
         \/ \E g \in Handler :
              /\ req' = [req EXCEPT ![r] = g] /\ UNCHANGED owed
              /\ g.at \in 1..Len(Todo(g)) /\ ~Unwritten(g)
              /\ g.plan = ms /\ g.own = {} /\ g.shifts = {} /\ g.embeds = req[r].embeds
<1> DEFINE h == req[r]
           ms == Promised(h, Plan(r))
           k == Written(h, ms)
           g == [k EXCEPT !.at = @ + 1]
<1>1. Proceed(r, k) /\ At(r, "write")
  BY DEF Write, Plan
<1>2. h \in Handler /\ h.at \in 1..Len(Todo(h)) /\ Todo(h)[h.at] = "write"
  BY <1>1, Writing
<1>3. ms \in SUBSET Creations
  BY PromisedKept DEF Creations
<1> HIDE DEF ms, h
<1>4. /\ k.plan = ms /\ (k.at = Len(Todo(k)) <=> h.at = Len(Todo(h)))
      /\ h.at = Len(Todo(h)) => h.shape.endpoint \in {"claims", "link", "connect", "update"}
      /\ h.at # Len(Todo(h)) =>
           /\ g \in Handler /\ g.at \in 1..Len(Todo(g)) /\ ~Unwritten(g)
           /\ g.plan = ms /\ g.own = {} /\ g.shifts = {} /\ g.embeds = h.embeds
  BY <1>2, <1>3, WrittenFields
<1> HIDE DEF k
<1>5. IF k.at = Len(Todo(k))
      THEN /\ req' = [req EXCEPT ![r] = Done] /\ owed' = StillOwed(owed \cup k.plan, deleted)
      ELSE req' = [req EXCEPT ![r] = g] /\ UNCHANGED owed
  BY <1>1 DEF Proceed, Continue
<1> HIDE DEF g
<1> QED
  BY <1>4, <1>5 DEF h, ms

\* The identifiers that others made stay unused.
LEMMA OwnAfterWrite ==
  ASSUME IInv, NEW r \in Requests, Write(r), NEW q \in Requests \ {r}, Running(q), NEW id \in req[q].own
  PROVE  Unused(id, db', cache', deleted)
<1> DEFINE P == Plan(r)
<1>1. GrownBy(r, db, cache, P, db', cache') /\ Running(r)
  BY WriteGrows DEF Write, At
<1>2. Unused(id, db, cache, deleted) /\ id \notin req[r].own
  BY <1>1 DEF IInv, Owned
<1>3. id \notin NewLinks /\ id \notin deleted \cup TurnIds
  BY <1>2, NewIds DEF Unused
<1> HIDE DEF P
<1>4. id \in NodeIds => ~HasNode(db', id) /\ ~HasNode(cache', id)
  <2>1. id \in NodeIds => ~HasNode(db', id)
    BY <1>1, <1>2, <1>3 DEF GrownBy, Unused
  <2> QED
    BY <1>1, <1>2, <2>1 DEF GrownBy, Unused, HasNode
<1>5. id \in LinkIds => ~HasLink(db', id) /\ ~HasLink(cache', id)
  BY <1>1, <1>2, <1>3 DEF GrownBy, Unused, HasLink
<1>6. ASSUME NEW l \in LinkIds, HasLink(cache', l)
      PROVE  id # cache'.link[l].from /\ id # cache'.link[l].to
  <2>1. CASE \E m \in LinksIn(P) : m.id = l
    <3>1. PICK m \in LinksIn(P) : m.id = l
      BY <2>1
    <3>2. /\ cache'.link[l] = m.rec /\ m.rec.from \in NodeIds /\ m.rec.to \in NodeIds
          /\ \A n \in {m.rec.from, m.rec.to} : n \in req[r].own \cup deleted \cup TurnIds \/ HasNode(db, n)
      BY <1>1, <3>1 DEF GrownBy
    <3> QED
      BY <1>2, <1>3, <3>2 DEF Unused
  <2>2. CASE cache'.link[l] = cache.link[l]
    BY <1>2, <1>6, <2>2 DEF Unused, HasLink
  <2> QED
    BY <1>1, <2>1, <2>2 DEF GrownBy
<1> QED
  BY <1>2, <1>4, <1>5, <1>6 DEF Unused

\* What is owed after a write.
LEMMA OwedAfterWrite ==
  ASSUME IInv, NEW r \in Requests, Write(r)
  PROVE  owed' \in SUBSET (CreateNodeOp \cup CreateLinkOp) /\ OwedKept'
<1> DEFINE ms == Promised(req[r], Plan(r))
<1>1. \/ UNCHANGED owed
      \/ /\ owed' = StillOwed(owed \cup ms, deleted)
         /\ req[r].shape.endpoint \in {"claims", "link", "connect", "update"}
  BY WriteGoesOn
<1>2. UNCHANGED <<index, deleted, renamed, missed>> /\ GrownBy(r, db, cache, Plan(r), db', cache')
  BY WriteGrows DEF Write
<1>3. \A m \in ms :
         /\ m \in CreateNodeOp \cup CreateLinkOp
         /\ Involved(m) \cap deleted = {} => Stays(m, db', renamed)
         /\ req[r].shape.endpoint \in {"claims", "link", "connect", "update"} => m.op # "CreateNode"
  BY PromisedKept
<1>4. \A m \in owed :
         /\ m \in CreateNodeOp \cup CreateLinkOp
         /\ Involved(m) \cap deleted = {} /\ Stays(m, db, renamed)
         /\ m.op = "CreateNode" => m.id \in missed \/ Listed(m.id)
  BY DEF IInv, TypeOK, OwedKept
<1> HIDE DEF ms
<1>5. \A m \in owed :
         /\ Stays(m, db', renamed)
         /\ m.op = "CreateNode" => m.id \in NodeIds /\ cache'.node[m.id] = cache.node[m.id]
  BY <1>2, <1>4, StaysWhenGrown
<1>6. ASSUME NEW m \in owed'
      PROVE  /\ m \in CreateNodeOp \cup CreateLinkOp
             /\ Involved(m) \cap deleted = {} /\ Stays(m, db', renamed)
             /\ m.op = "CreateNode" => m.id \in missed \/ Listed(m.id)'
  <2>1. \/ m \in owed
        \/ /\ m \in ms /\ Involved(m) \cap deleted = {}
           /\ req[r].shape.endpoint \in {"claims", "link", "connect", "update"}
    BY <1>1 DEF StillOwed
  <2>2. CASE m \in owed
    BY <1>2, <1>4, <1>5, <2>2 DEF Listed, HasNode
  <2>3. CASE m \in ms /\ Involved(m) \cap deleted = {}
             /\ req[r].shape.endpoint \in {"claims", "link", "connect", "update"}
    BY <1>3, <2>3
  <2> QED
    BY <2>1, <2>2, <2>3
<1>7. OwedKept'
  BY <1>2, <1>6 DEF OwedKept
<1>8. owed' \in SUBSET (CreateNodeOp \cup CreateLinkOp)
  BY <1>6
<1> QED
  BY <1>7, <1>8

\* The other requests after a write.
LEMMA OthersAfterWrite ==
  ASSUME IInv, NEW r \in Requests, Write(r), NEW q \in Requests \ {r}, Running(q)
  PROVE  LET h == req[q] IN
         /\ h.at \in 1..Len(Todo(h))
         /\ IF Unwritten(h) THEN Preparing(h, db', deleted) /\ q \in Overtaken(r)
            ELSE Answering(h, db', cache', deleted, shifted', renamed) /\ q \notin Overtaken(r)
<1> DEFINE h == req[q]
<1>1. h \in Handler /\ OneRequest(q, h)
  BY RunningHandler DEF IInv
<1>2. GrownBy(r, db, cache, Plan(r), db', cache') /\ shifted \subseteq shifted'
  BY WriteGrows DEF Write
<1>3. q \in Overtaken(r) <=> q \in overtaken \/ Unwritten(h)
  BY DEF Overtaken
<1> HIDE DEF h
<1>4. CASE Unwritten(h)
  <2>1. Preparing(h, db, deleted)
    BY <1>1, <1>4 DEF OneRequest
  <2>2. \A n \in NodeIds : HasNode(db, n) => HasNode(db', n)
    BY <1>2 DEF GrownBy
  <2>3. Preparing(h, db', deleted)
    BY <1>1, <2>1, <2>2, StillPreparing
  <2> QED
    BY <1>1, <1>3, <1>4, <2>3 DEF OneRequest, h
<1>5. CASE ~Unwritten(h)
  <2>1. Answering(h, db, cache, deleted, shifted, renamed) /\ q \notin overtaken
    BY <1>1, <1>5 DEF OneRequest
  <2>2. ASSUME NEW m \in h.plan, Involved(m) \cap deleted = {}
        PROVE  Stays(m, db', renamed) /\ (m.op = "CreateNode" => cache'.node[m.id] = m.rec)
    <3>1. /\ m \in CreateNodeOp \cup CreateLinkOp /\ Stays(m, db, renamed)
          /\ m.op = "CreateNode" => cache.node[m.id] = m.rec
      BY <2>1, <2>2 DEF Answering
    <3> QED
      BY <1>2, <3>1, StaysWhenGrown
  <2>3. \A p \in h.embeds : p[1] \in deleted \cup shifted' \cup renamed \/ (HasNode(db', p[1]) /\ db'.node[p[1]].label = p[2])
    <3>1. \A p \in h.embeds : p[1] \in NodeIds
      BY <1>1 DEF Handler
    <3>2. \A p \in h.embeds : p[1] \in deleted \cup shifted \cup renamed \/ (HasNode(db, p[1]) /\ db.node[p[1]].label = p[2])
      BY <2>1 DEF Answering
    <3> QED
      BY <1>2, <3>1, <3>2 DEF GrownBy
  <2>4. Answering(h, db', cache', deleted, shifted', renamed)
    BY <2>1, <2>2, <2>3 DEF Answering
  <2> QED
    BY <1>1, <1>3, <1>5, <2>1, <2>4 DEF OneRequest, h
<1> QED
  BY <1>4, <1>5

\* Who wrote, after it.
LEMMA SelfAfterWrite ==
  ASSUME IInv, NEW r \in Requests, Write(r), NEW g \in Handler,
         g.plan = Promised(req[r], Plan(r)), g.own = {}, g.shifts = {}, g.embeds = req[r].embeds
  PROVE  Answering(g, db', cache', deleted, shifted', renamed)
<1> DEFINE h == req[r]
<1>1. At(r, "write") /\ shifted' = shifted \cup h.shifts
  BY DEF Write
<1>2. GrownBy(r, db, cache, Plan(r), db', cache')
  BY WriteGrows
<1>3. PlansEmbeds(h)
  BY <1>1, Writing DEF Preparing
<1>4. /\ g.plan \subseteq CreateNodeOp \cup CreateLinkOp
      /\ \A m \in g.plan : Involved(m) \cap deleted = {} =>
            Stays(m, db', renamed) /\ (m.op = "CreateNode" => cache'.node[m.id] = m.rec)
  BY PromisedKept
<1>5. ASSUME NEW p \in g.embeds
      PROVE  p[1] \in deleted \cup shifted' \cup renamed \/ (HasNode(db', p[1]) /\ db'.node[p[1]].label = p[2])
  <2>1. PICK m \in Nodes(h.plan) : m.id = p[1] /\ (m.id \in h.shifts \/ m.rec.label = p[2])
    BY <1>3 DEF PlansEmbeds
  <2>2. HasNode(db', m.id) /\ db'.node[m.id] = m.rec
    BY <1>2 DEF GrownBy
  <2> QED
    BY <1>1, <2>1, <2>2
<1> QED
  BY <1>4, <1>5 DEF Answering

\* Of two entities with one label, after a write.
LEMMA DuplicatesAfterWrite ==
  ASSUME IInv, NEW r \in Requests, Write(r)
  PROVE  DuplicatesExplained'
<1> DEFINE h == req[r]
<1>1. At(r, "write") /\ raced' = raced \cup Raced(r, Plan(r)) /\ UNCHANGED <<deleted, renamed>>
  BY DEF Write, Plan
<1>2. GrownBy(r, db, cache, Plan(r), db', cache')
  BY WriteGrows
<1>3. /\ h \in Handler /\ Sourced(h) /\ (r \in overtaken \/ Unmet(h, db, deleted, Excused))
      /\ h.shape.endpoint = "connect" => h.ends \in Seq(NodeIds) /\ Len(h.ends) = 2
      /\ h.shape.endpoint \in {"link", "update"} =>
           /\ h.ends \in Seq(NodeIds)
           /\ Len(h.ends) = IF h.shape.endpoint = "link" THEN 2 ELSE 1
  BY <1>1, Writing DEF Preparing
<1>4. h.plan \subseteq Plan(r) /\ DuplicatesExplained
  BY DEF Plan, IInv
<1>5. h.shape.endpoint \in {"link", "connect", "update"} =>
         DOMAIN h.ends = DOMAIN h.shape.ends
  <2>1. h.shape \in AllShapes
    BY <1>3, ShapesAssumption DEF Handler
  <2>2. h.shape.ends \in Seq(Labels)
    BY <2>1 DEF AllShapes
  <2>3. h.shape.endpoint \in {"link", "connect", "update"} =>
           Len(h.shape.ends) = IF h.shape.endpoint = "update" THEN 1 ELSE 2
    BY <1>3, ShapesAssumption DEF Handler
  <2> QED
    BY <1>3, <2>2, <2>3
<1> HIDE DEF h
\* A new entity is a planned one, that its request was the first to look for.
<1>6. ASSUME NEW n \in NodeIds \ (raced' \cup renamed \cup deleted), HasNode(db', n), ~HasNode(db, n),
             db'.node[n].type = "entity"
      PROVE  /\ \E m \in NewEntities(h.plan) : m.id = n /\ m.rec.label = db'.node[n].label
             /\ ~HasLabel(db, db'.node[n].label, Excused) /\ IsInjective(h.shape.ends)
  <2>1. PICK m \in Nodes(h.plan) : m.id = n /\ db'.node[n] = m.rec
    BY <1>2, <1>6 DEF GrownBy, h
  <2>2. m \in NewEntities(h.plan) /\ m \in Plan(r) /\ m.op = "CreateNode" /\ m.rec.type = "entity"
    BY <1>4, <1>6, <2>1 DEF NewEntities, Nodes
  <2>3. /\ r \notin overtaken
        /\ ~(h.shape.endpoint = "ingest" /\ m.rec.label \in Range(h.shape.entities))
        /\ IsInjective(h.shape.ends)
    <3>1. n \notin Raced(r, Plan(r))
      BY <1>1
    <3> QED
      BY <2>1, <2>2, <3>1 DEF Raced, h
  <2>4. ~HasLabel(db, m.rec.label, Excused)
    BY <1>3, <2>1, <2>2, <2>3 DEF Unmet
  <2> QED
    BY <2>1, <2>2, <2>3, <2>4
<1>7. ASSUME NEW m \in NodeIds \ (raced' \cup renamed \cup deleted), NEW n \in NodeIds \ (raced' \cup renamed \cup deleted),
             SameEntity(db', m, n), ~HasNode(db, n)
      PROVE  m = n
  <2>1. CASE HasNode(db, m)
    <3>1. db'.node[m] = db.node[m]
      BY <1>2, <2>1 DEF GrownBy
    <3>2. HasLabel(db, db'.node[n].label, Excused)
      BY <1>1, <1>7, <2>1, <3>1 DEF SameEntity, HasLabel, Excused
    <3> QED
      BY <1>6, <1>7, <3>2 DEF SameEntity
  <2>2. CASE ~HasNode(db, m)
    <3>1. PICK k \in NewEntities(h.plan) : k.id = n /\ k.rec.label = db'.node[n].label
      BY <1>6, <1>7 DEF SameEntity
    <3>2. PICK j \in NewEntities(h.plan) : j.id = m /\ j.rec.label = db'.node[m].label
      BY <1>6, <1>7, <2>2 DEF SameEntity
    <3>3. j.rec.label = k.rec.label /\ IsInjective(h.shape.ends)
      BY <1>6, <1>7, <3>1, <3>2 DEF SameEntity
    <3>4. CASE h.shape.endpoint \notin {"link", "connect", "update"}
      BY <1>3, <3>1, <3>2, <3>3, <3>4 DEF Sourced
    <3>5. CASE h.shape.endpoint \in {"link", "connect", "update"}
      <4>1. PICK x \in DOMAIN h.ends : k.id = h.ends[x] /\ k.rec.label = h.shape.ends[x]
        BY <1>3, <3>5 DEF Sourced
      <4>2. PICK y \in DOMAIN h.ends : j.id = h.ends[y] /\ j.rec.label = h.shape.ends[y]
        BY <1>3, <3>5 DEF Sourced
      <4>3. x = y
        BY <1>5, <3>3, <3>5, <4>1, <4>2 DEF IsInjective
      <4> QED
        BY <3>1, <3>2, <4>1, <4>2, <4>3
    <3> QED
      BY <3>4, <3>5
  <2> QED
    BY <2>1, <2>2
<1>8. ASSUME NEW m \in NodeIds \ (raced' \cup renamed \cup deleted), NEW n \in NodeIds \ (raced' \cup renamed \cup deleted),
             SameEntity(db', m, n)
      PROVE  m = n
  <2>1. CASE HasNode(db, m) /\ HasNode(db, n)
    <3>1. SameEntity(db, m, n)
      BY <1>2, <1>8, <2>1 DEF GrownBy, SameEntity
    <3> QED
      BY <1>1, <1>4, <3>1 DEF DuplicatesExplained
  <2>2. CASE ~HasNode(db, n)
    BY <1>7, <1>8, <2>2
  <2>3. CASE ~HasNode(db, m)
    <3>1. SameEntity(db', n, m)
      BY <1>8 DEF SameEntity
    <3> QED
      BY <1>7, <2>3, <3>1
  <2> QED
    BY <2>1, <2>2, <2>3
<1> QED
  BY <1>1, <1>8 DEF DuplicatesExplained

LEMMA WriteStep ==
  ASSUME IInv, NEW r \in Requests, Write(r)
  PROVE  IInv'
<1> DEFINE ms == Promised(req[r], Plan(r))
           P == Plan(r)
<1>1. /\ At(r, "write") /\ shifted' = shifted \cup req[r].shifts
      /\ overtaken' = Overtaken(r) /\ raced' = raced \cup Raced(r, P)
      /\ UNCHANGED <<stored_vectors, cached_vectors, index, deleted, renamed, missed>>
  BY DEF Write, Plan, vectors
<1>2. req[r] \in Handler /\ TypeOK
  BY <1>1, Writing DEF IInv
<1>3. PICK v \in Handler \cup {Done} :
        /\ req' = [req EXCEPT ![r] = v]
        /\ v # Done => /\ v \in Handler /\ v.at \in 1..Len(Todo(v)) /\ ~Unwritten(v)
                       /\ v.plan = ms /\ v.own = {} /\ v.shifts = {} /\ v.embeds = req[r].embeds
  BY WriteGoesOn
<1>4. /\ req'[r] = v
      /\ \A q \in Requests \ {r} : req'[q] = req[q] /\ (Running(q)' <=> Running(q))
      /\ Running(r)' <=> v \notin {Waiting, Done}
      /\ req' \in [Requests -> Handler \cup {Waiting, Done}]
  BY <1>2, <1>3, OneMoves
<1>5. db' \in Tables /\ cache' \in Caches /\ GrownBy(r, db, cache, P, db', cache') /\ P \in SUBSET Creations
  BY WriteGrows
<1>6. owed' \in SUBSET (CreateNodeOp \cup CreateLinkOp) /\ OwedKept'
  BY OwedAfterWrite
<1>7. TypeOK'
  <2>1. shifted' \in SUBSET NodeIds
    BY <1>1, <1>2 DEF TypeOK, Handler
  <2>2. raced' \in SUBSET NodeIds
    <3>1. Raced(r, P) \subseteq NodeIds
      BY <1>5 DEF Raced, Creations, CreateNodeOp, CreateLinkOp, SetPropertyOp
    <3> QED
      BY <1>1, <1>2, <3>1 DEF TypeOK
  <2>3. overtaken' \in SUBSET {q \in Requests : Running(q)'}
    <3>1. \A q \in Overtaken(r) : q \in Requests \ {r} /\ Running(q)
      BY <1>2 DEF TypeOK, Overtaken
    <3> QED
      BY <1>1, <1>4, <3>1
  <2> QED
    BY <1>1, <1>2, <1>4, <1>5, <1>6, <2>1, <2>2, <2>3 DEF TypeOK
<1>8. Owned'
  <2> SUFFICES ASSUME NEW p \in Requests, Running(p)', NEW id \in req'[p].own
               PROVE  /\ Unused(id, db', cache', deleted)
                      /\ \A q \in Requests \ {p} : Running(q)' => id \notin req'[q].own
    BY <1>1 DEF Owned
  <2>1. p # r /\ Running(p) /\ id \in req[p].own
    BY <1>3, <1>4
  <2>2. Unused(id, db', cache', deleted)
    BY <2>1, OwnAfterWrite
  <2>3. \A q \in Requests \ {p} : Running(q) => id \notin req[q].own
    BY <2>1 DEF IInv, Owned
  <2> QED
    BY <1>3, <1>4, <2>2, <2>3
<1>9. \A q \in Requests : Running(q)' => OneRequest(q, req[q])'
  <2> SUFFICES ASSUME NEW q \in Requests, Running(q)' PROVE OneRequest(q, req[q])'
    OBVIOUS
  <2>1. CASE q = r
    <3>1. Answering(v, db', cache', deleted, shifted', renamed)
      BY <1>3, <1>4, <2>1, SelfAfterWrite
    <3>2. r \notin overtaken'
      BY <1>1 DEF Overtaken
    <3> QED
      BY <1>1, <1>3, <1>4, <2>1, <3>1, <3>2 DEF OneRequest
  <2>2. CASE q # r
    <3>1. q \in Requests \ {r} /\ Running(q) /\ req'[q] = req[q]
      BY <1>4, <2>2
    <3> DEFINE h == req[q]
    <3>2. /\ h.at \in 1..Len(Todo(h))
          /\ IF Unwritten(h) THEN Preparing(h, db', deleted) /\ q \in Overtaken(r)
             ELSE Answering(h, db', cache', deleted, shifted', renamed) /\ q \notin Overtaken(r)
      BY <3>1, OthersAfterWrite
    <3>3. OneRequest(q, h)' <=>
            /\ req'[q].at \in 1..Len(Todo(req'[q]))
            /\ IF Unwritten(req'[q])
               THEN Preparing(req'[q], db', deleted') /\ (q \in overtaken' \/ Unmet(req'[q], db', deleted', Excused'))
               ELSE Answering(req'[q], db', cache', deleted', shifted', renamed') /\ q \notin overtaken'
      BY DEF OneRequest
    <3> QED
      BY <1>1, <3>1, <3>2, <3>3
  <2> QED
    BY <2>1, <2>2
<1> HIDE DEF P, ms
<1>10. NodesCached' /\ (missed \subseteq raced)'
  BY <1>1, <1>5 DEF IInv, NodesCached, GrownBy, HasNode
<1>11. \A l \in NewLinks : ~HasLink(db, l) /\ ~HasLink(cache, l)
  BY NewIds DEF NewLinks, Unused
<1>12. LinksAgree'
  <2> SUFFICES ASSUME NEW l \in LinkIds, HasLink(db', l), HasLink(cache', l)
               PROVE  cache'.link[l] = db'.link[l]
    BY DEF LinksAgree
  <2>1. CASE \E m \in LinksIn(P) : m.id = l
    BY <1>5, <2>1 DEF GrownBy, HasLink
  <2>2. CASE ~\E m \in LinksIn(P) : m.id = l
    BY <1>5, <1>11, <2>2 DEF GrownBy, IInv, LinksAgree, HasLink
  <2> QED
    BY <2>1, <2>2
<1>13. PhantomLinksExplained'
  <2> SUFFICES ASSUME NEW l \in LinkIds, HasLink(cache', l), ~HasLink(db', l)
               PROVE  \E end \in {cache'.link[l].from, cache'.link[l].to} :
                        ~HasNode(db', end) \/ end \in deleted \/ end \in TurnIds
    BY <1>1 DEF PhantomLinksExplained
  <2>1. CASE \E m \in LinksIn(P) : m.id = l
    <3>1. PICK m \in LinksIn(P) : m.id = l
      BY <2>1
    <3>2. /\ m.id \in LinkIds /\ HasLink(cache', l) /\ cache'.link[l] = m.rec
          /\ db'.link[l] = IF HasNode(db', m.rec.from) /\ HasNode(db', m.rec.to) THEN m.rec ELSE Absent
      BY <1>5, <3>1 DEF GrownBy
    <3>3. ~HasNode(db', m.rec.from) \/ ~HasNode(db', m.rec.to)
      BY <3>2 DEF HasLink
    <3> QED
      BY <3>2, <3>3
  <2>2. CASE ~\E m \in LinksIn(P) : m.id = l
    <3>1. /\ cache'.link[l] = cache.link[l]
          /\ db'.link[l] = db.link[l] \/ l \in NewLinks
      BY <1>5, <2>2 DEF GrownBy
    <3>2. HasLink(cache, l) /\ ~HasLink(db, l)
      BY <1>11, <3>1 DEF HasLink
    <3>3. PICK end \in {cache.link[l].from, cache.link[l].to} :
            ~HasNode(db, end) \/ end \in deleted \/ end \in TurnIds
      BY <3>2 DEF IInv, PhantomLinksExplained
    <3>4. end \in NodeIds
      BY <1>2, <3>2, CachedEnds
    <3>5. end \notin req[r].own
      BY <1>1, <3>2, <3>3 DEF IInv, Owned, Unused, At
    <3>6. HasNode(db', end) => HasNode(db, end) \/ end \in deleted \/ end \in TurnIds
      BY <1>5, <3>4, <3>5 DEF GrownBy
    <3> QED
      BY <3>1, <3>3, <3>6
  <2> QED
    BY <2>1, <2>2
<1>14. IndexBacked'
  <2>1. \A n \in NodeIds : \A x : Backed(n, x) => Backed(n, x)'
    BY <1>1, <1>5 DEF Backed, GrownBy, HasNode
  <2> QED
    BY <1>1, <2>1 DEF IInv, IndexBacked
<1>15. EmbeddingsInStep'
  <2> SUFFICES ASSUME NEW n \in NodeIds \ (shifted' \cup renamed \cup deleted), stored_vectors[n] # Absent
               PROVE  HasNode(db', n) /\ stored_vectors[n] = db'.node[n].label
    BY <1>1 DEF EmbeddingsInStep
  <2>1. HasNode(db, n) /\ stored_vectors[n] = db.node[n].label
    BY <1>1 DEF IInv, EmbeddingsInStep
  <2> QED
    BY <1>5, <2>1 DEF GrownBy
<1>16. DuplicatesExplained'
  BY DuplicatesAfterWrite
<1> QED
  BY <1>6, <1>7, <1>8, <1>9, <1>10, <1>12, <1>13, <1>14, <1>15, <1>16 DEF IInv

-----------------------------------------------------------------------------
(* A write that is rolled back *)

\* At most a turn that is not stored is in the maps now.
TurnLeft(c, d, f) ==
  /\ f \in Caches /\ f.link = c.link
  /\ \A n \in NodeIds : \/ f.node[n] = c.node[n]
                        \/ /\ n \in TurnIds /\ ~HasNode(d, n)
                           /\ HasNode(f, n) /\ f.node[n].type = "turn"

LEMMA WriteFailsLeaves ==
  ASSUME IInv, NEW r \in Requests, WriteFails(r)
  PROVE  TurnLeft(cache, db, cache')
<1> DEFINE h == req[r]
           t == h.turn
           m == [id |-> t, label |-> Content]
<1>1. cache \in Caches
  BY DEF IInv, TypeOK
<1>2. \/ UNCHANGED cache
      \/ Completes(h) /\ TurnApplicable(db, t) /\ cache' = CacheTurn(cache, m)
  BY DEF WriteFails
<1>3. Completes(h) => t \in TurnIds
  BY Writing DEF WriteFails
<1>4. CASE UNCHANGED cache
  BY <1>1, <1>4 DEF TurnLeft
<1>5. CASE Completes(h) /\ TurnApplicable(db, t) /\ cache' = CacheTurn(cache, m)
  <2>1. t \in NodeIds /\ t \in TurnIds /\ ~HasNode(db, t)
    BY <1>3, <1>5, IdsAssumption DEF TurnApplicable
  <2>2. TurnRec(Content) \in NodeRec /\ TurnRec(Content).type = "turn" /\ TurnRec(Content) # Absent
    <3>1. TurnRec(Content) \in NodeRec /\ TurnRec(Content).type = "turn"
      BY TypesAssumption, LabelsAssumption DEF TurnRec, NodeRec
    <3> QED
      BY <3>1, RecsPresent
  <2>3. cache' = [cache EXCEPT !.node[t] = TurnRec(Content)]
    BY <1>5 DEF CacheTurn
  <2> HIDE DEF t
  <2> QED
    BY <1>1, <2>1, <2>2, <2>3 DEF TurnLeft, Caches, NodeMap, HasNode
<1> QED
  BY <1>2, <1>4, <1>5

LEMMA StaysWhenTurnLeft ==
  ASSUME NEW d, NEW c, NEW f, TurnLeft(c, d, f), NEW ren,
         NEW m \in CreateNodeOp \cup CreateLinkOp, Stays(m, d, ren), m.op = "CreateNode"
  PROVE  f.node[m.id] = c.node[m.id]
<1>1. m.id \in NodeIds /\ HasNode(d, m.id)
  BY DEF Stays, CreateNodeOp, CreateLinkOp
<1> QED
  BY <1>1 DEF TurnLeft

LEMMA WriteFailsStep ==
  ASSUME IInv, NEW r \in Requests, WriteFails(r)
  PROVE  IInv'
<1> DEFINE h == req[r]
           none == {}
           g == [Written(h, none) EXCEPT !.at = @ + 1]
           v == IF h.shape.endpoint = "ingest" THEN g ELSE Done
<1>1. /\ At(r, "write") /\ req' = [req EXCEPT ![r] = v] /\ overtaken' = overtaken \ {r}
      /\ UNCHANGED <<db, stored_vectors, cached_vectors, index, deleted, owed, shifted, raced,
                  renamed, missed>>
  BY DEF WriteFails, vectors
<1>2. /\ h \in Handler /\ h.at \in 1..Len(Todo(h)) /\ Todo(h)[h.at] = "write" /\ PlansEmbeds(h)
      /\ TypeOK
  BY <1>1, Writing DEF Preparing, IInv
<1>3. TurnLeft(cache, db, cache')
  BY WriteFailsLeaves
<1>4. none \in SUBSET Creations
  OBVIOUS
<1> HIDE DEF h, none
<1>5. /\ h.shape.endpoint = "ingest" => h.at # Len(Todo(h))
      /\ h.at # Len(Todo(h)) =>
           /\ g \in Handler /\ g.at \in 1..Len(Todo(g)) /\ ~Unwritten(g)
           /\ g.plan = none /\ g.own = {} /\ g.shifts = {} /\ g.embeds = h.embeds
  BY <1>2, <1>4, WrittenFields
<1> HIDE DEF g
<1>6. /\ v \in Handler \cup {Done}
      /\ v # Done => /\ v.at \in 1..Len(Todo(v)) /\ ~Unwritten(v)
                     /\ v.plan = {} /\ v.own = {} /\ v.shifts = {} /\ v.embeds = {}
  <2>1. h.shape.endpoint = "ingest" => h.embeds = {}
    BY <1>2 DEF PlansEmbeds
  <2> QED
    BY <1>5, <2>1 DEF none
<1> HIDE DEF v
<1>7. /\ req'[r] = v
      /\ \A q \in Requests \ {r} : req'[q] = req[q] /\ (Running(q)' <=> Running(q))
      /\ Running(r)' <=> v \notin {Waiting, Done}
      /\ req' \in [Requests -> Handler \cup {Waiting, Done}]
  BY <1>1, <1>2, <1>6, OneMoves
<1>8. TypeOK'
  <2>1. overtaken' \in SUBSET {q \in Requests : Running(q)'}
    BY <1>1, <1>2, <1>7 DEF TypeOK
  <2> QED
    BY <1>1, <1>2, <1>3, <1>7, <2>1 DEF TypeOK, TurnLeft
<1>9. Owned'
  <2> SUFFICES ASSUME NEW p \in Requests, Running(p)', NEW id \in req'[p].own
               PROVE  /\ Unused(id, db, cache', deleted)
                      /\ \A q \in Requests \ {p} : Running(q)' => id \notin req'[q].own
    BY <1>1 DEF Owned
  <2>1. p # r /\ Running(p) /\ id \in req[p].own
    BY <1>6, <1>7
  <2>2. Unused(id, db, cache, deleted) /\ \A q \in Requests \ {p} : Running(q) => id \notin req[q].own
    BY <2>1 DEF IInv, Owned
  <2>3. Unused(id, db, cache', deleted)
    BY <1>3, <2>2 DEF Unused, TurnLeft, HasNode, HasLink
  <2> QED
    BY <1>6, <1>7, <2>2, <2>3
<1>10. \A q \in Requests : Running(q)' => OneRequest(q, req[q])'
  <2> SUFFICES ASSUME NEW q \in Requests, Running(q)' PROVE OneRequest(q, req[q])'
    OBVIOUS
  <2>1. CASE q = r
    <3>1. Answering(v, db, cache', deleted, shifted, renamed)
      BY <1>6, <1>7, <2>1 DEF Answering
    <3> QED
      BY <1>1, <1>6, <1>7, <2>1, <3>1 DEF OneRequest
  <2>2. CASE q # r
    <3>1. req'[q] = req[q] /\ Running(q) /\ (q \in overtaken' <=> q \in overtaken)
      BY <1>1, <1>7, <2>2
    <3>2. OneRequest(q, req[q])
      BY <3>1 DEF IInv
    <3>3. Answering(req[q], db, cache, deleted, shifted, renamed) =>
            Answering(req[q], db, cache', deleted, shifted, renamed)
      BY <1>3, StaysWhenTurnLeft DEF Answering
    <3> QED
      BY <1>1, <3>1, <3>2, <3>3 DEF OneRequest, Excused
  <2> QED
    BY <2>1, <2>2
<1>11. NodesCached' /\ (missed \subseteq raced)'
  BY <1>1, <1>3 DEF IInv, NodesCached, TurnLeft, HasNode
<1>12. LinksAgree' /\ PhantomLinksExplained'
  BY <1>1, <1>3 DEF IInv, LinksAgree, PhantomLinksExplained, TurnLeft, HasLink
<1>13. IndexBacked' /\ EmbeddingsInStep' /\ DuplicatesExplained'
  <2>1. \A n \in NodeIds : \A x : Backed(n, x) => Backed(n, x)'
    BY <1>1, <1>3 DEF Backed, TurnLeft, HasNode
  <2>2. IndexBacked'
    BY <1>1, <2>1 DEF IInv, IndexBacked
  <2> QED
    BY <1>1, <2>2 DEF IInv, EmbeddingsInStep, DuplicatesExplained
<1>14. OwedKept'
  <2> SUFFICES ASSUME NEW m \in owed
               PROVE  /\ Involved(m) \cap deleted = {} /\ Stays(m, db, renamed)
                      /\ m.op = "CreateNode" => m.id \in missed \/ Listed(m.id)'
    BY <1>1 DEF OwedKept
  <2>1. /\ m \in CreateNodeOp \cup CreateLinkOp
        /\ Involved(m) \cap deleted = {} /\ Stays(m, db, renamed)
        /\ m.op = "CreateNode" => m.id \in missed \/ Listed(m.id)
    BY DEF IInv, TypeOK, OwedKept
  <2>2. m.op = "CreateNode" => cache'.node[m.id] = cache.node[m.id]
    BY <1>3, <2>1, StaysWhenTurnLeft
  <2> QED
    BY <1>1, <2>1, <2>2 DEF Listed, HasNode
<1> QED
  BY <1>8, <1>9, <1>10, <1>11, <1>12, <1>13, <1>14 DEF IInv

-----------------------------------------------------------------------------
(* Every step keeps the invariant. *)

LEMMA ResolveStep ==
  ASSUME IInv, NEW r \in Requests, Resolve(r)
  PROVE  IInv'
<1>1. CASE BatchTurn(r)
  BY <1>1, BatchTurnStep
<1>2. CASE Entities(r)
  BY <1>2, EntitiesStep
<1>3. CASE Claims(r)
  BY <1>3, ClaimsStep
<1>4. CASE Extra(r)
  BY <1>4, ExtraStep
<1>5. CASE Ends(r)
  BY <1>5, EndsStep
<1>6. CASE End(r, "from", 1) \/ End(r, "to", 2)
  BY <1>6, EndStep
<1>7. CASE Check(r, "checkfrom", 1) \/ Check(r, "checkto", 2)
  BY <1>7, CheckStep
<1> QED
  BY <1>1, <1>2, <1>3, <1>4, <1>5, <1>6, <1>7 DEF Resolve

LEMMA StutterStep ==
  ASSUME IInv, UNCHANGED vars
  PROVE  IInv'
<1>1. UNCHANGED <<db, cache, stored_vectors, cached_vectors, index, req, deleted, owed, shifted,
                  overtaken, raced, renamed, missed>>
  BY DEF vars, vectors, histories
<1>2. \A q \in Requests : Running(q)' <=> Running(q)
  BY <1>1 DEF Running
<1>3. TypeOK'
  BY <1>1, <1>2 DEF IInv, TypeOK
<1>4. Owned' /\ \A r \in Requests : Running(r)' => OneRequest(r, req[r])'
  BY <1>1, <1>2 DEF IInv, Owned, OneRequest, Excused
<1>5. NodesCached' /\ (missed \subseteq raced)' /\ LinksAgree' /\ PhantomLinksExplained' /\ IndexBacked' /\ OwedKept'
      /\ EmbeddingsInStep' /\ DuplicatesExplained'
  BY <1>1 DEF IInv, NodesCached, LinksAgree, PhantomLinksExplained, IndexBacked, Backed, OwedKept,
              Listed, EmbeddingsInStep, DuplicatesExplained
<1> QED
  BY <1>3, <1>4, <1>5 DEF IInv

LEMMA NextStep ==
  ASSUME IInv, [Next]_vars
  PROVE  IInv'
<1>1. ASSUME NEW r \in Requests, Arrive(r) PROVE IInv'
  BY <1>1, ArriveStep
<1>2. ASSUME NEW r \in Requests, Resolve(r) PROVE IInv'
  BY <1>2, ResolveStep
<1>3. ASSUME NEW r \in Requests, Write(r) PROVE IInv'
  BY <1>3, WriteStep
<1>4. ASSUME NEW r \in Requests, WriteFails(r) PROVE IInv'
  BY <1>4, WriteFailsStep
<1>5. ASSUME NEW r \in Requests, Embed(r) PROVE IInv'
  BY <1>5, EmbedStep
<1>6. ASSUME NEW r \in Requests, Merge(r) PROVE IInv'
  BY <1>6, MergeStep
<1>7. ASSUME NEW r \in Requests, Disconnect(r) PROVE IInv'
  BY <1>7, DisconnectStep
<1>8. ASSUME NEW n \in NodeIds, DeleteEntity(n) PROVE IInv'
  BY <1>8, DeleteEntityStep
<1>9. ASSUME NEW n \in NodeIds, DeleteClaim(n) PROVE IInv'
  BY <1>9, DeleteClaimStep
<1>10. ASSUME NEW l \in LinkIds, DeleteLink(l) PROVE IInv'
  BY <1>10, DeleteLinkStep
<1>11. CASE Restart
  BY <1>11, RestartStep
<1>12. ASSUME NEW n \in NodeIds, UpdateEntity(n) PROVE IInv'
  BY <1>12, UpdateEntityStep
<1>13. ASSUME NEW n \in NodeIds, GetNode(n) PROVE IInv'
  BY <1>13, GetNodeStep
<1>14. CASE UNCHANGED vars
  BY <1>14, StutterStep
<1> QED
  BY <1>1, <1>2, <1>3, <1>4, <1>5, <1>6, <1>7, <1>8, <1>9, <1>10, <1>11, <1>12, <1>13, <1>14 DEF Next

\* IInv holds in every state.
THEOREM HandlersInvariant == Spec => []IInv
<1>1. Init => IInv
  BY StartsWell
<1>2. IInv /\ [Next]_vars => IInv'
  BY NextStep
<1> QED
  BY <1>1, <1>2, PTL DEF Spec

-----------------------------------------------------------------------------
(* Theorems *)

\* Every variable keeps its type: the tables and the maps hold records, the counts of
\* the index are numbers, and a request is waiting, done, or a well formed handler.
THEOREM HandlersTypes == Spec => []TypeOK
<1>1. IInv => TypeOK
  BY DEF IInv
<1> QED
  BY <1>1, HandlersInvariant, PTL

\* An entity that an acknowledged request created and nobody deleted is in the
\* database, with the acknowledged label unless PATCH changed it; and it is in
\* node_cache and search_fts finds it by the label it has there, unless the server
\* was started since without loading it: handlers.rs answers only after the commit,
\* the replay and rebuild_search_index, and main.rs drops warm_cache's error.
THEOREM EntitiesFound == Spec => []AckedEntitiesFound
<1>1. IInv => AckedEntitiesFound
  <2> SUFFICES ASSUME IInv, NEW m \in owed, m.op = "CreateNode"
               PROVE  /\ HasNode(db, m.id)
                      /\ m.id \notin missed =>
                           HasNode(cache, m.id) /\ m.id \in search_fts(index, cache.node[m.id].label)
                      /\ m.id \notin renamed =>
                           /\ db.node[m.id].label = m.rec.label
                           /\ HasNode(cache, m.id) => cache.node[m.id].label = m.rec.label
    BY DEF AckedEntitiesFound
  <2>1. Stays(m, db, renamed) /\ (m.id \in missed \/ Listed(m.id))
    BY DEF IInv, OwedKept
  <2>2. m.id \in NodeIds
    BY DEF IInv, TypeOK, CreateNodeOp, CreateLinkOp
  <2>3. HasNode(db, m.id) /\ (m.id \notin renamed => db.node[m.id] = m.rec)
    BY <2>1 DEF Stays
  <2>4. m.id \notin renamed /\ HasNode(cache, m.id) => cache.node[m.id] = m.rec
    BY <2>2, <2>3 DEF IInv, NodesCached
  <2> QED
    BY <2>1, <2>3, <2>4 DEF Listed
<1> QED
  BY <1>1, HandlersInvariant, PTL

\* A link that an acknowledged request created and that nobody deleted, nor an end of
\* it, is in the database (write_maintenance commits before the answer).
THEOREM LinksStored == Spec => []AckedLinksStored
<1>1. IInv => AckedLinksStored
  <2> SUFFICES ASSUME IInv, NEW m \in owed, m.op = "CreateLink"
               PROVE  HasLink(db, m.id)
    BY DEF AckedLinksStored
  <2>1. Stays(m, db, renamed)
    BY DEF IInv, OwedKept
  <2>2. m \in CreateLinkOp
    BY DEF IInv, TypeOK, CreateNodeOp
  <2>3. m.rec # Absent
    BY <2>2, RecsPresent DEF CreateLinkOp
  <2> QED
    BY <2>1, <2>3 DEF Stays, HasLink
<1> QED
  BY <1>1, HandlersInvariant, PTL

\* What search_fts finds by a label is stored as an entity and has that label in
\* node_cache, unless it has been deleted since; and in the table too, unless PATCH
\* changed the label there: rebuild_search_index adds only what node_cache has, and
\* entity_handlers.rs writes a new label to the table alone.
THEOREM IndexBackedByStore == Spec => []IndexListsStored
<1>1. IInv => IndexListsStored
  <2> SUFFICES ASSUME IInv, NEW x \in Labels, NEW n \in search_fts(index, x) \ deleted
               PROVE  /\ HasNode(db, n) /\ db.node[n].type = "entity"
                      /\ HasNode(cache, n) /\ cache.node[n].label = x
                      /\ n \notin renamed => db.node[n].label = x
    BY DEF IndexListsStored
  <2>1. n \in NodeIds /\ index.listed[<<n, x>>] > 0
    BY DEF search_fts
  <2>2. Backed(n, x)
    BY <2>1 DEF IInv, IndexBacked
  <2> QED
    BY <2>1, <2>2 DEF Backed, IInv, NodesCached
<1> QED
  BY <1>1, HandlersInvariant, PTL

\* A stored embedding is that of the label of its entity, unless the request that
\* stored it met a known label or a failed embedding (the pairing of created ids and
\* embeddings by position in remember, entities and batch), or PATCH changed the label
\* (entity_handlers.rs computes no embedding).
THEOREM EmbeddingsPaired == Spec => []EmbeddingsInStep
<1>1. IInv => EmbeddingsInStep
  BY DEF IInv
<1> QED
  BY <1>1, HandlersInvariant, PTL

\* A link in link_cache and not in the database has an end that is not stored, was
\* deleted, or is a turn: sync_cache inserts also the links that the MATCH of
\* create_link missed, and forgets no link with its node.
THEOREM PhantomsExplained == Spec => []PhantomLinksExplained
<1>1. IInv => PhantomLinksExplained
  BY DEF IInv
<1> QED
  BY <1>1, HandlersInvariant, PTL

\* Two stored entities have one label only if a request created one while another
\* wrote or without looking, if connect brought one back, if PATCH gave one its label,
\* if one was not loaded at a start, or from the start.
THEOREM DuplicatesOnlyRaced == Spec => []DuplicatesExplained
<1>1. IInv => DuplicatesExplained
  BY DEF IInv
<1> QED
  BY <1>1, HandlersInvariant, PTL

\* No step but a write stores a node that was not stored; PATCH sets columns of a row
\* that is there.
LEMMA OnlyWritesStore ==
  ASSUME IInv, [Next]_vars, NEW n \in NodeIds, HasNode(db', n), ~HasNode(db, n)
  PROVE  \E r \in Requests : Write(r)
<1>1. db' # db
  OBVIOUS
<1>2. ASSUME NEW r \in Requests
      PROVE  /\ Arrive(r) => db' = db
             /\ Resolve(r) => db' = db
             /\ WriteFails(r) => db' = db
             /\ Embed(r) \/ Merge(r) \/ Disconnect(r) => db' = db
  <2>1. Reads => db' = db
    BY DEF Reads
  <2>2. Arrive(r) => db' = db
    BY <2>1 DEF Arrive
  <2>3. Resolve(r) => db' = db
    <3>1. BatchTurn(r) \/ Entities(r) \/ Claims(r) => Reads
      BY Zenon DEF BatchTurn, Entities, Claims
    <3>2. Extra(r) \/ Ends(r) => Reads
      BY Zenon DEF Extra, Ends
    <3>3. \A step, i : End(r, step, i) => Reads
      BY Zenon DEF End
    <3>4. \A step, i : Check(r, step, i) => db' = db
      BY Zenon DEF Check
    <3> QED
      BY <2>1, <3>1, <3>2, <3>3, <3>4 DEF Resolve
  <2>4. (WriteFails(r) => db' = db) /\ (Embed(r) => db' = db)
    BY DEF WriteFails, Embed
  <2>5. (Merge(r) => db' = db) /\ (Disconnect(r) => db' = db)
    BY DEF Merge, Disconnect
  <2> QED
    BY <2>2, <2>3, <2>4, <2>5
<1>3. ASSUME Lost(db, cache, deleted, db', cache', deleted') PROVE FALSE
  BY <1>3 DEF Lost, HasNode
<1>4. ASSUME NEW m \in NodeIds, DeleteEntity(m) \/ DeleteClaim(m) PROVE FALSE
  BY <1>3, <1>4, DeleteEntityStep, DeleteClaimStep
<1>5. ASSUME NEW l \in LinkIds, DeleteLink(l) PROVE FALSE
  BY <1>3, <1>5, DeleteLinkStep
<1>6. ASSUME NEW m \in NodeIds PROVE (UpdateEntity(m) => FALSE) /\ (GetNode(m) => db' = db)
  <2>1. ASSUME NEW x, NEW tags, NEW props,
               db' = [DbSetColumns(db, m, x, tags) EXCEPT !.prop = props]
        PROVE  FALSE
    BY <2>1 DEF DbSetColumns, IInv, TypeOK, Tables, NodeMap, HasNode
  <2>2. UpdateEntity(m) => FALSE
    <3> SUFFICES ASSUME UpdateEntity(m) PROVE FALSE
      OBVIOUS
    <3>1. PICK x \in Labels, tags \in SUBSET Tags, keys \in SUBSET Keys :
            db' = [DbSetColumns(db, m, x, tags) EXCEPT !.prop = @ \cup ({m} \X keys)]
      BY Zenon DEF UpdateEntity
    <3>2. db' = [DbSetColumns(db, m, x, tags)
                  EXCEPT !.prop = DbSetColumns(db, m, x, tags).prop \cup ({m} \X keys)]
      BY <3>1
    <3> QED
      BY <2>1, <3>2
  <2>3. GetNode(m) => db' = db
    BY DEF GetNode
  <2> QED
    BY <2>2, <2>3
<1>7. Restart \/ UNCHANGED vars => db' = db
  BY DEF Restart, vars
<1> QED
  BY <1>1, <1>2, <1>4, <1>5, <1>6, <1>7 DEF Next

\* No step stores a deleted node again, but the write of a connect that found it
\* before it was deleted, and of a turn whose identifier the client chose.
THEOREM OnlyConnectBringsBack == Spec => DeletedComesBackByConnect
<1> DEFINE Back(n) == \/ n \in TurnIds
                      \/ \E r \in Requests :
                           At(r, "write") /\ req[r].shape.endpoint = "connect" /\ n \in Range(req[r].ends)
           A == \A n \in deleted \cap NodeIds : HasNode(db', n) /\ ~HasNode(db, n) => Back(n)
<1>1. ASSUME IInv, [Next]_vars PROVE A
  <2> SUFFICES ASSUME NEW n \in deleted \cap NodeIds, HasNode(db', n), ~HasNode(db, n)
               PROVE  Back(n)
    OBVIOUS
  <2>1. PICK r \in Requests : Write(r)
    BY <1>1, OnlyWritesStore
  <2>2. GrownBy(r, db, cache, Plan(r), db', cache') /\ At(r, "write")
    BY <1>1, <2>1, WriteGrows DEF Write
  <2>3. n \in TurnIds \/ \E m \in Nodes(req[r].plan) : m.id = n
    BY <2>2 DEF GrownBy
  <2>4. PlansNodes(req[r], deleted)
    BY <1>1, <2>2, Writing DEF Preparing
  <2>5. n \notin req[r].own
    BY <1>1, <2>2 DEF IInv, Owned, Unused, At
  <2> QED
    BY <2>2, <2>3, <2>4, <2>5 DEF PlansNodes
<1>2. IInv /\ [Next]_vars => [A]_vars
  BY <1>1
<1> HIDE DEF A
<1>3. Spec => [][A]_vars
  BY <1>2, HandlersInvariant, PTL DEF Spec
<1> QED
  BY <1>3 DEF DeletedComesBackByConnect, A

=============================================================================
