------------------------- MODULE GraphTablesProofs -------------------------
(***************************************************************************)
(* What the operations of GraphTables return, for any sets of nodes, links *)
(* and keys; and counting up, which stands in for induction.               *)
(***************************************************************************)
EXTENDS GraphTables, Sequences, WellFoundedInduction, TLAPS

-----------------------------------------------------------------------------
(* What the operations on the tables and on the maps return. *)

\* A mutation is of one of seven kinds, with the fields of its kind.
LEMMA MutationKinds ==
  ASSUME NEW m \in Mutations
  PROVE  \/ m.op = "CreateNode" /\ m.id \in NodeIds /\ m.rec \in NodeRec
         \/ m.op = "CreateLink" /\ m.id \in LinkIds /\ m.rec \in LinkRec
         \/ m.op = "UpdateLinkWeight" /\ m.id \in LinkIds /\ m.weight \in Weights
         \/ m.op = "DeleteLink" /\ m.id \in LinkIds
         \/ m.op = "DeleteNode" /\ m.id \in NodeIds
         \/ m.op = "SetProperty" /\ m.owner \in Owners /\ m.key \in Keys
         \/ m.op = "DeleteProperty" /\ m.owner \in Owners /\ m.key \in Keys
  BY DEF Mutations, CreateNodeOp, CreateLinkOp, UpdateWeightOp, DeleteLinkOp,
         DeleteNodeOp, SetPropertyOp, DeletePropertyOp

\* A record in a table or a map is not the mark for a missing one.
LEMMA RecsPresent ==
  /\ \A rec \in NodeRec : rec # Absent
  /\ \A rec \in LinkRec : rec # Absent
  BY AbsentAssumption

\* The *Shape lemmas say entry by entry what an operation changes, and that the
\* result is well typed.
LEMMA CreateNodeShape ==
  ASSUME NEW d \in Tables, NEW n \in NodeIds, NEW rec \in NodeRec
  PROVE  LET e == DbCreateNode(d, n, rec) IN
         /\ e \in Tables
         /\ \A k \in NodeIds : e.node[k] = IF k = n THEN rec ELSE d.node[k]
         /\ e.link = d.link
         /\ e.prop = d.prop
  BY DEF DbCreateNode, Tables, NodeMap

LEMMA CreateLinkShape ==
  ASSUME NEW d \in Tables, NEW l \in LinkIds, NEW rec \in LinkRec
  PROVE  LET e == DbCreateLink(d, l, rec) IN
         /\ e \in Tables
         /\ e.node = d.node
         /\ \A k \in LinkIds :
              e.link[k] = IF k = l /\ HasNode(d, rec.from) /\ HasNode(d, rec.to)
                          THEN rec ELSE d.link[k]
         /\ e.prop = d.prop
  BY DEF DbCreateLink, Tables, LinkMap

LEMMA UpdateWeightShape ==
  ASSUME NEW d \in Tables, NEW l \in LinkIds, NEW w \in Weights
  PROVE  LET e == DbUpdateWeight(d, l, w) IN
         /\ e \in Tables
         /\ e.node = d.node
         /\ \A k \in LinkIds :
              /\ HasLink(e, k) <=> HasLink(d, k)
              /\ HasLink(d, k) =>
                   /\ e.link[k].from = d.link[k].from
                   /\ e.link[k].to = d.link[k].to
                   /\ e.link[k].type = d.link[k].type
                   /\ e.link[k].weight = IF k = l THEN w ELSE d.link[k].weight
<1>1. CASE HasLink(d, l)
  <2> DEFINE new == [d.link[l] EXCEPT !.weight = w]
  <2>1. d.link[l] \in LinkRec
    BY <1>1 DEF HasLink, Tables, LinkMap
  <2>2. /\ new \in LinkRec /\ new.weight = w
        /\ new.from = d.link[l].from /\ new.to = d.link[l].to
        /\ new.type = d.link[l].type
    BY <2>1 DEF LinkRec
  <2>3. DbUpdateWeight(d, l, w) = [d EXCEPT !.link = [@ EXCEPT ![l] = new]]
    BY <1>1 DEF DbUpdateWeight
  <2> QED
    BY <1>1, <2>2, <2>3, RecsPresent DEF Tables, LinkMap, HasLink
<1>2. CASE ~HasLink(d, l)
  BY <1>2 DEF DbUpdateWeight, HasLink
<1> QED
  BY <1>1, <1>2

LEMMA DeleteLinkShape ==
  ASSUME NEW d \in Tables, NEW l \in LinkIds
  PROVE  LET e == DbDeleteLink(d, l) IN
         /\ e \in Tables
         /\ e.node = d.node
         /\ \A k \in LinkIds : e.link[k] = IF k = l THEN Absent ELSE d.link[k]
  BY DEF DbDeleteLink, Tables, LinkMap

LEMMA DeleteNodeShape ==
  ASSUME NEW d \in Tables, NEW n \in NodeIds
  PROVE  LET e == DbDeleteNode(d, n) IN
         /\ e \in Tables
         /\ \A k \in NodeIds : e.node[k] = IF k = n THEN Absent ELSE d.node[k]
         /\ \A k \in LinkIds :
              e.link[k] =
                IF HasLink(d, k) /\ n \in {d.link[k].from, d.link[k].to}
                THEN Absent ELSE d.link[k]
  BY DEF DbDeleteNode, Tables, LinkMap, NodeMap

LEMMA PropertyShape ==
  ASSUME NEW d \in Tables, NEW o \in Owners, NEW k \in Keys,
         NEW e \in {DbSetProperty(d, o, k), DbDeleteProperty(d, o, k)}
  PROVE  e \in Tables /\ e.node = d.node /\ e.link = d.link
  BY DEF DbSetProperty, DbDeleteProperty, Tables

LEMMA CacheCreateNodeShape ==
  ASSUME NEW c \in Caches, NEW n \in NodeIds, NEW rec \in NodeRec
  PROVE  LET e == CacheCreateNode(c, n, rec) IN
         /\ e \in Caches
         /\ \A k \in NodeIds : e.node[k] = IF k = n THEN rec ELSE c.node[k]
         /\ e.link = c.link
         /\ \A t \in Tags : \A k :
              k \in e.tag[t] <=> k \in c.tag[t] \/ (t \in rec.tags /\ k = n)
  BY DEF CacheCreateNode, Caches, NodeMap

LEMMA CacheDeleteNodeShape ==
  ASSUME NEW c \in Caches, NEW n \in NodeIds
  PROVE  LET e == CacheDeleteNode(c, n) IN
         /\ e \in Caches
         /\ \A k \in NodeIds : e.node[k] = IF k = n THEN Absent ELSE c.node[k]
         /\ e.link = c.link
         /\ \A t \in Tags : e.tag[t] = c.tag[t] \ {n}
  BY DEF CacheDeleteNode, Caches, NodeMap

LEMMA CacheCreateLinkShape ==
  ASSUME NEW c \in Caches, NEW l \in LinkIds, NEW rec \in LinkRec
  PROVE  LET e == CacheCreateLink(c, l, rec) IN
         /\ e \in Caches
         /\ e.node = c.node /\ e.tag = c.tag
         /\ \A k \in LinkIds : e.link[k] = IF k = l THEN rec ELSE c.link[k]
  BY DEF CacheCreateLink, Caches, LinkMap

LEMMA CacheDeleteLinkShape ==
  ASSUME NEW c \in Caches, NEW l \in LinkIds
  PROVE  LET e == CacheDeleteLink(c, l) IN
         /\ e \in Caches
         /\ e.node = c.node /\ e.tag = c.tag
         /\ \A k \in LinkIds : e.link[k] = IF k = l THEN Absent ELSE c.link[k]
  BY DEF CacheDeleteLink, Caches, LinkMap

LEMMA CacheUpdateWeightShape ==
  ASSUME NEW c \in Caches, NEW l \in LinkIds, NEW w \in Weights
  PROVE  LET e == CacheUpdateWeight(c, l, w) IN
         /\ e \in Caches
         /\ e.node = c.node /\ e.tag = c.tag
         /\ \A k \in LinkIds :
              /\ HasLink(e, k) <=> HasLink(c, k)
              /\ HasLink(c, k) =>
                   /\ e.link[k].from = c.link[k].from
                   /\ e.link[k].to = c.link[k].to
                   /\ e.link[k].weight = IF k = l THEN w ELSE c.link[k].weight
<1>1. CASE HasLink(c, l)
  <2> DEFINE new == [c.link[l] EXCEPT !.weight = w]
  <2>1. c.link[l] \in LinkRec
    BY <1>1 DEF HasLink, Caches, LinkMap
  <2>2. /\ new \in LinkRec /\ new.weight = w
        /\ new.from = c.link[l].from /\ new.to = c.link[l].to
    BY <2>1 DEF LinkRec
  <2>3. CacheUpdateWeight(c, l, w) = [c EXCEPT !.link = [@ EXCEPT ![l] = new]]
    BY <1>1 DEF CacheUpdateWeight
  <2> QED
    BY <1>1, <2>2, <2>3, RecsPresent DEF Caches, LinkMap, HasLink
<1>2. CASE ~HasLink(c, l)
  BY <1>2 DEF CacheUpdateWeight, HasLink
<1> QED
  BY <1>1, <1>2

LEMMA ApplyType ==
  ASSUME NEW d \in Tables, NEW m \in Mutations
  PROVE  Apply(d, m) \in Tables
  BY MutationKinds, CreateNodeShape, CreateLinkShape, UpdateWeightShape,
     DeleteLinkShape, DeleteNodeShape, PropertyShape DEF Apply

LEMMA SyncType ==
  ASSUME NEW c \in Caches, NEW m \in Mutations
  PROVE  Sync(c, m) \in Caches
  BY MutationKinds, CacheCreateNodeShape, CacheDeleteNodeShape,
     CacheCreateLinkShape, CacheDeleteLinkShape, CacheUpdateWeightShape DEF Sync

LEMMA TurnType ==
  ASSUME NEW d \in Tables, NEW c \in Caches, NEW m \in TurnOp
  PROVE  /\ DbCreateTurn(d, m.id, m.label) \in Tables
         /\ ApplyTurn(d, m) \in Tables
         /\ CacheTurn(c, m) \in Caches
<1>1. TurnRec(m.label) \in NodeRec
  BY TypesAssumption DEF TurnRec, NodeRec, TurnOp
<1>2. m.id \in NodeIds /\ m.prev \in NodeIds /\ m.link \in LinkIds \cup {Absent}
  BY DEF TurnOp
<1>3. DbCreateTurn(d, m.id, m.label) \in Tables
  BY <1>1, <1>2, TypesAssumption DEF DbCreateTurn, Tables, NodeMap, Owners
<1>4. PrecedesRec(m.prev, m.id) \in LinkRec
  BY <1>2, TypesAssumption DEF PrecedesRec, LinkRec
<1>5. ApplyTurn(d, m) \in Tables
  BY <1>2, <1>3, <1>4, CreateLinkShape DEF ApplyTurn
<1>6. CacheTurn(c, m) \in Caches
  BY <1>1, <1>2 DEF CacheTurn, Caches, NodeMap
<1> QED
  BY <1>3, <1>5, <1>6

-----------------------------------------------------------------------------
(* Loading the maps, and the turn step, entry by entry *)

LEMMA WarmShape ==
  ASSUME NEW d \in Tables
  PROVE  /\ WarmNodes(d) \in Caches /\ Warm(d) \in Caches
         /\ WarmNodes(d).node = d.node /\ Warm(d).node = d.node
         /\ \A l \in LinkIds : WarmNodes(d).link[l] = Absent
         /\ Warm(d).link = d.link
         /\ Warm(d).tag = WarmNodes(d).tag
         /\ \A t \in Tags : \A n :
              n \in WarmNodes(d).tag[t] <=>
                n \in NodeIds /\ HasNode(d, n) /\ t \in d.node[n].tags
<1>1. WarmNodes(d) = [node |-> d.node, link |-> [l \in LinkIds |-> Absent],
                      tag |-> [t \in Tags |->
                        {n \in NodeIds : HasNode(d, n) /\ t \in d.node[n].tags}]]
  BY DEF WarmNodes, EmptyCaches
<1>2. Warm(d) = [WarmNodes(d) EXCEPT !.link = d.link]
  BY DEF Warm
<1> QED
  BY <1>1, <1>2 DEF Tables, Caches, NodeMap, LinkMap

LEMMA TurnShape ==
  ASSUME NEW d \in Tables, NEW c \in Caches, NEW m \in TurnOp
  PROVE  /\ m.id \in NodeIds /\ TurnRec(m.label) # Absent
         /\ TurnRec(m.label).type = "turn" /\ TurnRec(m.label).tags = {}
         /\ \A k \in NodeIds :
              /\ ApplyTurn(d, m).node[k] = IF k = m.id THEN TurnRec(m.label) ELSE d.node[k]
              /\ CacheTurn(c, m).node[k] = IF k = m.id THEN TurnRec(m.label) ELSE c.node[k]
         /\ CacheTurn(c, m).tag = c.tag /\ CacheTurn(c, m).link = c.link
         /\ \A k \in LinkIds :
              \/ ApplyTurn(d, m).link[k] = d.link[k]
              \/ /\ k = m.link
                 /\ ApplyTurn(d, m).link[k] = PrecedesRec(m.prev, m.id)
                 /\ HasNode(ApplyTurn(d, m), m.prev)
                 /\ HasNode(ApplyTurn(d, m), m.id)
<1> DEFINE e == DbCreateTurn(d, m.id, m.label)
<1>1. m.id \in NodeIds /\ m.prev \in NodeIds /\ m.link \in LinkIds \cup {Absent}
  BY DEF TurnOp
<1>2. TurnRec(m.label) \in NodeRec /\ TurnRec(m.label).type = "turn" /\ TurnRec(m.label).tags = {}
  BY TypesAssumption DEF TurnRec, NodeRec, TurnOp
<1>3. PrecedesRec(m.prev, m.id) \in LinkRec /\ PrecedesRec(m.prev, m.id).from = m.prev
      /\ PrecedesRec(m.prev, m.id).to = m.id
  BY <1>1, TypesAssumption DEF PrecedesRec, LinkRec
<1>4. /\ e \in Tables /\ e.link = d.link
      /\ \A k \in NodeIds : e.node[k] = IF k = m.id THEN TurnRec(m.label) ELSE d.node[k]
  <2>1. e \in Tables
    BY TurnType
  <2> QED
    BY <1>1, <2>1 DEF DbCreateTurn, Tables, NodeMap
<1>5. /\ CacheTurn(c, m).tag = c.tag /\ CacheTurn(c, m).link = c.link
      /\ \A k \in NodeIds :
           CacheTurn(c, m).node[k] = IF k = m.id THEN TurnRec(m.label) ELSE c.node[k]
  BY <1>1 DEF CacheTurn, Caches, NodeMap
<1> HIDE DEF e
<1>6. CASE m.link = Absent
  <2>1. ApplyTurn(d, m) = e
    BY <1>6 DEF ApplyTurn, e
  <2> QED
    BY <1>1, <1>2, <1>4, <1>5, <2>1, RecsPresent
<1>7. CASE m.link # Absent
  <2>1. ApplyTurn(d, m) = DbCreateLink(e, m.link, PrecedesRec(m.prev, m.id)) /\ m.link \in LinkIds
    BY <1>1, <1>7 DEF ApplyTurn, e
  <2>2. /\ ApplyTurn(d, m).node = e.node
        /\ \A k \in LinkIds :
             ApplyTurn(d, m).link[k] =
               IF k = m.link /\ HasNode(e, m.prev) /\ HasNode(e, m.id)
               THEN PrecedesRec(m.prev, m.id) ELSE e.link[k]
    BY <1>3, <1>4, <2>1, CreateLinkShape
  <2>3. \A k \in NodeIds : HasNode(ApplyTurn(d, m), k) <=> HasNode(e, k)
    BY <2>2 DEF HasNode
  <2> QED
    BY <1>1, <1>2, <1>4, <1>5, <2>2, <2>3, RecsPresent
<1> QED
  BY <1>6, <1>7

-----------------------------------------------------------------------------
(* Induction over numbers *)

\* Counting up from 0, one reaches every number.
LEMMA CountingUp ==
  ASSUME NEW n \in Nat, NEW S, 0 \in S, \A k \in 0..n : k # n /\ k \in S => k + 1 \in S
  PROVE  0..n \subseteq S
<1> DEFINE R == OpToRel(<, Nat)
           Rest == (0..n) \ S
<1> SUFFICES ASSUME Rest # {} PROVE FALSE
  OBVIOUS
<1>1. Rest \subseteq Nat
  OBVIOUS
<1>2. PICK m \in Rest : \A k \in Rest : <<k, m>> \notin R
  <2>1. IsWellFoundedOn(R, Nat)
    BY NatLessThanWellFounded
  <2> HIDE DEF R, Rest
  <2> QED
    BY <1>1, <2>1, WFMin
<1>3. m \in 0..n /\ m # 0 /\ m \notin S
  OBVIOUS
<1>4. m - 1 \in 0..n /\ m - 1 # n /\ m - 1 < m /\ (m - 1) + 1 = m
  BY <1>3
<1>5. <<m - 1, m>> \in R
  BY <1>3, <1>4 DEF OpToRel
<1>6. m - 1 \in S
  BY <1>2, <1>4, <1>5
<1> QED
  BY <1>3, <1>4, <1>6
=============================================================================
