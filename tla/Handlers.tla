------------------------------ MODULE Handlers ------------------------------
(***************************************************************************)
(* What the request handlers of ilo/src/server do to the shared store and  *)
(* search index when several requests are in flight.                       *)
(*                                                                         *)
(* A handler that creates something works in several lock scopes: it       *)
(* resolves labels to nodes under a read guard, lets go of it, composes a  *)
(* batch, writes it under a write guard, lets go, and merges the entities  *)
(* of node_cache into the search index.  Other requests run between these  *)
(* scopes, so what was resolved may be gone or duplicated by the time it   *)
(* is used.  Each scope is one step here: the locks (ServerLocks) keep     *)
(* other requests out of it, and the store (GraphStore) makes a batch      *)
(* atomic.  Handlers that delete, read or PATCH an entity have one scope;  *)
(* PATCH of a link is in GraphStore alone.                                 *)
(*                                                                         *)
(* A client may disconnect between two scopes, which ends its handler      *)
(* there; the server may be restarted, which ends all of them, and may     *)
(* then fail to load its maps.                                             *)
(*                                                                         *)
(* Data abstraction.  A request names entities by labels; its claims are   *)
(* at most one, a set of labels.  Weights and property values are left     *)
(* out, and tags of new nodes.  An embedding is named by the label it was  *)
(* computed from.  An identifier made by uid() is one that occurs nowhere  *)
(* (it is a UUIDv7).  The sets of identifiers bound how much is ever       *)
(* created.                                                                *)
(***************************************************************************)
EXTENDS SearchIndex, Sequences, Functions, Folds

CONSTANTS
  Requests,     \* the requests that are made, each once
  Shapes,       \* what the requests ask for
  TurnIds,      \* identifiers that clients give to turns
  Addressed,    \* nodes and links that clients name by their ids to delete
  Patched,      \* nodes that clients name by their ids to change
  Within,       \* <<x, y>>: label x is a substring of label y
  Content,      \* the label of a claim
  Starts,       \* databases the server may be started on
  Waiting,      \* a request not yet received
  Done          \* a request that is over

\* An execution makes and uses finitely many identifiers, and keys are finitely many.
ASSUME FiniteAssumption ==
  IsFiniteSet(NodeIds) /\ IsFiniteSet(LinkIds) /\ IsFiniteSet(Keys)

ASSUME IdsAssumption ==
  /\ TurnIds \subseteq NodeIds /\ Addressed \subseteq NodeIds \cup LinkIds /\ Patched \subseteq NodeIds
  /\ Absent \notin NodeIds /\ Absent \notin Labels

ASSUME KindsAssumption ==
  {"entity", "claim"} \subseteq NodeTypes /\ {"relates", "references"} \subseteq LinkTypes

ASSUME LabelsAssumption ==
  /\ Content \in Labels
  /\ Within \subseteq Labels \X Labels
  /\ \A x \in Labels : <<x, x>> \in Within

Endpoints == {"remember", "ingest", "entities", "claims", "batch", "link", "connect", "update"}

\* turn: the id of a completed turn (remember with a response), or for batch
\* whether there is one.  entities: the list of labels, unembedded those of them that
\* the embedding server gives no vector for.  extra: labels; claim: the labels a claim
\* refers to, or Absent.  ends: the labels of a link's ends (of an entity to update), and
\* type its type.  raw: whether batch is given a link between two node ids.
AllShapes ==
  [endpoint : Endpoints, turn : TurnIds \cup {Absent}, entities : Seq(Labels),
   unembedded : SUBSET Labels, claim : (SUBSET Labels) \cup {Absent}, extra : SUBSET Labels,
   ends : Seq(Labels), type : LinkTypes, raw : BOOLEAN]

\* A label is named once (a repeated one is skipped).  A link has two ends, what is
\* updated is one entity.
ASSUME ShapesAssumption ==
  /\ Shapes \subseteq AllShapes /\ Starts \subseteq Tables
  /\ \A shape \in Shapes :
       /\ IsInjective(shape.entities)
       /\ shape.endpoint \in {"link", "connect"} => Len(shape.ends) = 2
       /\ shape.endpoint = "update" => Len(shape.ends) = 1

VARIABLES
  db,           \* the committed tables
  cache,        \* node_cache and link_cache (tag_index plays no part)
  stored_vectors, \* the embedding column of the Node table
  cached_vectors, \* the embeddings in node_cache
  index,        \* the search index
  req,          \* the handlers in flight
  deleted,      \* history: nodes and links that a request named to delete, with
                \* the nodes deleted along with them
  owed,         \* history: links and entities whose creation was acknowledged,
                \* without those that were deleted or lost an end by it
  shifted,      \* history: entities created by a request whose embeddings may have
                \* lost step with them
  overtaken,    \* history: requests in flight since before another one's write
  raced,        \* history: entities created by such requests, or without looking,
                \* those that were there twice from the start, or that were missed
  renamed,      \* history: nodes that were given another label or tags by PATCH
  missed        \* history: nodes not loaded at the last start, until the first merge
                \* after a reader brought them into node_cache

histories == <<deleted, owed, shifted, overtaken, raced, renamed, missed>>
vars == <<db, cache, stored_vectors, cached_vectors, index, req, histories>>

vectors == <<stored_vectors, cached_vectors>>

Creations == CreateNodeOp \cup CreateLinkOp \cup SetPropertyOp

\* at: where the request is in its script.  ids, ends: what it has resolved; own: the
\* identifiers it has made.  twice: whether a node is in the plan twice.  embeds: the
\* embeddings it has to store, shifts: the entities they may have lost step with.
Handler ==
  [shape : Shapes, at : Nat, ids : [Labels -> NodeIds \cup {Absent}],
   ends : Seq(NodeIds), turn : NodeIds \cup {Absent}, plan : SUBSET Creations,
   own : SUBSET Owners, twice : BOOLEAN,
   embeds : SUBSET (NodeIds \X Labels), shifts : SUBSET NodeIds]

ASSUME RestingAssumption == Waiting # Done /\ {Waiting, Done} \cap Handler = {}

\* The lock scopes of a handler that change or read what is modelled.
Script(endpoint) ==
  CASE endpoint = "remember" -> <<"entities", "claims", "extra", "write", "embed", "merge">>
    [] endpoint = "ingest"   -> <<"claims", "write", "merge">>
    [] endpoint = "entities" -> <<"entities", "write", "embed", "merge">>
    [] endpoint = "claims"   -> <<"claims", "write">>
    [] endpoint = "batch"    -> <<"turn", "entities", "claims", "write", "embed", "merge">>
    [] endpoint = "link"     -> <<"ends", "write">>
    [] endpoint = "connect"  -> <<"from", "to", "checkfrom", "checkto", "write">>
    [] endpoint = "update"   -> <<"from", "write">>

Todo(h) == Script(h.shape.endpoint)
Running(r) == req[r] \notin {Waiting, Done}
At(r, step) == Running(r) /\ Todo(req[r])[req[r].at] = step

\* The write of h is still to come.
Unwritten(h) == \E i \in h.at..Len(Todo(h)) : Todo(h)[i] = "write"

\* Handler r, now in state h, goes on to its next scope.
Continue(r, h) == req' = [req EXCEPT ![r] = [h EXCEPT !.at = @ + 1]]

-----------------------------------------------------------------------------
(* Identifiers *)

Occurs(id) ==
  \/ id \in deleted
  \/ \E m \in owed : m.id = id
  \/ \E r \in Requests : Running(r) /\ id \in req[r].own
  \/ id \in NodeIds /\ (HasNode(db, id) \/ HasNode(cache, id))
  \/ id \in LinkIds /\ (HasLink(db, id) \/ HasLink(cache, id))
  \/ \E l \in LinkIds : HasLink(cache, l) /\ id \in {cache.link[l].from, cache.link[l].to}

NewNodes == {n \in NodeIds \ TurnIds : ~Occurs(n)}
NewLinks == {l \in LinkIds : ~Occurs(l)}

\* A new identifier, or one for each thing; which it is is of no consequence.
uid(ids) == CHOOSE id \in ids : TRUE
Namings(things, ids) == {f \in [things -> ids] : IsInjective(f)}
Named(things, ids) == CHOOSE f \in Namings(things, ids) : TRUE

Enough(things, ids) == Namings(things, ids) # {}

-----------------------------------------------------------------------------
(* Batches *)

NewNode(n, type, label) ==
  [op |-> "CreateNode", id |-> n, rec |-> [type |-> type, label |-> label, tags |-> {}]]

\* Mutants: also the labels that were found, or none, get a node.
CreatingAll(found, new) == {NewNode(found[x], "entity", x) : x \in DOMAIN found}
CreatingNone(found, new) == {}

Creating(found, new) == {NewNode(found[x], "entity", x) : x \in new}

NewLink(l, from, to, type) ==
  [op |-> "CreateLink", id |-> l,
   rec |-> [from |-> from, to |-> to, type |-> type, weight |-> TurnWeight]]

NewProps(owner, keys) == {[op |-> "SetProperty", owner |-> owner, key |-> k] : k \in keys}

OldProps(owner) ==
  {[op |-> "DeleteProperty", owner |-> p[1], key |-> p[2]] : p \in {q \in db.prop : q[1] = owner}}

OldLink(l) == [op |-> "DeleteLink", id |-> l]
OldNode(n) == [op |-> "DeleteNode", id |-> n]

\* A handler's batch creates nodes before it links them and deletes links before
\* nodes; the order of two mutations of one kind is of no consequence.
Kinds ==
  <<"CreateNode", "SetProperty", "CreateLink", "DeleteProperty", "DeleteLink", "DeleteNode">>

Turn(m) == CHOOSE k \in DOMAIN Kinds : Kinds[k] = m.op
LastOf(plan) == CHOOSE m \in plan : \A k \in plan : Turn(k) <= Turn(m)

\* One pass of write_maintenance's loop, and of sync_cache's.
Pass(m, s) == [db |-> Apply(s.db, m), cache |-> Sync(s.cache, m)]

\* Tables d and maps c after a batch.
After(d, c, plan) ==
  MapThenFoldSet(Pass, [db |-> d, cache |-> c], LAMBDA m : m, LastOf, plan)

-----------------------------------------------------------------------------
(* Resolution *)

\* find_nodes with label_contains and limit 1 returns one of these.
Matches(x) ==
  {n \in NodeIds : /\ HasNode(cache, n) /\ cache.node[n].type = "entity"
                   /\ <<x, cache.node[n].label>> \in Within}

Unresolved(labels) == {x \in labels : Matches(x) = {}}

\* Where the labels may lead: to a node that has the label, or to a new one.
Resolutions(labels, ids) ==
  LET name == Named(Unresolved(labels), ids)
  IN {f \in [labels -> NodeIds] :
        \A x \in labels : IF x \in Unresolved(labels) THEN f[x] = name[x]
                                                     ELSE f[x] \in Matches(x)}

\* entity_ids: the labels among these that the request has not met yet.
Unmapped(h, labels) == {x \in labels : h.ids[x] = Absent}
Mapped(h) == {x \in Labels : h.ids[x] # Absent}

With(h, found) ==
  [h EXCEPT !.ids = [x \in Labels |-> IF x \in DOMAIN found THEN found[x] ELSE @[x]]]

\* Mutant: turns and claims are indexed as well.
IndexedAll(c, v) ==
  [n \in NodeIds |-> IF HasNode(c, n) THEN [label |-> c.node[n].label, vector |-> v[n]]
                                     ELSE Absent]

\* find_nodes_by_type(Entity): what is merged into the index.
Indexed(c, v) ==
  [n \in NodeIds |->
     IF HasNode(c, n) /\ c.node[n].type = "entity"
     THEN [label |-> c.node[n].label, vector |-> v[n]] ELSE Absent]

-----------------------------------------------------------------------------
SameEntity(d, m, n) ==
  /\ HasNode(d, m) /\ HasNode(d, n)
  /\ d.node[m].type = "entity" /\ d.node[n].type = "entity"
  /\ d.node[m].label = d.node[n].label

Init ==
  /\ db \in Starts
  /\ cache = Warm(db)
  /\ stored_vectors = [n \in NodeIds |-> Absent]
  /\ cached_vectors = stored_vectors
  /\ index = build(NoDocs, Indexed(cache, cached_vectors))
  /\ req = [r \in Requests |-> Waiting]
  /\ deleted = {}
  /\ owed = {}
  /\ shifted = {} /\ overtaken = {}
  /\ raced = {n \in NodeIds : \E m \in NodeIds \ {n} : SameEntity(db, m, n)}
  /\ renamed = {} /\ missed = {}

Received(shape) ==
  [shape |-> shape, at |-> 1, ids |-> [x \in Labels |-> Absent],
   ends |-> << >>, turn |-> shape.turn, plan |-> {}, own |-> {}, twice |-> FALSE,
   embeds |-> {}, shifts |-> {}]

\* A step that changes nothing but its own request.
Reads == UNCHANGED <<db, cache, vectors, index, histories>>

\* ingest makes a node for its source and never looks for one; batch makes a turn id
\* whether or not there is a turn.
Arrive(r) ==
  /\ req[r] = Waiting
  /\ \E shape \in Shapes :
       LET start == Received(shape)
           new == uid(NewNodes)
       IN /\ shape.endpoint \in {"ingest", "batch"} => NewNodes # {}
          /\ CASE shape.endpoint = "ingest" ->
                    \E source \in Range(shape.entities) :
                      req' = [req EXCEPT ![r] =
                        [start EXCEPT !.plan = {NewNode(new, "entity", source)},
                                      !.ids[source] = new, !.own = {new}]]
               [] shape.endpoint = "batch" ->
                    req' = [req EXCEPT ![r] = [start EXCEPT !.turn = new, !.own = {new}]]
               [] OTHER -> req' = [req EXCEPT ![r] = start]
  /\ Reads

-----------------------------------------------------------------------------
(* Read scopes: they change their own request, and what get_node caches. *)

\* get_node finds it, if need be in the table, and enters it in node_cache.
Known(n) == HasNode(cache, n) \/ HasNode(db, n)

Fetch(n) ==
  IF HasNode(cache, n) THEN UNCHANGED <<cache, cached_vectors>>
  ELSE /\ cache' = [cache EXCEPT !.node[n] = db.node[n]]
       /\ cached_vectors' = [cached_vectors EXCEPT ![n] = stored_vectors[n]]

\* remember with a response; without one it stores entities only.
Completes(h) == h.shape.endpoint = "remember" /\ h.turn # Absent

\* batch: the turn is a mutation like the others, linked from the latest turn in
\* node_cache (cached times are left out: any), and a link given by ids is taken as
\* it is.  A client knows the ids it has been told, of nodes that may be gone, and
\* the ids it gives to turns.
Seen == {n \in NodeIds : Known(n)} \cup (deleted \cap NodeIds) \cup TurnIds

BatchTurn(r) ==
  LET h == req[r]
      prevs == {n \in NodeIds : HasNode(cache, n) /\ cache.node[n].type = "turn"}
      links == (IF prevs # {} /\ h.shape.turn # Absent THEN {"precedes"} ELSE {})
                 \cup (IF h.shape.raw THEN {"raw"} ELSE {})
      name == Named(links, NewLinks)
  IN /\ At(r, "turn")
     /\ Enough(links, NewLinks)
     /\ \E prev \in IF "precedes" \in links THEN prevs ELSE {Absent},
          from, to \in IF "raw" \in links THEN Seen ELSE {Absent} :
          Continue(r, [h EXCEPT
            !.own = @ \cup {name[k] : k \in links},
            !.plan = @
              \cup (IF h.shape.turn # Absent
                    THEN {NewNode(h.turn, "turn", Content)} \cup NewProps(h.turn, TurnKeys)
                    ELSE {})
              \cup {IF k = "raw" THEN NewLink(name[k], from, to, h.shape.type)
                                 ELSE NewLink(name[k], prev, h.turn, "precedes") : k \in links}])
     /\ Reads

\* How many of the first i labels are among xs.
Place(labels, xs, i) == Cardinality({j \in 1..i : labels[j] \in xs})

\* Mutant: the failed embeddings are dropped for every endpoint.
EmbeddingPlaceDense(shape, i) == Place(shape.entities, Labels \ shape.unembedded, i)

\* A request computes one embedding for each label, found or not.  Those that failed
\* leave a gap; remember (`flatten`) closes it.
EmbeddingPlace(shape, i) ==
  IF shape.endpoint = "remember" THEN Place(shape.entities, Labels \ shape.unembedded, i) ELSE i

\* The i-th embedding goes to the i-th entity that was created.
Paired(shape, found, new) ==
  LET labels == shape.entities
  IN {p \in NodeIds \X Labels :
        \E i, j \in DOMAIN labels :
          /\ labels[i] \in new /\ labels[j] \notin shape.unembedded
          /\ Place(labels, new, i) = EmbeddingPlace(shape, j)
          /\ p = <<found[labels[i]], labels[j]>>}

\* build_entity_mutations: a label that leads nowhere gets a node; properties are
\* set on new and old nodes alike.
Entities(r) ==
  LET h == req[r]
      labels == Unmapped(h, Range(h.shape.entities))
      new == Unresolved(labels)
      instep == /\ new = Range(h.shape.entities)
                /\ h.shape.endpoint = "remember" => h.shape.unembedded \cap new = {}
  IN /\ At(r, "entities")
     /\ Enough(new, NewNodes)
     /\ \E found \in Resolutions(labels, NewNodes) :
          Continue(r, [With(h, found) EXCEPT
            !.own = @ \cup {found[x] : x \in new},
            !.embeds = Paired(h.shape, found, new),
            !.shifts = IF instep THEN {} ELSE {found[x] : x \in new},
            !.plan = @ \cup Creating(found, new)
                       \cup (UNION {NewProps(found[x], Keys) : x \in labels})])
     /\ Reads

\* build_claim_mutations: the claim, the entities it refers to that are not found,
\* and a link to each.  ingest links its source to the claim too.
Claims(r) ==
  LET h == req[r]
      claim == uid(NewNodes)
      labels == Unmapped(h, h.shape.claim)
      new == Unresolved(labels)
      sources == IF h.shape.endpoint = "ingest" THEN Mapped(h) ELSE {}
      links == (h.shape.claim \X {"evidence"}) \cup (sources \X {"source"})
      name == Named(links, NewLinks)
  IN /\ At(r, "claims")
     /\ IF h.shape.claim = Absent \/ (h.shape.endpoint = "remember" /\ ~Completes(h))
        THEN Continue(r, h)
        ELSE /\ Enough(new \cup {Absent}, NewNodes)
             /\ Enough(links, NewLinks)
             /\ \E found \in Resolutions(labels, NewNodes \ {claim}) :
                  LET g == With(h, found)
                  IN Continue(r, [g EXCEPT
                       !.own = @ \cup {claim} \cup {found[x] : x \in new} \cup {name[k] : k \in links},
                       !.plan = @ \cup {NewNode(claim, "claim", Content)}
                         \cup Creating(found, new)
                         \cup {IF k[2] = "evidence"
                               THEN NewLink(name[k], claim, g.ids[k[1]], "relates")
                               ELSE NewLink(name[k], g.ids[k[1]], claim, "relates") : k \in links}])
     /\ Reads

\* remember's all_entities: labels that are found get a link from the turn (and
\* one more when the batch is written, like every label).
Extra(r) ==
  LET h == req[r]
      labels == Unmapped(h, h.shape.extra)
      known == labels \ Unresolved(labels)
      name == Named(known, NewLinks)
  IN /\ At(r, "extra")
     /\ IF ~Completes(h) THEN Continue(r, h)
        ELSE /\ Enough(known, NewLinks)
             /\ \E found \in Resolutions(known, NewNodes) :
                  Continue(r, [With(h, found) EXCEPT
                    !.own = @ \cup {name[x] : x \in known},
                    !.plan = @ \cup {NewLink(name[x], h.turn, found[x], "references") : x \in known}])
     /\ Reads

\* create_link: both ends in one scope, each made if it is not found.
Ends(r) ==
  LET h == req[r]
      new == {i \in {1, 2} : Matches(h.shape.ends[i]) = {}}
      name == Named(new, NewNodes)
      link == uid(NewLinks)
  IN /\ At(r, "ends")
     /\ Enough(new, NewNodes) /\ NewLinks # {}
     /\ \E a, b \in NodeIds :
          /\ IF 1 \in new THEN a = name[1] ELSE a \in Matches(h.shape.ends[1])
          /\ IF 2 \in new THEN b = name[2] ELSE b \in Matches(h.shape.ends[2])
          /\ Continue(r, [h EXCEPT
               !.ends = <<a, b>>,
               !.own = @ \cup {name[i] : i \in new} \cup {link},
               !.plan = @ \cup {NewNode(name[i], "entity", h.shape.ends[i]) : i \in new}
                          \cup {NewLink(link, a, b, h.shape.type)}])
     /\ Reads

\* connect resolves its ends one by one; entity_update has one, creates it at once
\* and sets its properties.
End(r, step, i) ==
  LET h == req[r]
      label == h.shape.ends[i]
      new == Matches(label) = {}
  IN /\ At(r, step)
     /\ new => NewNodes # {}
     /\ \E n \in IF new THEN {uid(NewNodes)} ELSE Matches(label) :
          Continue(r, [h EXCEPT
            !.ends = Append(@, n),
            !.own = @ \cup (IF new THEN {n} ELSE {}),
            !.plan = @ \cup (IF h.shape.endpoint # "update" THEN {}
                             ELSE NewProps(n, Keys)
                                    \cup (IF new THEN {NewNode(n, "entity", label)} ELSE {}))])
     /\ Reads

\* connect looks each end up again and creates it if it is not there: also when it
\* was found before and has been deleted since; twice, if it is both ends.
Check(r, step, i) ==
  LET h == req[r]
      n == h.ends[i]
  IN /\ At(r, step)
     /\ Continue(r, IF Known(n) THEN h ELSE
          [h EXCEPT !.plan = @ \cup {NewNode(n, "entity", h.shape.ends[i])},
                    !.twice = @ \/ \E m \in h.plan : m.id = n])
     /\ Fetch(n)
     /\ UNCHANGED <<db, stored_vectors, index, histories>>

-----------------------------------------------------------------------------
(* Write scopes *)

\* remember links its turn to every label it has met, batch does if it has claims;
\* connect links its ends.
Links(h) ==
  CASE Completes(h) -> Mapped(h) \X {"context"}
    [] h.shape.endpoint = "batch" /\ h.shape.claim # Absent -> Mapped(h) \X {"context"}
    [] h.shape.endpoint = "connect" -> {<<Content, "connect">>}
    [] OTHER -> {}

LastLinks(h) ==
  LET name == Named(Links(h), NewLinks)
  IN {IF k[2] = "context" THEN NewLink(name[k], h.turn, h.ids[k[1]], "references")
                          ELSE NewLink(name[k], h.ends[1], h.ends[2], h.shape.type)
       : k \in Links(h)}

\* write_batch's own step, with a link from the turn that its query returns, or
\* none if the query failed.
Turns(h) ==
  LET free == NewLinks \ {m.id : m \in LastLinks(h)}
  IN {[op |-> "CreateTurn", id |-> h.turn, label |-> Content,
       link |-> link, prev |-> prev]
        : link \in {Absent} \cup {l \in free : l = uid(free)},
          prev \in TurnNodes(DbCreateTurn(db, h.turn, Content))}

Applied(d, c, plan) == db' = After(d, c, plan).db /\ cache' = After(d, c, plan).cache

Resolved(h, plan) ==
  {h.ids[x] : x \in Mapped(h)} \cup Range(h.ends) \cup {m.id : m \in {k \in plan : k.op = "CreateNode"}}
    \cup (IF Completes(h) THEN {h.turn} ELSE {})

\* What a reply that reports success promises: the entities, to be found by search,
\* and the links between nodes that were found or created for the request.  The
\* replies of connect and entity_update do not depend on their write.
Promised(h, plan) ==
  LET entities == {m \in plan : m.op = "CreateNode" /\ m.rec.type = "entity"}
      links == {m \in plan : /\ m.op = "CreateLink"
                             /\ {m.rec.from, m.rec.to} \subseteq Resolved(h, plan)}
  IN CASE h.shape.endpoint \in {"connect", "update"} -> {}
       [] h.shape.endpoint \in {"claims", "link"} -> links
       [] OTHER -> entities \cup links

\* What was deleted is owed no more, nor a link that had an end deleted: before it
\* was written, behind the back of the request, or after.
Involved(m) == IF m.op = "CreateLink" THEN {m.id, m.rec.from, m.rec.to} ELSE {m.id}
StillOwed(ms, gone) == {m \in ms : Involved(m) \cap gone = {}}

\* The reply follows the last scope.
Proceed(r, h) ==
  IF h.at = Len(Todo(h))
  THEN /\ req' = [req EXCEPT ![r] = Done]
       /\ owed' = StillOwed(owed \cup h.plan, deleted)
  ELSE Continue(r, h) /\ UNCHANGED owed

\* What a handler has resolved is of no use to it after its write; without embeddings
\* it goes on to the merge.
Written(h, promised) ==
  [h EXCEPT !.ids = [x \in Labels |-> Absent], !.ends = << >>, !.own = {},
            !.plan = promised, !.shifts = {},
            !.at = IF h.embeds = {} /\ @ < Len(Todo(h)) /\ Todo(h)[@ + 1] = "embed"
                   THEN @ + 1 ELSE @]

\* Whom the write of r overtakes: those who have still to write what they look up.
Overtaken(r) ==
  (overtaken \ {r}) \cup {q \in Requests \ {r} : Running(q) /\ Unwritten(req[q])}

\* The entities of r's batch that it may not be the first to create: another request
\* wrote since r came in, or r does not look for them (the source of ingest), or looks
\* for both ends of a link before it creates either.
Raced(r, plan) ==
  {m.id : m \in {k \in plan :
     /\ k.op = "CreateNode" /\ k.rec.type = "entity"
     /\ \/ r \in overtaken
        \/ req[r].shape.endpoint = "ingest" /\ k.rec.label \in Range(req[r].shape.entities)
        \/ ~IsInjective(req[r].shape.ends)}}

\* The batch is committed and the maps follow.
Write(r) ==
  LET h == req[r]
      plan == h.plan \cup LastLinks(h)
  IN /\ At(r, "write")
     /\ Enough(Links(h), NewLinks)
     /\ ~h.twice /\ \A m \in plan : Applicable(db, m)
     /\ IF Completes(h)
        THEN /\ TurnApplicable(db, h.turn)
             /\ \E m \in Turns(h) : Applied(ApplyTurn(db, m), CacheTurn(cache, m), plan)
        ELSE Applied(db, cache, plan)
     /\ Proceed(r, Written(h, Promised(h, plan)))
     /\ shifted' = shifted \cup h.shifts
     /\ overtaken' = Overtaken(r)
     /\ raced' = raced \cup Raced(r, plan)
     /\ UNCHANGED <<vectors, index, deleted, renamed, missed>>

\* The write is rolled back; the turn may be in node_cache already.  ingest goes on
\* to the merge, connect and entity_update ignore the error, the others report it.
WriteFails(r) ==
  LET h == req[r]
  IN /\ At(r, "write")
     /\ \/ UNCHANGED cache
        \/ /\ Completes(h) /\ TurnApplicable(db, h.turn)
           /\ cache' = CacheTurn(cache, [id |-> h.turn, label |-> Content])
     /\ req' = [req EXCEPT ![r] =
          IF h.shape.endpoint = "ingest" THEN [Written(h, {}) EXCEPT !.at = @ + 1]
                                         ELSE Done]
     /\ overtaken' = overtaken \ {r}
     /\ UNCHANGED <<db, vectors, index, deleted, owed, shifted, raced, renamed, missed>>

\* store_entity_embeddings, and remember's own: the column of what is still stored is
\* set, node_cache is not.
Embed(r) ==
  LET h == req[r]
  IN /\ At(r, "embed")
     /\ stored_vectors' =
          [n \in NodeIds |->
             IF HasNode(db, n) /\ \E x \in Labels : <<n, x>> \in h.embeds
             THEN CHOOSE x \in Labels : <<n, x>> \in h.embeds
             ELSE stored_vectors[n]]
     /\ Proceed(r, [h EXCEPT !.embeds = {}])
     /\ UNCHANGED <<db, cache, cached_vectors, index, deleted, shifted, overtaken, raced,
                    renamed, missed>>

\* The index is built anew from what it has and all cached entities; what was deleted
\* since the server was started stays.
Merge(r) ==
  /\ At(r, "merge")
  /\ index' = merge(index, Indexed(cache, cached_vectors))
  /\ Proceed(r, req[r])
  /\ missed' = {n \in missed : ~HasNode(cache, n)}
  /\ UNCHANGED <<db, cache, vectors, deleted, shifted, overtaken, raced, renamed>>

-----------------------------------------------------------------------------
(* Requests that end early *)

Disconnect(r) ==
  /\ Running(r)
  /\ req' = [req EXCEPT ![r] = Done]
  /\ overtaken' = overtaken \ {r}
  /\ UNCHANGED <<db, cache, vectors, index, deleted, owed, shifted, raced, renamed, missed>>

\* What warm_cache leaves in the maps: it fails at the nodes, at the links, or not at all.
Loaded(d) == {EmptyCaches, WarmNodes(d), Warm(d)}

\* A restart with a sound log.  main.rs drops warm_cache's error; run_server builds the
\* index from whatever was loaded.
Restart ==
  /\ req' = [r \in Requests |-> IF Running(r) THEN Done ELSE req[r]]
  /\ cache' \in Loaded(db)
  /\ cached_vectors' = [n \in NodeIds |-> IF HasNode(cache', n) THEN stored_vectors[n] ELSE Absent]
  /\ index' = build(NoDocs, Indexed(cache', cached_vectors'))
  /\ overtaken' = {}
  /\ missed' = {n \in NodeIds : HasNode(db, n) /\ ~HasNode(cache', n)}
  /\ raced' = raced \cup missed'
  /\ UNCHANGED <<db, stored_vectors, deleted, owed, shifted, renamed>>

-----------------------------------------------------------------------------
(* Handlers with a single scope; a failed write leaves everything as it was. *)

CachedLinks(from, to, types) ==
  {l \in LinkIds : /\ HasLink(cache, l) /\ cache.link[l].type \in types
                   /\ cache.link[l].from \in from /\ cache.link[l].to \in to}

Without(v, nodes) == [n \in NodeIds |-> IF n \in nodes THEN Absent ELSE v[n]]

Delete(nodes, links) ==
  /\ Applied(db, cache, (UNION {OldProps(n) : n \in nodes}) \cup {OldLink(l) : l \in links}
                          \cup {OldNode(n) : n \in nodes})
  /\ deleted' = deleted \cup nodes
  /\ owed' = StillOwed(owed, deleted')
  /\ stored_vectors' = Without(stored_vectors, nodes)
  /\ cached_vectors' = Without(cached_vectors, nodes)
  /\ UNCHANGED <<index, req, shifted, overtaken, raced, renamed, missed>>

\* DELETE /entities/{id}: the node, its outgoing links, and whatever is at the other
\* end of an incoming "relates" link, with all of that node's outgoing links.
DeleteEntity(n) ==
  LET claims == {cache.link[l].from : l \in CachedLinks(NodeIds, {n}, {"relates"})}
  IN /\ Known(n)
     /\ Delete(claims \cup {n}, CachedLinks(claims \cup {n}, NodeIds, LinkTypes))

\* DELETE /claims/{id}
DeleteClaim(n) == Known(n) /\ Delete({n}, CachedLinks({n}, NodeIds, {"relates"}))

\* DELETE /links/{id}
DeleteLink(l) ==
  /\ HasLink(cache, l)
  /\ Applied(db, cache, OldProps(l) \cup {OldLink(l)})
  /\ deleted' = deleted \cup {l}
  /\ owed' = StillOwed(owed, deleted')
  /\ UNCHANGED <<vectors, index, req, shifted, overtaken, raced, renamed, missed>>

\* PATCH /entities/{id}, of a node of any type: raw_query changes the columns in the row
\* and nowhere else; the properties follow in a write of their own, which may fail.
UpdateEntity(n) ==
  /\ Known(n)
  /\ Fetch(n)
  /\ \E x \in Labels, tags \in SUBSET Tags, keys \in SUBSET Keys :
       db' = [DbSetColumns(db, n, x, tags) EXCEPT !.prop = @ \cup ({n} \X keys)]
  /\ renamed' = IF db'.node = db.node THEN renamed ELSE renamed \cup {n}
  /\ UNCHANGED <<stored_vectors, index, req, deleted, owed, shifted, overtaken, raced, missed>>

\* Any handler that asks for n with get_node and has not found it in node_cache, among
\* them those of DELETE and PATCH when their write fails.
GetNode(n) ==
  /\ HasNode(db, n) /\ ~HasNode(cache, n)
  /\ Fetch(n)
  /\ UNCHANGED <<db, stored_vectors, index, req, histories>>

-----------------------------------------------------------------------------
Resolve(r) ==
  \/ BatchTurn(r) \/ Entities(r) \/ Claims(r) \/ Extra(r) \/ Ends(r)
  \/ End(r, "from", 1) \/ End(r, "to", 2)
  \/ Check(r, "checkfrom", 1) \/ Check(r, "checkto", 2)

Next ==
  \/ \E r \in Requests :
       \/ Arrive(r) \/ Resolve(r) \/ Write(r) \/ WriteFails(r)
       \/ Embed(r) \/ Merge(r) \/ Disconnect(r)
  \/ \E n \in NodeIds \cap Addressed : DeleteEntity(n) \/ DeleteClaim(n)
  \/ \E n \in NodeIds \cap Patched : UpdateEntity(n)
  \/ \E l \in LinkIds \cap Addressed : DeleteLink(l)
  \/ \E n \in NodeIds : GetNode(n)
  \/ Restart

Spec == Init /\ [][Next]_vars

-----------------------------------------------------------------------------
(* Properties *)

\* The types.  However often the index is merged, it lists an entity at most twice.
TypeOK ==
  /\ db \in Tables
  /\ cache \in Caches
  /\ stored_vectors \in [NodeIds -> Labels \cup {Absent}]
  /\ cached_vectors \in [NodeIds -> Labels \cup {Absent}]
  /\ index \in Index
  /\ req \in [Requests -> Handler \cup {Waiting, Done}]
  /\ deleted \in SUBSET Owners
  /\ owed \in SUBSET (CreateNodeOp \cup CreateLinkOp)
  /\ {shifted, raced, renamed, missed} \subseteq SUBSET NodeIds
  /\ overtaken \in SUBSET {r \in Requests : Running(r)}

\* An entity whose creation was acknowledged is stored, and in node_cache and found by
\* the label it has there, through whatever other requests, disconnects and restarts,
\* until it is deleted (handlers.rs: "so new entities are findable via FTS
\* immediately").  After a start that failed to load it, it is stored only, until it is
\* read by its id and a merge follows.  The label is the acknowledged one unless it was
\* changed by PATCH.
AckedEntitiesFound ==
  \A m \in owed :
    m.op = "CreateNode" =>
      /\ HasNode(db, m.id)
      /\ m.id \notin missed =>
           HasNode(cache, m.id) /\ m.id \in search_fts(index, cache.node[m.id].label)
      /\ m.id \notin renamed =>
           /\ db.node[m.id].label = m.rec.label
           /\ HasNode(cache, m.id) => cache.node[m.id].label = m.rec.label

\* What search lists under a label is an entity that is stored, and that node_cache and
\* the table have under this label.  Two kinds of requests undo this: PATCH changes the
\* label in the table only, until a restart, and what is deleted stays listed until a
\* restart, or one merge longer if connect brings it back under another label.
IndexListsStored ==
  \A x \in Labels : \A n \in search_fts(index, x) \ deleted :
    /\ HasNode(db, n) /\ db.node[n].type = "entity"
    /\ HasNode(cache, n) /\ cache.node[n].label = x
    /\ n \notin renamed => db.node[n].label = x

\* Embeddings are paired with the created entities by position (crud/mod.rs: "Only
\* embed entities that were actually created (by index range)").  An entity has the
\* embedding of another one's label only if its request named an entity that was found,
\* or was a remember for which an embedding failed, or if it was renamed by PATCH, which
\* computes no embedding, or deleted meanwhile and brought back by connect under another
\* label.
EmbeddingsInStep ==
  \A n \in NodeIds \ (shifted \cup renamed \cup deleted) :
    stored_vectors[n] # Absent => HasNode(db, n) /\ stored_vectors[n] = db.node[n].label

\* A link whose creation was acknowledged is stored, unless it or one of its ends
\* was deleted: before the write, behind the back of the request, or after it.
AckedLinksStored == \A m \in owed : m.op = "CreateLink" => HasLink(db, m.id)

\* A link that only link_cache knows has an end that is not stored or was deleted
\* once (connect may bring it back under the same id), or is a link of a turn (whose
\* id a client may use before and after the turn is stored).
PhantomLinksExplained ==
  \A l \in LinkIds :
    HasLink(cache, l) /\ ~HasLink(db, l) =>
      \E end \in {cache.link[l].from, cache.link[l].to} :
        ~HasNode(db, end) \/ end \in deleted \/ end \in TurnIds

\* helpers.rs has identifiers that "avoid race conditions where two concurrent requests
\* try to create the same entity simultaneously"; yet labels are looked up in one scope
\* and created in another.  Of two entities with one label, at least one was created by
\* a request that another one's write overtook, by ingest as its source, by a link or
\* connect that has the same label at both ends, or brought back by connect, was renamed
\* by PATCH, or not loaded at a start (so that nobody could find it), or both were there
\* from the start.  A request that is sent again after it was answered does not double
\* its entities.
DuplicatesExplained ==
  \A m, n \in NodeIds \ (raced \cup renamed \cup deleted) : SameEntity(db, m, n) => m = n

\* Who deletes a node has deleted it: what other requests had resolved before brings
\* it back only where connect looks again and creates what it misses, under the old
\* id, or where a client gives a deleted turn's id to a turn.
DeletedComesBackByConnect ==
  [][\A n \in deleted \cap NodeIds :
       HasNode(db', n) /\ ~HasNode(db, n) =>
         \/ n \in TurnIds
         \/ \E r \in Requests :
              At(r, "write") /\ req[r].shape.endpoint = "connect" /\ n \in Range(req[r].ends)]_vars

\* What entity_handlers.rs says of DELETE /entities/{id}: it finds the claims that
\* reference the entity and deletes them with it.  No other entity is deleted.
DeleteKeepsOtherEntities ==
  [][\A n \in NodeIds :
       DeleteEntity(n) =>
         \A m \in NodeIds \ {n} :
           HasNode(db, m) /\ db.node[m].type = "entity" => HasNode(db', m)]_vars
=============================================================================
