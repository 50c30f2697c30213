# ILO, formally

TLA+ models of the ILO memory server (`ilo/src`), checked with TLC on small
instances and, for the store, the learning rule, retrieval, the locks, the life of
the process and extraction, proved with TLAPS for instances of any size.  Paths
below are relative to `src/` of the repository.

## The system

ILO is an HTTP server that keeps an agent's memory as a graph: nodes (entities,
claims, turns), links between them, properties of both.  Requests create,
delete, search and reinforce parts of the graph.

| Part | Source | State | Operations |
|---|---|---|---|
| Graph store | `ilo/src/ladybug.rs`, `store.rs`, `types.rs` | database tables Node, LINK, Prop; the maps node_cache, link_cache, tag_index | open, warm up, write_batch, write_maintenance, raw_query, get_node and other reads, checkpoint on drop |
| Handlers | `server/handlers.rs`, `server/crud/*`, `server/helpers.rs` | what a request has resolved and planned | one per endpoint: resolve labels, compose a batch, write, set embeddings, merge the index |
| Shared locks | `server/mod.rs` | one tokio `RwLock` around the store, one around the search index | read, write, drop |
| Search index | `search.rs` | inverted index, document frequencies, embeddings, nodes | build, merge, full-text and vector search |
| Learning | `learning.rs`, `config.rs` | counters (link properties) and weights | learn, consolidate |
| Retrieval | `retrieval.rs` | none beyond a call: frontier, depths, activations | seeds, expansion, context assembly |
| Process lifecycle | `main.rs`, `server/router.rs` | lock file, PID file, database lock | start, retry, serve, uptime limit, shutdown |
| Extraction | `extract.rs` | none beyond a call: spans of entities, claims | match known entities, guess new ones, merge, read claims |
| Embedding client | `embed.rs` | none | one HTTP call with a time limit |

How they interact.  A handler is an asynchronous task.  It reaches the store and
the index only through their locks, and most handlers take a lock several
times: they resolve labels in one scope and write in a later one, and what they
resolved may have been deleted or duplicated in between.  The store writes in a
transaction and then replays the batch on its maps; reads answer from the maps.
The index is a third copy, merged from node_cache after a write.  The client may
disconnect at any await, which drops the handler where it is.  The process may
die between any two steps, and another may be started over the same directory
while it ends.  Extraction runs on the text alone (`/ingest`) or with the labels of
node_cache (`/extract`).

What is hard to test, then: three copies of one graph drifting apart; writes
that fail half way; locks of two resources taken in different orders; decisions
on stale reads; retries after half an answer; numbers computed again and again
from their own results.  `hazards` in `PROJECT.json` has the list, line by line,
each with the properties that watch it.

What makes each part correct:

- store: a batch happens whole or not at all, also across crashes; stored links
  join stored nodes; how far a map may differ from the tables is known exactly;
- locks: every request ends, or it is known why not;
- handlers: what a reply acknowledged is there and can be found, what is deleted
  stays deleted, one entity is created once, an embedding is that of its entity's
  label;
- learning: counters and weights never part, weights stay within (0, 1) and use
  moves them towards the quality of the entities they link, as long as counters can
  be read;
- index: it lists every acknowledged entity, and nothing that is not stored, under
  another label, or more than twice;
- retrieval: what it finds is reached from a seed over links, in as many as it
  says, and it misses nothing but what too little energy reached;
- lifecycle: one process serves, with the database open and the PID file its own;
  whoever starts serves or ends; every request ends;
- extraction: entities do not overlap, known ones are the leftmost longest, no claim
  is read from a negated sentence, no text makes it panic (it is known which texts
  break the last two).

Where the code keeps one of these with exceptions, the property names the
exceptions, and the checks show that there are no others.

## The modules

| Module | Extends | Models |
|---|---|---|
| `GraphTables` | | the values: tables, maps, mutations, and what a mutation does to each |
| `GraphStore` | `GraphTables`, instance of `AtomicGraph` | LadybugStore, one statement a step |
| `AtomicGraph` | `GraphTables` | what the store promises: a graph changed by whole batches |
| `GraphTablesProofs` | `GraphTables`, TLAPS | what each mutation returns; counting up in place of induction |
| `GraphStoreProofs` | `GraphStore`, `GraphTablesProofs` | the store's invariant, and that it implements `AtomicGraph`, proved |
| `ServerLocks` | | the two locks and the order in which every endpoint uses them |
| `ServerLocksProofs` | `ServerLocks`, TLAPS | mutual exclusion and the only deadlock, proved |
| `Lifecycle` | instance of `ServerLocks` | processes over one directory, with the requests of the one that serves |
| `LifecycleProofs` | `Lifecycle`, TLAPS, instance of `ServerLocksProofs` | its invariants and the PID file, proved |
| `SearchIndex` | `GraphTables` | the index as a value: `build`, `merge`, `search_fts` |
| `Handlers` | `SearchIndex` | what concurrent requests do to store and index, one lock scope a step |
| `HandlersProofs` | `Handlers`, `GraphTablesProofs` | the handlers' invariant, proved |
| `Learning` | | POST /learn, counters, weights |
| `LearningProofs` | `Learning`, TLAPS | learning's invariant, proved |
| `Retrieval` | | one retrieval: energy spreading hop by hop |
| `RetrievalProofs` | `Retrieval`, TLAPS | retrieval's invariant, proved |
| `Extraction` | | the loops of `extract` over a text of tokens |
| `ExtractionProofs` | `Extraction`, TLAPS | its invariants, proved |
| `MCGraphStore`, `MCServerLocks`, `MCLifecycle`, `MCHandlers`, `MCLearning`, `MCRetrieval`, `MCExtraction` | their model | instances for TLC |

The models fit together by granularity.  `GraphStore` shows that a write,
statement by statement and with failures and crashes anywhere, looks from
outside like one atomic change (`WritesAreAtomic`).  `ServerLocks` shows which
lock scopes exclude each other.  On these two grounds `Handlers` and `Learning`
take a whole lock scope as one step and a write as one change of tables and maps.
`Lifecycle` is the whole: it instantiates `ServerLocks` for the process that has the
database open, so that a stop or a death meets requests in flight.

### GraphTables and GraphStore

A table is a function from identifiers to rows or `Absent`.  `db` holds the
committed tables, `txn` the private view of an open transaction, `cache` the
three maps.  The actions are the code's statements:

| Action | Code |
|---|---|
| `Open`, `Shutdown`, `Crash` | `LadybugStore::new` and `warm_cache` (whose failure `main` ignores, so a start may load both maps, the nodes only, or neither); `Drop`; the process dies |
| `BeginWrite`, `ApplyMutation`, `Commit`, `SyncCache` | `write_maintenance`, and `write_batch` without a response |
| `BeginTurn` | the turn step of `write_batch`, with its early entry in node_cache |
| `Fail` | `?` on a statement or the COMMIT |
| `GetNodeMiss` | `get_node` filling node_cache |
| `RawUpdateNode`, `RawUpdateLinkType` | the PATCH handlers' updates through `raw_query` |

A database whose write-ahead log fails its checksum is deleted by the next
start; the model lets only a crash with a log that was not checkpointed leave
such a log.  Left out: property values (a property is there or not), time
stamps, the embedding column, `traverse` and the other pure reads.  Statements
on one transaction are modelled as one step each: nothing else runs on the
store while `&mut self` is held behind the server's write lock.

### ServerLocks

Each endpoint is a set of paths, a path a sequence of lock operations read off
its handler.  What is computed in between is left out, as it is finite.  A lock
is tokio's: first come, first served, so that a reader behind a waiting writer
waits.  `Disconnect` drops a request with its guards and its place in the queue.

### Lifecycle

`stage[p]` is where process `p` is in `main`.  Three things on disk tell processes
of each other, and `main` takes them in this order:

| Variable | What it is | Taken | Given back |
|---|---|---|---|
| `flock` | the flock on `ilo.lock` | `Start` (`try_lock`, or the process is gone) | `DropLockFile`, when main's future ends; `CloseLockFile`, by the kernel |
| `pidfile` | `ilo.pid` | `WritePid` (a failure is only logged) | `RemovePid` (a failure is ignored); never after `exit(1)` in `run_server` or a kill |
| `dbLock` | LadybugDB's lock on the open database | `OpenDatabase`; `RetryOpen`, `GiveUpRetrying`, `LastTryFails` while it is locked | `Drained`, `ReachLimit`, `DropRuntime`; `CloseDatabase`, by the kernel |

`Signal` and `Drained` are the graceful shutdown, which waits for connections: for
requests that run, and for those a client has stalled (`stalled`, by `Stall` and
`Unstall`), half sent or with the answer not read.  `ReachLimit` is the uptime
limit: `select!` drops `run_server`, but hyper's connections are tasks of their own
and hold the store, so it goes when the runtime does, after the flock.  A comment of
`main.rs:86` has the database never locked once the flock is held;
`ContentionExplained` says whom a process can meet there: one that is dead or one
past its limit.  `BindFails` is `exit(1)` past all clean-up.  `Accept`, `Handle`,
`GiveUp` and `GrantLock` are the steps of `ServerLocks`, taken while the process
lives; `DropRequests` is what the end of a runtime does to requests.

### SearchIndex and Handlers

`req[r]` is a handler in flight: how far it is in the script of its endpoint (`at`),
what it has resolved, the identifiers it has made (`own`), the mutations it has
planned; as a plan is a set, `twice` says that it has the same node twice, which
happens if `connect` finds both ends to be the same node and creates it again.  `Entities`, `Claims`, `Extra`, `Ends`, `End`,
`Check`, `BatchTurn` are the resolving scopes, `Write` and `WriteFails` the
writing one, `Merge` the merge of the index, `DeleteEntity`, `DeleteClaim`,
`DeleteLink` and `UpdateEntity` the handlers with a single scope, `Disconnect` and
`Restart` what ends handlers early.  A restart loads the maps in whole, the nodes
only, or nothing, as `main` ignores the error of `warm_cache` (`Loaded`), and builds
the index from that.  A row that was not loaded enters node_cache when `get_node`
misses it (`Fetch`: in `Check`, `UpdateEntity`, or a read of any kind, `GetNode`).
`UpdateEntity` is PATCH of an entity: the label changes in its row, and nowhere else
until a restart.  PATCH of a link is in `GraphStore`, where its effect on the maps
shows.

`index` is a record of documents, listings and vectors.  `merge` builds it anew from
the documents it holds and the entities of node_cache, one after the other: an
entity that is in both is listed twice, and never more often, as the
documents are a map; one that was deleted stays listed.

Embeddings are computed before labels are resolved, one for each label of the
request, and given to the entities that were created by position.  `Embed` stores
them in the embedding column (`stored_vectors`); node_cache (`cached_vectors`) and
the index get them at the next start.

Seven history variables say what has happened, for the properties only: `owed`
(what successful replies have promised and nobody has deleted since), `deleted`,
`shifted` (entities whose embeddings were paired by position when labels had been
found, or when one failed and `remember` closed the gap), `overtaken` (requests in
flight while another one wrote), `raced` (entities made by such requests, or
by those that never look: the source of `/ingest`, the two ends of `/link` and
`/connect` when they have the same label; and duplicates that were there from the
start, and entities that a start failed to load), `renamed` (nodes whose columns PATCH
changed) and `missed` (nodes that the last start failed to load, until one is read
by its id and a merge follows).

### Learning

A weight is a fraction; a confidence is given by its square root, in units of
`1/Scale`, so that the geometric mean of two confidences is a product and every
number is exact.  `Resolve` and `Learn` are the two scopes of POST /learn.  Any
read of a counter may fail; it counts as 0 then (`Seen`), and what is computed from
the 0 is written back.  `misread` remembers which counts of a link this happened to:
uses may outnumber retrievals, and a weight reach 1, after a misread `retrieved`; a
link may have `first_used` and no use after a misread `useful`; and a weight may move
away from the quality after either.  A restart may load some of the links only.
Links lose their ends by `DeleteEntity` and `DeleteClaim`, which leave their
counters behind and, some of them, their entry in link_cache.  `SetClock` moves
the clock either way, which also covers that a handler reads it before it waits
for its lock.  `README.md:16` has links "strengthen with use"; `UseMovesTowardsQuality`
says when they do: a use raises a weight below the quality of the two entities, and
lowers one above it.  Left out: the form of the request with `response_text` (it finds
the used entities by a retrieval and then learns the same way), `consolidate`
(called by tests only), and counters or confidences set by PATCH.

### Retrieval

`Expand` is one hop of `expand_frontier`: all nodes of enough energy that have
not fired fire at once, as nothing a node does in a hop is read by another before
the next.  `Wires` are the links energy can take, `flow` those it takes, `kept`
the nodes that lateral inhibition leaves above MIN_SCORE, `via` whom each of them
gets its depth and path from.  Energies are reals; the model lets any links carry
enough, so that it has every behaviour of the code and more.  `Fail` is a `?` on
the store, upon which the handlers answer with an empty context.  A retrieval
holds the store locked to read, so the graph stands still; that seeds and links
may be of deleted nodes is in the initial states.  Left out: the order and wording
of the phases of `find_seeds` (their result is any set of nodes) and
`assemble_context`.

### Extraction

A text is a sequence of tokens: a word in lower case, whether it is capitalised, the
white space before it, and whether it is `uneven`: has a letter whose lower case takes
another number of bytes, like the Kelvin sign or a dotted capital I.  `Match`, `NoMatch`
are `gazetteer_find_matches`, `Skip`, `Guess` `pattern_find_candidates`,
`MergeCandidate` the loop of `extract` that takes a candidate unless it overlaps,
`Panic` and `Claim` `claim_extract`.

Slicing panics in two cases (`PanicsOnlyAroundKnown`).  The entities merged are apart
but for one: the overlap test lets a run of capitalised words around a known entity
pass, and the slice between the two ends before it begins.  And the slices are taken
from the lower case of the text at byte positions of the text: behind an uneven token
they are `Askew`, which may be a panic or a slice of anything.  `/ingest` calls `extract`
without known entities, so it is left with the second case.

A negation is looked for with a blank on either side in a trimmed slice, and so is
found neither next to an entity nor beside punctuation or a line break (`Negated`, and
`NegationOnlyAtEdges` for what is overlooked).  A pattern is looked for as a substring:
`Holds` has the words, or sequences of words, that contain one, inside a word as well.
Five words are counted as white space separates them (`Parts`), punctuation being part
of the word it touches.  Left out: which characters make a token, and confidences.

## The runs

| Run | States | Time | Shows |
|---|---|---|---|
| `store_nodes` | 262 k | 6 s | node_cache misses no committed node, knows too much only of failed turns, is stale only after raw updates; tag_index agrees with it; writes of nodes and properties implement `AtomicGraph`; what a batch said last of a node is what reads answer once it is acknowledged |
| `store_links` | 2.9 M | 42 s | stored links never dangle; link_cache agrees with them and misses only links between turns; writes of links implement `AtomicGraph` |
| `store_desync` | | | *violated*: node_cache and table know the same nodes |
| `store_precedes` | | | *violated*: the `precedes` link leads to another turn |
| `locks_shape` | 1.6 M | 30 s | three requests of any endpoints deadlock in one way only |
| `locks_recall` | | | *violated*: a recall completes |
| `server` | 204 k | 140 s | one process serves, alone; a locked database is that of a process dead or past its limit; nobody touches another one's PID file; processes settle and requests end, but for the one deadlock and clients that stall |
| `handlers` | 829 k | 86 s | acknowledged entities can be found, over renaming and failed warm-ups, acknowledged links are stored; phantom links, duplicates, listings of what is gone, embeddings of another label and returns from deletion have known causes |
| `handlers_delete` | | | *violated*: deleting an entity deletes no other entity |
| `learning` | 836 k | 55 s | counters and weights stay consistent and proper up to known misread counters; learning touches only links under co-used pairs; use moves a weight towards quality |
| `retrieval` | 251 k | 32 s | paths and depths stay evidence, expansion is breadth first, depths only grow, and it finds exactly what is within its hops while no energy is lost |
| `extraction` | 1.8 M | 40 s | known entities are the leftmost longest, entities overlap in one case only, slices panic in that case or when they are askew, a negation is overlooked only where it has no blanks |

Each violated property states what a document or comment of the repository
says; `findings` in `PROJECT.json` quotes it.  In short: a write that fails after
its turn step leaves a turn in node_cache (`ladybug.rs:553`); the previous turn
is looked up after the new one was created and by a column nobody sets, so a
turn may precede itself (`ladybug.rs:538`); recall, the merge after a write and
a queued writer can block one another for ever (`handlers.rs:238`);
`delete_entity` takes every source of a `relates` link for a claim
(`entity_handlers.rs:214`).

### Bounds, and why they are enough

- Store: two nodes give a link, a self-link, a link with a missing end, and a
  turn beside an entity; one link and two weights tell apart whether an update
  reached tables and map; one property key, which a turn writes as well, does the
  same for properties.  Links and properties depend on nodes but not on each other:
  `store_nodes` has properties and tags without links, `store_links` links without
  properties and tags.  `MaxBatch` = 2 or 3 operations in a write: enough to
  fail between two, and to delete and create the same node in one batch.
- Locks: the deadlock takes three requests of three kinds.  Every endpoint is in
  `locks_shape`, with every path; the proof covers any number of requests.
- Lifecycle: two processes over one directory, started again and again; 2 retries
  stand for 5; the uptime limit is set, which allows the behaviours without it.  Two
  requests at a retrieval, a write with a merge, and a plain write have every
  combination of locks that the endpoints take; they do not reach the deadlock,
  so `EveryRequestEnds` has its exception for larger instances.
- Handlers: two requests, each made once (`Waiting`, running, `Done`), of ten
  shapes that cover the endpoints, `remember` with a response and without, and embeddings
  that fail; against an empty database and one with a claim about an entity; label
  "x" is a substring of "xy", since lookup is by substring.  Three nodes besides the
  turn and four links: a request that would need more identifiers than are left is
  not explored further.  One node, the turn and one link are deleted by their ids
  (`Addressed`) and the node is changed by PATCH (`Patched`), which leaves others that
  are not.
- Learning: two nodes and a link, named in either order or with one node twice; learning
  does not relate links to one another.  Confidences 1 and 0, the ends of the range;
  three labels in a request; the link learned up to three times, so that a learning builds
  on counters which a misread one has left; two times.
- Retrieval: every graph of four nodes with every choice of seeds, weak seeds and
  deleted nodes has the shortest cycles that lead back to where energy came from,
  and chains of three links, which four hops exceed.  `InhibitM` = 1 stands for 8,
  so that inhibition happens among four nodes.
- Extraction: texts of three families.  Up to five tokens of names, a verb, a negation
  and a question word in any order; up to four tokens between two names, of verbs (of two
  words, too), negations, "isn't" in its three tokens, commas, blanks and line breaks; up
  to four tokens with an uneven name, a word that contains a verb, and questions.
  Every graph that knows "ann", "ann y", both or neither.  Labels of up to 3 tokens stand
  for 10, claims of up to 3 words between their entities for 5: there is room for one more.
- Symmetry is used in runs of invariants and step properties only, never for
  liveness.

TLC's deadlock check is on in every run but `retrieval`: a retrieval ends with its
answer.  It says little where a step is always
possible (the store can crash or be opened, the server restarted, a client can
disconnect); the deadlock of the locks is therefore a property of its own,
`OnlyOneDeadlock`, about requests and not about the whole state.

### Fairness

`ServerLocks` and `Lifecycle` have liveness properties.  They assume weak fairness
of each request's own steps (the runtime polls a task that can go on; embedding
requests end by a time limit) and of granting a lock (tokio wakes the first
waiter when a guard is dropped).  Arrivals and disconnects are not fair: nothing
makes a client send a request or give one up.  `Lifecycle` adds weak fairness of
what a process does by itself (`Proceed`: `main` is sequential code with bounded
sleeps, and the kernel closes a dead process's files).  Nothing is fair about starts,
signals, kills and the uptime limit, nor about a client that stalls: axum has no
time limit here.  A draining process waits for its connections, so `EveryProcessSettles`
rests on their ending: it shares the exception of the requests, and has one for a
client that stalls for ever.

## The proofs

`GraphStoreProofs` proves, for any sets of nodes, links, tags, weights and keys
and batches of any length, that every store invariant of the runs holds.  The
assumptions are those of the modules: the types, weight and keys that the code
names are among the constants (`TypesAssumption`), `Absent` and `NoTxn` being no rows or transactions
(`AbsentAssumption`, `NoTxnAssumption`), `MaxBatch` a natural number.

The invariants are not inductive as they stand: a commit replaces `db` by
`txn.db`, and `SyncCache` replaces `cache` by `txn.cache`.  `IndInv` therefore
says of `(txn.db, txn.cache)`, while a transaction is open, everything the
invariants say of `(db, cache)`, and adds that a committed transaction's tables
are the database's (`Committed`) and that a transaction is open exactly while a
write runs (`TxnOpen`).  The lemmas named `...Shape` say, entry by entry, what
each mutation does to tables and maps; one lemma per mutation shows that
applying it to both keeps them in agreement; one per action, that the action
keeps `IndInv`.

The same module proves that the store implements `AtomicGraph`
(`WritesAreAtomic`): committed tables for graph, phase for stage.  Three parts
are added to the invariant.  `ViewIsRun`: the tables of an open transaction are what
the operations of the batch, one after the other, make of the committed ones; so the
commit is the one step in which the graph changes, by the whole batch.
`NoBatchAtRest`: between writes there is no batch, and only a process that is down
has a torn log.  `LastWordsKept`: both halves of the transaction say what the batch
said last of each node; so an acknowledged write can be read
(`AcknowledgedWritesRead`).  What a batch makes of a graph is defined by recursion
over its length; the proof needs of it only that one more operation acts on what the
others made (`RunAppend`).  That, and that there is such a function at all, is shown
by counting up to the length: of the numbers that fail there would be a least one
(`CountingUp`, from the library's theorem on well-founded relations).

`HandlersProofs` proves all properties of the run `handlers`, for any requests of any
shapes, any labels and any relation "is a substring of" in which a label contains
itself, any sets of identifiers, and any database to start from.  The assumptions say
what the constants stand for: identifiers and keys are finite sets
(`FiniteAssumption`: a batch is a finite set of mutations, and an execution makes
finitely many), a label stands once in a request and a link has two ends
(`ShapesAssumption`), marks are different from what they mark (`IdsAssumption`,
`RestingAssumption`, `DocAssumption`), and the kinds that the code names are there
(`KindsAssumption`, `LabelsAssumption`).

What the properties say of the stored state is true only because of what is true of
each request on its way, and this in turn has to survive whatever other requests,
deletions and restarts do between two of its lock scopes.  `IInv` therefore says,
beside the properties:

- `Owned`: identifiers that a request has made are in no table, no map and no
  other request, and no link leads to them.  So two requests never create the same
  node, and what one has planned is not changed by another.
- Before its write (`Preparing`): what a request creates has its own identifiers,
  or is an end that `connect` found and somebody deleted since (`PlansNodes`,
  `PlansLinks`); every link leads to what is stored, planned, or was deleted since
  (`Grounded`, with `Unchecked` for what `connect` has still to look at); an entity it
  creates is what the label resolves to (`Sourced`), and nobody has stored one with
  that label unless another write came first (`Unmet`, or `overtaken`); the
  embeddings it holds are those of the entities they are for (`PlansEmbeds`).
- After its write (`Answering`): the tables and the maps have what it created, but
  for what was deleted since, until the merge makes it found.
- `NodesCached`, `LinksAgree`, `IndexBacked`: node_cache has the stored nodes, but for
  those missed at a start, as the table has them, but for those that PATCH changed, and
  besides at most turns whose write was rolled back; link_cache never contradicts the
  table; the index lists under a label what node_cache has with it, stored, or what was
  deleted.
- `OwedKept`: what is owed is stored and untouched by deletions, and its entities
  are in the index under the label they are cached with, unless a start missed them.

The proof has one lemma per handler and scope.  The resolving scopes change one
request only (`ReadStep`, and `GrowStep` for those that add to a plan); a write is a
whole batch.  The tables after a batch are a fold over its mutations, of which the
proof needs, as for the store, only what one more mutation does to what the others
made (`MadeOneMore`); the lemmas on `After` say entry by entry what a batch
of creations makes and what one of deletions leaves.  From there on two relations
stand for all writes and all deletions: `GrownBy` (a batch and a turn were added)
and `Lost` (something is gone and marked as deleted); a third, `Touched`, for PATCH and
for what a cache miss brings in.  Each part of the invariant is shown to survive them
once, for the request that writes and for all others.
The proof is also what shows two exceptions to be needed that no instance of the run
meets: `DuplicatesExplained` excepts duplicates stored before the server started, and
`twice` stands for a `connect` whose two ends are one deleted node.

`LearningProofs` proves, for any nodes, links and labels, any number of requests
and learnings, any reads that fail, and any confidences between 0 and 1, that a learned
weight is the frequency of its counters and positive, and that `first_used` marks every
use; and, but for links with a misread count, that uses never outnumber retrievals, that
a weight stays below 1, and that only uses are marked.  Each learning adds 1
to `retrieved` and at most 1 to `useful` (`QualityBounded`, `BumpedProper`), and
the prior keeps the fraction proper (`FrequencyProper`); the other actions
either leave counters and weight alone (`FrameIInv`) or take the link out of
`learned`.  From the same invariant come `UseMovesTowardsQuality` (the new weight is the
mediant of the old one and the quality) and `OnlyCoUsedLearn`.  The range of
confidences is an assumption (`ConfidencesAssumption`, after
`docs/RETRIEVAL_AND_LEARNING.md:73`): the code takes confidences from requests without
looking.

`RetrievalProofs` proves, for any graph, any seeds and any number of hops up to
254, every property of the run.  `IInv` adds to them that a hop begins only if
one is left (`StillExpanding`).  The argument: what fires in a hop was reached in
the last one and has its number for a depth (`FrontierInStep`), so whatever it
reaches gets the greatest depth there is (`HopByNode`), a path longer by one link
(`PathExtended`), and no depth gets smaller.  254 is an assumption
(`LimitsAssumption`): a depth of 255 counts as none in the code.  `LosslessFindsAll`
compares with `Within`, a function over the hops: one hop adds to what was found the
neighbours of what was reached last, which is as much as the neighbours of all, as
those of the others were found before (`NothingLost`).

`ServerLocksProofs` proves, for any requests and endpoints, that the locks exclude
(`LocksInvariant`) and that every deadlock is the one of `OnlyOneDeadlock`.  What is
left of a path is always of a certain form (the operators `Proper`, `Fits` and
`Balanced` of the proofs): nobody asks for a lock it holds, only readers of one lock
ask for the other, nobody asks for the store to write while it holds the index, and
in the end nothing is held.  A queue is a line without repetitions of the requests that wait
(`Lines`).  The argument: if nobody can go on, some queue is not empty and its
head waits for a holder, which waits in turn for the other lock; the forms leave one
way for that to close.

`LifecycleProofs` proves, for any number of processes, retries and requests, that
whoever serves serves alone and that contention for the database is explained, and
`OwnPidFile`.  The inductive invariant says for each stage which of the three things
a process in it has: from `locked` to `leaving` the flock, from `warming` to
`draining` the database too, later the database perhaps, when `dying` whatever it
had; and that requests in flight are those of the process with the database.  Its
`TypeOK` has that of the locks in it, which rests on the locks' own invariant:
`LifecycleProofs` takes it from `ServerLocksProofs`, of which it has an instance,
and shows that the steps of a process that end its requests keep it.

`ExtractionProofs` proves, for any texts, white space, graphs, patterns and word lists,
all four invariants of the run, with their exceptions.  Each loop adds its own part: what the gazetteer has found ends before
its cursor, candidates are runs that end before theirs, and whoever was merged got
past the overlap test.

Checked by TLC only: the liveness properties (out of the prover's reach),
that nothing but the one deadlock stands in their way, and the runs
that expect a violation.

## Not modelled

- Property values and their conversion (`prop_to_parts`, `parse_prop`), time stamps,
  `traverse`.
- The scores of a search and its limits, vector search.
- The energies of a retrieval, the phases of `find_seeds`, the text of a context.
- The tokenizer of extraction, and which byte positions a slice that is askew gets: it
  holds anything or panics.
- The embedding client: one call that answers a vector or nothing.
- `mock_store.rs` (a test double), `benchmark/` (scripts around the server).

Two hazards of `PROJECT.json` have a note in place of a property: text properties
stored under a kind that reading does not know (`ladybug.rs:485`), and confidences
beyond 1 (`helpers.rs:45`), which `ConfidencesAssumption` rules out.

## Plan

Done: everything in the table of modules.  What is left, in this order:

1. `PropCodec`: `write_batch` stores a turn's text under kind `string`, which
   `parse_prop` does not know.
2. Statements of what `Handlers` shows of replies that do not depend on their write
   (connect, entity_update); and of `Retrieval`: a seed that energy flows back to
   gets a depth above 0 and leaves the focus of the context (`retrieval.rs:259`), while
   `docs/RETRIEVAL_AND_LEARNING.md:95` has visited nodes not activated again.
3. Proofs: every invariant and step property of the runs is proved; theorems will go
   with the statements of 2.
