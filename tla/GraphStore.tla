----------------------------- MODULE GraphStore -----------------------------
(***************************************************************************)
(* LadybugStore (ilo/src/ladybug.rs): an embedded graph database and the   *)
(* three maps kept in memory beside it.                                    *)
(*                                                                         *)
(* A write opens a transaction, applies its mutations one by one to the    *)
(* database, commits, and only then replays the same mutations on the      *)
(* maps.  Any statement may fail, which drops the connection and with it   *)
(* the transaction; the process may die between any two steps.  A write    *)
(* holds &mut self behind the server's write lock, so nothing else touches *)
(* the store while it runs, but write_batch puts the turn's node in        *)
(* node_cache BEFORE its mutations run.  Some handlers change node and     *)
(* link columns through raw_query, which never looks at the maps.          *)
(*                                                                         *)
(* `txn.db` is the transaction's private view of the tables.  `txn.cache`  *)
(* is what the loop of sync_cache will have made of the maps when it has   *)
(* replayed the mutations applied so far: the loop reads nothing but the   *)
(* maps and the batch, so its result is fixed step by step with the batch, *)
(* and it becomes visible only after the commit.                           *)
(***************************************************************************)
EXTENDS GraphTables, Sequences

CONSTANTS
  MaxBatch,     \* bound: operations in one write, the turn step included
  NoTxn         \* no transaction is open

ASSUME BoundAssumption == MaxBatch \in Nat

VARIABLES
  db,           \* the committed tables
  cache,        \* node_cache, link_cache, tag_index
  phase,        \* "down", "idle", "applying" (transaction open), "sync" (committed)
  txn,          \* the open transaction, or NoTxn
  batch,        \* the operations of the write in progress, in order
  wal,          \* "clean" (checkpointed), "dirty", "corrupt"
  warmed,       \* what warm_cache loaded at start: "none", "nodes", "full"
  touched       \* history: nodes rewritten by raw_query since the maps were loaded

vars == <<db, cache, phase, txn, batch, wal, warmed, touched>>

Txns == [db : Tables, cache : Caches]

ASSUME NoTxnAssumption == NoTxn \notin Txns

\* The types: tables, maps and transaction are well-formed whatever fails.
TypeOK ==
  /\ db \in Tables
  /\ cache \in Caches
  /\ phase \in {"down", "idle", "applying", "sync"}
  /\ txn \in Txns \cup {NoTxn}
  /\ batch \in Seq(Mutations \cup TurnOp)
  /\ wal \in {"clean", "dirty", "corrupt"}
  /\ warmed \in {"none", "nodes", "full"}
  /\ touched \in SUBSET NodeIds

Init ==
  /\ db = EmptyTables
  /\ cache = EmptyCaches
  /\ phase = "down"
  /\ txn = NoTxn
  /\ batch = << >>
  /\ wal = "clean"
  /\ warmed = "none"
  /\ touched = {}

-----------------------------------------------------------------------------
(* Process start and end *)

\* A write-ahead log that fails its checksum is deleted with the database file.
Opened == IF wal = "corrupt" THEN EmptyTables ELSE db

\* LadybugStore::new, then warm_cache.  main.rs drops warm_cache's error: the
\* node query or the link query may have failed and the server starts anyway.
Open ==
  /\ phase = "down"
  /\ phase' = "idle"
  /\ db' = Opened
  /\ wal' = IF wal = "corrupt" THEN "clean" ELSE wal
  /\ \/ warmed' = "full"  /\ cache' = Warm(Opened)
     \/ warmed' = "nodes" /\ cache' = WarmNodes(Opened)
     \/ warmed' = "none"  /\ cache' = EmptyCaches
  /\ touched' = {}
  /\ UNCHANGED <<txn, batch>>

\* The process dies; an open transaction and the maps are gone.  A log that was
\* not checkpointed may be left with a bad checksum.
Crash ==
  /\ phase # "down"
  /\ phase' = "down"
  /\ cache' = EmptyCaches
  /\ txn' = NoTxn
  /\ batch' = << >>
  /\ warmed' = "none"
  /\ touched' = {}
  /\ wal' \in IF wal = "dirty" THEN {"dirty", "corrupt"} ELSE {wal}
  /\ UNCHANGED db

\* Drop: a checkpoint, whose failure is only logged.
Shutdown ==
  /\ phase = "idle"
  /\ phase' = "down"
  /\ cache' = EmptyCaches
  /\ warmed' = "none"
  /\ touched' = {}
  /\ wal' \in {"clean", wal}
  /\ UNCHANGED <<db, txn, batch>>

-----------------------------------------------------------------------------
(* Writes *)

\* uid(): an identifier that occurs nowhere.
FreshLink(l) ==
  /\ ~HasLink(db, l) /\ ~HasLink(cache, l)
  /\ \A p \in db.prop : p[1] # l

\* write_maintenance, or write_batch without a response.
BeginWrite ==
  /\ phase = "idle"
  /\ phase' = "applying"
  /\ txn' = [db |-> db, cache |-> cache]
  /\ UNCHANGED <<db, cache, batch, wal, warmed, touched>>

\* write_batch with a response: the turn's node and properties, a link from the
\* turn that `ORDER BY created_at DESC LIMIT 1` returns, and at once the entry
\* in node_cache.  No CREATE sets created_at, so all turns tie on its default,
\* the new one included, and any of them may be the answer.
BeginTurn(m) ==
  /\ phase = "idle"
  /\ TurnApplicable(db, m.id)
  /\ m.link # Absent => FreshLink(m.link)
  /\ m.prev \in TurnNodes(DbCreateTurn(db, m.id, m.label))
  /\ phase' = "applying"
  /\ cache' = CacheTurn(cache, m)
  /\ txn' = [db |-> ApplyTurn(db, m), cache |-> CacheTurn(cache, m)]
  /\ batch' = <<m>>
  /\ UNCHANGED <<db, wal, warmed, touched>>

\* One pass of `for m in &mutations { apply(&c, m)?; }`.
ApplyMutation(m) ==
  /\ phase = "applying"
  /\ Len(batch) < MaxBatch
  /\ Applicable(txn.db, m)
  /\ m.op = "CreateLink" =>
       /\ FreshLink(m.id)
       /\ ~HasLink(txn.db, m.id) /\ ~HasLink(txn.cache, m.id)
  /\ txn' = [db |-> Apply(txn.db, m), cache |-> Sync(txn.cache, m)]
  /\ batch' = Append(batch, m)
  /\ UNCHANGED <<db, cache, phase, wal, warmed, touched>>

\* Mutant: an error commits what was applied before it.
FailAfterPart ==
  /\ phase = "applying"
  /\ phase' = "idle"
  /\ db' = txn.db
  /\ txn' = NoTxn
  /\ batch' = << >>
  /\ UNCHANGED <<cache, wal, warmed, touched>>

\* A statement or the COMMIT returned an error: `?` leaves the function and the
\* connection is dropped with its transaction.  The maps are not touched.
Fail ==
  /\ phase = "applying"
  /\ phase' = "idle"
  /\ txn' = NoTxn
  /\ batch' = << >>
  /\ UNCHANGED <<db, cache, wal, warmed, touched>>

Commit ==
  /\ phase = "applying"
  /\ phase' = "sync"
  /\ db' = txn.db
  /\ wal' = "dirty"
  /\ UNCHANGED <<cache, txn, batch, warmed, touched>>

SyncCache ==
  /\ phase = "sync"
  /\ phase' = "idle"
  /\ cache' = txn.cache
  /\ txn' = NoTxn
  /\ batch' = << >>
  /\ UNCHANGED <<db, wal, warmed, touched>>

-----------------------------------------------------------------------------
(* Statements outside a write *)

\* get_node answers from node_cache; on a miss it reads the row, if there is one,
\* and enters it in the map (but not in tag_index).
CacheAfterGet(n) ==
  IF HasNode(cache, n) THEN cache ELSE [cache EXCEPT !.node[n] = db.node[n]]

GetNodeMiss(n) ==
  /\ phase = "idle"
  /\ ~HasNode(cache, n) /\ HasNode(db, n)
  /\ cache' = CacheAfterGet(n)
  /\ UNCHANGED <<db, phase, txn, batch, wal, warmed, touched>>

\* PATCH /entities/{id} and /claims/{id}: the node is looked up with get_node,
\* then its columns are set by raw_query.  The update matches no row when only
\* the cache knows the node.
RawUpdateNode(n) ==
  /\ phase = "idle"
  /\ HasNode(cache, n) \/ HasNode(db, n)
  /\ cache' = CacheAfterGet(n)
  /\ \E label \in Labels, tags \in SUBSET Tags :
       db' = DbSetColumns(db, n, label, tags)
  /\ touched' = touched \cup {n}
  /\ wal' = "dirty"
  /\ UNCHANGED <<phase, txn, batch, warmed>>

\* PATCH /links/{id}: the link is looked up in link_cache, its type is set by
\* raw_query.
RawUpdateLinkType(l) ==
  /\ phase = "idle"
  /\ HasLink(cache, l)
  /\ \E type \in LinkTypes : db' = DbSetLinkType(db, l, type)
  /\ wal' = "dirty"
  /\ UNCHANGED <<cache, phase, txn, batch, warmed, touched>>

-----------------------------------------------------------------------------
Next ==
  \/ Open \/ Crash \/ Shutdown
  \/ BeginWrite
  \/ \E m \in TurnOp : BeginTurn(m)
  \/ \E m \in Mutations : ApplyMutation(m)
  \/ Fail \/ Commit \/ SyncCache
  \/ \E n \in NodeIds : RawUpdateNode(n) \/ GetNodeMiss(n)
  \/ \E l \in LinkIds : RawUpdateLinkType(l)

Spec == Init /\ [][Next]_vars

-----------------------------------------------------------------------------
(* What the maps may and may not say about the tables, between two writes. *)

Serving == phase \in {"idle", "applying"}

\* Every stored link joins two stored nodes (apply_create_link matches both
\* ends, apply_delete_node detaches), in the committed tables and in the view
\* of an open transaction.
Integrity(d) ==
  \A l \in LinkIds :
    HasLink(d, l) => HasNode(d, d.link[l].from) /\ HasNode(d, d.link[l].to)

LinksJoinNodes == Integrity(db) /\ (txn # NoTxn => Integrity(txn.db))

\* If the node query of warm_cache succeeded, no committed node is missing from
\* node_cache, however many writes, failures and raw updates followed: the
\* searches that read only the map (find_nodes, find_nodes_by_type) lose nothing.
NodesCached(d, c) == \A n \in NodeIds : HasNode(d, n) => HasNode(c, n)

NoNodeMissing == Serving /\ warmed # "none" => NodesCached(db, cache)

\* node_cache may know a node the tables do not, but only as an untagged turn:
\* the entry write_batch makes before the write that was to store it fails.
PhantomsAreTurns(d, c) ==
  \A n \in NodeIds :
    HasNode(c, n) /\ ~HasNode(d, n) =>
      c.node[n].type = "turn" /\ c.node[n].tags = {}

OnlyTurnsArePhantoms == Serving => PhantomsAreTurns(db, cache)

\* A cached node differs from its row only in the columns a raw update has
\* rewritten since start; its type never differs.
FreshUnless(d, c, stale) ==
  \A n \in NodeIds :
    HasNode(c, n) /\ HasNode(d, n) =>
      /\ c.node[n].type = d.node[n].type
      /\ n \notin stale => c.node[n] = d.node[n]

StaleOnlyIfRawUpdated == Serving => FreshUnless(db, cache, touched)

\* tag_index lists a node under a tag only if node_cache has it with that tag,
\* and lists all of those once the nodes were loaded at start: find_nodes_by_tag
\* agrees with a scan of node_cache although the two are updated separately.
TagsSound(c) ==
  \A t \in Tags : \A n \in c.tag[t] : HasNode(c, n) /\ t \in c.node[n].tags

TagsComplete(c) ==
  \A n \in NodeIds : HasNode(c, n) => \A t \in c.node[n].tags : n \in c.tag[t]

TagIndexExact ==
  Serving => TagsSound(cache) /\ (warmed # "none" => TagsComplete(cache))

\* A link that both sides know has the same ends and weight on both, and after a
\* complete load the only stored links link_cache misses are the ones write_batch
\* itself makes between turns.  (It may know links the tables do not.)
LinksAgree(d, c) ==
  \A l \in LinkIds :
    HasLink(c, l) /\ HasLink(d, l) =>
      /\ c.link[l].from = d.link[l].from
      /\ c.link[l].to = d.link[l].to
      /\ c.link[l].weight = d.link[l].weight

LinksCached(d, c) ==
  \A l \in LinkIds :
    HasLink(d, l) /\ d.link[l].type # "precedes" => HasLink(c, l)

LinkCacheAgrees ==
  Serving => LinksAgree(db, cache) /\ (warmed = "full" => LinksCached(db, cache))

\* When a write has been acknowledged, the last word its batch had on a node is
\* what both the map and the tables say of it: a node it created last can be read
\* back as it was given, one it deleted last is gone together with the properties
\* it did not set again afterwards.
LastOn(log, i) ==
  \A j \in (i + 1)..Len(log) :
    log[j].op \in {"CreateNode", "DeleteNode"} => log[j].id # log[i].id

SetAfter(log, i, k) ==
  \E j \in (i + 1)..Len(log) :
    log[j].op = "SetProperty" /\ log[j].owner = log[i].id /\ log[j].key = k

LastWord(log, i) ==
  LET n == log[i].id
  IN /\ log[i].op = "CreateNode" =>
          cache'.node[n] = log[i].rec /\ db'.node[n] = log[i].rec
     /\ log[i].op = "DeleteNode" =>
          /\ cache'.node[n] = Absent /\ db'.node[n] = Absent
          /\ \A k \in Keys : <<n, k>> \in db'.prop => SetAfter(log, i, k)

AcknowledgedWritesRead ==
  [][SyncCache =>
       \A i \in 1..Len(batch) :
         batch[i].op \in {"CreateNode", "DeleteNode"} /\ LastOn(batch, i)
           => LastWord(batch, i)]_vars

\* The committed tables are the graph, the phase of the store is the stage.
Atomic == INSTANCE AtomicGraph WITH graph <- db, stage <- phase, log <- wal

\* The store implements the promise: statement by statement, with failures and
\* crashes anywhere, it only ever exposes the graph before or after a whole batch.
WritesAreAtomic == Atomic!ASpec

-----------------------------------------------------------------------------
(* Two things the repository says of the store and the code does not do. *)

\* node_cache and the Node table name the same nodes when no write is running.
\* A write_batch that fails after its turn step leaves the turn in node_cache.
NoCacheDesync == phase = "idle" => \A n \in NodeIds : HasNode(cache, n) => HasNode(db, n)

\* A link that orders turns leads from an earlier turn to a later one, so never
\* from a turn to itself.  The query for the previous turn sees the new one too.
PrecedesOrdersTurns ==
  \A l \in LinkIds :
    HasLink(db, l) /\ db.link[l].type = "precedes" => db.link[l].from # db.link[l].to
=============================================================================
