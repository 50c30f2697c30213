---------------------------- MODULE ServerLocks ----------------------------
(***************************************************************************)
(* The two locks every handler of ilo/src/server shares (AppState): the    *)
(* store's and the search index's, both tokio::sync::RwLock.  Such a lock  *)
(* serves its waiters first come, first served, so that a reader arriving  *)
(* behind a waiting writer waits as well.                                  *)
(*                                                                         *)
(* A request runs the script of its endpoint: the acquisitions and         *)
(* releases of its handler in program order, on one of the paths through   *)
(* its conditions and early returns.  Where a guard is released follows    *)
(* from Rust's scopes; two of them matter.  In                             *)
(*     if let Ok(nodes) = state.store.read().await.find_nodes_by_type(..)  *)
(* the store's read guard is a temporary that lives to the end of the      *)
(* whole `if let`, and so is held while search_index.write() is awaited.   *)
(* And recall and search keep the index's read guard in a variable to the  *)
(* end of the handler while they ask for the store again.                  *)
(*                                                                         *)
(* What a handler computes between two lock operations is left out: it is  *)
(* finite (embedding requests have a timeout of 30 s).  When a client      *)
(* disconnects, axum drops the handler's future at the await it is at.     *)
(***************************************************************************)
EXTENDS Naturals, Sequences

CONSTANTS
  Requests,     \* request slots: how many requests may be in flight
  Endpoints,    \* the endpoints in use, a subset of AllEndpoints
  NoRequest     \* the endpoint of an empty slot

VARIABLES
  serving,      \* serving[r]: the endpoint of slot r, or NoRequest
  todo,         \* todo[r]: the lock operations its handler has left
  held,         \* held[l][r]: how r holds lock l: "none", "read", "write"
  queue         \* queue[l]: the requests waiting for lock l, in order

vars == <<serving, todo, held, queue>>

Locks == {"store", "index"}

-----------------------------------------------------------------------------
(* Scripts *)

Read(l) == [lock |-> l, do |-> "read"]
Write(l) == [lock |-> l, do |-> "write"]
Drop(l) == [lock |-> l, do |-> "drop"]

Operations == [lock : Locks, do : {"read", "write", "drop"}]

\* A path in a scope of its own, a path that may be skipped, one after another.
Brief(acquire) == {<<acquire, Drop(acquire.lock)>>}
Maybe(paths) == paths \cup {<< >>}
Then(ps, qs) == {p \o q : p \in ps, q \in qs}

StoreRead == Brief(Read("store"))
StoreWrite == Brief(Write("store"))

\* Mutants: the two locks in the other order; the store locked to write.
MergeIndexReversed ==
  {<<Write("index"), Read("store"), Drop("store"), Drop("index")>>}
MergeIndexExclusive ==
  {<<Write("store"), Write("index"), Drop("index"), Drop("store")>>}

\* rebuild_search_index, and the same statement inlined in remember and ingest.
MergeIndex ==
  {<<Read("store"), Write("index"), Drop("index"), Drop("store")>>}

\* Resolve entities, claims and context; write; then, unless the write failed,
\* set the embeddings of new entities and merge the index.
RememberPaths ==
  Then(Then(Maybe(StoreRead), Maybe(Then(Maybe(StoreRead), Maybe(StoreRead)))),
       Then(StoreWrite, Maybe(Then(Maybe(StoreWrite), MergeIndex))))

\* The index is merged whether or not the write succeeded.
IngestPaths == Maybe(Then(StoreRead, Then(StoreWrite, MergeIndex)))

RecallPaths ==
  {<<Read("store"), Read("index"), Drop("store"),
     Read("store"), Drop("store"), Drop("index")>>}

SearchPaths ==
  Maybe({<<Read("store"), Read("index"), Drop("store"),
           Read("store"), Drop("store"),
           Read("store"), Drop("store"), Drop("index")>>})

\* Two resolutions and two existence checks.
ConnectPaths ==
  Then(Then(StoreRead, StoreRead), Then(Then(StoreRead, StoreRead), StoreWrite))

\* POST /entity/update, /claims and /links: resolve, then write.
ResolveWritePaths == Then(StoreRead, StoreWrite)

\* PATCH and DELETE: everything under one write guard.
WritePaths == StoreWrite

\* The read-only endpoints.
LookupPaths == StoreRead

\* store_entity_embeddings takes the store only to read, and returns early.
CreateEntitiesPaths ==
  Then(ResolveWritePaths, Maybe(Then(Maybe(StoreRead), MergeIndex)))

BatchPaths ==
  Then(Then(Maybe(Then(StoreRead, StoreRead)), Then(Maybe(StoreRead), Maybe(StoreRead))),
       Then(StoreWrite, Maybe(Then(Maybe(StoreRead), MergeIndex))))

\* Resolve under a write guard; then, unless there is nothing to learn, learn.
LearnPaths == Maybe(Then(StoreWrite, Maybe(StoreWrite)))

AllEndpoints ==
  {"remember", "ingest", "recall", "search", "connect", "resolve_write", "write",
   "lookup", "create_entities", "batch", "learn"}

ASSUME EndpointsAssumption ==
  Endpoints \subseteq AllEndpoints /\ NoRequest \notin AllEndpoints

Paths(endpoint) ==
  CASE endpoint = "remember"        -> RememberPaths
    [] endpoint = "ingest"          -> IngestPaths
    [] endpoint = "recall"          -> RecallPaths
    [] endpoint = "search"          -> SearchPaths
    [] endpoint = "connect"         -> ConnectPaths
    [] endpoint = "resolve_write"   -> ResolveWritePaths
    [] endpoint = "write"           -> WritePaths
    [] endpoint = "lookup"          -> LookupPaths
    [] endpoint = "create_entities" -> CreateEntitiesPaths
    [] endpoint = "batch"           -> BatchPaths
    [] endpoint = "learn"           -> LearnPaths

-----------------------------------------------------------------------------
(* The locks *)

Init ==
  /\ serving = [r \in Requests |-> NoRequest]
  /\ todo = [r \in Requests |-> << >>]
  /\ held = [l \in Locks |-> [r \in Requests |-> "none"]]
  /\ queue = [l \in Locks |-> << >>]

Running(r) == serving[r] # NoRequest

Queued(r) == \E l \in Locks : \E i \in 1..Len(queue[l]) : queue[l][i] = r

\* The operation r is at.
At(r, do) == todo[r] # << >> /\ Head(todo[r]).do \in do

\* Many readers or one writer.
Compatible(l, do) ==
  \A q \in Requests : held[l][q] = "none" \/ (do = "read" /\ held[l][q] = "read")

Arrive(r) ==
  /\ ~Running(r)
  /\ \E e \in Endpoints :
       /\ serving' = [serving EXCEPT ![r] = e]
       /\ \E path \in Paths(e) : todo' = [todo EXCEPT ![r] = path]
  /\ UNCHANGED <<held, queue>>

\* The first poll of read() or write() puts the request in the lock's queue.
Ask(r) ==
  /\ At(r, {"read", "write"}) /\ ~Queued(r)
  /\ queue' = [queue EXCEPT ![Head(todo[r]).lock] = Append(@, r)]
  /\ UNCHANGED <<serving, todo, held>>

\* Whoever is first in the queue gets the lock as soon as its mode allows it.
Grant(l) ==
  /\ queue[l] # << >>
  /\ LET r == Head(queue[l])
         do == Head(todo[r]).do
     IN /\ Compatible(l, do)
        /\ held' = [held EXCEPT ![l][r] = do]
        /\ todo' = [todo EXCEPT ![r] = Tail(@)]
  /\ queue' = [queue EXCEPT ![l] = Tail(@)]
  /\ UNCHANGED serving

Release(r) ==
  /\ At(r, {"drop"})
  /\ held' = [held EXCEPT ![Head(todo[r]).lock][r] = "none"]
  /\ todo' = [todo EXCEPT ![r] = Tail(@)]
  /\ UNCHANGED <<serving, queue>>

Respond(r) ==
  /\ Running(r) /\ todo[r] = << >>
  /\ serving' = [serving EXCEPT ![r] = NoRequest]
  /\ UNCHANGED <<todo, held, queue>>

\* Mutant: a request dropped while it waits stays in the queue.
DisconnectQueued(r) ==
  /\ Running(r)
  /\ serving' = [serving EXCEPT ![r] = NoRequest]
  /\ todo' = [todo EXCEPT ![r] = << >>]
  /\ held' = [l \in Locks |-> [held[l] EXCEPT ![r] = "none"]]
  /\ UNCHANGED queue

\* The queue q without r, who is in it at most once.
Without(q, r) ==
  IF \E i \in 1..Len(q) : q[i] = r
  THEN LET i == CHOOSE i \in 1..Len(q) : q[i] = r
       IN [j \in 1..(Len(q) - 1) |-> IF j < i THEN q[j] ELSE q[j + 1]]
  ELSE q

\* Dropping the future drops its guards and takes it out of the queues.
Disconnect(r) ==
  /\ Running(r)
  /\ serving' = [serving EXCEPT ![r] = NoRequest]
  /\ todo' = [todo EXCEPT ![r] = << >>]
  /\ held' = [l \in Locks |-> [held[l] EXCEPT ![r] = "none"]]
  /\ queue' = [l \in Locks |-> Without(queue[l], r)]

Step(r) == Ask(r) \/ Release(r) \/ Respond(r)

Next ==
  \/ \E r \in Requests : Arrive(r) \/ Step(r) \/ Disconnect(r)
  \/ \E l \in Locks : Grant(l)

\* The runtime polls every task that can go on and hands a free lock to its first
\* waiter.  Nothing makes a client send a request or give one up.
Fairness ==
  /\ \A r \in Requests : WF_vars(Step(r))
  /\ \A l \in Locks : WF_vars(Grant(l))

Spec == Init /\ [][Next]_vars /\ Fairness

-----------------------------------------------------------------------------
(* Properties *)

\* The types; and whoever waits in a lock's queue is being served, asks for that
\* lock, and waits there once: a request dropped by its client leaves no trace.
TypeOK ==
  /\ serving \in [Requests -> Endpoints \cup {NoRequest}]
  /\ todo \in [Requests -> Seq(Operations)]
  /\ held \in [Locks -> [Requests -> {"none", "read", "write"}]]
  /\ queue \in [Locks -> Seq(Requests)]
  /\ \A l \in Locks : \A i \in 1..Len(queue[l]) :
       LET r == queue[l][i]
       IN /\ Running(r) /\ At(r, {"read", "write"}) /\ Head(todo[r]).lock = l
          /\ \A j \in 1..Len(queue[l]) : queue[l][j] = r => j = i

\* Waiting for lock l in that mode.
WaitsFor(r, l, do) ==
  (\E i \in 1..Len(queue[l]) : queue[l][i] = r) /\ Head(todo[r]).do = do

\* Nobody can go on, though somebody is being served.
Stuck ==
  /\ \E r \in Requests : Running(r)
  /\ \A r \in Requests : Running(r) => Queued(r)
  /\ \A l \in Locks : queue[l] # << >> => ~Compatible(l, Head(todo[Head(queue[l])]).do)

\* A request holds the index to read and asks for the store (recall, search), one
\* holds the store to read and asks for the index to write (the merge after a
\* write), and a writer of the store waits between them.
RetrievalDeadlock ==
  \E reader, merger, writer \in Requests :
    /\ held["index"][reader] = "read" /\ WaitsFor(reader, "store", "read")
    /\ held["store"][merger] = "read" /\ WaitsFor(merger, "index", "write")
    /\ Head(queue["store"]) = writer /\ WaitsFor(writer, "store", "write")

\* The handlers can block each other in that way only: any other wait is resolved
\* by somebody who can go on.
OnlyOneDeadlock == Stuck => RetrievalDeadlock

\* What docs/RETRIEVAL_AND_LEARNING.md says of the retrieval loop: it completes.
RetrievalCompletes ==
  \A r \in Requests : serving[r] = "recall" ~> ~Running(r)
=============================================================================
