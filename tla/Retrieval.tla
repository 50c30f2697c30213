------------------------------ MODULE Retrieval ------------------------------
(***************************************************************************)
(* One retrieval (ilo/src/retrieval.rs): from the seeds that a query finds,*)
(* energy spreads over links, hop by hop.  A node fires once; the nodes it *)
(* reaches with enough energy are activated, each with a depth and a path  *)
(* that say how it was reached.  Whatever reaches a node again overwrites  *)
(* both.                                                                   *)
(*                                                                         *)
(* The store is locked to read while energy spreads, so nodes and links do *)
(* not change.  But the seeds come from the search index, which may know   *)
(* nodes the store has deleted, and link_cache may hold links of such      *)
(* nodes: a deleted node can be a seed and fire, but not be reached.       *)
(*                                                                         *)
(* Data abstraction.  Energies are reals made of weights, confidences and  *)
(* similarities of labels; here any part of the links of a firing node may *)
(* carry enough of it.  The direction of a link only halves the energy: a  *)
(* link is the set of its ends.  Links of a node to itself are skipped by  *)
(* the code and left out.                                                  *)
(***************************************************************************)
EXTENDS Naturals, Sequences, FiniteSets

CONSTANTS
  NodeIds,
  MaxHops,      \* bound: hops a request may ask for
  InhibitM      \* how many of the nodes reached keep their energy in any case

\* A request may ask for 255 hops, but a depth of 255, u8::MAX, counts as none and is
\* not entered: one hop less is assumed.
ASSUME LimitsAssumption == MaxHops \in 0..254 /\ InhibitM \in Nat

VARIABLES
  exists,       \* the nodes of the store
  links,        \* the links of link_cache
  hops,         \* max_hops of the request
  seeds,        \* what find_seeds returned
  weak,         \* activated nodes whose energy is below MIN_SCORE
  activated,    \* the keys of `activation`
  fired,
  depth, path,  \* of each activated node
  hop,          \* hops done
  phase,        \* "expanding", "done", "failed"
  lossless      \* history: all links have carried enough energy so far

vars == <<exists, links, hops, seeds, weak, activated, fired, depth, path, hop,
          phase, lossless>>

store == <<exists, links, hops, seeds>>

Pairs == {e \in SUBSET NodeIds : Cardinality(e) = 2}

\* find_seeds takes the nodes of the first of its phases that finds any: full text,
\* vectors, labels, tags.  A cosine of -1 is a score of 0, below MIN_SCORE.
Seeding ==
  /\ seeds \in SUBSET NodeIds
  /\ weak \in SUBSET seeds

\* With 0 hops, or no seeds, the seeds are the answer.
Init ==
  /\ exists \in SUBSET NodeIds
  /\ links \in SUBSET Pairs
  /\ hops \in 0..MaxHops
  /\ Seeding
  /\ activated = seeds
  /\ fired = {}
  /\ depth = [n \in seeds |-> 0]
  /\ path = [n \in seeds |-> <<n>>]
  /\ hop = 0
  /\ phase = IF hops = 0 \/ seeds = {} THEN "done" ELSE "expanding"
  /\ lossless = (weak = {})

-----------------------------------------------------------------------------
(* One hop *)

Firing == activated \ (fired \cup weak)

\* Mutant: the target is not looked up.
WiresAnywhere == {w \in Firing \X NodeIds : w[1] # w[2] /\ {w[1], w[2]} \in links}

\* From whom to whom energy can flow; a target must be in the store.
Wires == {w \in Firing \X exists : w[1] # w[2] /\ {w[1], w[2]} \in links}

Targets(flow) == {w[2] : w \in flow}

\* Which of the nodes reached stay above MIN_SCORE: lateral inhibition lowers those
\* beyond the first InhibitM.
Kept(reached) ==
  {kept \in SUBSET reached : kept = reached \/ Cardinality(kept) >= InhibitM}

\* For each node reached, the node its new depth and path come from: one of the
\* least depth, the first in the order of the hash map.
Origins(flow, kept) ==
  {via \in [kept -> Firing] :
     \A t \in kept :
       /\ <<via[t], t>> \in flow
       /\ \A w \in flow : w[2] = t => depth[via[t]] <= depth[w[1]]}

\* Mutants: a depth that is there stays; it is lost, and counts as 0; nodes that are
\* new get none.
DepthsKept(via) ==
  [n \in activated \cup DOMAIN via |-> IF n \in activated THEN depth[n] ELSE depth[via[n]] + 1]
DepthsLost(via) ==
  [n \in activated \cup DOMAIN via |->
     IF n \notin DOMAIN via THEN depth[n]
     ELSE IF n \in activated THEN 0 ELSE depth[via[n]] + 1]
DepthsOfOld(via) ==
  [n \in activated |-> IF n \in DOMAIN via THEN depth[via[n]] + 1 ELSE depth[n]]

Depths(via) ==
  [n \in activated \cup DOMAIN via |-> IF n \in DOMAIN via THEN depth[via[n]] + 1 ELSE depth[n]]

\* Mutant: a path that is there stays.
PathsKept(via) ==
  [n \in activated \cup DOMAIN via |-> IF n \in activated THEN path[n] ELSE Append(path[via[n]], n)]

Paths(via) ==
  [n \in activated \cup DOMAIN via |-> IF n \in DOMAIN via THEN Append(path[via[n]], n) ELSE path[n]]

\* Mutant: what was activated before does not count as reached.
NothingNew(reached) == reached \subseteq activated

NothingReached(reached) == reached = {}

Expand ==
  /\ phase = "expanding"
  /\ \E flow \in SUBSET Wires :
       LET reached == Targets(flow)
       IN \E kept \in Kept(reached) : \E via \in Origins(flow, kept) :
            /\ activated' = activated \cup kept
            /\ weak' = weak \ kept
            /\ depth' = Depths(via)
            /\ path' = Paths(via)
            /\ phase' = IF NothingReached(reached) \/ hop + 1 = hops THEN "done" ELSE phase
            /\ lossless' = (lossless /\ flow = Wires /\ kept = reached)
  /\ fired' = fired \cup Firing
  /\ hop' = hop + 1
  /\ UNCHANGED store

\* get_node fails in the database, during expansion or when the answer is composed:
\* the handler answers with an empty context.
Fail ==
  /\ phase # "failed" /\ hops > 0 /\ seeds # {}
  /\ phase' = "failed"
  /\ UNCHANGED <<weak, activated, fired, depth, path, hop, lossless, store>>

Next == Expand \/ Fail

Spec == Init /\ [][Next]_vars

-----------------------------------------------------------------------------
(* Properties *)

\* The types; every activated node has a depth and a path.
TypeOK ==
  /\ exists \in SUBSET NodeIds
  /\ links \in SUBSET Pairs
  /\ hops \in 0..MaxHops
  /\ seeds \in SUBSET NodeIds
  /\ activated \in SUBSET NodeIds
  /\ weak \in SUBSET activated
  /\ fired \in SUBSET activated
  /\ depth \in [activated -> Nat]
  /\ path \in [activated -> Seq(NodeIds)]
  /\ hop \in 0..hops
  /\ phase \in {"expanding", "done", "failed"}
  /\ lossless \in BOOLEAN

\* The path of every activated node, also after it was overwritten, is evidence: it
\* leads from a seed over links to the node, through nodes of the store (the seed may
\* be deleted), and is as long as the depth says.  So whatever is at depth 0, and is
\* shown as the focus of the context, is a seed.
Evidence(n, p) ==
  /\ Len(p) = depth[n] + 1
  /\ p[1] \in seeds
  /\ p[Len(p)] = n
  /\ \A i \in 2..Len(p) : p[i] \in exists /\ {p[i - 1], p[i]} \in links

PathsAreEvidence == \A n \in activated : Evidence(n, path[n])

\* The frontier is in step: whatever can fire in the next hop was reached in the last
\* one, and has its number for a depth; no depth exceeds it.
FrontierInStep ==
  /\ \A n \in activated : depth[n] <= hop
  /\ phase = "expanding" => \A n \in Firing : depth[n] = hop

\* A retrieval ends before its last hop only when nobody is left who could fire.
EndsEarlyWhenExhausted == phase = "done" /\ hop < hops => Firing = {}

\* The reference: the nodes within k links of the seeds.
Within[k \in 0..MaxHops] ==
  IF k = 0 THEN seeds
  ELSE Within[k - 1] \cup {t \in exists : \E n \in Within[k - 1] : n # t /\ {n, t} \in links}

\* While no energy is lost, a retrieval finds exactly the nodes within as many links
\* as it has done hops.
LosslessFindsAll == lossless => activated = Within[hop]

\* Firing back never brings a node nearer: an overwritten depth only grows.
DepthsOnlyGrow == [][\A n \in activated : depth'[n] >= depth[n]]_vars
=============================================================================
