------------------------------ MODULE Learning ------------------------------
(***************************************************************************)
(* POST /learn (ilo/src/learning.rs and the handler): after a turn, the    *)
(* links between the entities the turn used have their counters bumped and *)
(* their weight computed anew from the counters:                           *)
(*     weight = (useful + 1) / (retrieved + 2) * 2^-(time since last use). *)
(*                                                                         *)
(* The handler works in two scopes of the store's write lock: it resolves  *)
(* labels to nodes, lets go, and learns.  What was resolved may have been  *)
(* deleted in between.  Learning reads link_cache, which a deletion of a   *)
(* node does not clear of all its links, and writes counters as properties *)
(* of a link, which the store does not look up.  A counter whose read fails *)
(* counts as 0, like one that is not there, and what follows from the 0 is *)
(* written back.                                                           *)
(*                                                                         *)
(* Numbers.  A confidence c is given by its root, Scale * sqrt(c), so that *)
(* the geometric mean of two confidences is a product, in units of One;    *)
(* `useful` is counted in these units.  A weight is a fraction.  Time is   *)
(* counted in half-lives from 1.  The clock is the computer's: it may be   *)
(* set back.  A node's confidence stays what it is.                        *)
(***************************************************************************)
EXTENDS Naturals, Sequences

CONSTANTS
  Requests,     \* request slots of /learn
  NodeIds, LinkIds,
  From, To,     \* the ends of each link
  Scale,        \* resolution of roots of confidences
  Root,         \* of each node's confidence, at most 1
  DefaultRoot,  \* of the confidence 0.5 assumed of a node that is gone
  Weights,      \* weights given to links by other handlers, at most 1
  MaxUsed,      \* bound: labels in one request
  MaxRetrieved, \* bound on the counters of a link that is learned
  MaxTime,      \* bound on the clock
  NoRequest     \* an empty slot

One == Scale * Scale

\* docs/RETRIEVAL_AND_LEARNING.md:73 has confidences between 0.0 and 1.0.  The code
\* takes them from requests as they come.
ASSUME ConfidencesAssumption ==
  /\ Scale \in Nat \ {0}
  /\ Root \in [NodeIds -> 0..Scale]
  /\ DefaultRoot \in 0..Scale

ASSUME BoundsAssumption ==
  /\ MaxRetrieved \in Nat /\ MaxUsed \in Nat /\ MaxTime \in Nat \ {0}

Fraction == [num : Nat, den : Nat \ {0}]

ASSUME LinksAssumption ==
  /\ From \in [LinkIds -> NodeIds]
  /\ To \in [LinkIds -> NodeIds]
  /\ Weights \subseteq Fraction

ASSUME NoRequestAssumption == NoRequest \notin Seq(NodeIds)

VARIABLES
  nodes,        \* the nodes there are
  stored,       \* the links in the database
  cached,       \* the links in link_cache
  counters,     \* the counters of each link: properties of its id
  weight,       \* the weight of each link
  req,          \* what each request in flight has resolved
  now,          \* the clock
  learned,      \* history: links whose weight was last set by learning
  misread       \* history: counts of which a read failed, when their link was learned

vars == <<nodes, stored, cached, counters, weight, req, now, learned, misread>>

Times == 1..MaxTime

\* A property that is not there reads as 0.
Counters == [retrieved : Nat, useful : Nat, last_used : Nat, first_used : Nat]
NoCounters == [retrieved |-> 0, useful |-> 0, last_used |-> 0, first_used |-> 0]

\* The counts, and all the counters that learning reads to use them.
Counts == {"retrieved", "useful"}
Read == Counts \cup {"first_used"}

Init ==
  /\ nodes = NodeIds
  /\ stored = LinkIds
  /\ cached = LinkIds
  /\ counters = [l \in LinkIds |-> NoCounters]
  /\ weight \in [LinkIds -> Weights]
  /\ req = [r \in Requests |-> NoRequest]
  /\ now \in Times
  /\ learned = {}
  /\ misread = {}

-----------------------------------------------------------------------------
(* The formula *)

\* Mutant: no prior.
FrequencyAlone(retrieved, useful) == [num |-> useful, den |-> One * retrieved]

\* Beta(1,1) prior.
Frequency(retrieved, useful) ==
  [num |-> useful + One, den |-> One * (retrieved + 2)]

compute_weight(retrieved, useful, last_used, at) ==
  LET frequency == Frequency(retrieved, useful)
  IN IF at <= last_used THEN frequency
     ELSE [frequency EXCEPT !.den = @ * 2 ^ (at - last_used)]

RootOf(n) == IF n \in nodes THEN Root[n] ELSE DefaultRoot

quality_factor(a, b) == RootOf(a) * RootOf(b)

\* What learn sees of a link's counters: 0 where the read failed.
Seen(old, failed) == [k \in Read |-> IF k \in failed THEN 0 ELSE old[k]]

\* Mutant: set by the first learning, useful or not.
FirstLearned(old, seen, quality) ==
  IF seen.first_used = 0 THEN now ELSE old.first_used

\* first_used is set when useful first becomes positive, so far as learn sees, and
\* written only over what it sees as 0.
FirstUsed(old, seen, quality) ==
  IF seen.useful = 0 /\ quality > 0 /\ seen.first_used = 0 THEN now ELSE old.first_used

\* Mutant: every pair that matches the link adds to `useful`, not to `retrieved`.
BumpedTwice(old, seen, quality) ==
  [retrieved |-> seen.retrieved + 1, useful |-> seen.useful + 2 * quality,
   last_used |-> now, first_used |-> FirstUsed(old, seen, quality)]

Bumped(old, seen, quality) ==
  [retrieved |-> seen.retrieved + 1, useful |-> seen.useful + quality,
   last_used |-> now, first_used |-> FirstUsed(old, seen, quality)]

-----------------------------------------------------------------------------
(* The signal *)

\* co_used_pairs, as positions in used_node_ids, in the order they are visited.
Pairs(used) == {p \in (DOMAIN used) \X (DOMAIN used) : p[1] < p[2]}

Before(p, q) == p[1] < q[1] \/ (p[1] = q[1] /\ p[2] < q[2])

\* Mutant: either end of the link may be the first of the pair.
MatchingEither(used, l) ==
  {p \in Pairs(used) : {From[l], To[l]} \cap {used[p[1]], used[p[2]]} # {}}

\* The pairs under which learn finds link l: it leaves the first, and the second is
\* one of its ends.
Matching(used, l) ==
  {p \in Pairs(used) : From[l] = used[p[1]] /\ used[p[2]] \in {From[l], To[l]}}

\* A link is processed once, under the first pair that finds it.
CreditedBy(used, l) ==
  CHOOSE p \in Matching(used, l) : \A q \in Matching(used, l) \ {p} : Before(p, q)

Credited(used) == {l \in cached : Matching(used, l) # {}}

-----------------------------------------------------------------------------
(* Requests *)

\* Mutant: a label that leads nowhere stays in the list.
ResolveAll(r) ==
  /\ req[r] = NoRequest
  /\ \E k \in 1..MaxUsed : \E used \in [1..k -> nodes \cup {NoRequest}] :
       req' = [req EXCEPT ![r] = used]
  /\ UNCHANGED <<nodes, stored, cached, counters, weight, now, learned, misread>>

\* Labels lead to nodes; two labels may lead to one node.  Nothing resolved, nothing
\* learned.
Resolve(r) ==
  /\ req[r] = NoRequest
  /\ \E k \in 1..MaxUsed : \E used \in [1..k -> nodes] : req' = [req EXCEPT ![r] = used]
  /\ UNCHANGED <<nodes, stored, cached, counters, weight, now, learned, misread>>

LearnSeeing(r, failed) ==
  LET used == req[r]
      credited == Credited(used)
      bumped == [l \in credited |->
                  LET p == CreditedBy(used, l)
                  IN Bumped(counters[l], Seen(counters[l], failed[l]),
                            quality_factor(used[p[1]], used[p[2]]))]
  IN /\ used # NoRequest
     /\ \A l \in credited : /\ counters[l].retrieved < MaxRetrieved
                            /\ counters[l].useful < One * MaxRetrieved
     /\ counters' = [l \in LinkIds |-> IF l \in credited THEN bumped[l] ELSE counters[l]]
     /\ weight' = [l \in LinkIds |->
                    IF l \in credited
                    THEN compute_weight(bumped[l].retrieved, bumped[l].useful, now, now)
                    ELSE weight[l]]
     /\ learned' = learned \cup credited
     /\ misread' = misread \cup {c \in credited \X Counts : c[2] \in failed[c[1]]}
     /\ req' = [req EXCEPT ![r] = NoRequest]
     /\ UNCHANGED <<nodes, stored, cached, now>>

\* Any of the reads may fail.  A link of which nothing is learned is not read.
Learn(r) ==
  /\ req[r] # NoRequest
  /\ \E failed \in [Credited(req[r]) -> SUBSET Read] : LearnSeeing(r, failed)

\* The write fails, or the client disconnects.
LearnFails(r) ==
  /\ req[r] # NoRequest
  /\ req' = [req EXCEPT ![r] = NoRequest]
  /\ UNCHANGED <<nodes, stored, cached, counters, weight, now, learned, misread>>

-----------------------------------------------------------------------------
(* What else happens to links *)

\* PATCH /links/{id} with a weight.
UpdateLink(l) ==
  /\ l \in cached
  /\ \E w \in Weights : weight' = [weight EXCEPT ![l] = w]
  /\ learned' = learned \ {l}
  /\ UNCHANGED <<nodes, stored, cached, counters, req, now, misread>>

\* DELETE /links/{id}: the link with its properties.
DeleteLink(l) ==
  /\ l \in cached
  /\ stored' = stored \ {l}
  /\ cached' = cached \ {l}
  /\ counters' = [counters EXCEPT ![l] = NoCounters]
  /\ learned' = learned \ {l}
  /\ misread' = misread \ ({l} \X Counts)
  /\ UNCHANGED <<nodes, weight, req, now>>

\* A deleted node's links leave the database, and those that the handler names
\* link_cache; their properties stay.
Forget(gone, uncached) ==
  /\ nodes' = nodes \ gone
  /\ stored' = {l \in stored : {From[l], To[l]} \cap gone = {}}
  /\ cached' = cached \ uncached
  /\ UNCHANGED <<counters, weight, req, now, learned, misread>>

\* DELETE /entities/{id}: with the claims about it, the sources of its "relates" links.
DeleteEntity(n) ==
  /\ n \in nodes
  /\ \E claims \in SUBSET {From[l] : l \in {k \in cached : To[k] = n}} :
       LET gone == claims \cup {n}
       IN Forget(gone, {l \in cached : From[l] \in gone})

\* DELETE /claims/{id}: the handler names the claim's "relates" links only.
DeleteClaim(n) ==
  /\ n \in nodes
  /\ \E relates \in SUBSET {l \in cached : From[l] = n} : Forget({n}, relates)

\* The handler reads the clock before it waits for the lock of its second scope: what
\* Learn takes for now may be any earlier time.
SetClock(t) ==
  /\ now' = t
  /\ UNCHANGED <<nodes, stored, cached, counters, weight, req, learned, misread>>

\* The start ignores a warm-up that fails on the way.
Restart ==
  /\ cached' \in SUBSET stored
  /\ req' = [r \in Requests |-> NoRequest]
  /\ UNCHANGED <<nodes, stored, counters, weight, now, learned, misread>>

Next ==
  \/ \E r \in Requests : Resolve(r) \/ Learn(r) \/ LearnFails(r)
  \/ \E l \in LinkIds : UpdateLink(l) \/ DeleteLink(l)
  \/ \E n \in NodeIds : DeleteEntity(n) \/ DeleteClaim(n)
  \/ \E t \in Times : SetClock(t)
  \/ Restart

Spec == Init /\ [][Next]_vars

-----------------------------------------------------------------------------
(* Properties *)

\* The types.
TypeOK ==
  /\ nodes \in SUBSET NodeIds
  /\ stored \in SUBSET LinkIds /\ cached \in SUBSET LinkIds
  /\ counters \in [LinkIds -> Counters]
  /\ weight \in [LinkIds -> Fraction]
  /\ req \in [Requests -> Seq(NodeIds) \cup {NoRequest}]
  /\ now \in Times
  /\ learned \in SUBSET LinkIds
  /\ misread \in SUBSET (LinkIds \X Counts)

\* However often a link is learned, under whatever pair, its uses never outnumber its
\* retrievals, so that the frequency of the formula stays a frequency.  The one
\* exception: learning once failed to read `retrieved`, which starts again at 1 beside
\* the uses of old.
UsefulAtMostRetrieved ==
  \A l \in LinkIds :
    counters[l].useful <= One * counters[l].retrieved \/ <<l, "retrieved">> \in misread

\* A weight that learning has set is the frequency its link's counters give: counters
\* and weight are never apart, through deletions of nodes, failures and restarts.  It
\* is positive, and less than 1 but for the same exception.
LearnedWeightIsFrequency ==
  \A l \in learned :
    /\ weight[l] = Frequency(counters[l].retrieved, counters[l].useful)
    /\ 0 < weight[l].num
    /\ weight[l].num < weight[l].den \/ <<l, "retrieved">> \in misread

\* first_used is the mark of a link that was of use: it is there from the first
\* learning with a positive quality, whatever reads fail, and not before.  The one
\* link that has it and no use is one of which learning once failed to read `useful`:
\* a use of quality 0 then wrote 0 over the uses of old.
FirstUsedMarksUse ==
  \A l \in LinkIds :
    /\ counters[l].useful > 0 => counters[l].first_used > 0
    /\ counters[l].first_used > 0 => counters[l].useful > 0 \/ <<l, "useful">> \in misread

\* learning.rs: "only co-used pairs get strengthened".  A learning touches a link
\* only if the link leaves a node the turn used, and leads to another, or the first
\* was named twice.
OnlyCoUsedLearn ==
  [][\A l \in LinkIds :
       counters'[l] # counters[l] =>
         \/ l \notin cached'
         \/ \E r \in Requests :
              /\ req[r] # NoRequest
              /\ \E i \in DOMAIN req[r] :
                   /\ req[r][i] = From[l]
                   /\ \E j \in DOMAIN req[r] \ {i} : req[r][j] \in {From[l], To[l]}]_vars

Less(v, w) == v.num * w.den < w.num * v.den

UseQuality(used, l) ==
  LET p == CreditedBy(used, l)
  IN [num |-> quality_factor(used[p[1]], used[p[2]]), den |-> One]

MovesTowards(l, quality) ==
  IF Less(quality, weight[l])
  THEN Less(weight'[l], weight[l]) /\ ~Less(weight'[l], quality)
  ELSE ~Less(weight'[l], weight[l]) /\ ~Less(quality, weight'[l])

\* README.md:16 says "link weights that strengthen with use".  What a use does to a
\* weight that learning has set depends on the two nodes: it moves the weight
\* towards their quality factor and never past it, so that a use between nodes of
\* little confidence weakens the link.  A link is excepted from the first time a read
\* of `retrieved` or `useful` fails: its history then starts anew.
UseMovesTowardsQuality ==
  [][\A l \in learned, r \in Requests :
       counters'[l] # counters[l] /\ req'[r] # req[r] =>
         \/ MovesTowards(l, UseQuality(req[r], l))
         \/ misread' \cap ({l} \X Counts) # {}]_vars
=============================================================================
