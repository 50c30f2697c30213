-------------------------- MODULE RetrievalProofs --------------------------
(***************************************************************************)
(* The invariants of Retrieval, proved for any graph, any seeds and any    *)
(* number of hops up to 254.                                               *)
(*                                                                         *)
(* The argument: the nodes that fire in a hop were all reached in the hop  *)
(* before, so their depth is `hop` and whatever they reach gets the depth  *)
(* hop + 1, the greatest there is.  A path grows by a link to a node of    *)
(* the store, and its depth with it.                                       *)
(***************************************************************************)
EXTENDS Retrieval, WellFoundedInduction, TLAPS

\* A hop begins only if the request asks for more than were done.
StillExpanding == phase = "expanding" => hop < hops

IInv ==
  TypeOK /\ PathsAreEvidence /\ FrontierInStep /\ EndsEarlyWhenExhausted /\ StillExpanding

\* The invariant holds of the seeds.
LEMMA InitIInv == Init => IInv
<1> SUFFICES ASSUME Init PROVE IInv
  OBVIOUS
<1> USE DEF Init, Seeding
<1>1. TypeOK
  <2>1. \A n \in NodeIds : <<n>> \in Seq(NodeIds)
    OBVIOUS
  <2>2. path \in [activated -> Seq(NodeIds)]
    BY <2>1
  <2>3. depth \in [activated -> Nat]
    OBVIOUS
  <2> QED
    BY <2>2, <2>3, LimitsAssumption DEF TypeOK
<1>2. PathsAreEvidence
  BY DEF PathsAreEvidence, Evidence
<1>3. FrontierInStep
  BY DEF FrontierInStep, Firing
<1>4. EndsEarlyWhenExhausted
  BY LimitsAssumption DEF EndsEarlyWhenExhausted, Firing
<1>5. StillExpanding
  BY LimitsAssumption DEF StillExpanding
<1> QED
  BY <1>1, <1>2, <1>3, <1>4, <1>5 DEF IInv

\* What a hop does, node by node: whatever keeps enough energy gets the depth
\* hop + 1 and a path by a link from a node that fires.
LEMMA HopByNode ==
  ASSUME IInv, phase = "expanding", NEW flow \in SUBSET Wires,
         NEW kept \in Kept(Targets(flow)), NEW via \in Origins(flow, kept)
  PROVE  /\ kept \in SUBSET Targets(flow)
         /\ kept \in SUBSET exists
         /\ DOMAIN via = kept
         /\ \A t \in kept :
              /\ via[t] \in Firing /\ via[t] \in activated
              /\ {via[t], t} \in links
              /\ depth[via[t]] = hop
<1>1. kept \in SUBSET Targets(flow)
  BY DEF Kept
<1>2. via \in [kept -> Firing]
  BY DEF Origins
<1>3. \A t \in kept : <<via[t], t>> \in flow
  BY DEF Origins
<1>4. \A t \in kept : <<via[t], t>> \in Wires
  BY <1>3
<1>5. \A n, t : <<n, t>> \in Wires => n \in Firing /\ t \in exists /\ {n, t} \in links
  BY DEF Wires
<1>6. \A n \in Firing : n \in activated /\ depth[n] = hop
  BY DEF IInv, FrontierInStep, Firing
<1> QED
  BY <1>1, <1>2, <1>4, <1>5, <1>6

\* A path that is evidence for a node, extended by a link to a node of the store, is
\* evidence for that node.
LEMMA PathExtended ==
  ASSUME NEW p \in Seq(NodeIds), NEW t \in exists, NodeIds # {}, exists \in SUBSET NodeIds,
         NEW d \in Nat, Len(p) = d + 1, p[1] \in seeds,
         {p[Len(p)], t} \in links,
         \A i \in 2..Len(p) : p[i] \in exists /\ {p[i - 1], p[i]} \in links
  PROVE  LET q == Append(p, t) IN
         /\ q \in Seq(NodeIds)
         /\ Len(q) = d + 2
         /\ q[1] \in seeds
         /\ q[Len(q)] = t
         /\ \A i \in 2..Len(q) : q[i] \in exists /\ {q[i - 1], q[i]} \in links
<1> DEFINE q == Append(p, t)
<1>1. q \in Seq(NodeIds) /\ Len(q) = Len(p) + 1 /\ Len(p) \in Nat
  OBVIOUS
<1>2. \A i \in 1..Len(p) : q[i] = p[i]
  OBVIOUS
<1>3. q[Len(q)] = t
  OBVIOUS
<1>4. q[1] \in seeds
  BY <1>1, <1>2
<1>5. ASSUME NEW i \in 2..Len(q) PROVE q[i] \in exists /\ {q[i - 1], q[i]} \in links
  <2>1. CASE i = Len(q)
    <3>1. q[i] = t /\ i - 1 = Len(p) /\ Len(p) \in 1..Len(p)
      BY <1>1, <1>3, <2>1
    <3>2. q[i - 1] = p[Len(p)]
      BY <1>2, <3>1
    <3> QED
      BY <3>1, <3>2
  <2>2. CASE i # Len(q)
    <3>1. i \in 2..Len(p) /\ i \in 1..Len(p) /\ i - 1 \in 1..Len(p)
      BY <1>1, <2>2
    <3>2. q[i] = p[i] /\ q[i - 1] = p[i - 1]
      BY <1>2, <3>1
    <3> QED
      BY <3>1, <3>2
  <2> QED
    BY <2>1, <2>2
<1>6. Len(q) = d + 2
  BY <1>1
<1> HIDE DEF q
<1>7. /\ q \in Seq(NodeIds) /\ Len(q) = d + 2 /\ q[1] \in seeds /\ q[Len(q)] = t
      /\ \A i \in 2..Len(q) : q[i] \in exists /\ {q[i - 1], q[i]} \in links
  BY <1>1, <1>3, <1>4, <1>5, <1>6
<1> QED
  BY <1>7, Zenon DEF q

\* A hop keeps the invariant, and no depth gets smaller in it.
LEMMA ExpandIInv ==
  ASSUME IInv, Expand
  PROVE  IInv' /\ \A n \in activated : depth'[n] >= depth[n]
<1> USE DEF IInv
<1>1. PICK flow \in SUBSET Wires : \E kept \in Kept(Targets(flow)) : \E via \in Origins(flow, kept) :
        /\ activated' = activated \cup kept
        /\ weak' = weak \ kept
        /\ depth' = Depths(via)
        /\ path' = Paths(via)
        /\ phase' = IF NothingReached(Targets(flow)) \/ hop + 1 = hops THEN "done" ELSE phase
        /\ lossless' = (lossless /\ flow = Wires /\ kept = Targets(flow))
  BY DEF Expand
<1>2. PICK kept \in Kept(Targets(flow)) : \E via \in Origins(flow, kept) :
        /\ activated' = activated \cup kept
        /\ weak' = weak \ kept
        /\ depth' = Depths(via)
        /\ path' = Paths(via)
        /\ phase' = IF NothingReached(Targets(flow)) \/ hop + 1 = hops THEN "done" ELSE phase
        /\ lossless' = (lossless /\ flow = Wires /\ kept = Targets(flow))
  BY <1>1
<1>3. PICK via \in Origins(flow, kept) :
        /\ activated' = activated \cup kept
        /\ weak' = weak \ kept
        /\ depth' = Depths(via)
        /\ path' = Paths(via)
        /\ phase' = IF NothingReached(Targets(flow)) \/ hop + 1 = hops THEN "done" ELSE phase
        /\ lossless' = (lossless /\ flow = Wires /\ kept = Targets(flow))
  BY <1>2
<1>4. phase = "expanding"
  BY DEF Expand
<1>5. /\ kept \in SUBSET Targets(flow)
      /\ kept \in SUBSET exists
      /\ DOMAIN via = kept
      /\ \A t \in kept :
           /\ via[t] \in Firing /\ via[t] \in activated
           /\ {via[t], t} \in links
           /\ depth[via[t]] = hop
  BY <1>4, HopByNode
<1>6. /\ fired' = fired \cup Firing /\ hop' = hop + 1
      /\ exists' = exists /\ links' = links /\ hops' = hops /\ seeds' = seeds
  BY DEF Expand, store
<1>7. /\ exists \in SUBSET NodeIds /\ activated \in SUBSET NodeIds /\ Firing \in SUBSET activated
      /\ depth \in [activated -> Nat] /\ path \in [activated -> Seq(NodeIds)]
      /\ hop \in Nat /\ hops \in Nat
  BY LimitsAssumption DEF TypeOK, Firing
<1>8. hop < hops
  BY <1>4 DEF StillExpanding
<1>9. \A n \in activated' :
        depth'[n] = IF n \in kept THEN hop + 1 ELSE depth[n]
  BY <1>3, <1>5 DEF Depths
<1>10. \A n \in activated' :
         path'[n] = IF n \in kept THEN Append(path[via[n]], n) ELSE path[n]
  BY <1>3, <1>5 DEF Paths
<1>11. DOMAIN depth' = activated' /\ DOMAIN path' = activated'
       /\ depth' = [n \in activated' |-> depth'[n]] /\ path' = [n \in activated' |-> path'[n]]
  BY <1>3, <1>5 DEF Depths, Paths
<1>12. \A n \in activated' : path'[n] \in Seq(NodeIds) /\ Evidence(n, path[n])'
  <2> SUFFICES ASSUME NEW n \in activated'
               PROVE  path'[n] \in Seq(NodeIds) /\ Evidence(n, path[n])'
    OBVIOUS
  <2>1. CASE n \in kept
    <3> DEFINE p == path[via[n]]
    <3>1. via[n] \in activated /\ n \in exists /\ {via[n], n} \in links /\ depth[via[n]] = hop
      BY <1>5, <2>1
    <3>2. p \in Seq(NodeIds) /\ Evidence(via[n], p)
      BY <3>1, <1>7 DEF PathsAreEvidence
    <3>3. /\ Len(p) = hop + 1 /\ p[1] \in seeds /\ p[Len(p)] = via[n]
          /\ \A i \in 2..Len(p) : p[i] \in exists /\ {p[i - 1], p[i]} \in links
      BY <3>1, <3>2 DEF Evidence
    <3>4. path'[n] = Append(p, n) /\ depth'[n] = hop + 1
      BY <1>9, <1>10, <2>1
    <3> HIDE DEF p
    <3>5. LET q == Append(p, n) IN
          /\ q \in Seq(NodeIds)
          /\ Len(q) = hop + 2
          /\ q[1] \in seeds
          /\ q[Len(q)] = n
          /\ \A i \in 2..Len(q) : q[i] \in exists /\ {q[i - 1], q[i]} \in links
      <4>1. NodeIds # {}
        BY <3>1, <1>7
      <4>2. {p[Len(p)], n} \in links
        BY <3>1, <3>3
      <4> QED
        BY <3>1, <3>2, <3>3, <1>7, <4>1, <4>2, PathExtended
    <3> DEFINE q == Append(p, n)
    <3>6. path'[n] = q
      BY <3>4
    <3> HIDE DEF q
    <3>7. hop + 2 = hop + 1 + 1
      BY <1>7
    <3> QED
      BY <3>4, <3>5, <3>6, <3>7, <1>6 DEF Evidence, q
  <2>2. CASE n \notin kept
    <3>1. n \in activated /\ path'[n] = path[n] /\ depth'[n] = depth[n]
      BY <1>3, <1>9, <1>10, <2>2
    <3>2. path[n] \in Seq(NodeIds) /\ Evidence(n, path[n])
      BY <3>1, <1>7 DEF PathsAreEvidence
    <3> QED
      BY <3>1, <3>2, <1>6 DEF Evidence
  <2> QED
    BY <2>1, <2>2
<1>13. TypeOK'
  <2>1. depth' \in [activated' -> Nat]
    BY <1>3, <1>7, <1>9, <1>11
  <2>2. path' \in [activated' -> Seq(NodeIds)]
    BY <1>11, <1>12
  <2>3. activated' \in SUBSET NodeIds
    BY <1>3, <1>5, <1>7
  <2>4. weak' \in SUBSET activated' /\ fired' \in SUBSET activated'
    BY <1>3, <1>6, <1>7 DEF TypeOK
  <2>5. hop' \in 0..hops'
    BY <1>6, <1>7, <1>8
  <2>6. phase' \in {"expanding", "done", "failed"} /\ lossless' \in BOOLEAN
    BY <1>3, <1>4
  <2>7. exists' \in SUBSET NodeIds /\ links' \in SUBSET Pairs /\ hops' \in 0..MaxHops
        /\ seeds' \in SUBSET NodeIds
    BY <1>6 DEF TypeOK
  <2> QED
    BY <2>1, <2>2, <2>3, <2>4, <2>5, <2>6, <2>7 DEF TypeOK, Pairs
<1>14. PathsAreEvidence'
  BY <1>12 DEF PathsAreEvidence
<1>15. FrontierInStep'
  <2>1. \A n \in activated' : depth'[n] <= hop'
    BY <1>3, <1>6, <1>7, <1>9 DEF FrontierInStep
  <2>2. ASSUME NEW n \in Firing' PROVE n \in kept
    BY <2>2, <1>3, <1>6 DEF Firing
  <2> QED
    BY <2>1, <2>2, <1>3, <1>6, <1>9 DEF FrontierInStep, Firing
<1>16. EndsEarlyWhenExhausted'
  <2> SUFFICES ASSUME phase' = "done", hop' < hops' PROVE Firing' = {}
    BY DEF EndsEarlyWhenExhausted
  <2>1. hop + 1 # hops
    BY <1>6, <1>7
  <2>2. Targets(flow) = {}
    BY <2>1, <1>3, <1>4 DEF NothingReached
  <2>3. kept = {}
    BY <2>2, <1>5
  <2> QED
    BY <2>3, <1>3, <1>6 DEF Firing
<1>17. \A n \in activated : depth'[n] >= depth[n]
  <2> SUFFICES ASSUME NEW n \in activated PROVE depth'[n] >= depth[n]
    OBVIOUS
  <2>1. depth[n] \in Nat /\ depth[n] <= hop /\ n \in activated'
    BY <1>3, <1>7 DEF FrontierInStep
  <2> QED
    BY <2>1, <1>7, <1>9
<1>18. StillExpanding'
  BY <1>3, <1>4, <1>6, <1>7, <1>8 DEF StillExpanding
<1> QED
  BY <1>13, <1>14, <1>15, <1>16, <1>17, <1>18

\* Whatever leaves nodes, depths and paths alone and begins no hop keeps the invariant.
LEMMA FrameIInv ==
  ASSUME IInv, phase' \in {phase, "failed"},
         UNCHANGED <<weak, activated, fired, depth, path, hop, lossless, store>>
  PROVE  IInv' /\ \A n \in activated : depth'[n] >= depth[n]
<1> USE DEF IInv, store
<1>1. Firing' = Firing
  BY DEF Firing
<1>2. TypeOK'
  BY DEF TypeOK, Pairs
<1>3. PathsAreEvidence'
  BY DEF PathsAreEvidence, Evidence
<1>4. FrontierInStep'
  BY <1>1 DEF FrontierInStep
<1>5. EndsEarlyWhenExhausted' /\ StillExpanding'
  BY <1>1 DEF EndsEarlyWhenExhausted, StillExpanding
<1>6. \A n \in activated : depth'[n] >= depth[n]
  BY DEF TypeOK
<1> QED
  BY <1>2, <1>3, <1>4, <1>5, <1>6

\* Every step keeps the invariant, and no depth gets smaller.
LEMMA NextIInv ==
  ASSUME IInv, [Next]_vars
  PROVE  IInv' /\ \A n \in activated : depth'[n] >= depth[n]
<1>1. CASE Expand
  BY <1>1, ExpandIInv
<1>2. CASE Fail
  BY <1>2, FrameIInv DEF Fail
<1>3. CASE UNCHANGED vars
  BY <1>3, FrameIInv DEF vars, store
<1> QED
  BY <1>1, <1>2, <1>3 DEF Next

\* IInv is an inductive invariant of a retrieval.
THEOREM RetrievalInvariant == Spec => []IInv
<1>1. IInv /\ [Next]_vars => IInv'
  BY NextIInv
<1> QED
  BY InitIInv, <1>1, PTL DEF Spec

\* All variables keep their types; every activated node has a depth and a path.
THEOREM RetrievalTypes == Spec => []TypeOK
<1>1. IInv => TypeOK
  BY DEF IInv
<1> QED
  BY RetrievalInvariant, <1>1, PTL

\* However often energy flows back and overwrites it, the path of a node is a walk from
\* a seed over links to that node, as long as its depth says (retrieval.rs:229-261).
THEOREM PathsProved == Spec => []PathsAreEvidence
<1>1. IInv => PathsAreEvidence
  BY DEF IInv
<1> QED
  BY RetrievalInvariant, <1>1, PTL

\* The nodes that can fire in a hop are those the last hop reached, at its depth.
THEOREM FrontierProved == Spec => []FrontierInStep
<1>1. IInv => FrontierInStep
  BY DEF IInv
<1> QED
  BY RetrievalInvariant, <1>1, PTL

\* A retrieval that ends before its last hop leaves nobody who could fire
\* (retrieval.rs:263).
THEOREM EndsEarlyProved == Spec => []EndsEarlyWhenExhausted
<1>1. IInv => EndsEarlyWhenExhausted
  BY DEF IInv
<1> QED
  BY RetrievalInvariant, <1>1, PTL

\* No step makes the depth of an activated node smaller (retrieval.rs:259).
THEOREM DepthsProved == Spec => DepthsOnlyGrow
<1>1. IInv /\ [Next]_vars => [\A n \in activated : depth'[n] >= depth[n]]_vars
  BY NextIInv
<1> QED
  BY RetrievalInvariant, <1>1, PTL DEF Spec, DepthsOnlyGrow

-----------------------------------------------------------------------------
(* What a retrieval finds that loses no energy *)

\* Counting up from 0, one reaches every number.
LEMMA CountingUp ==
  ASSUME NEW n \in Nat, NEW S, 0 \in S, \A k \in 0..n : k # n /\ k \in S => k + 1 \in S
  PROVE  0..n \subseteq S
<1> DEFINE R == OpToRel(<, Nat)
           Rest == (0..n) \ S
<1> SUFFICES ASSUME Rest # {} PROVE FALSE
  OBVIOUS
<1>1. Rest \subseteq Nat
  OBVIOUS
<1>2. PICK m \in Rest : \A k \in Rest : <<k, m>> \notin R
  <2>1. IsWellFoundedOn(R, Nat)
    BY NatLessThanWellFounded
  <2> HIDE DEF R, Rest
  <2> QED
    BY <1>1, <2>1, WFMin
<1>3. m \in 0..n /\ m # 0 /\ m \notin S
  OBVIOUS
<1>4. m - 1 \in 0..n /\ m - 1 # n /\ m - 1 < m /\ (m - 1) + 1 = m
  BY <1>3
<1>5. <<m - 1, m>> \in R
  BY <1>3, <1>4 DEF OpToRel
<1>6. m - 1 \in S
  BY <1>2, <1>4, <1>5
<1> QED
  BY <1>3, <1>4, <1>6

\* S, and what one link leads to from it in x.
Near(S, x, e) == S \cup {t \in x : \E n \in S : n # t /\ {n, t} \in e}

\* Within, with what it depends on.
Reach(s, x, e) ==
  CHOOSE f : f = [k \in 0..MaxHops |-> IF k = 0 THEN s ELSE Near(f[k - 1], x, e)]

LEMMA WithinIsReach == Within = Reach(seeds, exists, links)
  BY DEF Within, Reach, Near

LEMMA WithinIsReachNext == (Within = Reach(seeds, exists, links))'
  BY WithinIsReach, PTL

\* The recursive definition defines what it should: what is within k links grows with
\* k by what one more link leads to.
LEMMA ReachGrows ==
  ASSUME NEW s, NEW x, NEW e
  PROVE  LET R == Reach(s, x, e) IN
         \A k \in 0..MaxHops : R[k] = IF k = 0 THEN s ELSE Near(R[k - 1], x, e)
<1> DEFINE Upto(f, k) == f = [j \in 0..k |-> IF j = 0 THEN s ELSE Near(f[j - 1], x, e)]
           S == {k \in 0..MaxHops : \E f : Upto(f, k)}
<1>0. MaxHops \in Nat
  BY LimitsAssumption
<1>1. 0 \in S
  <2> DEFINE f == [j \in 0..0 |-> s]
  <2>1. f = [j \in 0..0 |-> IF j = 0 THEN s ELSE Near(f[j - 1], x, e)]
    OBVIOUS
  <2>2. 0 \in 0..MaxHops
    BY <1>0
  <2> HIDE DEF f
  <2> QED
    BY <2>1, <2>2
<1>2. ASSUME NEW k \in 0..MaxHops, k # MaxHops, k \in S PROVE k + 1 \in S
  <2>1. PICK f : Upto(f, k)
    BY <1>2
  <2>2. k + 1 \in 0..MaxHops /\ \A j \in 0..(k + 1) : j = k + 1 \/ j \in 0..k
    BY <1>0, <1>2
  <2> DEFINE g == [j \in 0..(k + 1) |-> IF j = 0 THEN s ELSE Near(f[j - 1], x, e)]
  <2>3. \A j \in 0..k : g[j] = f[j]
    BY <2>1
  <2>4. \A j \in 0..(k + 1) : j # 0 => j - 1 \in 0..k
    OBVIOUS
  <2>5. Upto(g, k + 1)
    BY <2>3, <2>4
  <2> QED
    BY <2>2, <2>5
<1>3. MaxHops \in S
  <2> HIDE DEF S
  <2>1. 0..MaxHops \subseteq S
    BY <1>0, <1>1, <1>2, CountingUp
  <2> QED
    BY <1>0, <2>1
<1>4. PICK f : Upto(f, MaxHops)
  BY <1>3
<1>5. Upto(Reach(s, x, e), MaxHops)
  BY <1>4 DEF Reach
<1> QED
  BY <1>5

\* Nothing was lost: whatever is within `hop` links is activated, and what was within
\* one link less has fired.
NothingLost ==
  lossless =>
    /\ activated = Within[hop]
    /\ weak = {}
    /\ fired = IF hop = 0 THEN {} ELSE Within[hop - 1]

LEMMA InitNothingLost == Init => NothingLost
<1> SUFFICES ASSUME Init PROVE NothingLost
  OBVIOUS
<1>1. Within[0] = seeds
  BY WithinIsReach, ReachGrows, LimitsAssumption
<1> QED
  BY <1>1 DEF Init, Seeding, NothingLost

LEMMA ExpandNothingLost ==
  ASSUME IInv, NothingLost, Expand
  PROVE  NothingLost'
<1> SUFFICES ASSUME lossless' PROVE NothingLost'
  BY DEF NothingLost
<1>1. /\ lossless
      /\ activated' = activated \cup Targets(Wires)
      /\ weak' = weak \ Targets(Wires)
      /\ fired' = fired \cup Firing /\ hop' = hop + 1
      /\ phase = "expanding"
      /\ exists' = exists /\ links' = links /\ seeds' = seeds
  BY DEF Expand, store
<1>2. /\ activated = Within[hop] /\ weak = {} /\ weak' = {}
      /\ fired = IF hop = 0 THEN {} ELSE Within[hop - 1]
  BY <1>1 DEF NothingLost
<1>3. hop \in 0..MaxHops /\ hop + 1 \in 0..MaxHops /\ hop' # 0 /\ hop' - 1 = hop
  BY <1>1, LimitsAssumption DEF IInv, TypeOK, StillExpanding
<1>4. Within' = Within
  <2>1. Within' = Reach(seeds', exists', links')
    BY WithinIsReachNext
  <2> QED
    BY <1>1, <2>1, WithinIsReach
<1>5. \A k \in 0..MaxHops :
        Within[k] = IF k = 0 THEN seeds ELSE Near(Within[k - 1], exists, links)
  BY WithinIsReach, ReachGrows
<1>6. Within[hop + 1] = Near(activated, exists, links)
  BY <1>2, <1>3, <1>5
<1>7. fired \subseteq activated /\ Near(fired, exists, links) \subseteq activated
  BY <1>2, <1>3, <1>5 DEF Near
<1>8. Firing = activated \ fired
  BY <1>2 DEF Firing
<1>9. fired' = Within[hop]
  BY <1>1, <1>2, <1>7, <1>8
<1>10. activated' = Near(activated, exists, links)
  <2>1. ASSUME NEW t \in Targets(Wires)
        PROVE  t \in exists /\ \E n \in Firing : n # t /\ {n, t} \in links
    <3>1. PICK w \in Wires : t = w[2]
      BY DEF Targets
    <3> QED
      BY <3>1 DEF Wires
  <2>2. ASSUME NEW t \in exists, NEW n \in Firing, n # t, {n, t} \in links
        PROVE  t \in Targets(Wires)
    <3>1. <<n, t>> \in Wires
      BY <2>2 DEF Wires
    <3>2. <<n, t>>[2] = t
      OBVIOUS
    <3> QED
      BY <3>1, <3>2, Zenon DEF Targets
  <2> QED
    BY <1>1, <1>7, <1>8, <2>1, <2>2 DEF Near
<1> QED
  BY <1>1, <1>2, <1>3, <1>4, <1>6, <1>9, <1>10 DEF NothingLost

LEMMA NextNothingLost ==
  ASSUME IInv, NothingLost, [Next]_vars
  PROVE  NothingLost'
<1>1. CASE Expand
  BY <1>1, ExpandNothingLost
<1>2. CASE UNCHANGED <<activated, weak, fired, hop, lossless, store>>
  <2>1. Within' = Reach(seeds', exists', links')
    BY WithinIsReachNext
  <2>2. Within' = Within
    BY <1>2, <2>1, WithinIsReach DEF store
  <2> QED
    BY <1>2, <2>2 DEF NothingLost
<1> QED
  BY <1>1, <1>2 DEF Next, Fail, vars, store

\* While all links carry enough energy, a retrieval has found, after each of its hops,
\* exactly the nodes within as many links of its seeds: for any graph and any seeds,
\* whatever of them the store has deleted (the loop over the hops of retrieval.rs).
THEOREM LosslessProved == Spec => []LosslessFindsAll
<1>1. IInv /\ NothingLost /\ [Next]_vars => NothingLost'
  BY NextNothingLost
<1>2. NothingLost => LosslessFindsAll
  BY DEF NothingLost, LosslessFindsAll
<1> QED
  BY InitNothingLost, RetrievalInvariant, <1>1, <1>2, PTL DEF Spec
=============================================================================
