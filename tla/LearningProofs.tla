--------------------------- MODULE LearningProofs ---------------------------
(***************************************************************************)
(* The invariants of Learning, proved for any nodes and links, any         *)
(* confidences of at most 1 and any number of learnings.                   *)
(*                                                                         *)
(* The argument: each learning adds 1 to `retrieved` and a quality of at   *)
(* most One to `useful`, so useful <= One * retrieved is inductive while   *)
(* `retrieved` is read, and the prior (+1 above, +2 below) makes the       *)
(* frequency proper.  A failed read only lowers what learning sees: that   *)
(* harms the bound for `retrieved`, and the mark for `useful`, and is      *)
(* recorded in `misread`.  What other steps do to a link's counters or     *)
(* weight takes it out of `learned`.                                       *)
(***************************************************************************)
EXTENDS Learning, TLAPS

IInv ==
  TypeOK /\ UsefulAtMostRetrieved /\ LearnedWeightIsFrequency /\ FirstUsedMarksUse

\* One is a positive number.
LEMMA OnePositive == One \in Nat /\ One > 0
  BY ConfidencesAssumption DEF One

\* A quality lies between 0 and One, whether or not the nodes are there.
LEMMA QualityBounded ==
  ASSUME nodes \in SUBSET NodeIds, NEW a, NEW b
  PROVE  quality_factor(a, b) \in 0..One
<1> DEFINE x == RootOf(a)
           y == RootOf(b)
<1>1. x \in 0..Scale /\ y \in 0..Scale
  BY ConfidencesAssumption DEF RootOf
<1>2. Scale \in Nat
  BY ConfidencesAssumption
<1> HIDE DEF x, y
<1>3. x * y \in Nat /\ x * y <= x * Scale
  BY <1>1, <1>2
<1>4. x * Scale <= Scale * Scale
  BY <1>1, <1>2
<1>5. x * y \in Nat /\ x * y <= Scale * Scale
  <2> DEFINE p == x * y
             q == x * Scale
             s == Scale * Scale
  <2>1. p \in Nat /\ q \in Nat /\ s \in Nat /\ p <= q /\ q <= s
    BY <1>1, <1>2, <1>3, <1>4
  <2> HIDE DEF p, q, s
  <2>2. p <= s
    BY <2>1
  <2> QED
    BY <2>1, <2>2 DEF p, s
<1> QED
  BY <1>5 DEF quality_factor, One, x, y

\* What learn sees of a counter is the counter or 0.
LEMMA SeenProper ==
  ASSUME NEW old \in Counters, NEW failed \in SUBSET Read, NEW k \in Read
  PROVE  /\ Seen(old, failed)[k] \in Nat
         /\ Seen(old, failed)[k] = IF k \in failed THEN 0 ELSE old[k]
  BY DEF Seen, Counters, Read, Counts

\* What one learning does to the counters of a link.
LEMMA BumpedProper ==
  ASSUME NEW old \in Counters, NEW failed \in SUBSET Read, NEW quality \in 0..One,
         now \in Times
  PROVE  LET new == Bumped(old, Seen(old, failed), quality) IN
         /\ new \in Counters
         /\ old.useful <= One * old.retrieved /\ "retrieved" \notin failed
              => new.useful <= One * new.retrieved
         /\ (old.useful > 0 => old.first_used > 0) => (new.useful > 0 => new.first_used > 0)
         /\ (old.first_used > 0 => old.useful > 0) /\ "useful" \notin failed
              => (new.first_used > 0 => new.useful > 0)
<1> DEFINE seen == Seen(old, failed)
           new == Bumped(old, seen, quality)
<1>1. One \in Nat /\ now \in Nat /\ now > 0
  BY OnePositive, ConfidencesAssumption DEF Times
<1>2. quality \in Nat /\ quality <= One
  BY <1>1
<1>3. old.retrieved \in Nat /\ old.useful \in Nat /\ old.first_used \in Nat
  BY DEF Counters
<1>4. /\ seen.retrieved \in Nat
      /\ seen.retrieved = IF "retrieved" \in failed THEN 0 ELSE old.retrieved
  BY SeenProper DEF Read, Counts
<1>5. seen.useful \in Nat /\ seen.useful = IF "useful" \in failed THEN 0 ELSE old.useful
  BY SeenProper DEF Read, Counts
<1>6. /\ seen.first_used \in Nat
      /\ seen.first_used = IF "first_used" \in failed THEN 0 ELSE old.first_used
  BY SeenProper DEF Read, Counts
<1> HIDE DEF seen
<1>7. new.retrieved = seen.retrieved + 1 /\ new.useful = seen.useful + quality
  BY DEF Bumped
<1>8. new.first_used = IF seen.useful = 0 /\ quality > 0 /\ seen.first_used = 0
                       THEN now ELSE old.first_used
  BY DEF Bumped, FirstUsed
<1>9. new.first_used \in Nat
  BY <1>1, <1>3, <1>8
<1>10. new \in Counters
  <2>1. FirstUsed(old, seen, quality) \in Nat
    BY <1>9 DEF Bumped
  <2> QED
    BY <1>1, <1>2, <1>4, <1>5, <2>1 DEF Bumped, Counters
<1> HIDE DEF new
<1>11. ASSUME old.useful <= One * old.retrieved, "retrieved" \notin failed
       PROVE  new.useful <= One * new.retrieved
  <2> DEFINE bound == One * old.retrieved
  <2>1. One * (old.retrieved + 1) = bound + One /\ bound \in Nat
    BY <1>1, <1>3
  <2>2. old.useful <= bound
    BY <1>11
  <2> HIDE DEF bound
  <2>3. seen.useful <= old.useful
    BY <1>3, <1>5
  <2>4. seen.useful + quality <= bound + One
    BY <1>1, <1>2, <1>3, <1>5, <2>1, <2>2, <2>3
  <2>5. new.retrieved = old.retrieved + 1
    BY <1>4, <1>7, <1>11
  <2> QED
    BY <1>7, <2>1, <2>4, <2>5
<1>12. ASSUME old.useful > 0 => old.first_used > 0, new.useful > 0
       PROVE  new.first_used > 0
  BY <1>1, <1>2, <1>3, <1>5, <1>6, <1>7, <1>8, <1>12
<1>13. ASSUME old.first_used > 0 => old.useful > 0, "useful" \notin failed,
              new.first_used > 0
       PROVE  new.useful > 0
  BY <1>1, <1>2, <1>3, <1>5, <1>6, <1>7, <1>8, <1>13
<1> QED
  BY <1>10, <1>11, <1>12, <1>13 DEF new, seen

\* The frequency of any counters is a positive fraction, and of such counters less
\* than 1.
LEMMA FrequencyProper ==
  ASSUME NEW retrieved \in Nat, NEW useful \in Nat
  PROVE  LET f == Frequency(retrieved, useful) IN
         /\ f \in Fraction /\ 0 < f.num
         /\ useful <= One * retrieved => f.num < f.den
<1>1. One \in Nat /\ One > 0
  BY OnePositive
<1>2. One * (retrieved + 2) = One * retrieved + One + One
  BY <1>1
<1> DEFINE bound == One * retrieved
<1>3. bound \in Nat
  BY <1>1
<1> HIDE DEF bound
<1>4. useful + One \in Nat /\ 0 < useful + One
  BY <1>1, <1>3
<1>5. useful <= bound => useful + One < bound + One + One
  BY <1>1, <1>3
<1>6. bound + One + One \in Nat \ {0}
  BY <1>1, <1>3
<1>7. Frequency(retrieved, useful) = [num |-> useful + One, den |-> bound + One + One]
  BY <1>2 DEF Frequency, bound
<1> QED
  BY <1>4, <1>5, <1>6, <1>7 DEF Fraction, bound

LEMMA InitIInv == Init => IInv
<1> SUFFICES ASSUME Init PROVE IInv
  OBVIOUS
<1>1. NoCounters \in Counters
  BY DEF NoCounters, Counters
<1>2. TypeOK
  BY <1>1, LinksAssumption DEF Init, TypeOK
<1>3. UsefulAtMostRetrieved
  BY OnePositive DEF Init, UsefulAtMostRetrieved, NoCounters
<1>4. LearnedWeightIsFrequency
  BY DEF Init, LearnedWeightIsFrequency
<1>5. FirstUsedMarksUse
  BY DEF Init, FirstUsedMarksUse, NoCounters
<1> QED
  BY <1>2, <1>3, <1>4, <1>5 DEF IInv

\* Learning keeps the invariant, link by link.
LEMMA LearnIInv ==
  ASSUME IInv, NEW r \in Requests, Learn(r)
  PROVE  IInv'
<1> USE DEF IInv
<1>1. PICK failed \in [Credited(req[r]) -> SUBSET Read] : LearnSeeing(r, failed)
  BY DEF Learn
<1> DEFINE used == req[r]
           quality(l) == quality_factor(used[CreditedBy(used, l)[1]], used[CreditedBy(used, l)[2]])
           new(l) == Bumped(counters[l], Seen(counters[l], failed[l]), quality(l))
<1>2. \A l \in LinkIds :
        counters'[l] = IF l \in Credited(used) THEN new(l) ELSE counters[l]
  BY <1>1 DEF LearnSeeing
<1>3. \A l \in LinkIds :
        weight'[l] = IF l \in Credited(used)
                     THEN Frequency(new(l).retrieved, new(l).useful) ELSE weight[l]
  <2>1. now <= now
    BY DEF TypeOK, Times
  <2> QED
    BY <1>1, <2>1 DEF LearnSeeing, compute_weight
<1>4. /\ learned' = learned \cup Credited(used)
      /\ misread' = misread \cup {c \in Credited(used) \X Counts : c[2] \in failed[c[1]]}
      /\ req' = [req EXCEPT ![r] = NoRequest]
      /\ nodes' = nodes /\ stored' = stored /\ cached' = cached /\ now' = now
  BY <1>1 DEF LearnSeeing
<1>5. counters' = [l \in LinkIds |-> counters'[l]] /\ weight' = [l \in LinkIds |-> weight'[l]]
  BY <1>1 DEF LearnSeeing
<1>6. \A l \in Credited(used) :
        /\ new(l) \in Counters
        /\ counters[l].useful <= One * counters[l].retrieved /\ "retrieved" \notin failed[l]
             => new(l).useful <= One * new(l).retrieved
        /\ (counters[l].useful > 0 => counters[l].first_used > 0)
             => (new(l).useful > 0 => new(l).first_used > 0)
        /\ (counters[l].first_used > 0 => counters[l].useful > 0) /\ "useful" \notin failed[l]
             => (new(l).first_used > 0 => new(l).useful > 0)
  <2> SUFFICES ASSUME NEW l \in Credited(used)
               PROVE  /\ new(l) \in Counters
                      /\ counters[l].useful <= One * counters[l].retrieved
                           /\ "retrieved" \notin failed[l]
                           => new(l).useful <= One * new(l).retrieved
                      /\ (counters[l].useful > 0 => counters[l].first_used > 0)
                           => (new(l).useful > 0 => new(l).first_used > 0)
                      /\ (counters[l].first_used > 0 => counters[l].useful > 0)
                           /\ "useful" \notin failed[l]
                           => (new(l).first_used > 0 => new(l).useful > 0)
    OBVIOUS
  <2>1. quality(l) \in 0..One
    BY QualityBounded DEF TypeOK
  <2>2. counters[l] \in Counters /\ now \in Times
    BY DEF TypeOK, Credited
  <2>3. failed[l] \in SUBSET Read
    BY <1>1
  <2> DEFINE old == counters[l]
             missing == failed[l]
             q == quality(l)
  <2>4. old \in Counters /\ missing \in SUBSET Read /\ q \in 0..One /\ now \in Times
    BY <2>1, <2>2, <2>3
  <2> HIDE DEF old, missing, q
  <2>5. LET bumped == Bumped(old, Seen(old, missing), q) IN
        /\ bumped \in Counters
        /\ old.useful <= One * old.retrieved /\ "retrieved" \notin missing
             => bumped.useful <= One * bumped.retrieved
        /\ (old.useful > 0 => old.first_used > 0) => (bumped.useful > 0 => bumped.first_used > 0)
        /\ (old.first_used > 0 => old.useful > 0) /\ "useful" \notin missing
             => (bumped.first_used > 0 => bumped.useful > 0)
    BY <2>4, BumpedProper
  <2> QED
    BY <2>5 DEF old, missing, q
<1>7. \A l \in LinkIds : \A k \in Counts :
        <<l, k>> \notin misread' =>
          /\ <<l, k>> \notin misread
          /\ l \in Credited(used) => k \notin failed[l]
  BY <1>4
<1> HIDE DEF new, used
<1>8. TypeOK'
  <2>1. counters' \in [LinkIds -> Counters]
    BY <1>2, <1>5, <1>6 DEF TypeOK
  <2>2. \A l \in Credited(used) : Frequency(new(l).retrieved, new(l).useful) \in Fraction
    BY <1>6, FrequencyProper DEF Counters
  <2>3. weight' \in [LinkIds -> Fraction]
    BY <1>3, <1>5, <2>2 DEF TypeOK
  <2>4. Credited(used) \subseteq LinkIds
    BY DEF TypeOK, Credited
  <2>5. learned' \in SUBSET LinkIds /\ misread' \in SUBSET (LinkIds \X Counts)
    BY <1>4, <2>4 DEF TypeOK
  <2> QED
    BY <2>1, <2>3, <2>5, <1>4 DEF TypeOK, Times
<1>9. UsefulAtMostRetrieved'
  <2> SUFFICES ASSUME NEW l \in LinkIds, <<l, "retrieved">> \notin misread'
               PROVE  counters'[l].useful <= One * counters'[l].retrieved
    BY DEF UsefulAtMostRetrieved, One
  <2>1. /\ <<l, "retrieved">> \notin misread
        /\ l \in Credited(used) => "retrieved" \notin failed[l]
    BY <1>7 DEF Counts
  <2>2. counters[l].useful <= One * counters[l].retrieved
    BY <2>1 DEF UsefulAtMostRetrieved
  <2> QED
    BY <1>2, <1>6, <2>1, <2>2
<1>10. FirstUsedMarksUse'
  <2> SUFFICES ASSUME NEW l \in LinkIds
               PROVE  /\ counters'[l].useful > 0 => counters'[l].first_used > 0
                      /\ <<l, "useful">> \notin misread' =>
                           (counters'[l].first_used > 0 => counters'[l].useful > 0)
    BY DEF FirstUsedMarksUse
  <2>1. counters[l].useful > 0 => counters[l].first_used > 0
    BY DEF FirstUsedMarksUse
  <2>2. counters'[l].useful > 0 => counters'[l].first_used > 0
    BY <1>2, <1>6, <2>1
  <2>3. ASSUME <<l, "useful">> \notin misread'
        PROVE  counters'[l].first_used > 0 => counters'[l].useful > 0
    <3>1. /\ <<l, "useful">> \notin misread
          /\ l \in Credited(used) => "useful" \notin failed[l]
      BY <1>7, <2>3 DEF Counts
    <3>2. counters[l].first_used > 0 => counters[l].useful > 0
      BY <3>1 DEF FirstUsedMarksUse
    <3> QED
      BY <1>2, <1>6, <3>1, <3>2
  <2> QED
    BY <2>2, <2>3
<1>11. LearnedWeightIsFrequency'
  <2> SUFFICES ASSUME NEW l \in learned'
               PROVE  /\ weight'[l] = Frequency(counters'[l].retrieved, counters'[l].useful)
                      /\ 0 < weight'[l].num
                      /\ weight'[l].num < weight'[l].den \/ <<l, "retrieved">> \in misread'
    BY DEF LearnedWeightIsFrequency, Frequency, One
  <2>1. l \in LinkIds
    BY <1>8 DEF TypeOK
  <2>2. CASE l \in Credited(used)
    <3>1. counters'[l] \in Counters
      BY <1>2, <1>6, <2>1, <2>2
    <3>2. weight'[l] = Frequency(counters'[l].retrieved, counters'[l].useful)
      BY <1>2, <1>3, <2>1, <2>2
    <3>3. /\ 0 < weight'[l].num
          /\ counters'[l].useful <= One * counters'[l].retrieved
               => weight'[l].num < weight'[l].den
      BY <3>1, <3>2, FrequencyProper DEF Counters
    <3>4. \/ counters'[l].useful <= One * counters'[l].retrieved
          \/ <<l, "retrieved">> \in misread'
      BY <1>9, <2>1 DEF UsefulAtMostRetrieved, One
    <3> QED
      BY <3>2, <3>3, <3>4
  <2>3. CASE l \notin Credited(used)
    BY <2>1, <2>3, <1>2, <1>3, <1>4 DEF LearnedWeightIsFrequency
  <2> QED
    BY <2>2, <2>3
<1> QED
  BY <1>8, <1>9, <1>10, <1>11

\* A step that leaves counters and weights alone, and learns nothing.
LEMMA FrameIInv ==
  ASSUME IInv, UNCHANGED <<counters, weight, misread>>, learned' = learned, TypeOK'
  PROVE  IInv'
  BY DEF IInv, UsefulAtMostRetrieved, LearnedWeightIsFrequency, FirstUsedMarksUse,
         Frequency, One

LEMMA UpdateLinkIInv ==
  ASSUME IInv, NEW l \in LinkIds, UpdateLink(l)
  PROVE  IInv'
<1>1. TypeOK'
  BY LinksAssumption DEF IInv, TypeOK, UpdateLink, Times
<1>2. UsefulAtMostRetrieved' /\ FirstUsedMarksUse'
  BY DEF IInv, UpdateLink, UsefulAtMostRetrieved, FirstUsedMarksUse, One
<1>3. LearnedWeightIsFrequency'
  BY DEF IInv, UpdateLink, LearnedWeightIsFrequency, TypeOK, Frequency, One
<1> QED
  BY <1>1, <1>2, <1>3 DEF IInv

LEMMA DeleteLinkIInv ==
  ASSUME IInv, NEW l \in LinkIds, DeleteLink(l)
  PROVE  IInv'
<1>1. NoCounters \in Counters
  BY DEF NoCounters, Counters
<1>2. TypeOK'
  BY <1>1 DEF IInv, TypeOK, DeleteLink, Times
<1>3. \A k \in LinkIds :
        /\ counters'[k] = IF k = l THEN NoCounters ELSE counters[k]
        /\ k # l => \A c \in Counts : <<k, c>> \in misread => <<k, c>> \in misread'
  BY DEF IInv, TypeOK, DeleteLink
<1>4. UsefulAtMostRetrieved'
  <2> SUFFICES ASSUME NEW k \in LinkIds, <<k, "retrieved">> \notin misread'
               PROVE  counters'[k].useful <= One * counters'[k].retrieved
    BY DEF UsefulAtMostRetrieved, One
  <2>1. CASE k = l
    BY <1>3, <2>1, OnePositive DEF NoCounters
  <2>2. CASE k # l
    BY <1>3, <2>2 DEF IInv, UsefulAtMostRetrieved, Counts
  <2> QED
    BY <2>1, <2>2
<1>5. FirstUsedMarksUse'
  <2> SUFFICES ASSUME NEW k \in LinkIds
               PROVE  /\ counters'[k].useful > 0 => counters'[k].first_used > 0
                      /\ counters'[k].first_used > 0 =>
                           counters'[k].useful > 0 \/ <<k, "useful">> \in misread'
    BY DEF FirstUsedMarksUse
  <2>1. CASE k = l
    BY <1>3, <2>1 DEF NoCounters
  <2>2. CASE k # l
    BY <1>3, <2>2 DEF IInv, FirstUsedMarksUse, Counts
  <2> QED
    BY <2>1, <2>2
<1>6. LearnedWeightIsFrequency'
  BY <1>3 DEF IInv, DeleteLink, LearnedWeightIsFrequency, TypeOK, Frequency, One, Counts
<1> QED
  BY <1>2, <1>4, <1>5, <1>6 DEF IInv

LEMMA NextIInv == IInv /\ [Next]_vars => IInv'
<1> SUFFICES ASSUME IInv, [Next]_vars PROVE IInv'
  OBVIOUS
<1>1. ASSUME NEW r \in Requests, Resolve(r) PROVE IInv'
  <2>1. PICK k \in 1..MaxUsed : \E used \in [1..k -> nodes] : req' = [req EXCEPT ![r] = used]
    BY <1>1 DEF Resolve
  <2>2. PICK used \in [1..k -> nodes] : req' = [req EXCEPT ![r] = used]
    BY <2>1
  <2>3. k \in Nat
    BY <2>1
  <2>4. used \in Seq(NodeIds)
    BY <2>2, <2>3 DEF IInv, TypeOK
  <2>5. TypeOK'
    BY <1>1, <2>2, <2>4 DEF IInv, TypeOK, Resolve, Times
  <2> QED
    BY <1>1, <2>5, FrameIInv DEF Resolve
<1>2. ASSUME NEW r \in Requests, Learn(r) PROVE IInv'
  BY <1>2, LearnIInv
<1>3. ASSUME NEW r \in Requests, LearnFails(r) PROVE IInv'
  <2>1. TypeOK'
    BY <1>3 DEF IInv, TypeOK, LearnFails, Times
  <2> QED
    BY <1>3, <2>1, FrameIInv DEF LearnFails
<1>4. ASSUME NEW l \in LinkIds, UpdateLink(l) PROVE IInv'
  BY <1>4, UpdateLinkIInv
<1>5. ASSUME NEW l \in LinkIds, DeleteLink(l) PROVE IInv'
  BY <1>5, DeleteLinkIInv
<1>6. ASSUME NEW gone, NEW uncached, Forget(gone, uncached) PROVE IInv'
  <2>1. TypeOK'
    BY <1>6 DEF IInv, TypeOK, Forget, Times
  <2> QED
    BY <1>6, <2>1, FrameIInv DEF Forget
<1>7. ASSUME NEW t \in Times, SetClock(t) PROVE IInv'
  <2>1. TypeOK'
    BY <1>7 DEF IInv, TypeOK, SetClock, Times
  <2> QED
    BY <1>7, <2>1, FrameIInv DEF SetClock
<1>8. CASE Restart
  <2>1. TypeOK'
    BY <1>8 DEF IInv, TypeOK, Restart, Times
  <2> QED
    BY <1>8, <2>1, FrameIInv DEF Restart
<1>9. CASE UNCHANGED vars
  <2>1. TypeOK'
    BY <1>9 DEF IInv, TypeOK, vars, Times
  <2> QED
    BY <1>9, <2>1, FrameIInv DEF vars
<1> QED
  BY <1>1, <1>2, <1>3, <1>4, <1>5, <1>6, <1>7, <1>8, <1>9
     DEF Next, DeleteEntity, DeleteClaim

\* The invariant: types, counters, weights and first uses at once.
THEOREM LearningInvariant == Spec => []IInv
  BY InitIInv, NextIInv, PTL DEF Spec

\* The types, for any number of requests and of learnings.
THEOREM LearningTypes == Spec => []TypeOK
<1>1. IInv => TypeOK
  BY DEF IInv
<1> QED
  BY <1>1, LearningInvariant, PTL

\* A link is never more often useful than it was retrieved, unless a read of
\* `retrieved` failed.
THEOREM UsefulBounded == Spec => []UsefulAtMostRetrieved
<1>1. IInv => UsefulAtMostRetrieved
  BY DEF IInv
<1> QED
  BY <1>1, LearningInvariant, PTL

\* A learned weight is its counters' frequency, positive, and less than 1 unless a read
\* of `retrieved` failed.
THEOREM WeightsProper == Spec => []LearnedWeightIsFrequency
<1>1. IInv => LearnedWeightIsFrequency
  BY DEF IInv
<1> QED
  BY <1>1, LearningInvariant, PTL

\* first_used is set when the link has been of use, and only then unless a read of
\* `useful` failed.
THEOREM FirstUsedCorrect == Spec => []FirstUsedMarksUse
<1>1. IInv => FirstUsedMarksUse
  BY DEF IInv
<1> QED
  BY <1>1, LearningInvariant, PTL

\* Adding q of One to a fraction u of d moves it towards q / One: whether it grows
\* depends on which of the two is larger.
LEMMA MediantMoves ==
  ASSUME NEW u \in Nat, NEW d \in Nat \ {0}, NEW q \in Nat, NEW k \in Nat \ {0}
  PROVE  LET old == [num |-> u, den |-> d]
             new == [num |-> u + q, den |-> d + k]
             quality == [num |-> q, den |-> k]
         IN IF Less(quality, old)
            THEN Less(new, old) /\ ~Less(new, quality)
            ELSE ~Less(new, old) /\ ~Less(quality, new)
<1> DEFINE uk == u * k
           qd == q * d
           ud == u * d
           qk == q * k
<1>1. uk \in Nat /\ qd \in Nat /\ ud \in Nat /\ qk \in Nat
  OBVIOUS
<1>2. (u + q) * d = ud + qd /\ u * (d + k) = ud + uk
  OBVIOUS
<1>3. (u + q) * k = uk + qk /\ q * (d + k) = qd + qk
  OBVIOUS
<1> HIDE DEF uk, qd, ud, qk
<1>4. qd < uk => ud + qd < ud + uk /\ ~(uk + qk < qd + qk)
  BY <1>1
<1>5. ~(qd < uk) => ~(ud + qd < ud + uk) /\ ~(qd + qk < uk + qk)
  BY <1>1
<1> QED
  BY <1>2, <1>3, <1>4, <1>5 DEF Less, uk, qd

\* The counters of a link that stays change by learning only.
LEMMA OnlyLearnCounts ==
  ASSUME IInv, [Next]_vars, NEW l \in LinkIds, counters'[l] # counters[l]
  PROVE  \/ \E r \in Requests : Learn(r)
         \/ DeleteLink(l)
<1>1. (\E r \in Requests : Learn(r)) \/ \E k \in LinkIds : DeleteLink(k)
  BY DEF Next, vars, Resolve, LearnFails, UpdateLink, DeleteEntity, DeleteClaim, Forget,
     SetClock, Restart
<1>2. ASSUME NEW k \in LinkIds, DeleteLink(k) PROVE k = l
  BY <1>2 DEF DeleteLink, IInv, TypeOK
<1> QED
  BY <1>1, <1>2

\* A use whose counts are read moves a learned weight towards the nodes' quality and
\* never past it.
THEOREM UseMoves == Spec => UseMovesTowardsQuality
<1>1. ASSUME IInv, [Next]_vars, NEW l \in learned, NEW r \in Requests,
             counters'[l] # counters[l], req'[r] # req[r]
      PROVE  MovesTowards(l, UseQuality(req[r], l)) \/ misread' \cap ({l} \X Counts) # {}
  <2> SUFFICES ASSUME misread' \cap ({l} \X Counts) = {}
               PROVE  MovesTowards(l, UseQuality(req[r], l))
    OBVIOUS
  <2> DEFINE p == CreditedBy(req[r], l)
             q == quality_factor(req[r][p[1]], req[r][p[2]])
             old == counters[l]
             u == old.useful + One
             d == One * (old.retrieved + 2)
  <2>1. l \in LinkIds /\ old \in Counters
    BY <1>1 DEF IInv, TypeOK
  <2>2. One \in Nat \ {0}
    BY OnePositive
  <2>3. q \in Nat
    BY <1>1, <2>2, QualityBounded DEF IInv, TypeOK
  <2> HIDE DEF q
  <2>4. weight[l] = [num |-> u, den |-> d]
    BY <1>1 DEF IInv, LearnedWeightIsFrequency, Frequency
  <2>5. Learn(r)
    <3>1. ~DeleteLink(l)
      BY <1>1 DEF DeleteLink
    <3>2. PICK s \in Requests : Learn(s)
      BY <1>1, <2>1, <3>1, OnlyLearnCounts
    <3>3. s = r
      BY <1>1, <3>2 DEF Learn, LearnSeeing, IInv, TypeOK
    <3> QED
      BY <3>2, <3>3
  <2>6. PICK failed \in [Credited(req[r]) -> SUBSET Read] : LearnSeeing(r, failed)
    BY <2>5 DEF Learn
  <2> DEFINE seen == Seen(old, failed[l])
  <2>7. l \in Credited(req[r])
    BY <1>1, <2>1, <2>6 DEF LearnSeeing
  <2>8. "retrieved" \notin failed[l] /\ "useful" \notin failed[l]
    <3>1. \A k \in Counts : k \in failed[l] => <<l, k>> \in misread'
      BY <2>6, <2>7 DEF LearnSeeing
    <3> QED
      BY <3>1 DEF Counts
  <2>9. seen.retrieved = old.retrieved /\ seen.useful = old.useful
    BY <2>8 DEF Seen, Read, Counts
  <2>10. now <= now
    BY <1>1 DEF IInv, TypeOK, Times
  <2>11. weight'[l] = Frequency(Bumped(old, seen, q).retrieved, Bumped(old, seen, q).useful)
    BY <2>1, <2>6, <2>7, <2>10 DEF LearnSeeing, compute_weight, q
  <2> HIDE DEF seen
  <2>12. weight'[l] = [num |-> (old.useful + q) + One, den |-> One * ((old.retrieved + 1) + 2)]
    BY <2>9, <2>11 DEF Frequency, Bumped
  <2>13. old.useful \in Nat /\ old.retrieved \in Nat
    BY <2>1 DEF Counters
  <2>14. (old.useful + q) + One = u + q /\ One * ((old.retrieved + 1) + 2) = d + One
    BY <2>2, <2>3, <2>13
  <2>15. u \in Nat /\ d \in Nat \ {0}
    BY <2>2, <2>13
  <2> HIDE DEF u, d
  <2>16. weight'[l] = [num |-> u + q, den |-> d + One]
    BY <2>12, <2>14
  <2> QED
    BY <2>2, <2>3, <2>4, <2>15, <2>16, MediantMoves DEF q, MovesTowards, UseQuality
<1>2. IInv /\ [Next]_vars =>
        [\A l \in learned, r \in Requests :
           counters'[l] # counters[l] /\ req'[r] # req[r] =>
             \/ MovesTowards(l, UseQuality(req[r], l))
             \/ misread' \cap ({l} \X Counts) # {}]_vars
  BY <1>1
<1> QED
  BY <1>2, LearningInvariant, PTL DEF Spec, UseMovesTowardsQuality

\* Counters change only where two named nodes lead to the link, or with the link's
\* end: no learning touches a link between nodes the turn did not use (learn), and
\* nothing else touches a link that stays.
THEOREM OnlyCoUsedAlways == Spec => OnlyCoUsedLearn
<1>1. ASSUME IInv, [Next]_vars, NEW l \in LinkIds, counters'[l] # counters[l]
      PROVE  \/ l \notin cached'
             \/ \E r \in Requests :
                  /\ req[r] # NoRequest
                  /\ \E i \in DOMAIN req[r] :
                       /\ req[r][i] = From[l]
                       /\ \E j \in DOMAIN req[r] \ {i} : req[r][j] \in {From[l], To[l]}
  <2>1. (\E r \in Requests : Learn(r)) \/ DeleteLink(l)
    BY <1>1, OnlyLearnCounts
  <2>2. CASE DeleteLink(l)
    BY <2>2 DEF DeleteLink
  <2>3. ASSUME NEW r \in Requests, Learn(r)
        PROVE  /\ req[r] # NoRequest
               /\ \E i \in DOMAIN req[r] :
                    /\ req[r][i] = From[l]
                    /\ \E j \in DOMAIN req[r] \ {i} : req[r][j] \in {From[l], To[l]}
    <3>1. req[r] # NoRequest /\ l \in Credited(req[r])
      BY <1>1, <2>3 DEF Learn, LearnSeeing
    <3>2. req[r] \in Seq(NodeIds)
      BY <1>1, <3>1 DEF IInv, TypeOK
    <3>3. PICK p \in Pairs(req[r]) :
            From[l] = req[r][p[1]] /\ req[r][p[2]] \in {From[l], To[l]}
      BY <3>1 DEF Credited, Matching
    <3>4. /\ p[1] \in DOMAIN req[r] /\ p[2] \in DOMAIN req[r] /\ p[1] # p[2]
      BY <3>2, <3>3 DEF Pairs
    <3> QED
      BY <3>1, <3>3, <3>4
  <2> QED
    BY <2>1, <2>2, <2>3
<1>2. IInv /\ [Next]_vars =>
        [\A l \in LinkIds :
           counters'[l] # counters[l] =>
             \/ l \notin cached'
             \/ \E r \in Requests :
                  /\ req[r] # NoRequest
                  /\ \E i \in DOMAIN req[r] :
                       /\ req[r][i] = From[l]
                       /\ \E j \in DOMAIN req[r] \ {i} : req[r][j] \in {From[l], To[l]}]_vars
  BY <1>1
<1> QED
  BY LearningInvariant, <1>2, PTL DEF Spec, OnlyCoUsedLearn
=============================================================================
