-------------------------- MODULE ExtractionProofs --------------------------
(***************************************************************************)
(* Proofs about the loops of Extraction, for any texts, graphs and limits. *)
(*                                                                         *)
(* Each loop has its own part of the invariant: what the gazetteer has     *)
(* found ends before its cursor, candidates are runs that end before       *)
(* theirs, and whoever was merged got past the overlap test.               *)
(***************************************************************************)
EXTENDS Extraction, WellFoundedInduction, TLAPS

\* Every set of natural numbers that is not empty has a smallest element.
LEMMA Smallest ==
  ASSUME NEW S, S \subseteq Nat, S # {}
  PROVE  \E m \in S : \A k \in S : m <= k
<1> DEFINE R == OpToRel(<, Nat)
<1>1. IsWellFoundedOn(R, Nat)
  BY NatLessThanWellFounded
<1>2. \E m \in S : \A k \in S : <<k, m>> \notin R
  <2> HIDE DEF R
  <2> QED
    BY <1>1, WFMin
<1>3. \A k, m \in Nat : k < m => <<k, m>> \in R
  BY DEF OpToRel
<1> HIDE DEF R
<1>4. PICK m \in S : \A k \in S : <<k, m>> \notin R
  BY <1>2
<1>5. ASSUME NEW k \in S PROVE m <= k
  <2>1. m \in Nat /\ k \in Nat
    BY <1>4
  <2>2. ~(k < m)
    BY <1>3, <1>4, <1>5, <2>1
  <2> QED
    BY <2>1, <2>2
<1> QED
  BY <1>4, <1>5

\* The longest of the labels that begin at a token is one of them.
LEMMA LongestMatch ==
  ASSUME text \in Seq(Token), NEW i \in 1..Len(text), MatchesAt(i) # {}
  PROVE  /\ Longest(MatchesAt(i)) \in MatchesAt(i)
         /\ \A s \in MatchesAt(i) : s[2] <= Longest(MatchesAt(i))[2]
<1> DEFINE M == MatchesAt(i)
           S == {Len(text) - s[2] : s \in M}
<1>1. Len(text) \in Nat
  OBVIOUS
<1>2. \A s \in M : s[2] \in Nat /\ s[2] <= Len(text)
  BY <1>1 DEF MatchesAt
<1>3. S \subseteq Nat /\ S # {}
  BY <1>1, <1>2
<1> HIDE DEF M
<1>4. PICK k \in S : \A j \in S : k <= j
  <2> HIDE DEF S
  <2> QED
    BY <1>3, Smallest
<1>5. PICK m \in M : k = Len(text) - m[2]
  BY <1>4
<1>6. \A s \in M : s[2] <= m[2]
  <2> SUFFICES ASSUME NEW s \in M PROVE s[2] <= m[2]
    OBVIOUS
  <2>1. k <= Len(text) - s[2]
    BY <1>4
  <2> QED
    BY <2>1, <1>1, <1>2, <1>5
<1>7. /\ Longest(M) \in M
      /\ \A s \in M : s[2] <= Longest(M)[2]
  BY <1>6 DEF Longest
<1> QED
  BY <1>7 DEF M

\* A run of starters has an end.
LEMMA RunEnds ==
  ASSUME text \in Seq(Token), NEW i \in 1..Len(text), Starter(i)
  PROVE  Run(i) \in Span /\ Run(i)[1] = i
<1> DEFINE n == Len(text)
           S == {j \in i..n : j = n \/ ~Starter(j + 1)}
           Fits(s) == /\ \A k \in s[1]..s[2] : Starter(k)
                      /\ s[2] < n => ~Starter(s[2] + 1)
<1>1. n \in Nat /\ i \in Nat /\ 1 <= i /\ i <= n
  OBVIOUS
<1> HIDE DEF n
<1>2. S \subseteq Nat /\ n \in S
  BY <1>1
<1>3. PICK m \in S : \A j \in S : m <= j
  <2> HIDE DEF S
  <2> QED
    BY <1>2, Smallest
<1>4. m \in i..n /\ m \in Nat
  BY <1>1
<1>5. \A k \in i..m : Starter(k)
  <2> SUFFICES ASSUME NEW k \in i..m, k # i PROVE Starter(k)
    OBVIOUS
  <2>1. k - 1 \in i..n /\ k - 1 < m /\ (k - 1) + 1 = k
    BY <1>1, <1>4
  <2>2. k - 1 \notin S
    BY <2>1, <1>3, <1>4
  <2> QED
    BY <2>1, <2>2
<1>6. m < n => ~Starter(m + 1)
  BY <1>3, <1>1
<1>7. <<i, m>> \in {i} \X (i..n) /\ Fits(<<i, m>>)
  BY <1>4, <1>5, <1>6
<1>8. Run(i) = CHOOSE s \in {i} \X (i..n) : Fits(s)
  BY DEF Run, n
<1> HIDE DEF Fits
<1>9. Run(i) \in {i} \X (i..n)
  BY <1>7, <1>8
<1> QED
  BY <1>1, <1>9 DEF Span, n

-----------------------------------------------------------------------------

Cursors ==
  /\ phase = "gazetteer" => /\ \A s \in known : s[2] < cursor
                            /\ candidates = {} /\ entities = {}
  /\ phase = "pattern" => /\ \A c \in candidates : c[2] < cursor
                          /\ entities = known
  /\ phase # "gazetteer" => known \subseteq entities

CandidatesApart ==
  /\ \A c, d \in candidates : c = d \/ Apart(c, d)
  /\ \A c \in candidates, e \in entities \ known : Apart(c, e)

EntitiesApartOrAround ==
  \A e, f \in entities :
    \/ e = f \/ Apart(e, f)
    \/ e \notin known /\ f \in known /\ Encloses(e, f)
    \/ f \notin known /\ e \in known /\ Encloses(f, e)

Endings ==
  /\ phase = "panicked" =>
       \/ \E e \in entities \ known, f \in known : Encloses(e, f)
       \/ \E e \in entities : Askew(e)
  /\ phase = "done" => ~\E e \in entities, f \in known : Encloses(e, f)

IInv ==
  /\ TypeOK /\ Cursors /\ KnownLeftmostLongest
  /\ CandidatesApart /\ EntitiesApartOrAround /\ Endings

LEMMA InitIInv == Init => IInv
<1> SUFFICES ASSUME Init PROVE IInv
  OBVIOUS
<1>1. text \in Seq(Token) /\ graph \subseteq Seq(Label)
  BY ExtractionAssumption DEF Init
<1>2. Len(text) \in Nat
  BY <1>1
<1>3. phase \in {"gazetteer", "done"} /\ (phase = "done" => Len(text) = 0)
  BY <1>1 DEF Init
<1>4. TypeOK
  BY <1>1, <1>2, <1>3 DEF Init, TypeOK
<1>5. Cursors /\ CandidatesApart /\ EntitiesApartOrAround /\ Endings
  BY <1>3 DEF Init, Cursors, CandidatesApart, EntitiesApartOrAround, Endings
<1>6. Passed = {}
  BY <1>2, <1>3 DEF Init, Passed
<1>7. KnownLeftmostLongest
  BY <1>6 DEF Init, KnownLeftmostLongest
<1> QED
  BY <1>4, <1>5, <1>7 DEF IInv

\* What the labels and the runs of a text are does not change.
LEMMA SameText ==
  ASSUME UNCHANGED <<text, graph>>
  PROVE  Span' = Span /\ \A i : MatchesAt(i)' = MatchesAt(i)
  BY DEF Span, MatchesAt, Phrase, Name

LEMMA MatchIInv == ASSUME IInv, Match PROVE IInv'
<1> DEFINE m == Longest(MatchesAt(cursor))
<1>1. text \in Seq(Token) /\ cursor \in 1..Len(text) /\ Len(text) \in Nat
  BY DEF IInv, TypeOK, Match, InText
<1>2. m \in MatchesAt(cursor) /\ \A s \in MatchesAt(cursor) : s[2] <= m[2]
  BY <1>1, LongestMatch DEF Match
<1>3. m \in Span /\ m[1] = cursor /\ m[2] \in cursor..Len(text)
  BY <1>1, <1>2 DEF MatchesAt, Span
<1>4. /\ known' = known \cup {m} /\ cursor' = m[2] + 1 /\ phase = "gazetteer"
      /\ UNCHANGED <<text, graph, phase, candidates, entities, claims>>
  BY DEF Match
<1> HIDE DEF m
<1>5. TypeOK'
  BY <1>1, <1>3, <1>4, SameText DEF IInv, TypeOK
<1>6. \A s \in known : s \in Span /\ s[2] < cursor
  BY <1>4 DEF IInv, Cursors, TypeOK
<1>7. Cursors'
  BY <1>1, <1>3, <1>4, <1>6 DEF IInv, Cursors, Span
<1>8. KnownLeftmostLongest'
  <2>1. \A s, t \in known' : s = t \/ Apart(s, t)
    BY <1>1, <1>3, <1>4, <1>6 DEF IInv, KnownLeftmostLongest, Apart, Span
  <2>2. ASSUME NEW i \in Passed', NEW s \in MatchesAt(i)
        PROVE \E k \in known' : k[1] <= i /\ i <= k[2] /\ (k[1] = i => s[2] <= k[2])
    <3>1. i \in 1..m[2]
      BY <2>2, <1>1, <1>3, <1>4 DEF Passed
    <3>2. CASE i < cursor
      <4>1. i \in Passed
        BY <3>1, <3>2, <1>1, <1>3, <1>4 DEF Passed
      <4> QED
        BY <4>1, <2>2, <1>4 DEF IInv, KnownLeftmostLongest
    <3>3. CASE i >= cursor
      <4>1. m[1] <= i /\ i <= m[2]
        BY <3>1, <3>3, <1>1, <1>3
      <4>2. m[1] = i => s[2] <= m[2]
        BY <1>2, <1>3, <2>2
      <4> QED
        BY <4>1, <4>2, <1>4
    <3> QED
      BY <3>1, <3>2, <3>3, <1>1, <1>3
  <2> QED
    BY <2>1, <2>2, <1>4, SameText DEF KnownLeftmostLongest, Apart
<1>9. (CandidatesApart /\ EntitiesApartOrAround /\ Endings)'
  BY <1>4 DEF IInv, Cursors, CandidatesApart, EntitiesApartOrAround, Endings
<1> QED
  BY <1>5, <1>7, <1>8, <1>9 DEF IInv

LEMMA NoMatchIInv == ASSUME IInv, NoMatch PROVE IInv'
<1>1. text \in Seq(Token) /\ cursor \in 1..Len(text) /\ Len(text) \in Nat
  BY DEF IInv, TypeOK, NoMatch, InText
<1>2. TypeOK'
  BY <1>1, SameText DEF IInv, TypeOK, NoMatch
<1>3. \A s \in known : s \in Span /\ s[2] < cursor
  BY DEF IInv, Cursors, TypeOK, NoMatch
<1>4. Cursors'
  BY <1>1, <1>3 DEF IInv, Cursors, NoMatch, Span
<1>5. KnownLeftmostLongest'
  <2>1. ASSUME NEW i \in Passed', NEW s \in MatchesAt(i) PROVE i \in Passed
    BY <2>1, <1>1 DEF NoMatch, Passed
  <2> QED
    BY <2>1, SameText DEF IInv, KnownLeftmostLongest, NoMatch, Apart
<1>6. (CandidatesApart /\ EntitiesApartOrAround /\ Endings)'
  BY DEF IInv, CandidatesApart, EntitiesApartOrAround, Endings, NoMatch
<1> QED
  BY <1>2, <1>4, <1>5, <1>6 DEF IInv

\* Outside the gazetteer's loop, what it has found stays as it is.
LEMMA KnownStays ==
  ASSUME IInv, UNCHANGED <<text, graph, known>>, phase # "gazetteer", phase' # "gazetteer"
  PROVE  KnownLeftmostLongest'
<1>1. Passed' = Passed
  BY DEF Passed
<1> QED
  BY <1>1, SameText DEF IInv, KnownLeftmostLongest, Apart

LEMMA EndMatchingIInv == ASSUME IInv, EndMatching PROVE IInv'
<1>1. text \in Seq(Token) /\ Len(text) \in Nat /\ cursor = Len(text) + 1
  BY DEF IInv, TypeOK, EndMatching, InText
<1>2. TypeOK'
  BY <1>1, SameText DEF IInv, TypeOK, EndMatching
<1>3. Cursors' /\ CandidatesApart' /\ Endings'
  BY DEF IInv, Cursors, CandidatesApart, Endings, EndMatching
<1>4. Passed' = Passed
  BY <1>1 DEF Passed, EndMatching
<1>5. KnownLeftmostLongest'
  BY <1>4, SameText DEF IInv, KnownLeftmostLongest, EndMatching, Apart
<1>6. EntitiesApartOrAround'
  BY DEF IInv, KnownLeftmostLongest, EntitiesApartOrAround, EndMatching, Apart
<1> QED
  BY <1>2, <1>3, <1>5, <1>6 DEF IInv

LEMMA SkipIInv == ASSUME IInv, Skip PROVE IInv'
<1>1. text \in Seq(Token) /\ cursor \in 1..Len(text) /\ Len(text) \in Nat
  BY DEF IInv, TypeOK, Skip, InText
<1>2. TypeOK'
  BY <1>1, SameText DEF IInv, TypeOK, Skip
<1>3. \A c \in candidates : c \in Span /\ c[2] < cursor
  BY DEF IInv, Cursors, TypeOK, Skip
<1>4. Cursors'
  BY <1>1, <1>3 DEF IInv, Cursors, Skip, Span
<1>5. (CandidatesApart /\ EntitiesApartOrAround /\ Endings)'
  BY DEF IInv, CandidatesApart, EntitiesApartOrAround, Endings, Skip
<1>6. KnownLeftmostLongest'
  BY KnownStays DEF Skip
<1> QED
  BY <1>2, <1>4, <1>5, <1>6 DEF IInv

LEMMA GuessIInv == ASSUME IInv, Guess PROVE IInv'
<1> DEFINE run == Run(cursor)
<1>1. text \in Seq(Token) /\ cursor \in 1..Len(text) /\ Len(text) \in Nat
  BY DEF IInv, TypeOK, Guess, InText
<1>2. run \in Span /\ run[1] = cursor
  BY <1>1, RunEnds DEF Guess
<1>3. run[2] \in cursor..Len(text)
  BY <1>1, <1>2 DEF Span
<1>4. /\ candidates' \subseteq candidates \cup {run} /\ cursor' = run[2] + 1
      /\ phase = "pattern" /\ UNCHANGED <<text, graph, phase, known, entities, claims>>
  BY DEF Guess
<1> HIDE DEF run
<1>5. TypeOK'
  BY <1>1, <1>2, <1>3, <1>4, SameText DEF IInv, TypeOK
<1>6. \A c \in candidates : c \in Span /\ c[2] < cursor
  BY <1>4 DEF IInv, Cursors, TypeOK
<1>7. Cursors'
  BY <1>1, <1>3, <1>4, <1>6 DEF IInv, Cursors, Span
<1>8. CandidatesApart'
  <2>1. \A c, d \in candidates' : c = d \/ Apart(c, d)
    BY <1>1, <1>2, <1>3, <1>4, <1>6 DEF IInv, CandidatesApart, Apart, Span
  <2> QED
    BY <2>1, <1>4 DEF IInv, Cursors, CandidatesApart, Apart
<1>9. (EntitiesApartOrAround /\ Endings)'
  BY <1>4 DEF IInv, EntitiesApartOrAround, Endings
<1>10. KnownLeftmostLongest'
  BY <1>4, KnownStays
<1> QED
  BY <1>5, <1>7, <1>8, <1>9, <1>10 DEF IInv

LEMMA MergeCandidateIInv == ASSUME IInv, MergeCandidate PROVE IInv'
<1>1. PICK c \in candidates :
        /\ candidates' = candidates \ {c}
        /\ entities' = IF \E s \in entities : Overlaps(c, s) THEN entities
                       ELSE entities \cup {c}
  BY DEF MergeCandidate
<1>2. phase = "merge" /\ UNCHANGED <<text, graph, phase, cursor, known, claims>>
  BY DEF MergeCandidate
<1>3. KnownLeftmostLongest'
  BY <1>2, KnownStays
<1>4. TypeOK'
  BY <1>1, <1>2, SameText DEF IInv, TypeOK
<1>5. Cursors' /\ Endings'
  BY <1>1, <1>2 DEF IInv, Cursors, Endings
<1>6. CASE entities' = entities
  BY <1>1, <1>2, <1>3, <1>4, <1>5, <1>6
     DEF IInv, CandidatesApart, EntitiesApartOrAround
<1>7. CASE entities' # entities
  <2>1. entities' = entities \cup {c} /\ \A s \in entities : Apart(c, s) \/ Encloses(c, s)
    BY <1>1, <1>7 DEF Overlaps
  <2>2. c \in Span /\ c[1] \in Nat /\ c[2] \in Nat /\ c[1] <= c[2]
    BY DEF IInv, TypeOK, Span
  <2>3. c \notin entities
    BY <2>1, <2>2 DEF Apart, Encloses
  <2>4. c \notin known
    BY <2>3, <1>2 DEF IInv, Cursors
  <2>5. CandidatesApart'
    BY <1>1, <1>2, <2>1, <2>4 DEF IInv, CandidatesApart, Apart
  <2>6. \A e \in entities : Apart(c, e) \/ (e \in known /\ Encloses(c, e))
    BY <2>1, <1>1 DEF IInv, CandidatesApart
  <2>7. \A e \in entities : Apart(c, e) => Apart(e, c)
    BY DEF Apart
  <2>8. EntitiesApartOrAround'
    BY <2>1, <2>4, <2>6, <2>7, <1>2 DEF IInv, EntitiesApartOrAround
  <2> QED
    BY <1>3, <1>4, <1>5, <2>5, <2>8 DEF IInv
<1> QED
  BY <1>6, <1>7

LEMMA PanicIInv == ASSUME IInv, Panic PROVE IInv'
<1>1. ASSUME NEW e \in entities, NEW f \in entities, Backwards(e, f)
      PROVE  e \in entities \ known /\ f \in known /\ Encloses(e, f)
  <2>1. /\ e[1] \in Nat /\ e[2] \in Nat /\ f[1] \in Nat /\ f[2] \in Nat
        /\ e[1] < f[1] /\ f[1] <= e[2] /\ f[1] <= f[2]
    BY <1>1 DEF IInv, TypeOK, Span, Backwards
  <2>2. e # f /\ ~Apart(e, f) /\ ~Encloses(f, e)
    BY <2>1 DEF Apart, Encloses
  <2> QED
    BY <2>2 DEF IInv, EntitiesApartOrAround
<1>2. \/ \E e \in entities \ known, f \in known : Encloses(e, f)
      \/ \E e \in entities : Askew(e)
  BY <1>1 DEF Panic
<1>3. TypeOK' /\ Cursors' /\ CandidatesApart' /\ EntitiesApartOrAround'
  BY SameText
     DEF IInv, TypeOK, Cursors, CandidatesApart, EntitiesApartOrAround, Panic, Apart, Encloses
<1>4. Endings'
  BY <1>2 DEF Endings, Panic, Encloses, Askew
<1>5. KnownLeftmostLongest'
  BY KnownStays DEF Panic
<1> QED
  BY <1>3, <1>4, <1>5 DEF IInv

LEMMA ClaimIInv == ASSUME IInv, Claim PROVE IInv'
<1>1. TypeOK' /\ Cursors' /\ CandidatesApart' /\ EntitiesApartOrAround'
  BY SameText
     DEF IInv, TypeOK, Cursors, CandidatesApart, EntitiesApartOrAround, Claim, Apart, Encloses
<1>2. ASSUME NEW e \in entities, NEW f \in known, Encloses(e, f) PROVE FALSE
  <2>1. f \in entities
    BY DEF IInv, Cursors, Claim
  <2>2. /\ e[1] \in Nat /\ e[2] \in Nat /\ f[1] \in Nat /\ f[2] \in Nat
        /\ e[1] < f[1] /\ f[2] < e[2] /\ f[1] <= f[2]
    BY <1>2 DEF IInv, TypeOK, Span, Encloses
  <2> QED
    BY <2>1, <2>2 DEF Backwards, Claim
<1>3. Endings'
  BY <1>2 DEF Endings, Claim, Encloses
<1>4. KnownLeftmostLongest'
  BY KnownStays DEF Claim
<1> QED
  BY <1>1, <1>3, <1>4 DEF IInv

LEMMA NextIInv == IInv /\ [Next]_vars => IInv'
<1> SUFFICES ASSUME IInv, [Next]_vars PROVE IInv'
  OBVIOUS
<1>1. CASE EndGuessing \/ EndMerging
  <2>1. KnownLeftmostLongest'
    BY <1>1, KnownStays DEF EndGuessing, EndMerging
  <2> QED
    BY <1>1, <2>1, SameText
       DEF IInv, TypeOK, Cursors, CandidatesApart, EntitiesApartOrAround, Endings,
           EndGuessing, EndMerging, Apart, Encloses
<1>2. CASE UNCHANGED vars
  <2>1. Passed' = Passed
    BY <1>2 DEF vars, Passed
  <2> QED
    BY <1>2, <2>1, SameText
       DEF IInv, TypeOK, Cursors, CandidatesApart, EntitiesApartOrAround, Endings,
           KnownLeftmostLongest, vars, Apart, Encloses, Askew
<1> QED
  BY <1>1, <1>2, MatchIInv, NoMatchIInv, EndMatchingIInv, SkipIInv, GuessIInv,
     MergeCandidateIInv, PanicIInv, ClaimIInv DEF Next, Terminated

\* The loops of extract keep their cursors in the text and their parts of the result
\* in order, for any text and graph.
THEOREM ExtractionInvariant == Spec => []IInv
  BY InitIInv, NextIInv, PTL DEF Spec

\* The types: no loop leaves the text.
THEOREM ExtractionTypes == Spec => []TypeOK
<1>1. IInv => TypeOK
  BY DEF IInv
<1> QED
  BY <1>1, ExtractionInvariant, PTL

\* gazetteer_find_matches finds the leftmost longest labels, and they are apart.
THEOREM GazetteerCorrect == Spec => []KnownLeftmostLongest
<1>1. IInv => KnownLeftmostLongest
  BY DEF IInv
<1> QED
  BY <1>1, ExtractionInvariant, PTL

\* claim_extract panics only when a run of capitalised words was merged around a known
\* entity, where it always does, or when a letter whose lower case has another length
\* comes before an entity.
THEOREM PanicsExplained == Spec => []PanicsOnlyAroundKnown
<1>1. IInv => PanicsOnlyAroundKnown
  BY DEF IInv, EntitiesApartOrAround, Endings, PanicsOnlyAroundKnown
<1> QED
  BY <1>1, ExtractionInvariant, PTL

-----------------------------------------------------------------------------
(* Claims are read in the last step. *)

ClaimsLast == phase # "done" => claims = {}

\* What claims the text between two entities holds does not change.
LEMMA SameClaims ==
  ASSUME UNCHANGED text
  PROVE  /\ \A e : Name(e)' = Name(e) /\ Askew(e)' = Askew(e)
         /\ \A e, f, t : Linked(e, f, t)' = Linked(e, f, t)
         /\ \A e, f : Between(e, f)' = Between(e, f)
         /\ \A i : Negation(i)' = Negation(i)
         /\ \A e, f, i : Overlooked(e, f, i)' = Overlooked(e, f, i)
  BY DEF Name, Askew, Linked, StandsAt, Between, Negation, Contracted, Overlooked,
         WordAt, GapBefore

\* A pair that is readable has no negation but those the slice hides.
LEMMA ReadableNegations ==
  ASSUME TypeOK, NEW e \in Span, NEW f \in Span, Readable(e, f),
         NEW i \in Between(e, f), Negation(i)
  PROVE  Overlooked(e, f, i)
<1>1. e[2] \in Int /\ f[1] \in Int
  BY DEF TypeOK, Span
<1>2. i \in Int /\ e[2] + 1 <= i /\ i <= f[1] - 1
  BY <1>1 DEF Between
<1>3. i - 2 \notin Between(e, f) => i - 1 = e[2] \/ i - 2 = e[2]
  BY <1>1, <1>2 DEF Between
<1>4. (i = f[1] - 1 <=> i + 1 = f[1]) /\ (i = e[2] + 1 <=> i - 1 = e[2])
  BY <1>1, <1>2
<1> QED
  BY <1>3, <1>4 DEF Readable, Negated, Negation, Overlooked

LEMMA ClaimNegations == ASSUME TypeOK, Claim PROVE NegationOnlyAtEdges'
<1> SUFFICES ASSUME NEW c \in claims', c.subject # Implied
             PROVE  \E e, f \in entities :
                      /\ Name(e) = c.subject /\ Name(f) = c.object /\ e[2] < f[1]
                      /\ \/ Askew(f)
                         \/ /\ Linked(e, f, c.type)
                            /\ \A i \in Between(e, f) : Negation(i) => Overlooked(e, f, i)
  BY SameClaims DEF Claim, NegationOnlyAtEdges
<1>1. c \in ProperClaims \/ c \in AskewClaims
  BY DEF Claim
<1>2. entities \subseteq Span
  BY DEF TypeOK
<1>3. ASSUME NEW e \in entities, NEW f \in entities, e[1] < f[1]
      PROVE  e[2] < f[1]
  <2>1. e[1] \in Nat /\ e[2] \in Nat /\ f[1] \in Nat /\ f[2] \in Nat
    BY <1>2 DEF TypeOK, Span
  <2> QED
    BY <1>3, <2>1 DEF Claim, Backwards
<1>4. CASE c \in AskewClaims
  <2>1. PICK f \in entities :
          /\ Askew(f) /\ c.object = Name(f)
          /\ c.subject \in {Name(d) : d \in {g \in entities : g[1] < f[1]}} \cup {Implied}
    BY <1>4 DEF AskewClaims
  <2>2. PICK e \in entities : e[1] < f[1] /\ c.subject = Name(e)
    BY <2>1
  <2> QED
    BY <1>3, <2>1, <2>2
<1>5. CASE c \in ProperClaims
  <2>1. ~\E e \in entities : c \in ImpliedClaims(e)
    BY DEF ImpliedClaims
  <2>2. PICK p \in entities \X entities :
          Readable(p[1], p[2]) /\ c \in PairClaims(p[1], p[2])
    BY <1>5, <2>1 DEF ProperClaims
  <2>3. /\ p[1] \in entities /\ p[2] \in entities /\ p[1][1] < p[2][1]
    BY <2>2 DEF Readable
  <2>4. /\ Name(p[1]) = c.subject /\ Name(p[2]) = c.object
        /\ Linked(p[1], p[2], c.type)
    BY <2>2 DEF PairClaims
  <2>5. \A i \in Between(p[1], p[2]) : Negation(i) => Overlooked(p[1], p[2], i)
    BY <1>2, <2>2, <2>3, ReadableNegations
  <2> QED
    BY <1>3, <2>3, <2>4, <2>5
<1> QED
  BY <1>1, <1>4, <1>5

\* A claim has a negation between its entities only where it lacks the blanks it is
\* looked for with, or behind a letter whose lower case has another length.
THEOREM NegationExplained == Spec => []NegationOnlyAtEdges
<1>1. Init => ClaimsLast /\ NegationOnlyAtEdges
  BY DEF Init, ClaimsLast, NegationOnlyAtEdges
<1>2. TypeOK /\ ClaimsLast /\ NegationOnlyAtEdges /\ [Next]_vars => (ClaimsLast /\ NegationOnlyAtEdges)'
  <2> SUFFICES ASSUME TypeOK, ClaimsLast, NegationOnlyAtEdges, [Next]_vars
               PROVE  (ClaimsLast /\ NegationOnlyAtEdges)'
    OBVIOUS
  <2>1. CASE Claim
    BY <2>1, ClaimNegations DEF ClaimsLast, Claim
  <2>2. CASE UNCHANGED vars
    BY <2>2, SameClaims DEF vars, ClaimsLast, NegationOnlyAtEdges
  <2>3. CASE \/ Match \/ NoMatch \/ EndMatching \/ Skip \/ Guess \/ EndGuessing
             \/ MergeCandidate \/ EndMerging \/ Panic
    <3>1. claims' = {} /\ phase' # "done"
      BY <2>3 DEF ClaimsLast, Match, NoMatch, EndMatching, Skip, Guess, EndGuessing,
                  MergeCandidate, EndMerging, Panic
    <3> QED
      BY <3>1 DEF ClaimsLast, NegationOnlyAtEdges
  <2> QED
    BY <2>1, <2>2, <2>3 DEF Next, Terminated
<1> QED
  BY <1>1, <1>2, ExtractionTypes, PTL DEF Spec
=============================================================================
