----------------------------- MODULE Extraction -----------------------------
(***************************************************************************)
(* The extraction heuristic behind POST /extract and /ingest               *)
(* (ilo/src/extract.rs), loop by loop: known entities are matched against  *)
(* the labels of the graph (the gazetteer), new ones are guessed from runs *)
(* of capitalised words, both are merged, and claims are read off the text *)
(* between two entities.                                                   *)
(*                                                                         *)
(* A text is the sequence of its tokens, each with the white space before  *)
(* it; positions are token positions, a span is the first and the last     *)
(* token of an entity.  Claims are looked for in slices of the lower case  *)
(* of the text, but at the byte positions of the text itself.  A letter    *)
(* whose lower case takes another number of bytes makes a token uneven:    *)
(* behind it the slices are askew, and what they hold, if there is such a  *)
(* slice, is any text.  Confidences are left out.                          *)
(***************************************************************************)
EXTENDS Integers, Sequences, FiniteSets

CONSTANTS
  Words,        \* lower-case forms of words and punctuation
  SkipWords,    \* is_stop_word or is_question_word
  QuestionWords,\* is_question_word
  Negations,    \* not, never, no
  EndsInN,      \* the words that end in n
  LinkTypes,
  Patterns,     \* Patterns[t]: LINK_PATTERNS of link type t, each one word or more
  Holds,        \* Holds[t]: the words, or sequences of words, that contain a pattern of t
  Gaps,         \* white space between two tokens
  NoGap, Blank, \* none, and one blank
  BlankFirst, BlankLast, \* that begins, or ends, with a blank
  Texts,        \* the texts that are sent
  Graphs,       \* what the graph may hold: sets of labels, in lower case
  Window,       \* tokens of the longest label the gazetteer tries (10)
  MaxBetween,   \* words between the two entities of a claim (5)
  Implied       \* the subject "[implied]"

\* tokenize: punctuation is a token of its own, white space is not.
Token == [word : Words, capital : BOOLEAN, gap : Gaps, uneven : BOOLEAN]
Label == [word : Words, gap : Gaps]

ASSUME ExtractionAssumption ==
  /\ Texts \subseteq Seq(Token)
  /\ Graphs \subseteq SUBSET Seq(Label)
  /\ NoGap \in Gaps \ (BlankFirst \cup BlankLast)
  /\ Blank \in BlankFirst \cap BlankLast /\ BlankFirst \cup BlankLast \subseteq Gaps
  /\ Window \in Nat \ {0}

VARIABLES
  text, graph,
  phase,        \* the loop extract is in, or its end
  cursor,       \* the token it is at
  known,        \* the spans of gazetteer_find_matches
  candidates,   \* the spans of pattern_find_candidates that are not merged yet
  entities,     \* merged
  claims

vars == <<text, graph, phase, cursor, known, candidates, entities, claims>>

Span == {s \in (1..Len(text)) \X (1..Len(text)) : s[1] <= s[2]}

Init ==
  /\ text \in Texts /\ graph \in Graphs
  /\ phase = IF text = << >> THEN "done" ELSE "gazetteer"
  /\ cursor = 1
  /\ known = {} /\ candidates = {} /\ entities = {} /\ claims = {}

-----------------------------------------------------------------------------
(* Known entities *)

WordAt(i) == text[i].word
GapBefore(i) == text[i].gap

\* text[start..end]: without the white space before it.
Name(s) ==
  [k \in 1..(s[2] - s[1] + 1) |->
     IF k = 1 THEN [text[s[1]] EXCEPT !.gap = NoGap] ELSE text[s[1] + k - 1]]

\* Its lower case.
Phrase(s) == [k \in DOMAIN Name(s) |-> [word |-> Name(s)[k].word, gap |-> Name(s)[k].gap]]

\* The labels that begin at token i.
MatchesAt(i) ==
  {s \in {i} \X (i..Len(text)) : s[2] < i + Window /\ Phrase(s) \in graph}

\* Mutant: the first match is taken.
Shortest(spans) == CHOOSE s \in spans : \A t \in spans : s[2] <= t[2]

Longest(spans) == CHOOSE s \in spans : \A t \in spans : t[2] <= s[2]

InText == cursor <= Len(text)

\* Mutant: the cursor passes the match and the token behind it.
MatchPassing ==
  /\ phase = "gazetteer" /\ InText /\ MatchesAt(cursor) # {}
  /\ known' = known \cup {Longest(MatchesAt(cursor))}
  /\ cursor' = Longest(MatchesAt(cursor))[2] + 2
  /\ UNCHANGED <<text, graph, phase, candidates, entities, claims>>

Match ==
  /\ phase = "gazetteer" /\ InText /\ MatchesAt(cursor) # {}
  /\ known' = known \cup {Longest(MatchesAt(cursor))}
  /\ cursor' = Longest(MatchesAt(cursor))[2] + 1
  /\ UNCHANGED <<text, graph, phase, candidates, entities, claims>>

NoMatch ==
  /\ phase = "gazetteer" /\ InText /\ MatchesAt(cursor) = {}
  /\ cursor' = cursor + 1
  /\ UNCHANGED <<text, graph, phase, known, candidates, entities, claims>>

EndMatching ==
  /\ phase = "gazetteer" /\ ~InText
  /\ phase' = "pattern" /\ cursor' = 1
  /\ entities' = known
  /\ UNCHANGED <<text, graph, known, candidates, claims>>

-----------------------------------------------------------------------------
(* Guessed entities *)

\* A capitalised word that is no stop or question word.
Starter(i) ==
  /\ text[i].capital
  /\ text[i].word \notin SkipWords

\* The run of starters that begins at i.
Run(i) ==
  CHOOSE s \in {i} \X (i..Len(text)) :
    /\ \A k \in s[1]..s[2] : Starter(k)
    /\ s[2] < Len(text) => ~Starter(s[2] + 1)

Skip ==
  /\ phase = "pattern" /\ InText /\ ~Starter(cursor)
  /\ cursor' = cursor + 1
  /\ UNCHANGED <<text, graph, phase, known, candidates, entities, claims>>

\* A single word is not guessed if it is known.
Guess ==
  /\ phase = "pattern" /\ InText /\ Starter(cursor)
  /\ LET run == Run(cursor)
     IN /\ candidates' = IF run[1] = run[2] /\ run \in known THEN candidates
                         ELSE candidates \cup {run}
        /\ cursor' = run[2] + 1
  /\ UNCHANGED <<text, graph, phase, known, entities, claims>>

EndGuessing ==
  /\ phase = "pattern" /\ ~InText
  /\ phase' = "merge"
  /\ UNCHANGED <<text, graph, cursor, known, candidates, entities, claims>>

Apart(s, t) == s[2] < t[1] \/ t[2] < s[1]
Encloses(s, t) == s[1] < t[1] /\ t[2] < s[2]

\* Mutant: not strictly.
OverlapsLoosely(c, s) == ~Apart(c, s) /\ ~(c[1] <= s[1] /\ s[2] <= c[2])

\* The overlap test of extract, which a candidate around a known entity passes.
Overlaps(c, s) == ~Apart(c, s) /\ ~Encloses(c, s)

\* Candidates are merged in the order they were found, which is the order of the text.
MergeCandidate ==
  /\ phase = "merge"
  /\ \E c \in candidates :
       /\ \A d \in candidates : c[1] <= d[1]
       /\ candidates' = candidates \ {c}
       /\ entities' = IF \E s \in entities : Overlaps(c, s) THEN entities
                      ELSE entities \cup {c}
  /\ UNCHANGED <<text, graph, phase, cursor, known, claims>>

EndMerging ==
  /\ phase = "merge" /\ candidates = {}
  /\ phase' = "claims"
  /\ UNCHANGED <<text, graph, cursor, known, candidates, entities, claims>>

-----------------------------------------------------------------------------
(* Claims *)

\* lower[e1.end..e2.start], of two entities in the order of their starts.
Backwards(e, f) == e[1] < f[1] /\ f[1] <= e[2]
Between(e, f) == (e[2] + 1)..(f[1] - 1)

\* The slices that end where e starts are askew.
Askew(e) == \E k \in 1..(e[1] - 1) : text[k].uneven

\* The t of "n't": three tokens without white space.
Contracted(i) ==
  /\ i > 2 /\ WordAt(i - 2) \in EndsInN /\ WordAt(i - 1) = "'" /\ WordAt(i) = "t"
  /\ GapBefore(i - 1) = NoGap /\ GapBefore(i) = NoGap

\* Mutant: negations are not looked for.
NegatedNever(e, f) == FALSE

\* " not ", " never ", " no " and "n't " in the trimmed slice: the blanks have to be in
\* it, and be blanks.
Negated(e, f) ==
  \E i \in Between(e, f) :
    /\ i # f[1] - 1 /\ GapBefore(i + 1) \in BlankFirst
    /\ \/ WordAt(i) \in Negations /\ i # e[2] + 1 /\ GapBefore(i) \in BlankLast
       \/ Contracted(i) /\ i - 2 \in Between(e, f)

\* Words as split_whitespace counts them: punctuation belongs to the word it touches.
Parts(e, f) == {i \in Between(e, f) : i = e[2] + 1 \/ GapBefore(i) # NoGap}

Readable(e, f) ==
  e[1] < f[1] /\ Cardinality(Parts(e, f)) <= MaxBetween /\ ~Negated(e, f)

\* The words h stand at token i, with one blank between any two.
StandsAt(h, i) ==
  /\ i + Len(h) - 1 <= Len(text)
  /\ \A k \in 1..Len(h) : WordAt(i + k - 1) = h[k] /\ (k > 1 => GapBefore(i + k - 1) = Blank)

\* A pattern between the two.
Linked(e, f, t) ==
  \E h \in Holds[t] : \E i \in Between(e, f) : StandsAt(h, i) /\ i + Len(h) <= f[1]

PairClaims(e, f) ==
  {[subject |-> Name(e), type |-> t, object |-> Name(f)] :
     t \in {u \in LinkTypes : Linked(e, f, u)}}

\* "Who uses X?": a question word between white space, a blank, a pattern, the entity.
Asked(e, t) ==
  \E p \in Patterns[t] :
    LET i == e[1] - Len(p)
    IN /\ i > 1 /\ StandsAt(p, i) /\ GapBefore(i) \in BlankLast
       /\ WordAt(i - 1) \in QuestionWords /\ (i = 2 \/ GapBefore(i - 1) # NoGap)

ImpliedClaims(e) ==
  {[subject |-> Implied, type |-> t, object |-> Name(e)] :
     t \in {u \in LinkTypes : Asked(e, u)}}

\* The claims that slices of the lower case at the right places hold, and those that
\* the others may.
ProperClaims ==
  LET straight == {e \in entities : ~Askew(e)}
  IN (UNION {PairClaims(p[1], p[2]) :
               p \in {q \in entities \X straight : Readable(q[1], q[2])}})
     \cup (UNION {ImpliedClaims(e) : e \in straight})

AskewClaims ==
  UNION {[subject : {Name(d) : d \in {g \in entities : g[1] < e[1]}} \cup {Implied},
          type : LinkTypes, object : {Name(e)}] : e \in {g \in entities : Askew(g)}}

\* A slice that ends before it begins panics, and the request ends without an answer.
\* So may a slice that is askew: its end may lie behind the text, or in a letter.
Panic ==
  /\ phase = "claims"
  /\ \/ \E e, f \in entities : Backwards(e, f)
     \/ \E e \in entities : Askew(e)
  /\ phase' = "panicked"
  /\ UNCHANGED <<text, graph, cursor, known, candidates, entities, claims>>

\* claim_extract; a claim is kept once.
Claim ==
  /\ phase = "claims"
  /\ ~\E e, f \in entities : Backwards(e, f)
  /\ \E found \in SUBSET AskewClaims : claims' = ProperClaims \cup found
  /\ phase' = "done"
  /\ UNCHANGED <<text, graph, cursor, known, candidates, entities>>

Terminated == phase \in {"done", "panicked"} /\ UNCHANGED vars

Next ==
  \/ Match \/ NoMatch \/ EndMatching
  \/ Skip \/ Guess \/ EndGuessing
  \/ MergeCandidate \/ EndMerging
  \/ Panic \/ Claim
  \/ Terminated

Spec == Init /\ [][Next]_vars

-----------------------------------------------------------------------------
(* Properties *)

\* The types; every loop stays in the text.
TypeOK ==
  /\ text \in Seq(Token) /\ graph \subseteq Seq(Label)
  /\ phase \in {"gazetteer", "pattern", "merge", "claims", "done", "panicked"}
  /\ cursor \in 1..(Len(text) + 1)
  /\ known \subseteq Span /\ candidates \subseteq Span /\ entities \subseteq Span

\* Tokens the gazetteer has passed.
Passed == IF phase = "gazetteer" THEN 1..(cursor - 1) ELSE 1..Len(text)

\* The matches are apart from one another, and they are the leftmost longest ones: a
\* label that occurs in the text begins inside a match, one that is at least as long
\* if it begins there too.
KnownLeftmostLongest ==
  /\ \A s, t \in known : s = t \/ Apart(s, t)
  /\ \A i \in Passed : \A s \in MatchesAt(i) :
       \E m \in known : m[1] <= i /\ i <= m[2] /\ (m[1] = i => s[2] <= m[2])

\* extract.rs strips symbols from the text because of panics in slicing.  Slicing still
\* panics, in two cases: a run of capitalised words goes beyond a known entity on both
\* sides ("Big Ilo Project", and "ilo" is known), or a letter whose lower case has
\* another length comes before an entity.  All other entities are apart, so that no
\* slice between two of them is empty of sense.  /ingest, which knows no entities, is
\* left with the second case.
PanicsOnlyAroundKnown ==
  /\ \A e, f \in entities :
       \/ e = f \/ Apart(e, f)
       \/ e \notin known /\ f \in known /\ Encloses(e, f)
       \/ f \notin known /\ e \in known /\ Encloses(f, e)
  /\ phase = "panicked" =>
       \/ \E e \in entities \ known, f \in known : Encloses(e, f)
       \/ \E e \in entities : Askew(e)
  /\ phase = "done" =>
       ~\E e \in entities, f \in known : Encloses(e, f)

\* A negation at token i, as a reader finds it.
Negation(i) == WordAt(i) \in Negations \/ Contracted(i)

\* A negation next to one of the entities loses the blank it is looked for with, one
\* beside punctuation or other white space never had it.
Overlooked(e, f, i) ==
  \/ i - 1 = e[2] \/ i + 1 = f[1]
  \/ Contracted(i) /\ i - 2 = e[2]
  \/ WordAt(i) \in Negations /\ GapBefore(i) \notin BlankLast
  \/ GapBefore(i + 1) \notin BlankFirst

\* test_negation has no claim read from a negated sentence.  A claim's two entities may
\* have a negation between them only where it is overlooked ("Bob not uses X",
\* "Bob works, not, uses X"), or behind a letter whose lower case has another length.
NegationOnlyAtEdges ==
  \A c \in claims : c.subject # Implied =>
    \E e, f \in entities :
      /\ Name(e) = c.subject /\ Name(f) = c.object /\ e[2] < f[1]
      /\ \/ Askew(f)
         \/ /\ Linked(e, f, c.type)
            /\ \A i \in Between(e, f) : Negation(i) => Overlooked(e, f, i)
=============================================================================
