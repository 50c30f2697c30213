---------------------------- MODULE MCExtraction ----------------------------
(***************************************************************************)
(* Extraction for TLC.  The texts come in families: any order of names,    *)
(* verbs and negations between single blanks; any words, punctuation and   *)
(* white space between two names; questions; names with letters whose      *)
(* lower case has another length.                                          *)
(***************************************************************************)
EXTENDS Extraction, SequencesExt

CONSTANTS MaxTokens, MaxInner, MaxOdd

Lower(w, gap) == [word |-> w, capital |-> FALSE, gap |-> gap, uneven |-> FALSE]
Upper(w) == [word |-> w, capital |-> TRUE, gap |-> Blank, uneven |-> FALSE]
Uneven(w) == [Upper(w) EXCEPT !.uneven = TRUE]

Plain ==
  BoundedSeq({Upper("ann"), Upper("y"), Lower("ann", Blank), Lower("uses", Blank),
              Lower("not", Blank), Upper("what")}, MaxTokens)

Inner ==
  {Lower("uses", Blank), Lower("not", Blank), Lower("not", "line"), Lower(",", NoGap),
   Lower("isn", Blank), Lower("'", NoGap), Lower("t", NoGap), Lower("works", "line"),
   Lower("on", Blank), Lower("on", "line")}

\* White space in front of a word: only punctuation may touch another token.
Spaced ==
  {<<Upper("ann")>> \o mid \o <<[Upper("y") EXCEPT !.gap = g]>> :
     mid \in {m \in BoundedSeq(Inner, MaxInner) :
                \A i \in 1..Len(m) : m[i].word = "t" => i > 1 /\ m[i - 1].word = "'"},
     g \in {Blank, "line"}}

Odd ==
  BoundedSeq({Upper("ann"), Uneven("y"), Upper("what"), Lower("uses", Blank),
              Lower("uses", "line"), Lower("houses", Blank), Lower(",", NoGap)}, MaxOdd)

AllTexts == Plain \cup Spaced \cup Odd

White == {"none", "blank", "line"}

\* "ann", and "ann y".
Labels ==
  LET ann == [word |-> "ann", gap |-> NoGap]
      y == [word |-> "y", gap |-> Blank]
  IN {<<ann>>, <<ann, y>>}
AllGraphs == SUBSET Labels

Verbs == [t \in LinkTypes |-> {<<"uses">>, <<"works", "on">>}]
Held == [t \in LinkTypes |-> {<<"uses">>, <<"houses">>, <<"works", "on">>}]
=============================================================================
