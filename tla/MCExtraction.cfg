\* Room for a negation with a word on either side between two entities, and for more
\* words between them than a claim may have.
CONSTANTS
  Words = {"ann", "y", "uses", "houses", "works", "on", "not", "isn", "'", "t", ",", "what"}
  SkipWords = {"what", "not", "on"}
  QuestionWords = {"what"}
  Negations = {"not"}
  EndsInN = {"ann", "isn", "on"}
  LinkTypes = {"dep"}
  Patterns <- Verbs
  Holds <- Held
  Gaps <- White
  NoGap = "none"
  Blank = "blank"
  BlankFirst = {"blank"}
  BlankLast = {"blank"}
  Texts <- AllTexts
  Graphs <- AllGraphs
  Window = 3
  MaxBetween = 3
  MaxTokens = 5
  MaxInner = 4
  MaxOdd = 4
  Implied = Implied
SPECIFICATION Spec
INVARIANT TypeOK
INVARIANT KnownLeftmostLongest
INVARIANT PanicsOnlyAroundKnown
INVARIANT NegationOnlyAtEdges
