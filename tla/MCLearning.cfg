\* Two requests, a link learned up to three times, any of whose reads may fail.
CONSTANTS
  Requests = {r1, r2}
  NodeIds = {a, b}
  LinkIds = {ab}
  a = a
  b = b
  ab = ab
  RootA = 10
  RootB = 0
  From <- Sources
  To <- Targets
  Scale = 10
  Root <- Roots
  DefaultRoot = 7
  Weights <- Half
  MaxUsed = 3
  MaxRetrieved = 3
  MaxTime = 2
  NoRequest = NoRequest
SPECIFICATION Spec
SYMMETRY Symmetry
INVARIANT TypeOK
INVARIANT UsefulAtMostRetrieved
INVARIANT LearnedWeightIsFrequency
INVARIANT FirstUsedMarksUse
PROPERTY OnlyCoUsedLearn
PROPERTY UseMovesTowardsQuality
