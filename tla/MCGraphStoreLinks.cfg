\* Links: two ids, two types, two weights; untagged nodes.
CONSTANTS
  NodeIds = {n1, n2}
  LinkIds = {l1}
  NodeTypes = {"entity", "turn"}
  LinkTypes = {"relates", "precedes"}
  Labels = {a}
  Tags = {}
  Weights = {w1, w2}
  Keys = {}
  TurnKeys = {}
  TurnWeight = w1
  Absent = Absent
  NoTxn = NoTxn
  MaxBatch = 3
SPECIFICATION Spec
SYMMETRY Symmetry
INVARIANT LinksJoinNodes
INVARIANT LinkCacheAgrees
PROPERTY WritesAreAtomic
