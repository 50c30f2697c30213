\* One node is enough.
CONSTANTS
  NodeIds = {n1}
  LinkIds = {l1}
  NodeTypes = {"entity", "turn"}
  LinkTypes = {"precedes"}
  Labels = {a}
  Tags = {t1}
  Weights = {w1}
  Keys = {}
  TurnKeys = {}
  TurnWeight = w1
  Absent = Absent
  NoTxn = NoTxn
  MaxBatch = 2
SPECIFICATION Spec
INVARIANT NoCacheDesync
