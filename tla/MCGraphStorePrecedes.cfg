\* The first turn ever stored is enough.
CONSTANTS
  NodeIds = {n1}
  LinkIds = {l1}
  NodeTypes = {"entity", "turn"}
  LinkTypes = {"precedes"}
  Labels = {a}
  Tags = {}
  Weights = {w1}
  Keys = {k1}
  TurnKeys = {k1}
  TurnWeight = w1
  Absent = Absent
  NoTxn = NoTxn
  MaxBatch = 2
SPECIFICATION Spec
INVARIANT PrecedesOrdersTurns
