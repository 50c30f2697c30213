\* Nodes, tags, turns, properties and the node maps: two nodes, one property key, no links.
CONSTANTS
  NodeIds = {n1, n2}
  LinkIds = {}
  NodeTypes = {"entity", "turn"}
  LinkTypes = {"precedes"}
  Labels = {a}
  Tags = {t1}
  Weights = {w1}
  Keys = {k1}
  TurnKeys = {k1}
  TurnWeight = w1
  Absent = Absent
  NoTxn = NoTxn
  MaxBatch = 2
SPECIFICATION Spec
SYMMETRY Symmetry
INVARIANT TypeOK
INVARIANT NoNodeMissing
INVARIANT OnlyTurnsArePhantoms
INVARIANT StaleOnlyIfRawUpdated
INVARIANT TagIndexExact
PROPERTY WritesAreAtomic
PROPERTY AcknowledgedWritesRead
