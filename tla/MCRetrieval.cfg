\* Every graph of four nodes, every choice of seeds, up to four hops.
CONSTANTS
  NodeIds = {n1, n2, n3, n4}
  MaxHops = 4
  InhibitM = 1
SPECIFICATION Spec
SYMMETRY Symmetry
INVARIANT TypeOK
INVARIANT PathsAreEvidence
INVARIANT FrontierInStep
INVARIANT LosslessFindsAll
PROPERTY DepthsOnlyGrow
CHECK_DEADLOCK FALSE
