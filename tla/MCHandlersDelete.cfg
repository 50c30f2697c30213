\* As MCHandlers.cfg.
CONSTANTS
  Requests = {r1, r2}
  NodeIds = {1, 2, 3, 9}
  TurnIds = {9}
  Addressed = {2, 9, 11}
  Patched = {}
  LinkIds = {11, 12, 13, 14}
  NodeTypes = {"entity", "claim", "turn"}
  LinkTypes = {"relates", "references", "precedes"}
  Labels = {"x", "xy"}
  Content = "x"
  Within <- Substrings
  Shapes <- OneOfEach
  Tags = {}
  Weights = {w1}
  TurnWeight = w1
  Keys = {}
  TurnKeys = {}
  Absent = Absent
  Waiting = Waiting
  Done = Done
  Starts <- StartingPoints
SPECIFICATION Spec
SYMMETRY Symmetry
PROPERTY DeleteKeepsOtherEntities
