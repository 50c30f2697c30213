\* Two requests, each made once; three nodes besides the turn, four links.  Node 2, the
\* turn and link 11 are deleted by their ids, node 2 is changed by PATCH: enough for an
\* entity that is renamed, deleted, or deleted and brought back beside one that is not.
CONSTANTS
  Requests = {r1, r2}
  NodeIds = {1, 2, 3, 9}
  TurnIds = {9}
  Addressed = {2, 9, 11}
  Patched = {2}
  LinkIds = {11, 12, 13, 14}
  NodeTypes = {"entity", "claim", "turn"}
  LinkTypes = {"relates", "references", "precedes"}
  Labels = {"x", "xy"}
  Content = "x"
  Within <- Substrings
  Shapes <- OneOfEach
  Tags = {}
  Weights = {w1}
  TurnWeight = w1
  Keys = {}
  TurnKeys = {}
  Absent = Absent
  Waiting = Waiting
  Done = Done
  Starts <- StartingPoints
SPECIFICATION Spec
SYMMETRY Symmetry
INVARIANT TypeOK
INVARIANT AckedEntitiesFound
INVARIANT IndexListsStored
 
INVARIANT AckedLinksStored
INVARIANT PhantomLinksExplained
INVARIANT DuplicatesExplained
PROPERTY DeletedComesBackByConnect
