\* Two processes over one directory, two requests: a retrieval, a write that merges
\* the index and a plain write cover the lock patterns of all endpoints.
CONSTANTS
  Processes = {p1, p2}
  NoProcess = NoProcess
  MaxRetries = 2
  UptimeLimit = TRUE
  Requests = {r1, r2}
  Endpoints = {"recall", "ingest", "write"}
  NoRequest = NoRequest
SPECIFICATION Spec
INVARIANT TypeOK
INVARIANT ServesAlone
INVARIANT ContentionExplained
PROPERTY OwnPidFile
PROPERTY EveryProcessSettles
PROPERTY EveryRequestEnds
