\* Three requests, every endpoint: the one deadlock there is.
CONSTANTS
  Requests = {r1, r2, r3}
  Endpoints = {"remember", "ingest", "recall", "search", "connect",
               "resolve_write", "write", "lookup", "create_entities", "batch",
               "learn"}
  NoRequest = NoRequest
SPECIFICATION Spec
SYMMETRY Symmetry
INVARIANT OnlyOneDeadlock
