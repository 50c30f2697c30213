\* A recall, a merge and a writer are enough.
CONSTANTS
  Requests = {r1, r2, r3}
  Endpoints = {"recall", "ingest", "write"}
  NoRequest = NoRequest
SPECIFICATION Spec
PROPERTY RetrievalCompletes
