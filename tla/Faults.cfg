SPECIFICATION Spec
CONSTANTS
  Conns = {"s", "p"}
  ClientIds = {"s", "p"}
  EmptyId = ""
  AutoId <- OwnAuto
  Filters = {"f", "bad"}
  ValidFilters = {"f"}
  Topics = {"t", "u"}
  Matching <- MCMatching
  Chain <- Meddling
  Suppress = Suppress
  Connects <- OwnConnects
  Requests <- FaultRequests
  Resets = {"p"}
  MaxReads = 3
  MaxId = 2
  None = None
INVARIANTS CopiesBounded OneReleasePerHandshake GracefulIsUnregistered
