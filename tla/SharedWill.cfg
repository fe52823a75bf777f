SPECIFICATION Spec
CONSTANTS
  Conns = {"s", "x1", "x2"}
  ClientIds = {"s", "x"}
  EmptyId = ""
  AutoId <- SharedAuto
  Filters = {"f"}
  ValidFilters = {"f"}
  Topics = {"t"}
  Matching <- MCMatching
  Chain <- Transparent
  Suppress = Suppress
  Connects <- SharedConnects
  Requests <- SharedRequests
  Resets = {}
  MaxReads = 1
  MaxId = 2
  None = None
INVARIANT WillOnlyAfterCrash
