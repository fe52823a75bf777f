SPECIFICATION FairSpec
CONSTANTS
  Conns = {"s", "p"}
  ClientIds = {"s", "p"}
  EmptyId = ""
  AutoId <- OwnAuto
  Filters = {"f", "all"}
  ValidFilters = {"f", "all"}
  Topics = {"t"}
  Matching <- MCMatching
  Chain <- Transparent
  Suppress = Suppress
  Connects <- OwnConnects
  Requests <- DeliveryRequests
  Resets = {}
  MaxReads = 2
  MaxId = 2
  None = None
INVARIANTS TypeOK  FanoutOrder  WillOnlyAfterCrash WillFollowsCrash 
PROPERTIES  Reclaimed
