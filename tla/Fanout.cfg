SPECIFICATION FanoutSpec
CONSTANTS
  Conns = {"s1", "s2", "p"}
  ClientIds = {"s", "p"}
  EmptyId = ""
  AutoId <- FanoutAuto
  Filters = {"f", "g"}
  ValidFilters = {"f", "g"}
  Topics = {"t", "u"}
  Matching <- FanoutMatching
  Chain <- FanoutChain
  Suppress = Suppress
  Connects <- FanoutConnects
  Requests <- FanoutRequests
  Resets = {}
  MaxReads = 1
  MaxId = 2
  None = None
INVARIANTS GuardedEntry NoOrphanSubscription
PROPERTY ReachesSubscribers
PROPERTY OnlySubscribers
