SPECIFICATION FairSpec
CHECK_DEADLOCK FALSE
CONSTANTS
  a = a  b = b  k = k  l = l  m = m  n = n
  None = None
  InitSub = InitSub
  Ops = {}
  Calls <- CallsOps
  InitialSubs = {TRUE}
  Inbound = {}
  InQos <- InboundQos
  InId <- InboundId
  MaxId = 3
  MaxPings = 0
  UserCloses = FALSE
  Timers = {}
PROPERTY SubscribedSessionStarts
