SPECIFICATION FairSpec
CHECK_DEADLOCK FALSE
CONSTANTS
  a = a  b = b  k = k  l = l  m = m  n = n
  None = None
  InitSub = InitSub
  Ops = {a}
  Calls <- CallsLive
  InitialSubs = {TRUE, FALSE}
  Inbound = {l, m}
  InQos <- InboundQos
  InId <- InboundId
  MaxId = 3
  MaxPings = 0
  UserCloses = TRUE
  Timers = {"ack", "connack"}
INVARIANT DeliveredOnce
PROPERTIES OpsEnd 
