SPECIFICATION Spec
CHECK_DEADLOCK FALSE
CONSTANTS
  a = a  b = b  k = k  l = l  m = m  n = n
  None = None
  InitSub = InitSub
  Ops = {a}
  Calls <- CallsOps
  InitialSubs = {FALSE}
  Inbound = {}
  InQos <- InboundQos
  InId <- InboundId
  MaxId = 3
  MaxPings = 0
  UserCloses = FALSE
  Timers = {"ack", "connack"}
INVARIANT HeardIsNotTimeout
