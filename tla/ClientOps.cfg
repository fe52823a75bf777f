SPECIFICATION Spec
CHECK_DEADLOCK FALSE
CONSTANTS
  a = a  b = b  k = k  l = l  m = m  n = n
  None = None
  InitSub = InitSub
  Ops = {a, b}
  Calls <- CallsOps
  InitialSubs = {TRUE, FALSE}
  Inbound = {}
  InQos <- InboundQos
  InId <- InboundId
  MaxId = 3
  MaxPings = 1
  UserCloses = TRUE
  Timers = {"ack", "connack"}
INVARIANTS TypeOK AckedMeansAnswered  SlotsAreAwaited HeardOneAck
