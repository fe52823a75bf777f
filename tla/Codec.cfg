SPECIFICATION CodecSpec
CONSTANTS
  None = None
  Literals = {"", "a", "$b"}
  Mixed = {"a+"}
  Width <- MCWidth
  MAX_TOPIC_LEN = 6
  MaxSegs = 3
  Segment <- Segments
  Plus = "+"
  Hash = "#"
  Filters <- AcceptedFilters
  Topics <- Strings
  Sent <- MCSent
  Raw <- MCRaw
  SubId = 7
  MaxBlock = 4
  MaxBody = 2
INVARIANTS
   GrammarsAgree FilterRoundTrip
  WireRoundTrip RelaySurvives RelaySameSize PayloadFollowsBlock 
