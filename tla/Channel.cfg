SPECIFICATION FairSpec
CHECK_DEADLOCK FALSE
CONSTANTS
  Packets = {p, q}
  MaxHandles = 2
  MaxSends = 3
  Breaks = TRUE
INVARIANT OpenAccepts
PROPERTIES InOrder  EndsWithHandles
