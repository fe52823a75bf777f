SPECIFICATION Spec
CHECK_DEADLOCK FALSE
CONSTANTS
  None = None
  Base = 2
  Digits = 2
  Types <- MCTypes
  FrameSeqs <- MCFrameSeqs
  RawStreams <- MCRawStreams
  MaxFrames = 3
  MaxRaw = 7
  Cancels = 1
INVARIANTS FramesIntact DecodersAgree
