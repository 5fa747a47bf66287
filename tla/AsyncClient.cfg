CONSTANTS
  SmallMax = 1
  MediumMax = 2
  LargeLimit = 30
  U64Max = 63
  UsizeMax = 23
  ControlLimit = 2
  Frames <- MCFrames
  MaxFrames = 2
  ResponseLen = 2
SPECIFICATION FairSpec
INVARIANTS NoBlockOnReady CleanEnd
PROPERTIES Implements Drained EndReported
