CONSTANTS
  SmallMax = 1
  MediumMax = 2
  LargeLimit = 11
  U64Max = 63
  UsizeMax = 23
  ControlLimit = 2
  Frames <- MCFrames
  MaxFrames = 2
  ResponseLen = 2
SPECIFICATION FairSpec
INVARIANTS TypeOK Aligned NoBlockOnReady CleanEnd
PROPERTIES Implements Drained EndReported
