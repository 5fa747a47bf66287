CONSTANTS
  SmallMax = 1
  MediumMax = 2
  LargeLimit = 30
  U64Max = 63
  UsizeMax = 63
  ControlLimit = 2
  Frames <- MCFrames
  MaxFrames = 3
  Programs <- AllPrograms
  Backpressure = 3
SPECIFICATION FairSpec
INVARIANTS OutAligned AllWritten AnswersInOrder PeerAccepts NothingAfterClose
PROPERTY Ends
