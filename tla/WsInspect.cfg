CONSTANTS
  SmallMax = 3
  MediumMax = 16
  LargeLimit = 60
  U64Max = 63
  UsizeMax = 63
  ControlLimit = 4
  Frames <- MCFrames
  MaxFrames = 3
  BufSize = 14
  SeekMax = 40
SPECIFICATION Spec
INVARIANTS Aligned Verdict
PROPERTY Terminates
