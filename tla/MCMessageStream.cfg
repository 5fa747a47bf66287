CONSTANTS
  SmallMax = 3
  MediumMax = 5
  LargeLimit = 8
  U64Max = 63
  UsizeMax = 63
  ControlLimit = 4
  Frames <- MCFrames
  MaxFrames = 4
SPECIFICATION Spec
INVARIANTS Exact DeliversAll RejectsNonconformant AcceptsConformant
CHECK_DEADLOCK FALSE
