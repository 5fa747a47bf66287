CONSTANTS
  SmallMax = 8
  MediumMax = 20
  LargeLimit = 30
  U64Max = 63
  UsizeMax = 63
  ControlLimit = 8
  MaxReason = 5
  Codes <- MCCodes
  Reasons <- MCReasons
SPECIFICATION Spec
INVARIANT CloseArrives
