CONSTANTS
  SmallMax = 125
  MediumMax = 65535
  LargeLimit = 2147483646
  U64Max = 2147483647
  UsizeMax = 2147483647
  ControlLimit = 126
  Headers <- MCHeaders
  MaxHeaders = 3
SPECIFICATION Spec
INVARIANTS Initialised RoundTrips AllDecoded
CHECK_DEADLOCK FALSE
