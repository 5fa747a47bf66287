CONSTANTS
  Names <- MCNames
  Chars <- MCChars
  AddedHeaders <- MCAddedHeaders
  MaxHeaders = 2
  Keys <- MCKeys
  ForeignRequests <- MCForeignRequests
SPECIFICATION FairSpec
INVARIANTS AcceptsExactly ServesAccepted ConnectedIsServed OwnRequestAccepted
PROPERTIES Served ConnectReturns
CHECK_DEADLOCK FALSE
