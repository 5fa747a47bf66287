CONSTANTS
  MaxLen = 13
  LittleEndian = FALSE
SPECIFICATION MaskSpec
INVARIANT MaskedInOrder
