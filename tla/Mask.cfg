CONSTANTS
  MaxLen = 13
  LittleEndian = TRUE
SPECIFICATION MaskSpec
INVARIANTS MaskedInOrder Restored AssertsHold
