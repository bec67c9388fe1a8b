CONSTANTS
  InitialFiles <- MCHistoryFiles
  Options <- MCHistoryOptions
  Materials <- MCHistoryMaterials
  DerSizes = {1}
  MaxCalls = 1
  MaxEdits = 1
  ByteRangeDigits = 9
  MaxUsize = 15
SPECIFICATION Spec
CHECK_DEADLOCK FALSE
INVARIANT GarbageDetected
