CONSTANTS
  InitialFiles <- MCOneCallFiles
  Options <- MCOneCallOptions
  Materials <- MCOneCallMaterials
  DerSizes = {1, 3}
  MaxCalls = 1
  MaxEdits = 0
  ByteRangeDigits = 5
  MaxUsize = 15
SPECIFICATION Spec
CHECK_DEADLOCK FALSE
INVARIANTS TypeOK UpdateOnly WrittenVerifies OutputVerifies EverySignatureHasItsField
PROPERTIES NoObjectLost DssMerges
