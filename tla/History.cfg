CONSTANTS
  InitialFiles <- MCHistoryFiles
  Options <- MCHistoryOptions
  Materials <- MCHistoryMaterials
  DerSizes = {1}
  MaxCalls = 2
  MaxEdits = 1
  ByteRangeDigits = 9
  MaxUsize = 15
SPECIFICATION Spec
CHECK_DEADLOCK FALSE
INVARIANTS EverySignatureHasItsField IntactIsExact
PROPERTIES AppendOnly NoObjectLost DssMerges SignaturesSurvive ReportIsALog
