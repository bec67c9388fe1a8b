SPECIFICATION FairSpec
CONSTANTS
  RequestTimeout = 2
  ConnectTimeout = 1
  IoTimeout = 1
  MaxResponse = 14
  Pieces = 2
  Data = data
  Chains <- MCChains
  TsaChain <- MCTsaChain
  MaxRequests = 2
  MaxRewrites = 2
CHECK_DEADLOCK FALSE
INVARIANTS
  TypeOK
  OverrunIsBounded
  AnnouncedIsReceived
  TokenIsFresh
  SignedVerifies
  AcceptedIsGenuine
  TimestampIsBound
PROPERTIES
  CallEnds
