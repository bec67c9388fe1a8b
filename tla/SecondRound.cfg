CONSTANTS
  alice = alice
  tsa1 = tsa1
  tsa2 = tsa2
  stray = stray
  NoTsa = NoTsa
  Signers <- MCSigners
  Tsas <- MCTsas
  Rooted <- MCRooted
  NotBefore <- MCTwoNotBefore
  NotAfter <- MCTwoNotAfter
  RevokedAt <- MCNeverRevoked
  StrayTimes <- MCStrayTimes
  MaxTime = 3
  MaxEntries = 3
  MaxBad = 1
SPECIFICATION Spec
CHECK_DEADLOCK FALSE
INVARIANT LtaStaysVerifiable
