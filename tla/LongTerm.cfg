CONSTANTS
  alice = alice
  tsa1 = tsa1
  tsa2 = tsa2
  stray = stray
  NoTsa = NoTsa
  Signers <- MCSigners
  Tsas <- MCTsas
  Rooted <- MCRooted
  NotBefore <- MCNotBefore
  NotAfter <- MCNotAfter
  RevokedAt <- MCRevokedAt
  StrayTimes <- MCStrayTimes
  MaxTime = 3
  MaxEntries = 3
  MaxBad = 1
SPECIFICATION Spec
CHECK_DEADLOCK FALSE
INVARIANTS TypeOK ArchivesSound NoBackdating ArchivesComplete FirstRoundStaysVerifiable SuccessIsEarned
