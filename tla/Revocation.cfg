SPECIFICATION Spec
CONSTANTS
  k1 = k1
  k2 = k2
  Damaged = damaged
  Authorities <- MCAuthorities
  Certs <- MCCerts
  MaxTime = 3
  MaxFetches = 2
  ResponderLife = 1
CHECK_DEADLOCK FALSE
INVARIANTS
  OnlyRevokedIsRevoked
  WhatWasToldCounts
