-------------------------- MODULE MCArchivalTrust --------------------------
(***************************************************************************)
(* Instances of ArchivalTrust for TLC: a signer that expires early, a TSA  *)
(* certificate and its successor, and a TSA outside the trust store.       *)
(***************************************************************************)
EXTENDS ArchivalTrust

CONSTANTS alice, tsa1, tsa2, stray

MCSigners == {alice}
MCTsas == {tsa1, tsa2, stray}
MCRooted == {alice, tsa1, tsa2}
MCStrayTimes == {0}

\* tsa2 takes over from tsa1; the signer is revoked before it expires.
MCNotBefore == [c \in Certs |-> IF c = tsa2 THEN 1 ELSE 0]
MCNotAfter == [c \in Certs |-> IF c = tsa2 THEN 3 ELSE 1]
MCRevokedAt == [c \in Certs |-> IF c = alice THEN 1 ELSE MaxTime + 1]

\* tsa1 serves all the time, tsa2 only at 2, when the signer signs again.
MCTwoNotBefore == [c \in Certs |-> IF c = tsa2 THEN 2 ELSE 0]
MCTwoNotAfter == [c \in Certs |-> IF c = tsa1 THEN 3 ELSE 2]
MCNeverRevoked == [c \in Certs |-> MaxTime + 1]
=============================================================================
