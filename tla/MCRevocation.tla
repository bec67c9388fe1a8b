---------------------------- MODULE MCRevocation ----------------------------
(***************************************************************************)
(* An instance of Revocation for TLC: an authority before and after a      *)
(* change of its key, and certificates under either with the same number.  *)
(***************************************************************************)
EXTENDS Revocation

CONSTANTS k1, k2

MCAuthorities == {[subject |-> "CA", key |-> k] : k \in {k1, k2}}
MCCerts ==
  {[issuer |-> "CA", signedBy |-> k, serial |-> 7] : k \in {k1, k2}}
    \cup {[issuer |-> "CA", signedBy |-> k1, serial |-> 8]}
=============================================================================
