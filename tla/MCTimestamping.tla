--------------------------- MODULE MCTimestamping ---------------------------
(***************************************************************************)
(* An instance of Timestamping for TLC: keys of three kinds.               *)
(***************************************************************************)
EXTENDS Timestamping

Certificate(name, kind, serial) ==
  [issuer |-> "CA", serial |-> serial, version |-> 1, key |-> [name |-> name, kind |-> kind]]

MCChains ==
  {<<Certificate("P", "p384", 3), Certificate("CA", "rsa", 9)>>,
   <<Certificate("E", "ed25519", 4)>>}
MCTsaChain == <<Certificate("T", "rsa", 5), Certificate("CA", "rsa", 9)>>
=============================================================================
