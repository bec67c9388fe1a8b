---------------------------- MODULE SignatureLog ----------------------------
(***************************************************************************)
(* What signing promises about a document, without files, offsets or       *)
(* objects: a log of entries that only grows at its end.  The pipeline of  *)
(* sign.rs is shown to implement it, read through verify.rs's report.      *)
(***************************************************************************)
EXTENDS Sequences

VARIABLE log   \* the entries, each of them valid, in file order

\* The first document may have been signed before.
Init == log \in Seq({"signature", "timestamp"})

\* PAdES-B-B, B-T and B-LT.
Sign == log' = Append(log, "signature")

\* PAdES-B-LTA: the signature and the archival timestamp over it, or neither.
SignAndStamp == log' = log \o <<"signature", "timestamp">>

Next == Sign \/ SignAndStamp

Spec == Init /\ [][Next]_log
=============================================================================
