--------------------------- MODULE ArchivalTrust ---------------------------
(***************************************************************************)
(* The trust half of src/src/verify.rs: a document collects signatures and *)
(* document timestamps over the years while certificates expire and are    *)
(* revoked, and one day verify_pdf_bytes_with_roots judges all of them in  *)
(* two passes over the clock of that day.                                  *)
(*                                                                         *)
(* A certificate stands for its best chain: the period the whole chain is  *)
(* valid, the time it is revoked, and whether it ends in a root of the     *)
(* trust store with the right purpose.  Finding that chain is the business *)
(* of trust.rs.                                                            *)
(*                                                                         *)
(* A definition right before another of the same parameters is the other   *)
(* with a likely mistake in it, used by no specification.                  *)
(***************************************************************************)
EXTENDS Integers, Sequences, FiniteSets

CONSTANTS
  Signers,     \* certificates that sign documents
  Tsas,        \* certificates of time-stamping authorities
  Rooted,      \* those of them that chain to a root of the trust store
  NotBefore,   \* [Signers \cup Tsas -> time]
  NotAfter,    \* [Signers \cup Tsas -> time]
  RevokedAt,   \* [Signers \cup Tsas -> time], beyond MaxTime if never
  MaxTime,     \* bound: the clock
  MaxEntries,  \* bound: signatures and timestamps in the document
  MaxBad,      \* bound: entries among them that do not verify
  StrayTimes,  \* what the clock of a TSA outside the trust store may show
  NoTsa        \* a signature without a timestamp (B-B)

Certs == Signers \cup Tsas
Times == 0..MaxTime
NoTime == -1

ASSUME CertsAssumption ==
  /\ NoTsa \notin Tsas /\ Rooted \subseteq Certs
  /\ MaxTime \in Nat /\ MaxEntries \in Nat /\ StrayTimes \subseteq Times
  /\ NotBefore \in [Certs -> Nat] /\ NotAfter \in [Certs -> Nat]
  /\ RevokedAt \in [Certs -> Nat]

VARIABLES
  now,      \* SystemTime::now()
  doc,      \* the entries of the document, in file order
  known,    \* certificates the CRLs and OCSP responses of its /DSS revoke
  pc,       \* what the verifier is doing
  next,     \* the entry it is at
  anchor,   \* the earliest genTime of a trusted document timestamp
  at,       \* the trusted time of the signature it is at
  results,  \* its verdict per entry: chain_trusted and trusted_time
  exit,     \* the exit status of the verify command
  started   \* history: the clock when verification began

vars == <<now, doc, known, pc, next, anchor, at, results, exit, started>>
document == <<doc, known>>
verifier == <<pc, next, anchor, at, results, exit, started>>

-----------------------------------------------------------------------------
(* The life of the document.                                               *)

\* The times a TSA puts into a token.  One that chains to a root keeps the
\* time and serves while its certificate is good; nothing is known of others.
GenTimes(tsa) ==
  IF tsa \notin Rooted THEN StrayTimes
  ELSE {t \in {now} : NotBefore[tsa] <= t /\ t <= NotAfter[tsa] /\ t < RevokedAt[tsa]}

\* An entry: a signature by signer with a timestamp of tsa inside, or a document
\* timestamp.  quality "broken" does not verify, "malformed" cannot be parsed.
Entry(kind, signer, tsa, time, quality) ==
  [kind |-> kind, signer |-> signer, tsa |-> tsa, time |-> time,
   quality |-> quality, made |-> now]

Tick ==
  /\ now < MaxTime
  /\ now' = now + 1
  /\ UNCHANGED <<document, verifier>>

Bad(d) == Cardinality({i \in DOMAIN d : d[i].quality # "good"})
Add(entry) ==
  /\ pc = "idle" /\ Len(doc) < MaxEntries
  /\ Bad(Append(doc, entry)) <= MaxBad
  /\ doc' = Append(doc, entry)
  /\ UNCHANGED <<now, known, verifier>>

\* A signature without (B-B) or with (B-T and up) a timestamp in its CMS.
SignPlain == \E s \in Signers : Add(Entry("signature", s, NoTsa, NoTime, "good"))
SignStamped(quality) ==
  \E s \in Signers, tsa \in Tsas : \E t \in GenTimes(tsa) :
    Add(Entry("signature", s, tsa, t, quality))

\* add_document_timestamp
ArchiveStamp(quality) ==
  \E tsa \in Tsas : \E t \in GenTimes(tsa) :
    Add(Entry("timestamp", NoTsa, tsa, t, quality))

\* The /DSS receives the evidence that a certificate was revoked.
LearnRevocation ==
  /\ pc = "idle"
  /\ \E c \in Certs \ known : RevokedAt[c] <= now /\ known' = known \cup {c}
  /\ UNCHANGED <<now, doc, verifier>>

-----------------------------------------------------------------------------
(* Verification.                                                           *)

\* verify_chain at a time: the chain is within its validity period, and no
\* evidence says it was revoked by then (revocation is soft-fail).
Chains(c, t) ==
  /\ c \in Rooted
  /\ NotBefore[c] <= t /\ t <= NotAfter[c]
  /\ ~(c \in known /\ RevokedAt[c] <= t)

\* tsa_trusted: at the current time or, failing that, at the anchor.
TsaTrustedNow(tsa) == Chains(tsa, now)
TsaTrusted(tsa) ==
  \/ Chains(tsa, now)
  \/ anchor # NoTime /\ Chains(tsa, anchor)

Unset == [trust |-> "unset", time |-> NoTime]
Verdict(trust, time) == [trust |-> trust, time |-> time]

\* A verdict per entry; the mistake keeps one per signature only.
BlankSignatures(d) ==
  [i \in 1..Cardinality({j \in DOMAIN d : d[j].kind = "signature"}) |-> Unset]
Blank(d) == [i \in DOMAIN d |-> Unset]

Start ==
  /\ pc = "idle" /\ doc # << >>
  /\ pc' = "pass1" /\ next' = Len(doc) /\ anchor' = NoTime /\ started' = now
  /\ results' = Blank(doc)
  /\ UNCHANGED <<now, document, at, exit>>

\* verify_doc_ts
StampVerdictUnchecked(e) ==
  IF e.quality # "malformed" /\ TsaTrusted(e.tsa) THEN Verdict("trusted", e.time)
  ELSE Verdict("untrusted", NoTime)
StampVerdict(e) ==
  CASE e.quality = "malformed" -> Verdict("none", NoTime)
    [] e.quality = "good" /\ TsaTrusted(e.tsa) -> Verdict("trusted", e.time)
    [] OTHER -> Verdict("untrusted", NoTime)

\* The earlier of the anchor and a newly trusted genTime.
LatestAnchor(t) == IF anchor = NoTime \/ t > anchor THEN t ELSE anchor
Earliest(t) == IF anchor = NoTime \/ t < anchor THEN t ELSE anchor

\* Pass 1: document timestamps, the last one first.
Pass1 ==
  /\ pc = "pass1" /\ next > 0
  /\ IF doc[next].kind = "signature" THEN UNCHANGED <<anchor, results>>
     ELSE LET v == StampVerdict(doc[next])
          IN  /\ results' = [results EXCEPT ![next] = v]
              /\ anchor' = IF v.trust = "trusted" THEN Earliest(v.time) ELSE anchor
  /\ next' = next - 1
  /\ UNCHANGED <<now, document, pc, at, exit, started>>

Pass1Done ==
  /\ pc = "pass1" /\ next = 0
  /\ pc' = "pass2" /\ next' = 1
  /\ UNCHANGED <<now, document, anchor, at, results, exit, started>>

\* trusted_time_of: the genTime of the timestamp in the signature, if its TSA is
\* trusted.
ClaimedTimeOf(e) == e.time
TrustedTimeOf(e) ==
  IF e.tsa # NoTsa /\ TsaTrusted(e.tsa) THEN e.time ELSE NoTime

\* Pass 2: signatures.  The clock is read for the TSA and again for the signer.
Pass2Time ==
  /\ pc = "pass2" /\ next <= Len(doc)
  /\ doc[next].kind = "signature" /\ doc[next].quality # "malformed"
  /\ at' = TrustedTimeOf(doc[next])
  /\ pc' = "chain"
  /\ UNCHANGED <<now, document, next, anchor, results, exit, started>>

\* verify_signature judges the chain of a broken signature, too.
Pass2Chain ==
  /\ pc = "chain"
  /\ LET t == IF at = NoTime THEN now ELSE at
     IN  results' = [results EXCEPT ![next] =
           IF Chains(doc[next].signer, t) THEN Verdict("trusted", at)
           ELSE Verdict("untrusted", NoTime)]
  /\ pc' = "pass2" /\ next' = next + 1 /\ at' = NoTime
  /\ UNCHANGED <<now, document, anchor, exit, started>>

Pass2Skip ==
  /\ pc = "pass2" /\ next <= Len(doc)
  /\ \/ doc[next].kind = "timestamp" /\ UNCHANGED results
     \/ /\ doc[next].kind = "signature" /\ doc[next].quality = "malformed"
        /\ results' = [results EXCEPT ![next] = Verdict("none", NoTime)]
  /\ next' = next + 1
  /\ UNCHANGED <<now, document, pc, anchor, at, exit, started>>

\* all_trusted, for a document that is intact.
EveryChainTrusted == \A i \in DOMAIN doc : results[i].trust = "trusted"
AllTrusted ==
  \A i \in DOMAIN doc : doc[i].quality = "good" /\ results[i].trust = "trusted"

\* The end of run_verify.
Exit ==
  /\ pc = "pass2" /\ next > Len(doc)
  /\ exit' = IF AllTrusted THEN "success" ELSE "failure"
  /\ pc' = "done"
  /\ UNCHANGED <<now, document, next, anchor, at, results, started>>

-----------------------------------------------------------------------------
Init ==
  /\ now = 0 /\ doc = << >> /\ known = {}
  /\ pc = "idle" /\ next = 0 /\ anchor = NoTime /\ at = NoTime
  /\ results = << >> /\ exit = "none" /\ started = 0

Next ==
  \/ Tick \/ LearnRevocation
  \/ SignPlain \/ (\E q \in {"good", "broken", "malformed"} : SignStamped(q))
  \/ (\E q \in {"good", "broken", "malformed"} : ArchiveStamp(q))
  \/ Start \/ Pass1 \/ Pass1Done \/ Pass2Time \/ Pass2Chain \/ Pass2Skip \/ Exit

Spec == Init /\ [][Next]_vars

-----------------------------------------------------------------------------
(* Properties.                                                             *)

\* Type invariant.
TypeOK ==
  /\ now \in Times /\ started \in 0..now /\ known \subseteq Certs
  /\ doc \in Seq([kind : {"signature", "timestamp"}, signer : Signers \cup {NoTsa},
                  tsa : Tsas \cup {NoTsa}, time : Times \cup {NoTime},
                  quality : {"good", "broken", "malformed"}, made : Times])
  /\ pc \in {"idle", "pass1", "pass2", "chain", "done"}
  /\ exit \in {"none", "success", "failure"}
  /\ anchor \in Times \cup {NoTime} /\ at \in Times \cup {NoTime}
  /\ next \in 0..(Len(doc) + 1)
  /\ pc = "chain" => next \in DOMAIN doc
  /\ pc # "idle" =>
       results \in [DOMAIN doc -> [trust : {"unset", "none", "untrusted", "trusted"},
                                   time : Times \cup {NoTime}]]

Is(i, kind) == doc[i].kind = kind
Trusted(i) == pc # "idle" /\ results[i].trust = "trusted"

\* verify.rs:176-178: every document timestamp reported as trusted verifies, and its
\* certificate was good at a moment of this very verification or at the genTime of a
\* later document timestamp that is itself reported as trusted (by descent, the
\* last of such a chain was good now); no other time is ever used.
ArchivesSound ==
  \A i \in DOMAIN doc :
    Is(i, "timestamp") /\ Trusted(i) =>
      /\ doc[i].quality = "good"
      /\ \/ \E t \in started..now : Chains(doc[i].tsa, t)
         \/ \E j \in (i + 1)..Len(doc) :
              Is(j, "timestamp") /\ Trusted(j) /\ Chains(doc[i].tsa, doc[j].time)

\* verify.rs:466-473: a signer is judged at a time other than the present only if
\* that is when the signature was really made, so an expired or revoked
\* certificate cannot be dated back.
NoBackdating ==
  \A i \in DOMAIN doc :
    Is(i, "signature") /\ Trusted(i) =>
      IF results[i].time = NoTime
      THEN \E t \in started..now : Chains(doc[i].signer, t)
      ELSE /\ results[i].time = doc[i].made
           /\ Chains(doc[i].signer, doc[i].made)

\* The entry is backed at every moment of the verification.
Renewed ==
  LET renewed[i \in DOMAIN doc] ==
        /\ Is(i, "timestamp") /\ doc[i].quality = "good"
        /\ \/ \A t \in started..now : Chains(doc[i].tsa, t)
           \/ \E j \in (i + 1)..Len(doc) : renewed[j] /\ Chains(doc[i].tsa, doc[j].time)
  IN  {i \in DOMAIN doc : renewed[i]}

\* verify.rs:176-179: a document timestamp renewed in time by a later one, that one
\* by another and so on up to one that is good now, is reported as trusted although
\* its own certificate has expired.
ArchivesComplete ==
  pc = "done" => \A i \in Renewed : Trusted(i)

\* A good signature whose signer was good when it was timestamped, by a TSA that is
\* good now or was at the time of a renewed document timestamp after it.
Preserved(i) ==
  /\ Is(i, "signature") /\ doc[i].quality = "good" /\ doc[i].tsa # NoTsa
  /\ Chains(doc[i].signer, doc[i].time)
  /\ \/ \A t \in started..now : Chains(doc[i].tsa, t)
     \/ \E j \in Renewed : j > i /\ Chains(doc[i].tsa, doc[j].time)

\* Signatures that were followed, but not preceded, by document timestamps are
\* reported as trusted after their certificates and their TSAs expired.
FirstRoundStaysVerifiable ==
  pc = "done" =>
    \A i \in DOMAIN doc :
      Preserved(i) /\ (\A j \in 1..(i - 1) : Is(j, "signature")) => Trusted(i)

\* verify.rs:179-181: "The earliest trusted `genTime` then also serves as the
\* fallback validation time for the TSAs of the signatures' own timestamps, so a
\* B-LTA document stays verifiable after its TSA certificates expire."
LtaStaysVerifiable ==
  pc = "done" => \A i \in DOMAIN doc : Preserved(i) => Trusted(i)

\* The command reports success only for a document all of whose entries verify,
\* and whose last document timestamp, if any follows all signatures, is good now.
SuccessIsEarned ==
  exit = "success" =>
    \A i \in DOMAIN doc :
      /\ doc[i].quality = "good"
      /\ i = Len(doc) /\ Is(i, "timestamp") =>
           \E t \in started..now : Chains(doc[i].tsa, t)
=============================================================================
