------------------------ MODULE ArchivalTrustProofs ------------------------
(***************************************************************************)
(* Proofs about ArchivalTrust, for every set of certificates, every trust  *)
(* store and every length of the document: soundness, that trust is earned *)
(* and nobody dated back, and completeness, that what was renewed or       *)
(* preserved in time is trusted.                                           *)
(***************************************************************************)
EXTENDS ArchivalTrust, Basics, TLAPS

USE DEF Certs, Times, NoTime

Trusts == {"unset", "none", "untrusted", "trusted"}
Entries ==
  [kind : {"signature", "timestamp"}, signer : Signers \cup {NoTsa},
   tsa : Tsas \cup {NoTsa}, time : Times \cup {NoTime},
   quality : {"good", "broken", "malformed"}, made : Times]
Verdicts == [trust : Trusts, time : Times \cup {NoTime}]

-----------------------------------------------------------------------------
(* The operators of the model.                                             *)

\* A TSA puts only times of the clock into a token, and one in the trust store
\* only the present time.
LEMMA GenTimesType ==
  ASSUME now \in Times, NEW tsa \in Tsas, NEW t \in GenTimes(tsa)
  PROVE  t \in Times /\ (tsa \in Rooted => t = now)
BY CertsAssumption DEF GenTimes

\* The verdict on a document timestamp.
LEMMA StampVerdictType ==
  ASSUME NEW e \in Entries
  PROVE  /\ StampVerdict(e) \in Verdicts
         /\ StampVerdict(e).trust = "trusted" =>
              /\ e.quality = "good" /\ TsaTrusted(e.tsa)
              /\ StampVerdict(e).time = e.time
BY DEF StampVerdict, Verdict, Entries, Verdicts, Trusts

\* The anchor is one of the two times.
LEMMA EarliestType ==
  ASSUME NEW t PROVE Earliest(t) \in {anchor, t}
BY DEF Earliest

\* Adding an entry adds it at the end, and only while nothing is verified.
LEMMA AddType ==
  ASSUME TypeOK, NEW e \in Entries, Add(e)
  PROVE  /\ doc' \in Seq(Entries) /\ doc' = Append(doc, e)
         /\ Len(doc') = Len(doc) + 1 /\ DOMAIN doc' = 1..(Len(doc) + 1)
         /\ \A i \in DOMAIN doc : i \in DOMAIN doc' /\ doc'[i] = doc[i]
         /\ doc'[Len(doc) + 1] = e
         /\ pc = "idle" /\ UNCHANGED <<now, known, verifier>>
<1>1. doc \in Seq(Entries) /\ doc' = Append(doc, e)
  BY DEF TypeOK, Entries, Add
<1>2. pc = "idle" /\ UNCHANGED <<now, known, verifier>>
  BY DEF Add
<1> QED BY <1>1, <1>2

-----------------------------------------------------------------------------
(* The inductive invariant.                                                *)

\* A timestamp in a signature by a TSA of the trust store shows the time the
\* signature was made.
EntryTimes ==
  \A i \in DOMAIN doc :
    Is(i, "signature") /\ doc[i].tsa # NoTsa /\ doc[i].tsa \in Rooted =>
      doc[i].time = doc[i].made

\* The anchor is the genTime of a trusted document timestamp already looked at.
AnchorFound ==
  pc # "idle" /\ anchor # NoTime =>
    \E j \in DOMAIN doc :
      /\ pc = "pass1" => j > next
      /\ Is(j, "timestamp") /\ Trusted(j) /\ doc[j].time = anchor

\* The time at which a signer is about to be judged is when it signed.
TimeIsReal ==
  pc = "chain" =>
    Is(next, "signature") /\ (at # NoTime => at = doc[next].made)

\* The two passes run from the last entry down and from the first entry up; an entry
\* the first has not looked at is not trusted yet.
Pending ==
  /\ pc = "pass1" =>
       /\ next <= Len(doc)
       /\ \A i \in DOMAIN doc : i <= next => results[i].trust # "trusted"
  /\ pc = "pass2" => next > 0

\* Success is reported at the end only.
ExitEarned == exit = "success" => pc = "done" /\ AllTrusted

IInv ==
  /\ TypeOK /\ EntryTimes /\ AnchorFound /\ TimeIsReal /\ Pending /\ ExitEarned
  /\ NoBackdating /\ ArchivesSound

LEMMA InitInv == ASSUME Init PROVE IInv
<1> USE DEF Init
<1>1. TypeOK BY CertsAssumption DEF TypeOK
<1>2. EntryTimes /\ NoBackdating /\ ArchivesSound
  BY DEF EntryTimes, NoBackdating, ArchivesSound, Trusted
<1>3. AnchorFound /\ TimeIsReal /\ Pending /\ ExitEarned
  BY DEF AnchorFound, TimeIsReal, Pending, ExitEarned
<1> QED BY <1>1, <1>2, <1>3 DEF IInv

\* A step that adds an entry to the document.
LEMMA AddInv ==
  ASSUME IInv, NEW e \in Entries, Add(e),
         e.kind = "signature" /\ e.tsa # NoTsa /\ e.tsa \in Rooted => e.time = e.made
  PROVE  IInv'
<1>1. TypeOK BY DEF IInv
<1> USE AddType
<1>2. TypeOK'
  <2>1. pc' = "idle" /\ next' \in 0..(Len(doc') + 1)
    BY <1>1 DEF TypeOK, verifier
  <2> QED BY <1>1, <2>1 DEF TypeOK, Entries, verifier
<1>3. EntryTimes'
  <2>1. \A i \in DOMAIN doc' : i \in DOMAIN doc \/ i = Len(doc) + 1
    BY <1>1 DEF TypeOK
  <2> QED BY <1>1, <2>1 DEF IInv, EntryTimes, Is
<1>4. pc' = "idle" /\ exit' # "success"
  BY <1>1 DEF IInv, ExitEarned, verifier
<1> QED
  BY <1>2, <1>3, <1>4
  DEF IInv, NoBackdating, ArchivesSound, Trusted, AnchorFound, TimeIsReal, Pending,
      ExitEarned

\* The verdict on one entry is set: whatever held for the others still holds, as long
\* as no trusted timestamp loses its verdict.
LEMMA VerdictsKept ==
  ASSUME IInv, TypeOK', UNCHANGED <<document, started>>, now <= now',
         pc # "idle", pc' # "idle",
         NEW k,
         \A i \in DOMAIN doc : i # k => results'[i] = results[i],
         k \in DOMAIN doc /\ Is(k, "timestamp") /\ Trusted(k) => results'[k] = results[k],
         k \in DOMAIN doc /\ Is(k, "signature") /\ Trusted(k)' =>
           IF results'[k].time = NoTime
           THEN \E t \in started..now' : Chains(doc[k].signer, t)
           ELSE /\ results'[k].time = doc[k].made
                /\ Chains(doc[k].signer, doc[k].made),
         k \in DOMAIN doc /\ Is(k, "timestamp") /\ Trusted(k)' =>
           /\ doc[k].quality = "good"
           /\ \/ \E t \in started..now' : Chains(doc[k].tsa, t)
              \/ \E j \in (k + 1)..Len(doc) :
                   Is(j, "timestamp") /\ Trusted(j) /\ Chains(doc[k].tsa, doc[j].time)
  PROVE  NoBackdating' /\ ArchivesSound'
<1>1. /\ doc' = doc /\ known' = known /\ started' = started
      /\ \A t \in started..now : t \in started..now'
      /\ \A c, t : Chains(c, t)' <=> Chains(c, t)
  BY DEF document, IInv, TypeOK, Chains
<1>2. NoBackdating'
  <2> SUFFICES ASSUME NEW i \in DOMAIN doc, Is(i, "signature"), Trusted(i)'
      PROVE  IF results'[i].time = NoTime
             THEN \E t \in started..now' : Chains(doc[i].signer, t)
             ELSE /\ results'[i].time = doc[i].made
                  /\ Chains(doc[i].signer, doc[i].made)
    BY <1>1 DEF NoBackdating, Is
  <2>1. CASE i = k BY <2>1
  <2>2. CASE i # k
    <3>1. results'[i] = results[i] /\ Trusted(i) BY <2>2 DEF Trusted
    <3> QED BY <1>1, <3>1 DEF IInv, NoBackdating
  <2> QED BY <2>1, <2>2
<1>3. ArchivesSound'
  <2>1. \A j \in DOMAIN doc : Is(j, "timestamp") /\ Trusted(j) => Trusted(j)'
    BY DEF Trusted
  <2>2. doc \in Seq(Entries) /\ DOMAIN doc = 1..Len(doc) /\ Len(doc) \in Nat
    BY DEF IInv, TypeOK, Entries
  <2> SUFFICES ASSUME NEW i \in DOMAIN doc, Is(i, "timestamp"), Trusted(i)'
      PROVE  /\ doc[i].quality = "good"
             /\ \/ \E t \in started..now' : Chains(doc[i].tsa, t)
                \/ \E j \in (i + 1)..Len(doc) :
                     Is(j, "timestamp") /\ Trusted(j)' /\ Chains(doc[i].tsa, doc[j].time)
    BY <1>1 DEF ArchivesSound, Is
  <2>3. /\ doc[i].quality = "good"
        /\ \/ \E t \in started..now' : Chains(doc[i].tsa, t)
           \/ \E j \in (i + 1)..Len(doc) :
                Is(j, "timestamp") /\ Trusted(j) /\ Chains(doc[i].tsa, doc[j].time)
    <3>1. CASE i = k BY <3>1
    <3>2. CASE i # k
      <4>1. Trusted(i) BY <3>2 DEF Trusted
      <4> QED BY <1>1, <4>1 DEF IInv, ArchivesSound
    <3> QED BY <3>1, <3>2
  <2>4. \A j \in (i + 1)..Len(doc) : j \in DOMAIN doc BY <2>2
  <2> QED BY <2>1, <2>3, <2>4
<1> QED BY <1>2, <1>3

-----------------------------------------------------------------------------
(* Every step preserves it.                                                *)

LEMMA LifeInv ==
  ASSUME IInv, \/ Tick \/ LearnRevocation \/ SignPlain
               \/ \E q \in {"good", "broken", "malformed"} : SignStamped(q) \/ ArchiveStamp(q)
  PROVE  IInv'
<1>1. TypeOK BY DEF IInv
<1>2. CASE Tick
  <2> USE DEF Tick, document, verifier
  <2>1. TypeOK' BY <1>1, <1>2, CertsAssumption DEF TypeOK
  <2>2. EntryTimes' /\ AnchorFound' /\ TimeIsReal' /\ Pending'
    BY <1>2 DEF IInv, EntryTimes, AnchorFound, TimeIsReal, Pending, Is, Trusted
  <2>3. ExitEarned'
    BY <1>2 DEF IInv, ExitEarned, AllTrusted
  <2>4. NoBackdating' /\ ArchivesSound'
    <3>1. CASE pc = "idle"
      BY <1>2, <3>1 DEF NoBackdating, ArchivesSound, Trusted
    <3>2. CASE pc # "idle"
      <4>1. now <= now' BY <1>1, <1>2 DEF TypeOK
      <4> QED BY <1>2, <2>1, <3>2, <4>1, VerdictsKept, 0 \notin DOMAIN doc, <1>1
              DEF TypeOK
    <3> QED BY <3>1, <3>2
  <2> QED BY <2>1, <2>2, <2>3, <2>4 DEF IInv
<1>3. CASE LearnRevocation
  <2> USE DEF LearnRevocation, verifier
  <2>1. TypeOK' BY <1>1, <1>3 DEF TypeOK
  <2>2. EntryTimes' BY <1>3 DEF IInv, EntryTimes, Is
  <2> QED
    BY <1>3, <2>1, <2>2
    DEF IInv, NoBackdating, ArchivesSound, Trusted, AnchorFound, TimeIsReal, Pending,
        ExitEarned
<1>4. CASE SignPlain
  <2>1. PICK s \in Signers : Add(Entry("signature", s, NoTsa, NoTime, "good"))
    BY <1>4 DEF SignPlain
  <2>2. Entry("signature", s, NoTsa, NoTime, "good") \in Entries
    BY <1>1 DEF Entry, Entries, TypeOK
  <2> QED BY <2>1, <2>2, AddInv DEF Entry
<1>5. ASSUME NEW q \in {"good", "broken", "malformed"}, SignStamped(q) PROVE IInv'
  <2>1. PICK s \in Signers, tsa \in Tsas : \E t \in GenTimes(tsa) :
          Add(Entry("signature", s, tsa, t, q))
    BY <1>5 DEF SignStamped
  <2>2. PICK t \in GenTimes(tsa) : Add(Entry("signature", s, tsa, t, q))
    BY <2>1
  <2>3. t \in Times /\ (tsa \in Rooted => t = now)
    BY <1>1, GenTimesType DEF TypeOK
  <2>4. Entry("signature", s, tsa, t, q) \in Entries
    BY <1>1, <2>3 DEF Entry, Entries, TypeOK
  <2> QED BY <2>2, <2>3, <2>4, AddInv DEF Entry
<1>6. ASSUME NEW q \in {"good", "broken", "malformed"}, ArchiveStamp(q) PROVE IInv'
  <2>1. PICK tsa \in Tsas : \E t \in GenTimes(tsa) :
          Add(Entry("timestamp", NoTsa, tsa, t, q))
    BY <1>6 DEF ArchiveStamp
  <2>2. PICK t \in GenTimes(tsa) : Add(Entry("timestamp", NoTsa, tsa, t, q))
    BY <2>1
  <2>3. t \in Times
    BY <1>1, GenTimesType DEF TypeOK
  <2>4. Entry("timestamp", NoTsa, tsa, t, q) \in Entries
    BY <1>1, <2>3 DEF Entry, Entries, TypeOK
  <2> QED BY <2>2, <2>4, AddInv DEF Entry
<1> QED BY <1>2, <1>3, <1>4, <1>5, <1>6

LEMMA StartInv == ASSUME IInv, Start PROVE IInv'
<1> USE DEF Start, document
<1>1. TypeOK /\ doc \in Seq(Entries) BY DEF IInv, TypeOK, Entries
<1>2. results' = [i \in DOMAIN doc |-> [trust |-> "unset", time |-> NoTime]]
  BY DEF Blank, Unset
<1>3. TypeOK'
  <2>1. results' \in [DOMAIN doc -> Verdicts] BY <1>2 DEF Verdicts, Trusts
  <2> QED BY <1>1, <2>1 DEF TypeOK, Verdicts, Trusts
<1>4. \A i \in DOMAIN doc : results'[i].trust # "trusted" BY <1>2
<1>5. EntryTimes' BY DEF IInv, EntryTimes, Is
<1>6. exit' # "success" BY DEF IInv, ExitEarned
<1> QED
  BY <1>3, <1>4, <1>5, <1>6
  DEF IInv, NoBackdating, ArchivesSound, Trusted, AnchorFound, TimeIsReal, Pending,
      ExitEarned

LEMMA Pass1Inv == ASSUME IInv, Pass1 PROVE IInv'
<1> USE DEF Pass1, document
<1>1. /\ TypeOK /\ doc \in Seq(Entries) /\ DOMAIN doc = 1..Len(doc) /\ Len(doc) \in Nat
      /\ results \in [DOMAIN doc -> Verdicts] /\ now \in Nat /\ next \in Nat
  BY CertsAssumption DEF IInv, TypeOK, Entries, Verdicts, Trusts
<1>2. doc' = doc /\ known' = known /\ started' = started /\ now' = now /\ pc' = "pass1"
      /\ next' = next - 1 /\ exit' = exit /\ at' = at
  OBVIOUS
<1>3. EntryTimes' /\ TimeIsReal' /\ ExitEarned'
  BY <1>2 DEF IInv, EntryTimes, Is, TimeIsReal, ExitEarned
<1>4. next \in DOMAIN doc /\ doc[next] \in Entries /\ results[next].trust # "trusted"
  BY <1>1 DEF IInv, Pending
<1>k. PICK k : k = next OBVIOUS
<1>5. \A i \in DOMAIN doc : i # k => results'[i] = results[i]
  BY <1>1, <1>k
<1>6. CASE Is(next, "signature")
  <2>1. UNCHANGED <<anchor, results>> BY <1>6 DEF Is
  <2>2. TypeOK' BY <1>1, <1>2, <1>4, <2>1 DEF TypeOK
  <2>3. AnchorFound' /\ Pending'
    BY <1>1, <1>2, <2>1 DEF IInv, AnchorFound, Pending, Is, Trusted
  <2>4. NoBackdating' /\ ArchivesSound'
    BY <1>1, <1>2, <1>4, <1>5, <1>6, <1>k, <2>1, <2>2, VerdictsKept DEF Trusted, Is
  <2> QED BY <1>3, <2>2, <2>3, <2>4 DEF IInv
<1>7. CASE ~Is(next, "signature")
  <2> DEFINE v == StampVerdict(doc[next])
  <2>1. /\ results' = [results EXCEPT ![next] = v]
        /\ anchor' = IF v.trust = "trusted" THEN Earliest(v.time) ELSE anchor
    BY <1>7 DEF Is
  <2>2. /\ v \in Verdicts
        /\ v.trust = "trusted" => /\ doc[next].quality = "good"
                                  /\ TsaTrusted(doc[next].tsa)
                                  /\ v.time = doc[next].time
    BY <1>4, StampVerdictType
  <2>3. results' \in [DOMAIN doc -> Verdicts] /\ results'[next] = v
    BY <1>1, <1>4, <2>1, <2>2
  <2>4. anchor' \in {anchor, v.time} /\ (anchor' = anchor \/ v.trust = "trusted")
    BY <2>1, EarliestType
  <2>5. anchor' \in Times \cup {NoTime}
    BY <1>1, <2>2, <2>4 DEF TypeOK, Verdicts
  <2>6. TypeOK'
    BY <1>1, <1>2, <1>4, <2>3, <2>5 DEF TypeOK, Verdicts, Trusts
  <2>7. Is(next, "timestamp") BY <1>4, <1>7 DEF Is, Entries
  <2>8. Pending'
    BY <1>1, <1>2, <1>5, <1>k DEF IInv, Pending
  <2>9. AnchorFound'
    <3> SUFFICES ASSUME anchor' # NoTime
        PROVE  \E j \in DOMAIN doc : /\ j > next - 1
                                     /\ Is(j, "timestamp") /\ Trusted(j)'
                                     /\ doc[j].time = anchor'
      BY <1>2 DEF AnchorFound, Is
    <3>1. CASE anchor' = anchor
      <4>1. PICK j \in DOMAIN doc : /\ j > next /\ Is(j, "timestamp") /\ Trusted(j)
                                    /\ doc[j].time = anchor
        BY <3>1 DEF IInv, AnchorFound
      <4>2. Trusted(j)' BY <1>1, <1>2, <1>5, <1>k, <4>1 DEF Trusted
      <4> QED BY <1>1, <3>1, <4>1, <4>2
    <3>2. CASE anchor' # anchor
      <4>1. Trusted(k)' BY <1>2, <1>k, <2>3, <2>4, <3>2 DEF Trusted
      <4> QED BY <1>1, <1>4, <1>k, <2>2, <2>4, <2>7, <3>2, <4>1
    <3> QED BY <3>1, <3>2
  <2>10. ASSUME Trusted(k)'
         PROVE  /\ doc[k].quality = "good"
                /\ \/ \E t \in started..now' : Chains(doc[k].tsa, t)
                   \/ \E j \in (k + 1)..Len(doc) :
                        Is(j, "timestamp") /\ Trusted(j) /\ Chains(doc[k].tsa, doc[j].time)
    <3>1. v.trust = "trusted" BY <1>k, <2>3, <2>10 DEF Trusted
    <3>2. CASE Chains(doc[k].tsa, now)
      BY <1>1, <1>2, <1>k, <2>2, <3>1, <3>2 DEF TypeOK
    <3>3. CASE anchor # NoTime /\ Chains(doc[k].tsa, anchor)
      <4>1. PICK j \in DOMAIN doc : /\ j > next /\ Is(j, "timestamp") /\ Trusted(j)
                                    /\ doc[j].time = anchor
        BY <3>3 DEF IInv, AnchorFound
      <4>2. j \in (next + 1)..Len(doc) BY <1>1, <4>1
      <4> QED BY <1>k, <2>2, <3>1, <3>3, <4>1, <4>2
    <3> QED BY <1>k, <2>2, <3>1, <3>2, <3>3 DEF TsaTrusted
  <2>11. NoBackdating' /\ ArchivesSound'
    <3>1. ~Trusted(k) /\ ~Is(k, "signature") BY <1>4, <1>7, <1>k DEF Trusted
    <3>2. now <= now' /\ UNCHANGED <<document, started>> /\ pc # "idle" /\ pc' # "idle"
      BY <1>1, <1>2
    <3> QED BY <1>5, <2>6, <2>10, <3>1, <3>2, VerdictsKept
  <2> QED BY <1>3, <2>6, <2>8, <2>9, <2>11 DEF IInv
<1> QED BY <1>6, <1>7

\* A step of the verifier that sets no verdict.
LEMMA NoVerdictInv ==
  ASSUME IInv, Pass1Done \/ Pass2Time \/ Exit PROVE IInv'
<1>1. TypeOK /\ doc \in Seq(Entries) /\ DOMAIN doc = 1..Len(doc) /\ Len(doc) \in Nat
  BY DEF IInv, TypeOK, Entries
<1>2. UNCHANGED <<document, started, now, results, anchor>> /\ pc # "idle" /\ pc' # "idle"
  BY DEF Pass1Done, Pass2Time, Exit
<1>3. EntryTimes' BY <1>2 DEF IInv, EntryTimes, Is, document
<1>4. NoBackdating' /\ ArchivesSound'
  BY <1>2 DEF IInv, NoBackdating, ArchivesSound, Is, Trusted, Chains, document
<1>5. AnchorFound' /\ Pending'
  BY <1>2 DEF IInv, AnchorFound, Pending, Is, Trusted, document, Pass1Done, Pass2Time, Exit
<1>6. CASE Pass1Done
  <2>1. TypeOK' BY <1>1, <1>6 DEF TypeOK, Pass1Done, document
  <2>2. TimeIsReal' /\ ExitEarned'
    BY <1>6 DEF IInv, TimeIsReal, ExitEarned, Pass1Done
  <2> QED BY <1>3, <1>4, <1>5, <2>1, <2>2 DEF IInv
<1>7. CASE Pass2Time
  <2> USE DEF Pass2Time, document
  <2>1. next \in DOMAIN doc /\ doc[next] \in Entries
    <3>1. next \in Nat /\ next >= 1 BY <1>7, <1>1 DEF IInv, TypeOK, Pending
    <3> QED BY <1>1, <1>7, <3>1
  <2>2. at' # NoTime =>
          /\ doc[next].tsa # NoTsa /\ doc[next].tsa \in Rooted /\ at' = doc[next].time
    BY <1>7 DEF TrustedTimeOf, TsaTrusted, Chains
  <2>3. at' \in Times \cup {NoTime}
    BY <2>1, <2>2 DEF Entries
  <2>4. TypeOK' BY <1>1, <1>7, <2>1, <2>3 DEF TypeOK
  <2>5. TimeIsReal'
    BY <1>7, <2>1, <2>2 DEF IInv, TimeIsReal, EntryTimes, Is
  <2>6. ExitEarned' BY <1>7 DEF IInv, ExitEarned
  <2> QED BY <1>3, <1>4, <1>5, <2>4, <2>5, <2>6 DEF IInv
<1>8. CASE Exit
  <2> USE DEF Exit, document
  <2>1. TypeOK' BY <1>1, <1>8 DEF TypeOK
  <2>2. TimeIsReal' /\ ExitEarned'
    BY <1>8 DEF IInv, TimeIsReal, ExitEarned, AllTrusted
  <2> QED BY <1>3, <1>4, <1>5, <2>1, <2>2 DEF IInv
<1> QED BY <1>6, <1>7, <1>8

LEMMA Pass2ChainInv == ASSUME IInv, Pass2Chain PROVE IInv'
<1> USE DEF Pass2Chain, document
<1>1. /\ TypeOK /\ doc \in Seq(Entries) /\ DOMAIN doc = 1..Len(doc) /\ Len(doc) \in Nat
      /\ results \in [DOMAIN doc -> Verdicts] /\ now \in Nat /\ next \in DOMAIN doc
      /\ at \in Times \cup {NoTime} /\ started \in 0..now
  <2>1. doc \in Seq(Entries) /\ results \in [DOMAIN doc -> Verdicts]
    BY DEF IInv, TypeOK, Entries, Verdicts, Trusts
  <2> QED BY <2>1, CertsAssumption DEF IInv, TypeOK
<1> DEFINE t == IF at = NoTime THEN now ELSE at
           v == IF Chains(doc[next].signer, t) THEN Verdict("trusted", at)
                ELSE Verdict("untrusted", NoTime)
<1>2. results' = [results EXCEPT ![next] = v] OBVIOUS
<1>3. v \in Verdicts BY <1>1 DEF Verdict, Verdicts, Trusts
<1>4. results' \in [DOMAIN doc -> Verdicts] /\ results'[next] = v
  BY <1>1, <1>2, <1>3
<1>5. TypeOK' BY <1>1, <1>4 DEF TypeOK, Verdicts, Trusts
<1>k. PICK k : k = next OBVIOUS
<1>6. Is(k, "signature") /\ (at # NoTime => at = doc[k].made)
  BY <1>k DEF IInv, TimeIsReal
<1>7. \A i \in DOMAIN doc : i # k => results'[i] = results[i]
  BY <1>1, <1>2, <1>k
<1>8. ASSUME Trusted(k)'
      PROVE  IF results'[k].time = NoTime
             THEN \E u \in started..now' : Chains(doc[k].signer, u)
             ELSE /\ results'[k].time = doc[k].made
                  /\ Chains(doc[k].signer, doc[k].made)
  <2>1. Chains(doc[k].signer, t) /\ results'[k].time = at
    BY <1>4, <1>8, <1>k DEF Trusted, Verdict
  <2> QED BY <1>1, <1>6, <2>1
<1>9. NoBackdating' /\ ArchivesSound'
  <2>1. ~Is(k, "timestamp") BY <1>6 DEF Is
  <2>2. now <= now' /\ UNCHANGED <<document, started>> /\ pc # "idle" /\ pc' # "idle"
    BY <1>1
  <2> QED BY <1>5, <1>7, <1>8, <2>1, <2>2, VerdictsKept
<1>10. AnchorFound'
  <2> SUFFICES ASSUME anchor # NoTime
      PROVE  \E j \in DOMAIN doc : /\ Is(j, "timestamp") /\ Trusted(j)'
                                   /\ doc[j].time = anchor
    BY DEF AnchorFound, Is
  <2>1. PICK j \in DOMAIN doc : Is(j, "timestamp") /\ Trusted(j) /\ doc[j].time = anchor
    BY DEF IInv, AnchorFound
  <2>2. j # k BY <1>6, <2>1 DEF Is
  <2> QED BY <1>7, <2>1, <2>2 DEF Trusted
<1>11. EntryTimes' /\ TimeIsReal' /\ Pending' /\ ExitEarned'
  BY <1>1 DEF IInv, EntryTimes, Is, TimeIsReal, Pending, ExitEarned
<1> QED BY <1>5, <1>9, <1>10, <1>11 DEF IInv

LEMMA Pass2SkipInv == ASSUME IInv, Pass2Skip PROVE IInv'
<1> USE DEF Pass2Skip, document
<1>1. /\ TypeOK /\ doc \in Seq(Entries) /\ DOMAIN doc = 1..Len(doc) /\ Len(doc) \in Nat
      /\ results \in [DOMAIN doc -> Verdicts] /\ now \in Nat
  BY CertsAssumption DEF IInv, TypeOK, Entries, Verdicts, Trusts
<1>2. next \in DOMAIN doc /\ doc[next] \in Entries
  <2>1. next \in Nat /\ next >= 1 BY <1>1 DEF IInv, TypeOK, Pending
  <2> QED BY <1>1, <2>1
<1>3. results' = results \/ (/\ Is(next, "signature")
                             /\ results' = [results EXCEPT ![next] = Verdict("none", NoTime)])
  BY DEF Is
<1>4. results' \in [DOMAIN doc -> Verdicts]
  BY <1>1, <1>3 DEF Verdict, Verdicts, Trusts
<1>5. TypeOK' BY <1>1, <1>2, <1>4 DEF TypeOK, Verdicts, Trusts
<1>6. \A i \in DOMAIN doc : results'[i] = results[i] \/ ~(Trusted(i)' \/ Is(i, "timestamp"))
  BY <1>1, <1>3 DEF Verdict, Trusted, Is
<1>k. PICK k : k = next OBVIOUS
<1>7. NoBackdating' /\ ArchivesSound'
  <2>1. now <= now' /\ UNCHANGED <<document, started>> /\ pc # "idle" /\ pc' # "idle"
    BY <1>1
  <2>2. \A i \in DOMAIN doc : i # k => results'[i] = results[i] BY <1>1, <1>3, <1>k
  <2>3. Is(k, "timestamp") /\ Trusted(k) => results'[k] = results[k]
    BY <1>2, <1>6, <1>k
  <2>4. Is(k, "signature") /\ Trusted(k)' =>
          IF results'[k].time = NoTime
          THEN \E t \in started..now' : Chains(doc[k].signer, t)
          ELSE /\ results'[k].time = doc[k].made
               /\ Chains(doc[k].signer, doc[k].made)
    BY <1>2, <1>6, <1>k DEF IInv, NoBackdating, Trusted
  <2>5. Is(k, "timestamp") /\ Trusted(k)' =>
          /\ doc[k].quality = "good"
          /\ \/ \E t \in started..now' : Chains(doc[k].tsa, t)
             \/ \E j \in (k + 1)..Len(doc) :
                  Is(j, "timestamp") /\ Trusted(j) /\ Chains(doc[k].tsa, doc[j].time)
    BY <1>2, <1>6, <1>k DEF IInv, ArchivesSound, Trusted
  <2> QED BY <1>5, <2>1, <2>2, <2>3, <2>4, <2>5, VerdictsKept
<1>8. AnchorFound'
  BY <1>6 DEF IInv, AnchorFound, Is, Trusted
<1>9. EntryTimes' /\ TimeIsReal' /\ Pending' /\ ExitEarned'
  BY <1>1, <1>2 DEF IInv, EntryTimes, Is, TimeIsReal, Pending, ExitEarned
<1> QED BY <1>5, <1>7, <1>8, <1>9 DEF IInv

LEMMA StutterInv == ASSUME IInv, UNCHANGED vars PROVE IInv'
BY DEF vars, document, verifier, IInv, TypeOK, EntryTimes, AnchorFound, TimeIsReal, Pending,
       ExitEarned, AllTrusted, NoBackdating, ArchivesSound, Is, Trusted, Chains

\* The invariant holds at first and is kept by every step in the life of a document
\* and of its verification (verify_pdf_bytes_with_roots).
THEOREM SpecInv == Spec => []IInv
<1>1. Init => IInv BY InitInv
<1>2. IInv /\ [Next]_vars => IInv'
  <2> SUFFICES ASSUME IInv, [Next]_vars PROVE IInv' OBVIOUS
  <2>1. CASE \/ Tick \/ LearnRevocation \/ SignPlain
             \/ \E q \in {"good", "broken", "malformed"} : SignStamped(q) \/ ArchiveStamp(q)
    BY <2>1, LifeInv
  <2>2. CASE Start BY <2>2, StartInv
  <2>3. CASE Pass1 BY <2>3, Pass1Inv
  <2>4. CASE Pass1Done \/ Pass2Time \/ Exit BY <2>4, NoVerdictInv
  <2>5. CASE Pass2Chain BY <2>5, Pass2ChainInv
  <2>6. CASE Pass2Skip BY <2>6, Pass2SkipInv
  <2>7. CASE UNCHANGED vars BY <2>7, StutterInv
  <2> QED BY <2>1, <2>2, <2>3, <2>4, <2>5, <2>6, <2>7 DEF Next
<1> QED BY <1>1, <1>2, PTL DEF Spec

-----------------------------------------------------------------------------
(* The theorems.                                                           *)

\* The type invariant.
THEOREM Types == Spec => []TypeOK
<1>1. IInv => TypeOK BY DEF IInv
<1> QED BY <1>1, SpecInv, PTL

\* verify.rs:176-178: trust in a document timestamp goes back, timestamp by
\* timestamp, to one whose certificate is good during the verification.
THEOREM TimestampTrustIsBacked == Spec => []ArchivesSound
<1>1. IInv => ArchivesSound BY DEF IInv
<1> QED BY <1>1, SpecInv, PTL

\* verify.rs:466-473: no signer is judged at a time other than the present, unless it
\* is the time the signature was made.
THEOREM NobodyIsDatedBack == Spec => []NoBackdating
<1>1. IInv => NoBackdating BY DEF IInv
<1> QED BY <1>1, SpecInv, PTL

\* main.rs run_verify: an exit status of success means that every entry verifies and
\* that a document timestamp at the end is backed by a certificate that is good now.
THEOREM SuccessIsNeverFeigned == Spec => []SuccessIsEarned
<1>1. IInv => SuccessIsEarned
  <2> SUFFICES ASSUME IInv, exit = "success", NEW i \in DOMAIN doc
      PROVE  /\ doc[i].quality = "good"
             /\ i = Len(doc) /\ Is(i, "timestamp") =>
                  \E t \in started..now : Chains(doc[i].tsa, t)
    BY DEF SuccessIsEarned
  <2>1. doc[i].quality = "good" /\ Trusted(i)
    BY DEF IInv, ExitEarned, AllTrusted, Trusted
  <2>2. Len(doc) \in Nat BY DEF IInv, TypeOK
  <2>3. (Len(doc) + 1)..Len(doc) = {} BY <2>2
  <2> QED BY <2>1, <2>3 DEF IInv, ArchivesSound
<1> QED BY <1>1, SpecInv, PTL
-----------------------------------------------------------------------------
(* Completeness: what was renewed in time is reported as trusted.          *)

\* The body of the recursion in Renewed, with the function it defines as a parameter.
Backed(r, i) ==
  /\ Is(i, "timestamp") /\ doc[i].quality = "good"
  /\ \/ \A t \in started..now : Chains(doc[i].tsa, t)
     \/ \E j \in (i + 1)..Len(doc) : r[j] /\ Chains(doc[i].tsa, doc[j].time)

\* Renewed is the one set that satisfies the equation of its recursion.
LEMMA RenewedUnfolds ==
  ASSUME doc \in Seq(Entries)
  PROVE  \E f \in [DOMAIN doc -> BOOLEAN] :
           /\ \A i \in DOMAIN doc : f[i] = Backed(f, i)
           /\ Renewed = {i \in DOMAIN doc : f[i]}
<1> DEFINE D == DOMAIN doc
           step == [x \in D \X [D -> BOOLEAN] |-> Backed(x[2], x[1])]
           rank == [i \in D |-> Len(doc) - i]
<1>1. Len(doc) \in Nat /\ D = 1..Len(doc) /\ rank \in [D -> Nat]
  OBVIOUS
<1>2. \A i \in D, g \in [D -> BOOLEAN] : step[<<i, g>>] = Backed(g, i) /\ Backed(g, i) \in BOOLEAN
  BY DEF Backed
<1>3. step \in [D \X [D -> BOOLEAN] -> BOOLEAN]
  BY DEF Backed
<1>4. ASSUME NEW i \in D, NEW g, NEW h, \A j \in D : rank[j] < rank[i] => g[j] = h[j]
      PROVE  Backed(g, i) = Backed(h, i)
  <2>1. \A j \in (i + 1)..Len(doc) : j \in D /\ rank[j] < rank[i]
    BY <1>1
  <2>2. \A j \in (i + 1)..Len(doc) : g[j] = h[j]
    BY <1>4, <2>1
  <2>3. QED
    BY <2>2 DEF Backed
<1>5. Ranked(D, rank)
  <2>1. \A i \in D : rank[i] < Len(doc) + 1
    BY <1>1
  <2>2. QED
    BY <1>1, <2>1 DEF Ranked
<1>6. PICK f : f = CHOOSE g : g = [i \in D |-> Backed(g, i)]
  OBVIOUS
<1>7. PICK e \in [D -> BOOLEAN] : \A i \in D : e[i] = Backed(e, i)
  <2>1. ASSUME NEW i \in D, NEW g \in [D -> BOOLEAN], NEW h \in [D -> BOOLEAN],
               Agree(D, rank, i, g, h)
        PROVE  step[<<i, g>>] = step[<<i, h>>]
    <3>1. Backed(g, i) = Backed(h, i)
      <4> HIDE DEF D, rank
      <4>1. QED
        BY <1>4, <2>1 DEF Agree
    <3>2. QED
      BY <1>2, <3>1
  <2>2. BOOLEAN # {}
    OBVIOUS
  <2>3. LooksBack(D, BOOLEAN, rank, step)
    <3> HIDE DEF D, rank, step
    <3>1. QED
      BY <1>3, <2>1, <2>2 DEF LooksBack
  <2>4. PICK e \in [D -> BOOLEAN] : \A i \in D : e[i] = step[<<i, e>>]
    <3> HIDE DEF D, rank, step
    <3>1. QED
      BY <1>5, <2>2, <2>3, RecursionDefines
  <2>5. QED
    BY <1>2, <2>4
<1>8. e = [i \in D |-> Backed(e, i)]
  BY <1>7
<1>9. f = [i \in D |-> Backed(f, i)]
  BY <1>6, <1>8
<1>10. f \in [D -> BOOLEAN] /\ \A i \in D : f[i] = Backed(f, i)
  <2>1. \A i \in D : Backed(f, i) \in BOOLEAN
    BY DEF Backed
  <2>2. QED
    BY <1>9, <2>1
<1>11. Renewed = {i \in D : f[i]}
  BY <1>6, Zenon DEF Renewed, Backed
<1>12. QED
  BY <1>10, <1>11

\* What is backed by the present or by a later entry that is renewed, and only that, is
\* renewed.
RenewedRule ==
  doc \in Seq(Entries) =>
    \A i \in DOMAIN doc :
      i \in Renewed <=>
        /\ doc[i].kind = "timestamp" /\ doc[i].quality = "good"
        /\ \/ \A t \in started..now : Chains(doc[i].tsa, t)
           \/ \E j \in (i + 1)..Len(doc) : j \in Renewed /\ Chains(doc[i].tsa, doc[j].time)

LEMMA RenewedIs == RenewedRule
<1> SUFFICES ASSUME doc \in Seq(Entries), NEW i \in DOMAIN doc
    PROVE  i \in Renewed <=>
             /\ doc[i].kind = "timestamp" /\ doc[i].quality = "good"
             /\ \/ \A t \in started..now : Chains(doc[i].tsa, t)
                \/ \E j \in (i + 1)..Len(doc) : j \in Renewed /\ Chains(doc[i].tsa, doc[j].time)
  BY DEF RenewedRule
<1>1. PICK f \in [DOMAIN doc -> BOOLEAN] :
        (\A k \in DOMAIN doc : f[k] = Backed(f, k)) /\ Renewed = {k \in DOMAIN doc : f[k]}
  BY RenewedUnfolds
<1>2. \A j \in (i + 1)..Len(doc) : j \in DOMAIN doc
  OBVIOUS
<1>3. i \in Renewed <=> Backed(f, i)
  BY <1>1
<1>4. \A j \in (i + 1)..Len(doc) : f[j] <=> j \in Renewed
  BY <1>1, <1>2
<1>5. QED
  BY <1>3, <1>4 DEF Backed, Is

LEMMA RenewedIsNext == RenewedRule'
  BY RenewedIs, PTL

\* As time goes by, less is backed.
LEMMA RenewedShrinks ==
  ASSUME doc \in Seq(Entries), UNCHANGED <<doc, known, started>>, now \in Nat, now' \in Nat,
         now <= now', started \in Nat
  PROVE  Renewed' \subseteq Renewed
<1> DEFINE D == DOMAIN doc
           rank == [i \in D |-> Len(doc) - i]
           S == {i \in D : i \in Renewed' => i \in Renewed}
<1>1. Len(doc) \in Nat /\ D = 1..Len(doc) /\ rank \in [D -> Nat]
  OBVIOUS
<1>2. \A c, t : Chains(c, t)' = Chains(c, t)
  BY DEF Chains
<1>3. \A t \in started..now : t \in started'..now'
  OBVIOUS
<1>4. ASSUME NEW i \in D, \A j \in D : rank[j] < rank[i] => j \in S PROVE i \in S
  <2> SUFFICES ASSUME i \in Renewed' PROVE i \in Renewed
    OBVIOUS
  <2>1. /\ doc[i].kind = "timestamp" /\ doc[i].quality = "good"
        /\ \/ \A t \in started'..now' : Chains(doc[i].tsa, t)
           \/ \E j \in (i + 1)..Len(doc) : j \in Renewed' /\ Chains(doc[i].tsa, doc[j].time)
    BY <1>2, RenewedIsNext DEF RenewedRule, Chains
  <2>2. \A j \in (i + 1)..Len(doc) : j \in D /\ rank[j] < rank[i]
    BY <1>1
  <2>3. \A j \in (i + 1)..Len(doc) : j \in Renewed' => j \in Renewed
    BY <1>4, <2>2
  <2>4. QED
    BY <1>3, <2>1, <2>3, RenewedIs DEF RenewedRule
<1>5. D \subseteq S
  <2>1. PICK d : d = D
    OBVIOUS
  <2>2. PICK r : r = rank
    OBVIOUS
  <2>3. PICK s : s = S
    OBVIOUS
  <2>4. r \in [d -> Nat] /\ \A i \in d : (\A j \in d : r[j] < r[i] => j \in s) => i \in s
    <3> HIDE DEF D, rank, S
    <3>1. QED
      BY <1>1, <1>4, <2>1, <2>2, <2>3
  <2>5. d \subseteq s
    BY <2>4, ByRank
  <2>6. QED
    BY <2>1, <2>3, <2>5
<1>6. Renewed' \subseteq DOMAIN doc'
  BY DEF Renewed
<1>7. QED
  BY <1>5, <1>6

\* The entries are in the order they were made in; what a TSA of the trust store says is
\* the time, at which its certificate had begun.
Dated ==
  \A i \in DOMAIN doc :
    /\ doc[i].made <= now
    /\ \A j \in DOMAIN doc : i <= j => doc[i].made <= doc[j].made
    /\ Is(i, "timestamp") => doc[i].tsa # NoTsa
    /\ doc[i].tsa # NoTsa /\ doc[i].tsa \in Rooted =>
         doc[i].time = doc[i].made /\ NotBefore[doc[i].tsa] <= doc[i].made

\* The anchor is the earliest time of all.
AnchorLeast ==
  \A j \in DOMAIN doc :
    Is(j, "timestamp") /\ Trusted(j) => anchor # NoTime /\ anchor <= doc[j].time

\* What is renewed and was looked at is trusted.
RenewedTrusted == pc # "idle" => \A i \in Renewed : (pc = "pass1" => i > next) => Trusted(i)

\* What is preserved from before all document timestamps and was looked at is trusted, and
\* is judged at the time its timestamp says.
FirstRound(i) == Preserved(i) /\ \A j \in 1..(i - 1) : Is(j, "signature")
PreservedTrusted ==
  /\ pc \in {"pass2", "chain", "done"} =>
       \A i \in DOMAIN doc : FirstRound(i) /\ (pc # "done" => i < next) => Trusted(i)
  /\ pc = "chain" => \A i \in DOMAIN doc : FirstRound(i) /\ i = next => at = doc[i].time

CInv == IInv /\ Dated /\ AnchorLeast /\ RenewedTrusted /\ PreservedTrusted

LEMMA Shapes ==
  ASSUME IInv
  PROVE  /\ TypeOK /\ doc \in Seq(Entries) /\ DOMAIN doc = 1..Len(doc) /\ Len(doc) \in Nat
         /\ now \in Nat /\ started \in Nat /\ started <= now /\ next \in Nat
         /\ \A i \in DOMAIN doc : doc[i] \in Entries /\ doc[i].made \in Nat /\ doc[i].made \in Times
<1>1. TypeOK /\ doc \in Seq(Entries)
  BY DEF IInv, TypeOK, Entries
<1>2. now \in Nat /\ started \in Nat /\ started <= now /\ next \in Nat
  BY <1>1, CertsAssumption DEF TypeOK
<1>3. \A i \in DOMAIN doc : doc[i] \in Entries
  BY <1>1
<1>4. \A e \in Entries : e.made \in Nat /\ e.made \in Times
  BY CertsAssumption DEF Entries
<1>5. QED
  BY <1>1, <1>2, <1>3, <1>4

\* Nothing becomes backed once verification has begun.
LEMMA NothingIsRenewed ==
  ASSUME IInv, UNCHANGED <<doc, known, started>>, now' \in Nat, now <= now'
  PROVE  Renewed' \subseteq Renewed /\ \A i \in DOMAIN doc : FirstRound(i)' => FirstRound(i)
<1>1. now \in Nat /\ started \in Nat /\ doc \in Seq(Entries)
  BY Shapes
<1>2. Renewed' \subseteq Renewed
  BY <1>1, RenewedShrinks
<1>3. \A t \in started..now : t \in started'..now'
  BY <1>1
<1>4. ASSUME NEW i \in DOMAIN doc, Preserved(i)' PROVE Preserved(i)
  <2>1. /\ doc[i].kind = "signature" /\ doc[i].quality = "good" /\ doc[i].tsa # NoTsa
        /\ Chains(doc[i].signer, doc[i].time)
        /\ \/ \A t \in started'..now' : Chains(doc[i].tsa, t)
           \/ \E j \in Renewed' : j > i /\ Chains(doc[i].tsa, doc[j].time)
    BY <1>4 DEF Preserved, Is, Chains
  <2>2. QED
    BY <1>2, <1>3, <2>1 DEF Preserved, Is
<1>5. ASSUME NEW i \in DOMAIN doc, FirstRound(i)' PROVE FirstRound(i)
  BY <1>4, <1>5 DEF FirstRound, Is
<1>6. QED
  BY <1>2, <1>5

\* A chain that is good at a time is good at an earlier one after it begins.
LEMMA ChainsBefore ==
  ASSUME NEW c, NEW t \in Nat, NEW u \in Nat, Chains(c, u), t <= u, NotBefore[c] <= t
  PROVE  Chains(c, t)
<1>1. c \in Certs /\ NotAfter[c] \in Nat /\ RevokedAt[c] \in Nat
  BY CertsAssumption DEF Chains
<1>2. QED
  BY <1>1 DEF Chains

\* A TSA that was good at the time of a trusted document timestamp is good at the anchor,
\* if no document timestamp looked at so far is before the entry.
LEMMA AnchorServes ==
  ASSUME CInv, NEW i \in DOMAIN doc, doc[i].tsa # NoTsa,
         NEW j \in DOMAIN doc, Is(j, "timestamp"), Trusted(j), Chains(doc[i].tsa, doc[j].time),
         \A k \in DOMAIN doc : Is(k, "timestamp") /\ (pc = "pass1" => k > next) => i <= k
  PROVE  TsaTrusted(doc[i].tsa)
<1>1. IInv /\ Dated /\ AnchorLeast
  BY DEF CInv
<1>2. pc # "idle" /\ anchor # NoTime /\ anchor <= doc[j].time
  BY <1>1 DEF AnchorLeast, Trusted
<1>3. PICK k \in DOMAIN doc : /\ pc = "pass1" => k > next
                              /\ Is(k, "timestamp") /\ Trusted(k) /\ doc[k].time = anchor
  BY <1>1, <1>2 DEF IInv, AnchorFound
<1>4. \A l \in DOMAIN doc : Is(l, "timestamp") /\ Trusted(l) => doc[l].tsa \in Rooted
  BY <1>1 DEF IInv, ArchivesSound, Chains
<1>5. doc[k].time = doc[k].made /\ doc[j].time = doc[j].made
  BY <1>1, <1>3, <1>4 DEF Dated
<1>6. NotBefore[doc[i].tsa] <= doc[i].made /\ doc[i].made <= doc[k].made
  BY <1>1, <1>3 DEF Dated, Chains
<1>7. PICK b \in Nat : b = NotBefore[doc[i].tsa]
  BY CertsAssumption DEF Chains
<1>8. doc[i].made \in Nat /\ doc[j].made \in Nat /\ doc[k].made \in Nat
  BY <1>1, Shapes
<1>9. b <= doc[k].made
  BY <1>6, <1>7, <1>8
<1>10. Chains(doc[i].tsa, anchor)
  BY <1>2, <1>3, <1>5, <1>7, <1>8, <1>9, ChainsBefore
<1>11. QED
  BY <1>2, <1>10 DEF TsaTrusted

\* A document grows at its end.
LEMMA AddIsDated ==
  ASSUME IInv, Dated, NEW e \in Entries, Add(e), e.made = now,
         e.kind = "timestamp" => e.tsa # NoTsa,
         e.tsa # NoTsa /\ e.tsa \in Rooted => e.time = now /\ NotBefore[e.tsa] <= now
  PROVE  Dated'
<1>1. /\ doc' = Append(doc, e) /\ DOMAIN doc' = 1..(Len(doc) + 1) /\ now' = now
      /\ \A i \in DOMAIN doc : i \in DOMAIN doc' /\ doc'[i] = doc[i]
      /\ doc'[Len(doc) + 1] = e
  BY AddType DEF IInv
<1>2. Len(doc) \in Nat /\ DOMAIN doc = 1..Len(doc) /\ now \in Nat
  BY Shapes
<1>3. \A i \in DOMAIN doc' : i \in DOMAIN doc \/ i = Len(doc) + 1
  BY <1>1, <1>2
<1>4. ASSUME NEW i \in DOMAIN doc'
      PROVE  /\ doc'[i].made <= now
             /\ Is(i, "timestamp")' => doc'[i].tsa # NoTsa
             /\ doc'[i].tsa # NoTsa /\ doc'[i].tsa \in Rooted =>
                  doc'[i].time = doc'[i].made /\ NotBefore[doc'[i].tsa] <= doc'[i].made
  <2>1. CASE i \in DOMAIN doc
    BY <1>1, <2>1 DEF Dated, Is
  <2>2. CASE i = Len(doc) + 1
    BY <1>1, <1>2, <2>2 DEF Is
  <2>3. QED
    BY <1>3, <2>1, <2>2
<1>5. ASSUME NEW i \in DOMAIN doc', NEW j \in DOMAIN doc', i <= j
      PROVE  doc'[i].made <= doc'[j].made
  <2>1. CASE j \in DOMAIN doc
    <3>1. i \in DOMAIN doc
      BY <1>1, <1>2, <1>5, <2>1
    <3>2. QED
      BY <1>1, <1>5, <2>1, <3>1 DEF Dated
  <2>2. CASE j = Len(doc) + 1
    BY <1>1, <1>4, <2>2
  <2>3. QED
    BY <1>3, <2>1, <2>2
<1>6. QED
  BY <1>1, <1>4, <1>5 DEF Dated

LEMMA LifeIsDated ==
  ASSUME IInv, Dated,
         \/ SignPlain \/ LearnRevocation
         \/ \E q \in {"good", "broken", "malformed"} : SignStamped(q) \/ ArchiveStamp(q)
  PROVE  Dated' /\ pc' = "idle"
<1>0. now \in Nat /\ now \in Times
  BY Shapes DEF TypeOK
<1>1. ASSUME NEW tsa \in Tsas, NEW t \in GenTimes(tsa), tsa \in Rooted
      PROVE  t = now /\ NotBefore[tsa] <= now
  BY <1>1 DEF GenTimes
<1>2. CASE LearnRevocation
  BY <1>2 DEF LearnRevocation, verifier, Dated, Is
<1>3. CASE SignPlain
  <2>1. PICK s \in Signers : Add(Entry("signature", s, NoTsa, NoTime, "good"))
    BY <1>3 DEF SignPlain
  <2>2. Entry("signature", s, NoTsa, NoTime, "good") \in Entries
    BY <1>0 DEF Entry, Entries
  <2>3. QED
    BY <2>1, <2>2, AddIsDated, Zenon DEF Entry, Add, verifier
<1>4. ASSUME NEW q \in {"good", "broken", "malformed"}, SignStamped(q) PROVE Dated' /\ pc' = "idle"
  <2>0. PICK s \in Signers, tsa \in Tsas : \E t \in GenTimes(tsa) :
          Add(Entry("signature", s, tsa, t, q))
    BY <1>4 DEF SignStamped
  <2>1. PICK t \in GenTimes(tsa) : Add(Entry("signature", s, tsa, t, q))
    BY <2>0
  <2>2. PICK e : e = Entry("signature", s, tsa, t, q)
    OBVIOUS
  <2>3. /\ e \in Entries /\ e.made = now /\ e.kind = "signature"
        /\ e.tsa \in Rooted => e.time = now /\ NotBefore[e.tsa] <= now
    BY <1>0, <1>1, <2>2, GenTimesType DEF Entry, Entries
  <2>4. QED
    BY <2>1, <2>2, <2>3, AddIsDated DEF Add, verifier
<1>5. ASSUME NEW q \in {"good", "broken", "malformed"}, ArchiveStamp(q) PROVE Dated' /\ pc' = "idle"
  <2>0. PICK tsa \in Tsas : \E t \in GenTimes(tsa) :
          Add(Entry("timestamp", NoTsa, tsa, t, q))
    BY <1>5 DEF ArchiveStamp
  <2>1. PICK t \in GenTimes(tsa) : Add(Entry("timestamp", NoTsa, tsa, t, q))
    BY <2>0
  <2>2. PICK e : e = Entry("timestamp", NoTsa, tsa, t, q)
    OBVIOUS
  <2>3. /\ e \in Entries /\ e.made = now /\ e.tsa # NoTsa
        /\ e.tsa \in Rooted => e.time = now /\ NotBefore[e.tsa] <= now
    BY <1>0, <1>1, <2>2, GenTimesType, CertsAssumption DEF Entry, Entries
  <2>4. QED
    BY <2>1, <2>2, <2>3, AddIsDated DEF Add, verifier
<1>6. QED
  BY <1>2, <1>3, <1>4, <1>5

\* A step of the verifier, or of the clock, leaves the document as it is.
LEMMA StaysDated ==
  ASSUME IInv, Dated, UNCHANGED doc, now' \in Nat, now <= now'
  PROVE  Dated'
<1>1. \A i \in DOMAIN doc : doc[i].made \in Nat
  BY Shapes
<1>2. now \in Nat
  BY Shapes
<1>3. QED
  BY <1>1, <1>2 DEF Dated, Is

\* What pass 1 makes of a document timestamp that is renewed.
LEMMA RenewedIsTrusted ==
  ASSUME CInv, pc = "pass1", next \in Renewed
  PROVE  Is(next, "timestamp") /\ StampVerdict(doc[next]).trust = "trusted"
<1>1. IInv /\ next \in DOMAIN doc
  BY DEF CInv, Renewed
<1>2. doc \in Seq(Entries) /\ now \in Nat /\ started \in Nat /\ started <= now /\ Len(doc) \in Nat
  BY <1>1, Shapes
<1>3. /\ doc[next].kind = "timestamp" /\ doc[next].quality = "good"
      /\ \/ \A t \in started..now : Chains(doc[next].tsa, t)
         \/ \E j \in (next + 1)..Len(doc) : j \in Renewed /\ Chains(doc[next].tsa, doc[j].time)
  BY <1>1, <1>2, RenewedIs DEF RenewedRule
<1>4. TsaTrusted(doc[next].tsa)
  <2>1. CASE \A t \in started..now : Chains(doc[next].tsa, t)
    <3>1. now \in started..now
      BY <1>2
    <3>2. QED
      BY <2>1, <3>1 DEF TsaTrusted
  <2>2. CASE \E j \in (next + 1)..Len(doc) : j \in Renewed /\ Chains(doc[next].tsa, doc[j].time)
    <3>1. PICK j \in (next + 1)..Len(doc) : j \in Renewed /\ Chains(doc[next].tsa, doc[j].time)
      BY <2>2
    <3>2. j \in DOMAIN doc /\ j > next /\ Is(j, "timestamp")
      BY <1>2, <3>1, RenewedIs DEF RenewedRule, Renewed, Is
    <3>3. Trusted(j)
      BY <3>1, <3>2 DEF CInv, RenewedTrusted
    <3>4. doc[next].tsa # NoTsa
      BY <1>1, <1>3 DEF CInv, Dated, Is
    <3>5. \A k \in DOMAIN doc : k > next => next <= k
      <4>1. next \in Nat /\ DOMAIN doc = 1..Len(doc)
        BY <1>1, Shapes
      <4>2. QED
        BY <1>2, <4>1
    <3>6. QED
      BY <1>1, <3>1, <3>2, <3>3, <3>4, <3>5, AnchorServes
  <2>3. QED
    BY <1>3, <2>1, <2>2
<1>5. QED
  BY <1>3, <1>4 DEF StampVerdict, Verdict, Is

LEMMA Pass1Completes ==
  ASSUME CInv, Pass1
  PROVE  AnchorLeast' /\ RenewedTrusted' /\ PreservedTrusted'
<1>1. /\ pc = "pass1" /\ pc' = "pass1" /\ next' = next - 1
      /\ UNCHANGED <<doc, known, started, now>>
      /\ IF doc[next].kind = "signature" THEN UNCHANGED <<anchor, results>>
         ELSE LET v == StampVerdict(doc[next])
              IN  /\ results' = [results EXCEPT ![next] = v]
                  /\ anchor' = IF v.trust = "trusted" THEN Earliest(v.time) ELSE anchor
  BY DEF Pass1, document
<1>2. /\ IInv /\ doc \in Seq(Entries) /\ DOMAIN doc = 1..Len(doc) /\ Len(doc) \in Nat
      /\ now \in Nat /\ next \in Nat /\ next \in DOMAIN doc /\ doc[next] \in Entries
  <2>1. IInv
    BY DEF CInv
  <2>2. next > 0 /\ next <= Len(doc)
    BY <1>1, <2>1 DEF IInv, Pending, Pass1
  <2>3. QED
    BY <2>1, <2>2, Shapes
<1>3. results \in [DOMAIN doc -> Verdicts] /\ anchor \in Times \cup {NoTime}
  BY <1>1, <1>2 DEF IInv, TypeOK, Verdicts, Trusts
<1>4. PICK k : k = next
  OBVIOUS
<1>5. \A i \in DOMAIN doc : i # k => results'[i] = results[i]
  BY <1>1, <1>3, <1>4
<1>6. Renewed' \subseteq Renewed
  BY <1>1, <1>2, NothingIsRenewed
<1>7. RenewedTrusted'
  <2> SUFFICES ASSUME NEW i \in Renewed, i > next - 1 PROVE results'[i].trust = "trusted"
    BY <1>1, <1>6 DEF RenewedTrusted, Trusted
  <2>1. i \in DOMAIN doc
    BY DEF Renewed
  <2>2. CASE i = k
    <3>1. Is(next, "timestamp") /\ StampVerdict(doc[next]).trust = "trusted"
      BY <1>1, <1>4, <2>2, RenewedIsTrusted
    <3>2. results' = [results EXCEPT ![next] = StampVerdict(doc[next])]
      BY <1>1, <3>1 DEF Is
    <3>3. QED
      BY <1>2, <1>3, <1>4, <2>2, <3>1, <3>2
  <2>3. CASE i # k
    <3>1. i > next
      BY <1>2, <1>4, <2>1, <2>3
    <3>2. results[i].trust = "trusted"
      BY <1>1, <3>1 DEF CInv, RenewedTrusted, Trusted
    <3>3. QED
      BY <1>5, <2>1, <2>3, <3>2
  <2>4. QED
    BY <2>2, <2>3
<1>8. AnchorLeast'
  <2>1. AnchorLeast
    BY DEF CInv
  <2>2. CASE doc[next].kind = "signature"
    BY <1>1, <2>1, <2>2 DEF AnchorLeast, Is, Trusted
  <2>3. CASE doc[next].kind # "signature"
    <3>1. PICK v : v = StampVerdict(doc[next])
      OBVIOUS
    <3>2. /\ results' = [results EXCEPT ![next] = v] /\ results'[next] = v
          /\ anchor' = IF v.trust = "trusted" THEN Earliest(v.time) ELSE anchor
      BY <1>1, <1>2, <1>3, <2>3, <3>1
    <3>3. v.trust = "trusted" => v.time = doc[next].time
      BY <1>2, <3>1, StampVerdictType
    <3>4. v.trust = "trusted" => doc[next].time \in Times
      <4>1. SUFFICES ASSUME v.trust = "trusted" PROVE doc[next].time \in Times
        OBVIOUS
      <4>2. doc[next].tsa \in Rooted
        BY <1>2, <3>1, <4>1, StampVerdictType DEF TsaTrusted, Chains
      <4>3. Is(next, "timestamp")
        BY <1>2, <2>3 DEF Entries, Is
      <4>4. doc[next].time = doc[next].made
        BY <1>2, <4>2, <4>3 DEF CInv, Dated
      <4>5. QED
        BY <1>2, <4>4, Shapes
    <3>5. Times \subseteq Nat
      BY CertsAssumption
    <3>6. ASSUME NEW j \in DOMAIN doc, Is(j, "timestamp"), results'[j].trust = "trusted"
          PROVE  anchor' # NoTime /\ anchor' <= doc[j].time
      <4>1. CASE j = k
        <5>1. v.trust = "trusted"
          BY <1>4, <3>2, <3>6, <4>1
        <5>2. anchor' = Earliest(doc[next].time) /\ doc[next].time \in Nat
          BY <3>2, <3>3, <3>4, <3>5, <5>1
        <5>3. anchor = NoTime \/ anchor \in Nat
          BY <1>3, <3>5
        <5>4. QED
          BY <1>4, <4>1, <5>2, <5>3 DEF Earliest
      <4>2. CASE j # k
        <5>1. Trusted(j)
          BY <1>1, <1>5, <3>6, <4>2 DEF Trusted
        <5>2. anchor # NoTime /\ anchor <= doc[j].time
          BY <2>1, <3>6, <5>1 DEF AnchorLeast
        <5>3. anchor \in Nat
          BY <1>3, <3>5, <5>2
        <5>4. doc[j].time \in Int
          <6>1. doc[j] \in Entries
            BY <1>2
          <6>2. QED
            BY <3>5, <6>1 DEF Entries
        <5>5. CASE v.trust = "trusted"
          <6>1. anchor' = Earliest(doc[next].time) /\ doc[next].time \in Nat
            BY <3>2, <3>3, <3>4, <3>5, <5>5
          <6>2. QED
            BY <5>2, <5>3, <5>4, <6>1 DEF Earliest
        <5>6. CASE v.trust # "trusted"
          BY <3>2, <5>2, <5>6
        <5>7. QED
          BY <5>5, <5>6
      <4>3. QED
        BY <4>1, <4>2
    <3>7. QED
      BY <1>1, <3>6 DEF AnchorLeast, Is, Trusted
  <2>4. QED
    BY <2>2, <2>3
<1>9. PreservedTrusted'
  BY <1>1 DEF PreservedTrusted
<1>10. QED
  BY <1>7, <1>8, <1>9

\* The trusted time of a signature of the first round is the time its timestamp says.
LEMMA FirstRoundIsTimed ==
  ASSUME CInv, pc = "pass2", next \in DOMAIN doc, FirstRound(next)
  PROVE  TrustedTimeOf(doc[next]) = doc[next].time
<1>1. /\ IInv /\ doc \in Seq(Entries) /\ DOMAIN doc = 1..Len(doc) /\ Len(doc) \in Nat
      /\ now \in Nat /\ started \in Nat /\ started <= now /\ next \in Nat
  BY Shapes DEF CInv
<1>2. /\ Is(next, "signature") /\ doc[next].tsa # NoTsa
      /\ \/ \A t \in started..now : Chains(doc[next].tsa, t)
         \/ \E j \in Renewed : j > next /\ Chains(doc[next].tsa, doc[j].time)
  BY DEF FirstRound, Preserved
<1>3. CASE \A t \in started..now : Chains(doc[next].tsa, t)
  <2>1. now \in started..now
    BY <1>1
  <2>2. QED
    BY <1>2, <1>3, <2>1 DEF TrustedTimeOf, TsaTrusted
<1>4. CASE \E j \in Renewed : j > next /\ Chains(doc[next].tsa, doc[j].time)
  <2>1. PICK j \in Renewed : Chains(doc[next].tsa, doc[j].time)
    BY <1>4
  <2>2. j \in DOMAIN doc /\ Is(j, "timestamp")
    BY <1>1, RenewedIs DEF RenewedRule, Renewed, Is
  <2>3. Trusted(j)
    BY DEF CInv, RenewedTrusted
  <2>4. ASSUME NEW k \in DOMAIN doc, Is(k, "timestamp") PROVE next <= k
    <3>1. ~(k \in 1..(next - 1))
      BY <2>4 DEF FirstRound, Is
    <3>2. QED
      BY <1>1, <3>1
  <2>5. TsaTrusted(doc[next].tsa)
    BY <1>2, <2>1, <2>2, <2>3, <2>4, AnchorServes
  <2>6. QED
    BY <1>2, <2>5 DEF TrustedTimeOf
<1>5. QED
  BY <1>2, <1>3, <1>4

\* The steps that set no verdict.
LEMMA NoVerdictCompletes ==
  ASSUME CInv, Pass1Done \/ Pass2Time \/ Exit
  PROVE  AnchorLeast' /\ RenewedTrusted' /\ PreservedTrusted'
<1>1. /\ IInv /\ doc \in Seq(Entries) /\ DOMAIN doc = 1..Len(doc) /\ Len(doc) \in Nat
      /\ now \in Nat /\ next \in Nat
  BY Shapes DEF CInv
<1>2. /\ UNCHANGED <<doc, known, started, now, results, anchor>>
      /\ pc # "idle" /\ pc' \in {"pass2", "chain", "done"}
  BY DEF Pass1Done, Pass2Time, Exit, document
<1>3. Renewed' \subseteq Renewed /\ \A i \in DOMAIN doc : FirstRound(i)' => FirstRound(i)
  BY <1>1, <1>2, NothingIsRenewed
<1>4. AnchorLeast'
  BY <1>2 DEF CInv, AnchorLeast, Is, Trusted
<1>5. \A i \in DOMAIN doc : i > 0
  BY <1>1
<1>6. RenewedTrusted'
  <2>1. \A i \in Renewed : i \in DOMAIN doc
    BY DEF Renewed
  <2>2. pc = "pass1" => next = 0
    BY <1>2 DEF Pass1Done, Pass2Time, Exit
  <2>3. \A i \in Renewed : Trusted(i)
    BY <1>2, <1>5, <2>1, <2>2 DEF CInv, RenewedTrusted
  <2>4. QED
    BY <1>2, <1>3, <2>3 DEF RenewedTrusted, Trusted
<1>7. CASE Pass1Done
  <2>1. pc' = "pass2" /\ next' = 1
    BY <1>7 DEF Pass1Done
  <2>2. \A i \in DOMAIN doc : ~(i < 1)
    BY <1>1
  <2>3. PreservedTrusted'
    BY <1>2, <2>1, <2>2 DEF PreservedTrusted
  <2>4. QED
    BY <1>4, <1>6, <2>3
<1>8. CASE Pass2Time
  <2>1. /\ pc = "pass2" /\ pc' = "chain" /\ next' = next /\ at' = TrustedTimeOf(doc[next])
        /\ next <= Len(doc)
    BY <1>8 DEF Pass2Time
  <2>2. next \in DOMAIN doc
    BY <1>1, <2>1 DEF IInv, Pending
  <2>3. \A i \in DOMAIN doc : FirstRound(i) /\ i < next => Trusted(i)
    BY <2>1 DEF CInv, PreservedTrusted
  <2>4. FirstRound(next) => at' = doc[next].time
    BY <2>1, <2>2, FirstRoundIsTimed
  <2>5. \A i \in DOMAIN doc : FirstRound(i)' /\ i < next => Trusted(i)'
    BY <1>2, <1>3, <2>3 DEF Trusted
  <2>6. \A i \in DOMAIN doc : FirstRound(i)' /\ i = next => at' = doc[i].time
    BY <1>3, <2>4
  <2>7. PreservedTrusted'
    BY <1>2, <2>1, <2>5, <2>6 DEF PreservedTrusted
  <2>8. QED
    BY <1>4, <1>6, <2>7
<1>9. CASE Exit
  <2>1. pc = "pass2" /\ pc' = "done" /\ next > Len(doc)
    BY <1>9 DEF Exit
  <2>2. \A i \in DOMAIN doc : i < next
    BY <1>1, <2>1
  <2>3. \A i \in DOMAIN doc : FirstRound(i) => Trusted(i)
    BY <2>1, <2>2 DEF CInv, PreservedTrusted
  <2>4. PreservedTrusted'
    BY <1>2, <1>3, <2>1, <2>3 DEF PreservedTrusted, Trusted
  <2>5. QED
    BY <1>4, <1>6, <2>4
<1>10. QED
  BY <1>7, <1>8, <1>9

\* The steps of pass 2 that set a verdict leave those of the document timestamps.
LEMMA Pass2Completes ==
  ASSUME CInv, Pass2Chain \/ Pass2Skip
  PROVE  AnchorLeast' /\ RenewedTrusted' /\ PreservedTrusted'
<1>1. /\ IInv /\ doc \in Seq(Entries) /\ DOMAIN doc = 1..Len(doc) /\ Len(doc) \in Nat
      /\ now \in Nat /\ next \in Nat
  BY Shapes DEF CInv
<1>2. /\ UNCHANGED <<doc, known, started, now, anchor>> /\ pc \in {"pass2", "chain"}
      /\ pc' = "pass2" /\ next' = next + 1
  BY DEF Pass2Chain, Pass2Skip, document
<1>3. next \in DOMAIN doc
  <2>1. CASE Pass2Chain
    BY <1>1, <2>1 DEF Pass2Chain, IInv, TypeOK
  <2>2. CASE Pass2Skip
    BY <1>1, <2>2 DEF Pass2Skip, IInv, Pending
  <2>3. QED
    BY <2>1, <2>2
<1>4. results \in [DOMAIN doc -> Verdicts]
  BY <1>1, <1>2 DEF IInv, TypeOK, Verdicts, Trusts
<1>5. Renewed' \subseteq Renewed /\ \A i \in DOMAIN doc : FirstRound(i)' => FirstRound(i)
  BY <1>1, <1>2, NothingIsRenewed
<1>6. PICK k : k = next
  OBVIOUS
<1>7. /\ \A i \in DOMAIN doc : i # k => results'[i] = results[i]
      /\ Is(k, "timestamp") => results' = results
      /\ FirstRound(k) => results'[k].trust = "trusted"
  <2>1. CASE Pass2Chain
    <3>1. Is(k, "signature") /\ pc = "chain"
      BY <1>1, <1>6, <2>1 DEF Pass2Chain, IInv, TimeIsReal
    <3>2. PICK v : results' = [results EXCEPT ![next] = v]
                   /\ v = IF Chains(doc[next].signer, IF at = NoTime THEN now ELSE at)
                          THEN Verdict("trusted", at) ELSE Verdict("untrusted", NoTime)
      BY <2>1 DEF Pass2Chain
    <3>3. ASSUME FirstRound(k) PROVE v.trust = "trusted"
      <4>1. at = doc[next].time
        BY <1>3, <1>6, <3>1, <3>3 DEF CInv, PreservedTrusted
      <4>2. Chains(doc[next].signer, doc[next].time) /\ doc[next].tsa # NoTsa
        BY <1>6, <3>3 DEF FirstRound, Preserved
      <4>3. NotBefore[doc[next].signer] \in Nat /\ NotBefore[doc[next].signer] <= at
        BY <4>1, <4>2, CertsAssumption DEF Chains
      <4>4. at # NoTime
        BY <4>3
      <4>5. QED
        BY <3>2, <4>1, <4>2, <4>4 DEF Verdict
    <3>4. QED
      BY <1>3, <1>4, <1>6, <3>1, <3>2, <3>3 DEF Is
  <2>2. CASE Pass2Skip
    BY <1>4, <1>6, <2>2 DEF Pass2Skip, FirstRound, Preserved, Is
  <2>3. QED
    BY <2>1, <2>2
<1>8. \A i \in DOMAIN doc : Is(i, "timestamp") => results'[i] = results[i]
  BY <1>7
<1>9. AnchorLeast'
  BY <1>2, <1>8 DEF CInv, AnchorLeast, Is, Trusted
<1>10. RenewedTrusted'
  <2>1. \A i \in Renewed : i \in DOMAIN doc /\ Is(i, "timestamp") /\ Trusted(i)
    BY <1>1, <1>2, RenewedIs DEF CInv, RenewedTrusted, RenewedRule, Renewed, Is
  <2>2. QED
    BY <1>2, <1>5, <1>8, <2>1 DEF RenewedTrusted, Trusted
<1>11. PreservedTrusted'
  <2> SUFFICES ASSUME NEW i \in DOMAIN doc, FirstRound(i), i < next + 1
      PROVE  results'[i].trust = "trusted"
    BY <1>2, <1>5 DEF PreservedTrusted, Trusted
  <2>1. CASE i = k
    BY <1>7, <2>1
  <2>2. CASE i # k
    <3>1. i < next
      BY <1>1, <1>6, <2>2
    <3>2. Trusted(i)
      BY <1>2, <3>1 DEF CInv, PreservedTrusted
    <3>3. QED
      BY <1>7, <2>2, <3>2 DEF Trusted
  <2>3. QED
    BY <2>1, <2>2
<1>12. QED
  BY <1>9, <1>10, <1>11

LEMMA StartCompletes ==
  ASSUME CInv, Start
  PROVE  AnchorLeast' /\ RenewedTrusted' /\ PreservedTrusted'
<1>1. /\ IInv /\ doc \in Seq(Entries) /\ DOMAIN doc = 1..Len(doc) /\ Len(doc) \in Nat
  BY Shapes DEF CInv
<1>2. /\ doc' = doc /\ pc' = "pass1" /\ next' = Len(doc)
      /\ results' = [i \in DOMAIN doc |-> [trust |-> "unset", time |-> NoTime]]
  BY DEF Start, document, Blank, Unset
<1>3. \A i \in DOMAIN doc : ~(i > Len(doc)) /\ results'[i].trust # "trusted"
  BY <1>1, <1>2
<1>4. Renewed' \subseteq DOMAIN doc
  BY <1>2 DEF Renewed
<1>5. QED
  BY <1>2, <1>3, <1>4 DEF AnchorLeast, RenewedTrusted, PreservedTrusted, Trusted

LEMMA ClockCompletes ==
  ASSUME CInv, IInv', Tick \/ UNCHANGED vars
  PROVE  AnchorLeast' /\ RenewedTrusted' /\ PreservedTrusted' /\ Dated'
<1>1. IInv /\ now \in Nat /\ next \in Nat
  BY Shapes DEF CInv
<1>2. /\ UNCHANGED <<doc, known, started, pc, next, anchor, at, results>> /\ now' \in Nat
      /\ now <= now'
  BY <1>1 DEF Tick, vars, document, verifier
<1>3. Renewed' \subseteq Renewed /\ \A i \in DOMAIN doc : FirstRound(i)' => FirstRound(i)
  BY <1>1, <1>2, NothingIsRenewed
<1>4. \A i : Trusted(i)' = Trusted(i) /\ \A kind : Is(i, kind)' = Is(i, kind)
  BY <1>2 DEF Trusted, Is
<1>5. AnchorLeast' /\ RenewedTrusted'
  BY <1>2, <1>3, <1>4 DEF CInv, AnchorLeast, RenewedTrusted
<1>6. PreservedTrusted'
  <2>1. ASSUME pc = "chain", NEW i \in DOMAIN doc, FirstRound(i)', i = next
        PROVE  at = doc[i].time
    BY <1>3, <2>1 DEF CInv, PreservedTrusted
  <2>2. ASSUME pc \in {"pass2", "chain", "done"}, NEW i \in DOMAIN doc, FirstRound(i)',
               pc # "done" => i < next
        PROVE  Trusted(i)
    BY <1>3, <2>2 DEF CInv, PreservedTrusted
  <2>3. QED
    BY <1>2, <1>4, <2>1, <2>2 DEF PreservedTrusted
<1>7. Dated'
  BY <1>1, <1>2, StaysDated DEF CInv
<1>8. QED
  BY <1>5, <1>6, <1>7

\* What was renewed or preserved and was looked at is trusted: an invariant.
THEOREM CompletenessInv == Spec => []CInv
<1>1. Init => CInv
  <2> SUFFICES ASSUME Init PROVE CInv
    OBVIOUS
  <2>1. Dated /\ AnchorLeast /\ RenewedTrusted /\ PreservedTrusted
    BY DEF Init, Dated, AnchorLeast, RenewedTrusted, PreservedTrusted
  <2>2. QED
    BY <2>1, InitInv DEF CInv
<1>2. CInv /\ IInv' /\ [Next]_vars => CInv'
  <2> SUFFICES ASSUME CInv, IInv', [Next]_vars PROVE CInv'
    OBVIOUS
  <2>1. IInv /\ now \in Nat /\ Dated
    BY Shapes DEF CInv
  <2>2. CASE \/ SignPlain \/ LearnRevocation
             \/ \E q \in {"good", "broken", "malformed"} : SignStamped(q) \/ ArchiveStamp(q)
    <3>1. Dated' /\ pc' = "idle"
      BY <2>1, <2>2, LifeIsDated
    <3>2. AnchorLeast' /\ RenewedTrusted' /\ PreservedTrusted'
      BY <3>1 DEF AnchorLeast, RenewedTrusted, PreservedTrusted, Trusted
    <3>3. QED
      BY <3>1, <3>2 DEF CInv
  <2>3. CASE Tick \/ UNCHANGED vars
    BY <2>3, ClockCompletes DEF CInv
  <2>4. CASE Start \/ Pass1 \/ Pass1Done \/ Pass2Time \/ Pass2Chain \/ Pass2Skip \/ Exit
    <3>1. UNCHANGED doc /\ now' \in Nat /\ now <= now'
      BY <2>1, <2>4
         DEF Start, Pass1, Pass1Done, Pass2Time, Pass2Chain, Pass2Skip, Exit, document
    <3>2. Dated'
      BY <2>1, <3>1, StaysDated
    <3>3. AnchorLeast' /\ RenewedTrusted' /\ PreservedTrusted'
      BY <2>4, StartCompletes, Pass1Completes, NoVerdictCompletes, Pass2Completes
    <3>4. QED
      BY <3>2, <3>3 DEF CInv
  <2>5. QED
    BY <2>2, <2>3, <2>4 DEF Next
<1>3. QED
  BY <1>1, <1>2, SpecInv, PTL DEF Spec

\* verify.rs:176-179: a document timestamp renewed in time by a later one, that one by another
\* and so on up to one that is good now, is reported as trusted although its own certificate has
\* expired.
THEOREM RenewalWorks == Spec => []ArchivesComplete
<1>1. CInv => ArchivesComplete
  BY DEF CInv, RenewedTrusted, ArchivesComplete
<1>2. QED
  BY <1>1, CompletenessInv, PTL

\* verify.rs:179-181, for the signatures that no document timestamp precedes: they are reported as
\* trusted after their certificates and their TSAs expired.
THEOREM FirstRoundIsKept == Spec => []FirstRoundStaysVerifiable
<1>1. CInv => FirstRoundStaysVerifiable
  BY DEF CInv, PreservedTrusted, FirstRound, FirstRoundStaysVerifiable
<1>2. QED
  BY <1>1, CompletenessInv, PTL
=============================================================================
