-------------------------- MODULE RevocationProofs --------------------------
(***************************************************************************)
(* Proofs about Revocation: nothing is wrongly held to be revoked, and     *)
(* what an authority told about a revocation counts.                       *)
(***************************************************************************)
EXTENDS Revocation, TLAPS

\* The entry of c in a list of its issuer, and the answer about c.
ListsTruly(crl, c) ==
  /\ crl.issuer = c.issuer /\ crl.key = c.signedBy
  /\ [serial |-> c.serial, date |-> revokedAt[c]] \in crl.entries
AnswersTruly(r, c) ==
  /\ r.ca = IssuerOf(c) /\ r.id = CertId(c, IssuerOf(c)) /\ r.date = revokedAt[c]

\* A revocation is not taken back, and is never in the future.
RevokedInTime ==
  /\ now \in Nat /\ now >= 1
  /\ revokedAt \in [Certs -> 0..now]

\* What an undamaged list says is true.
ListsAreTrue ==
  \A crl \in crls : crl.key # Damaged =>
    \A entry \in crl.entries :
      \E c \in Certs : crl.issuer = c.issuer /\ crl.key = c.signedBy
        /\ IsRevoked(c) /\ entry.serial = c.serial /\ entry.date = revokedAt[c]

\* What an answer says is true.
AnswersAreTrue ==
  \A r \in ocsps : r.date # 0 =>
    \E c \in Certs : IsRevoked(c) /\ AnswersTruly(r, c)

\* What was told is kept.
ToldIsKept ==
  \A t \in told :
    /\ t.cert \in Certs /\ IsRevoked(t.cert)
    /\ \/ \E crl \in crls : ListsTruly(crl, t.cert)
       \/ \E r \in ocsps : AnswersTruly(r, t.cert)
            /\ (r.by = "ca" \/ (r.responder.from = t.from /\ r.responder.to = t.to))

IInv == RevokedInTime /\ ListsAreTrue /\ AnswersAreTrue /\ ToldIsKept

-----------------------------------------------------------------------------
(* Who issued what.                                                        *)

\* The issuer of a certificate is an authority, and its only one.
LEMMA IssuerExists ==
  ASSUME NEW c \in Certs
  PROVE  IssuerOf(c) \in Authorities /\ IssuedBy(c, IssuerOf(c))
<1>1. \E ca \in Authorities : IssuedBy(c, ca)
  BY RevocationAssumption DEF IssuedBy
<1>2. QED
  BY <1>1 DEF IssuerOf

LEMMA IssuerIsUnique ==
  ASSUME NEW c \in Certs, NEW ca \in Authorities, IssuedBy(c, ca)
  PROVE  ca = IssuerOf(c)
<1>1. IssuerOf(c) \in Authorities /\ IssuedBy(c, IssuerOf(c))
  BY IssuerExists
<1>2. ca.key = IssuerOf(c).key
  BY <1>1 DEF IssuedBy
<1>3. QED
  BY <1>1, <1>2, RevocationAssumption

\* A number and a key tell a certificate.
LEMMA NumberTells ==
  ASSUME NEW c \in Certs, NEW d \in Certs, c.signedBy = d.signedBy, c.serial = d.serial
  PROVE  c = d
  BY RevocationAssumption

-----------------------------------------------------------------------------
(* The invariant.                                                          *)

LEMMA Initially == Init => IInv
  BY DEF Init, IInv, RevokedInTime, ListsAreTrue, AnswersAreTrue, ToldIsKept

\* A step that revokes nothing and adds to the material keeps what is there true.
LEMMA TruthStays ==
  ASSUME IInv, revokedAt' = revokedAt, crls \subseteq crls', ocsps \subseteq ocsps',
         NEW t \in told
  PROVE  /\ t.cert \in Certs /\ IsRevoked(t.cert)'
         /\ \/ \E crl \in crls' : ListsTruly(crl, t.cert)'
            \/ \E r \in ocsps' : AnswersTruly(r, t.cert)'
                 /\ (r.by = "ca" \/ (r.responder.from = t.from /\ r.responder.to = t.to))
<1>1. CASE \E crl \in crls : ListsTruly(crl, t.cert)
  <2>1. PICK crl \in crls : ListsTruly(crl, t.cert)
    BY <1>1
  <2>2. crl \in crls' /\ ListsTruly(crl, t.cert)'
    BY <2>1 DEF ListsTruly
  <2>3. QED
    BY <2>2 DEF IInv, ToldIsKept, IsRevoked
<1>2. CASE \E r \in ocsps : AnswersTruly(r, t.cert)
                 /\ (r.by = "ca" \/ (r.responder.from = t.from /\ r.responder.to = t.to))
  <2>1. PICK r \in ocsps : AnswersTruly(r, t.cert)
                 /\ (r.by = "ca" \/ (r.responder.from = t.from /\ r.responder.to = t.to))
    BY <1>2
  <2>2. r \in ocsps' /\ AnswersTruly(r, t.cert)'
    BY <2>1 DEF AnswersTruly
  <2>3. QED
    BY <2>1, <2>2 DEF IInv, ToldIsKept, IsRevoked
<1>3. QED
  BY <1>1, <1>2 DEF IInv, ToldIsKept

LEMMA TickKeeps == IInv /\ Tick => IInv'
<1> SUFFICES ASSUME IInv, Tick PROVE IInv'
  OBVIOUS
<1>1. RevokedInTime'
  <2>1. \A c \in Certs : revokedAt[c] \in 0..(now + 1)
    BY DEF IInv, RevokedInTime
  <2>2. QED
    BY <2>1 DEF IInv, RevokedInTime, Tick
<1>2. ListsAreTrue' /\ AnswersAreTrue' /\ ToldIsKept'
  BY DEF IInv, Tick, ListsAreTrue, AnswersAreTrue, ToldIsKept, ListsTruly, AnswersTruly,
         IsRevoked, IssuerOf, CertId, IssuedBy
<1>3. QED
  BY <1>1, <1>2 DEF IInv

LEMMA CertifyKeeps == ASSUME NEW ca \in Authorities PROVE IInv /\ Certify(ca) => IInv'
  BY DEF IInv, Certify, RevokedInTime, ListsAreTrue, AnswersAreTrue, ToldIsKept, ListsTruly,
         AnswersTruly, IsRevoked

\* Revoking one certificate changes nothing about those that are revoked.
LEMMA RevokeKeeps == ASSUME NEW x \in Certs PROVE IInv /\ Revoke(x) => IInv'
<1> SUFFICES ASSUME IInv, Revoke(x) PROVE IInv'
  OBVIOUS
<1>1. \A c \in Certs : IsRevoked(c) => IsRevoked(c)' /\ revokedAt'[c] = revokedAt[c]
  BY DEF IInv, RevokedInTime, Revoke, IsRevoked
<1>2. RevokedInTime'
  BY DEF IInv, RevokedInTime, Revoke
<1>3. ListsAreTrue'
  <2> SUFFICES ASSUME NEW crl \in crls, crl.key # Damaged, NEW entry \in crl.entries
               PROVE  \E c \in Certs : crl.issuer = c.issuer /\ crl.key = c.signedBy
                        /\ IsRevoked(c)' /\ entry.serial = c.serial /\ entry.date = revokedAt'[c]
    BY DEF ListsAreTrue, Revoke
  <2>1. QED
    BY <1>1 DEF IInv, ListsAreTrue
<1>4. AnswersAreTrue'
  <2> SUFFICES ASSUME NEW r \in ocsps, r.date # 0
               PROVE  \E c \in Certs : IsRevoked(c)' /\ AnswersTruly(r, c)'
    BY DEF AnswersAreTrue, Revoke
  <2>1. PICK c \in Certs : IsRevoked(c) /\ AnswersTruly(r, c)
    BY DEF IInv, AnswersAreTrue
  <2>2. IsRevoked(c)' /\ AnswersTruly(r, c)'
    BY <1>1, <2>1 DEF AnswersTruly
  <2>3. QED
    BY <2>2
<1>5. ToldIsKept'
  <2> SUFFICES ASSUME NEW t \in told
               PROVE  /\ t.cert \in Certs /\ IsRevoked(t.cert)'
                      /\ \/ \E crl \in crls : ListsTruly(crl, t.cert)'
                         \/ \E r \in ocsps : AnswersTruly(r, t.cert)'
                              /\ (r.by = "ca" \/ (r.responder.from = t.from /\ r.responder.to = t.to))
    BY DEF ToldIsKept, Revoke
  <2>1. t.cert \in Certs /\ IsRevoked(t.cert)' /\ revokedAt'[t.cert] = revokedAt[t.cert]
    BY <1>1 DEF IInv, ToldIsKept
  <2>2. \A crl : ListsTruly(crl, t.cert) => ListsTruly(crl, t.cert)'
    BY <2>1 DEF ListsTruly
  <2>3. \A r : AnswersTruly(r, t.cert) => AnswersTruly(r, t.cert)'
    BY <2>1 DEF AnswersTruly
  <2>4. QED
    BY <2>1, <2>2, <2>3 DEF IInv, ToldIsKept
<1>6. QED
  BY <1>2, <1>3, <1>4, <1>5 DEF IInv

LEMMA FetchCrlKeeps == ASSUME NEW ca \in Authorities PROVE IInv /\ FetchCrl(ca) => IInv'
<1> SUFFICES ASSUME IInv, FetchCrl(ca) PROVE IInv'
  OBVIOUS
<1>1. revokedAt' = revokedAt /\ crls' = crls \cup {Crl(ca)} /\ ocsps' = ocsps /\ now' = now
  BY DEF FetchCrl
<1>2. RevokedInTime' /\ AnswersAreTrue'
  BY <1>1 DEF IInv, RevokedInTime, AnswersAreTrue, AnswersTruly, IsRevoked
<1>3. ListsAreTrue'
  <2> SUFFICES ASSUME NEW crl \in crls', crl.key # Damaged, NEW entry \in crl.entries
               PROVE  \E c \in Certs : crl.issuer = c.issuer /\ crl.key = c.signedBy
                        /\ IsRevoked(c) /\ entry.serial = c.serial /\ entry.date = revokedAt[c]
    BY <1>1 DEF ListsAreTrue, IsRevoked
  <2>1. CASE crl \in crls
    BY <2>1 DEF IInv, ListsAreTrue
  <2>2. CASE crl = Crl(ca)
    BY <2>2 DEF Crl, ListedBy, IssuedBy
  <2>3. QED
    BY <1>1, <2>1, <2>2
<1>4. ToldIsKept'
  <2> SUFFICES ASSUME NEW t \in told'
               PROVE  /\ t.cert \in Certs /\ IsRevoked(t.cert)'
                      /\ \/ \E crl \in crls' : ListsTruly(crl, t.cert)'
                         \/ \E r \in ocsps' : AnswersTruly(r, t.cert)'
                              /\ (r.by = "ca" \/ (r.responder.from = t.from /\ r.responder.to = t.to))
    BY DEF ToldIsKept
  <2>1. CASE t \in told
    BY <1>1, <2>1, TruthStays
  <2>2. CASE t \in {[cert |-> c, from |-> 1, to |-> MaxTime] : c \in ListedBy(ca)}
    <3>1. t.cert \in Certs /\ IsRevoked(t.cert) /\ IssuedBy(t.cert, ca)
      BY <2>2 DEF ListedBy
    <3>2. ListsTruly(Crl(ca), t.cert)
      BY <2>2, <3>1 DEF ListsTruly, Crl, ListedBy, IssuedBy
    <3>3. Crl(ca) \in crls'
      BY <1>1
    <3>4. \E crl \in crls' : ListsTruly(crl, t.cert)'
      BY <1>1, <3>2, <3>3 DEF ListsTruly
    <3>5. QED
      BY <1>1, <3>1, <3>4 DEF IsRevoked
  <2>3. QED
    BY <2>1, <2>2 DEF FetchCrl, Tell
<1>5. QED
  BY <1>2, <1>3, <1>4 DEF IInv

LEMMA FetchDamagedKeeps == ASSUME NEW ca \in Authorities PROVE IInv /\ FetchDamagedCrl(ca) => IInv'
<1> SUFFICES ASSUME IInv, FetchDamagedCrl(ca) PROVE IInv'
  OBVIOUS
<1>1. /\ revokedAt' = revokedAt /\ crls' = crls \cup {DamagedCrl(ca)} /\ ocsps' = ocsps
      /\ now' = now /\ told' = told
  BY DEF FetchDamagedCrl
<1>2. RevokedInTime' /\ AnswersAreTrue'
  BY <1>1 DEF IInv, RevokedInTime, AnswersAreTrue, AnswersTruly, IsRevoked
<1>3. DamagedCrl(ca).key = Damaged
  BY DEF DamagedCrl
<1>4. ListsAreTrue'
  BY <1>1, <1>3 DEF IInv, ListsAreTrue, IsRevoked
<1>5. ToldIsKept'
  <2> SUFFICES ASSUME NEW t \in told
               PROVE  /\ t.cert \in Certs /\ IsRevoked(t.cert)'
                      /\ \/ \E crl \in crls' : ListsTruly(crl, t.cert)'
                         \/ \E r \in ocsps' : AnswersTruly(r, t.cert)'
                              /\ (r.by = "ca" \/ (r.responder.from = t.from /\ r.responder.to = t.to))
    BY <1>1 DEF ToldIsKept
  <2>1. QED
    BY <1>1, TruthStays
<1>6. QED
  BY <1>2, <1>4, <1>5 DEF IInv

LEMMA FetchOcspKeeps ==
  ASSUME NEW c \in Certs, NEW ca \in Authorities, NEW by \in {"ca", "responder"}
  PROVE  IInv /\ FetchOcsp(c, ca, by) => IInv'
<1> SUFFICES ASSUME IInv, FetchOcsp(c, ca, by) PROVE IInv'
  OBVIOUS
<1>0. PICK answer : answer = Answer(c, ca, by)
  OBVIOUS
<1>1. /\ revokedAt' = revokedAt /\ crls' = crls /\ ocsps' = ocsps \cup {answer}
      /\ now' = now
  BY <1>0 DEF FetchOcsp
<1>2. /\ answer.by = by /\ answer.ca = IssuerOf(c) /\ answer.id = CertId(c, ca)
      /\ answer.responder = responder[IssuerOf(c)]
      /\ answer.date = IF ca = IssuerOf(c) THEN revokedAt[c] ELSE 0
  BY <1>0 DEF Answer
<1>3. answer.date # 0 => ca = IssuerOf(c) /\ IsRevoked(c) /\ AnswersTruly(answer, c)
  BY <1>2 DEF AnswersTruly, IsRevoked
<1>4. RevokedInTime' /\ ListsAreTrue'
  BY <1>1 DEF IInv, RevokedInTime, ListsAreTrue, IsRevoked
<1>5. AnswersAreTrue'
  <2> SUFFICES ASSUME NEW r \in ocsps', r.date # 0
               PROVE  \E d \in Certs : IsRevoked(d)' /\ AnswersTruly(r, d)'
    BY DEF AnswersAreTrue
  <2>1. \E d \in Certs : IsRevoked(d) /\ AnswersTruly(r, d)
    BY <1>1, <1>3 DEF IInv, AnswersAreTrue
  <2>2. PICK d \in Certs : IsRevoked(d) /\ AnswersTruly(r, d)
    BY <2>1
  <2>3. IsRevoked(d)' /\ AnswersTruly(r, d)'
    BY <1>1, <2>2 DEF IsRevoked, AnswersTruly
  <2>4. QED
    BY <2>3
<1>6. ToldIsKept'
  <2> SUFFICES ASSUME NEW t \in told'
               PROVE  /\ t.cert \in Certs /\ IsRevoked(t.cert)'
                      /\ \/ \E crl \in crls' : ListsTruly(crl, t.cert)'
                         \/ \E r \in ocsps' : AnswersTruly(r, t.cert)'
                              /\ (r.by = "ca" \/ (r.responder.from = t.from /\ r.responder.to = t.to))
    BY DEF ToldIsKept
  <2>1. CASE t \in told
    BY <1>1, <2>1, TruthStays
  <2>2. CASE t \notin told
    <3>1. /\ answer.date # 0 /\ t.cert = c
          /\ by # "ca" => t.from = responder[ca].from /\ t.to = responder[ca].to
      BY <1>0, <2>2 DEF FetchOcsp, Tell
    <3>2. answer \in ocsps' /\ AnswersTruly(answer, c)'
      BY <1>1, <1>3, <3>1 DEF AnswersTruly
    <3>3. answer.by = "ca"
            \/ (answer.responder.from = t.from /\ answer.responder.to = t.to)
      BY <1>2, <1>3, <3>1
    <3>4. IsRevoked(c)'
      BY <1>1, <1>3, <3>1 DEF IsRevoked
    <3>5. QED
      BY <3>1, <3>2, <3>3, <3>4
  <2>3. QED
    BY <2>1, <2>2
<1>7. QED
  BY <1>4, <1>5, <1>6 DEF IInv

\* The invariant holds at first and is kept by every step of the authorities and of
\* collect_validation_material (dss.rs:49-124).
THEOREM Inductive == Spec => []IInv
<1>1. IInv /\ [Next]_vars => IInv'
  <2> SUFFICES ASSUME IInv, [Next]_vars PROVE IInv'
    OBVIOUS
  <2>1. CASE UNCHANGED vars
    BY <2>1 DEF vars, IInv, RevokedInTime, ListsAreTrue, AnswersAreTrue, ToldIsKept,
                ListsTruly, AnswersTruly, IsRevoked
  <2>2. CASE Next
    BY <2>2, TickKeeps, RevokeKeeps, CertifyKeeps, FetchCrlKeeps, FetchDamagedKeeps, FetchOcspKeeps
       DEF Next
  <2>3. QED
    BY <2>1, <2>2
<1>2. QED
  BY Initially, <1>1, PTL DEF Spec

-----------------------------------------------------------------------------
(* The properties.                                                         *)

\* Whatever the times, the authorities and the certificates: a certificate that the
\* verifier holds to be revoked is, since then (trust.rs:587-713, 796-870).
THEOREM NothingIsWronglyRevoked == Spec => []OnlyRevokedIsRevoked
<1>1. IInv => OnlyRevokedIsRevoked
  <2> SUFFICES ASSUME IInv, NEW c \in Certs, NEW ca \in Authorities, NEW at \in Times,
                      IssuedBy(c, ca), Revoked(c, ca, at)
               PROVE  IsRevoked(c) /\ revokedAt[c] <= at
    BY DEF OnlyRevokedIsRevoked
  <2>1. CASE CrlRevoked(c, ca, at)
    <3>0. PICK crl \in crls :
            crl.key = ca.key
              /\ \E entry \in crl.entries : entry.serial = c.serial /\ entry.date <= at
      BY <2>1 DEF CrlRevoked
    <3>1. PICK entry \in crl.entries : entry.serial = c.serial /\ entry.date <= at
      BY <3>0
    <3>2. crl.key # Damaged
      BY <3>0, RevocationAssumption
    <3>3. PICK d \in Certs : crl.key = d.signedBy /\ IsRevoked(d)
                               /\ entry.serial = d.serial /\ entry.date = revokedAt[d]
      BY <3>1, <3>2 DEF IInv, ListsAreTrue
    <3>4. d = c
      BY <3>0, <3>1, <3>3, NumberTells DEF IssuedBy
    <3>5. QED
      BY <3>1, <3>3, <3>4
  <2>2. CASE OcspRevoked(c, ca, at)
    <3>1. PICK r \in ocsps : r.id = CertId(c, ca) /\ r.date # 0 /\ r.date <= at
      BY <2>2 DEF OcspRevoked
    <3>2. PICK d \in Certs : IsRevoked(d) /\ AnswersTruly(r, d)
      BY <3>1 DEF IInv, AnswersAreTrue
    <3>3. /\ c.signedBy = ca.key /\ d.signedBy = IssuerOf(d).key
          /\ ca.key = IssuerOf(d).key /\ c.serial = d.serial
      BY <3>1, <3>2, IssuerExists DEF AnswersTruly, CertId, IssuedBy
    <3>4. d = c
      BY <3>3, NumberTells
    <3>5. QED
      BY <3>1, <3>2, <3>4 DEF AnswersTruly
  <2>3. QED
    BY <2>1, <2>2 DEF Revoked
<1>2. QED
  BY Inductive, <1>1, PTL

\* What an authority told about a revoked certificate counts for every time from the
\* revocation on, within the life of the responder that told it (trust.rs:808-816).
THEOREM EvidenceCounts == Spec => []WhatWasToldCounts
<1>1. IInv => WhatWasToldCounts
  <2> SUFFICES ASSUME IInv, NEW t \in told, NEW at \in Times,
                      revokedAt[t.cert] <= at, t.from <= at, at <= t.to
               PROVE  Revoked(t.cert, IssuerOf(t.cert), at)
    BY DEF WhatWasToldCounts
  <2> DEFINE c == t.cert
  <2>1. c \in Certs /\ IsRevoked(c)
    BY DEF IInv, ToldIsKept
  <2>2. IssuerOf(c) \in Authorities /\ c.issuer = IssuerOf(c).subject /\ c.signedBy = IssuerOf(c).key
    BY <2>1, IssuerExists DEF IssuedBy
  <2>3. CASE \E crl \in crls : ListsTruly(crl, c)
    <3>1. PICK crl \in crls : ListsTruly(crl, c)
      BY <2>3
    <3>2. CrlRevoked(c, IssuerOf(c), at)
      BY <2>2, <3>1 DEF CrlRevoked, ListsTruly
    <3>3. QED
      BY <3>2 DEF Revoked
  <2>4. CASE \E r \in ocsps : AnswersTruly(r, c)
               /\ (r.by = "ca" \/ (r.responder.from = t.from /\ r.responder.to = t.to))
    <3>1. PICK r \in ocsps : AnswersTruly(r, c)
               /\ (r.by = "ca" \/ (r.responder.from = t.from /\ r.responder.to = t.to))
      BY <2>4
    <3>2. OcspRevoked(c, IssuerOf(c), at)
      BY <2>1, <3>1 DEF OcspRevoked, OcspAuthentic, AnswersTruly, IsRevoked
    <3>3. QED
      BY <3>2 DEF Revoked
  <2>5. QED
    BY <2>3, <2>4 DEF IInv, ToldIsKept
<1>2. QED
  BY Inductive, <1>1, PTL
=============================================================================
