----------------------------- MODULE Revocation -----------------------------
(***************************************************************************)
(* Revocation evidence, from the authorities that publish it to what a     *)
(* verifier concludes from it, over a clock.                               *)
(*                                                                         *)
(*   collect_validation_material and fetch_ocsp of src/src/dss.rs          *)
(*   crl_revoked, ocsp_revoked and ocsp_authentic of src/src/trust.rs      *)
(*                                                                         *)
(* An authority is a name and a key.  When it changes its key it keeps its *)
(* name, and its numbers begin again.  It answers OCSP requests itself or  *)
(* through a responder that it certifies for a while.                      *)
(*                                                                         *)
(* A definition right before another of the same parameters is the other  *)
(* with a likely mistake in it, used by no specification.                  *)
(***************************************************************************)
EXTENDS Integers, FiniteSets

CONSTANTS
  Authorities,   \* [subject, key]
  Damaged,       \* the key that no signature is by
  Certs,         \* [issuer, signedBy, serial]: a name, a key and a number
  MaxTime,       \* bound: the last moment
  MaxFetches,    \* bound: how often something is fetched
  ResponderLife  \* how long a responder's certificate is valid

ASSUME RevocationAssumption ==
  /\ MaxTime \in Nat /\ MaxFetches \in Nat /\ ResponderLife \in Nat
  /\ \A c, d \in Certs : c.signedBy = d.signedBy /\ c.serial = d.serial => c = d
  /\ \A ca, cb \in Authorities : ca.key = cb.key => ca = cb
  /\ \A ca \in Authorities : ca.key # Damaged
  /\ \A c \in Certs : \E ca \in Authorities : c.issuer = ca.subject /\ c.signedBy = ca.key

VARIABLES
  now,
  revokedAt,   \* when each certificate was revoked; 0 if it is not
  responder,   \* the responder of each authority, or none
  crls, ocsps, \* the material of the document
  fetches,     \* history: how often something was fetched
  told         \* history: revoked certificates that an authority told us about, and
               \* the times at which what it told holds

vars == <<now, revokedAt, responder, crls, ocsps, fetches, told>>

Times == 1..MaxTime
NoResponder == [from |-> 0, to |-> 0]

\* issued_by
IssuedBy(c, ca) == c.issuer = ca.subject /\ c.signedBy = ca.key
IssuerOf(c) == CHOOSE ca \in Authorities : IssuedBy(c, ca)

-----------------------------------------------------------------------------
(* The authorities.                                                        *)

IsRevoked(c) == revokedAt[c] # 0
ListedBy(ca) == {c \in Certs : IssuedBy(c, ca) /\ IsRevoked(c)}

\* A certificate revocation list, and the same as it may arrive damaged.
Crl(ca) ==
  [issuer |-> ca.subject, key |-> ca.key, made |-> now,
   entries |-> {[serial |-> c.serial, date |-> revokedAt[c]] : c \in ListedBy(ca)}]
DamagedCrl(ca) ==
  [issuer |-> ca.subject, key |-> Damaged, made |-> now,
   entries |-> {[serial |-> c.serial, date |-> 1] : c \in Certs}]

\* CertID: the hashes of the issuer's name and key, and the number.
CertId(c, ca) == <<ca.subject, ca.key, c.serial>>

\* The answer to a request for c that names ca as its issuer, from the responder of
\* the authority that issued c, or from that authority itself (by |-> "ca").
Answer(c, ca, by) ==
  [by |-> by, ca |-> IssuerOf(c), responder |-> responder[IssuerOf(c)], id |-> CertId(c, ca),
   date |-> IF ca = IssuerOf(c) THEN revokedAt[c] ELSE 0]

-----------------------------------------------------------------------------
(* The verifier.                                                           *)

\* crl_revoked: when a list was made does not matter.  The mistakes are not to
\* check the list's signature, and to want a list that was there at the time.
CrlRevokedUnsigned(c, ca, at) ==
  \E crl \in crls :
    /\ crl.issuer = ca.subject
    /\ \E entry \in crl.entries : entry.serial = c.serial /\ entry.date <= at
CrlRevokedThen(c, ca, at) ==
  \E crl \in crls :
    /\ crl.issuer = ca.subject /\ crl.key = ca.key /\ crl.made <= at
    /\ \E entry \in crl.entries : entry.serial = c.serial /\ entry.date <= at
CrlRevoked(c, ca, at) ==
  \E crl \in crls :
    /\ crl.issuer = ca.subject /\ crl.key = ca.key
    /\ \E entry \in crl.entries : entry.serial = c.serial /\ entry.date <= at

\* ocsp_authentic: signed by the issuer, or by a responder that it certified and
\* whose certificate is valid at the time.
OcspAuthentic(r, ca, at) ==
  /\ r.ca = ca
  /\ r.by = "ca" \/ (r.responder.from <= at /\ at <= r.responder.to)

\* ocsp_revoked
OcspRevoked(c, ca, at) ==
  \E r \in ocsps :
    /\ OcspAuthentic(r, ca, at)
    /\ r.id = CertId(c, ca) /\ r.date # 0 /\ r.date <= at

Revoked(c, ca, at) == CrlRevoked(c, ca, at) \/ OcspRevoked(c, ca, at)

-----------------------------------------------------------------------------
(* Steps.                                                                  *)

Init ==
  /\ now = 1 /\ revokedAt = [c \in Certs |-> 0]
  /\ responder = [ca \in Authorities |-> NoResponder]
  /\ crls = {} /\ ocsps = {} /\ fetches = 0 /\ told = {}

Tick ==
  /\ now < MaxTime /\ now' = now + 1
  /\ UNCHANGED <<revokedAt, responder, crls, ocsps, fetches, told>>

Revoke(c) ==
  /\ ~IsRevoked(c)
  /\ revokedAt' = [revokedAt EXCEPT ![c] = now]
  /\ UNCHANGED <<now, responder, crls, ocsps, fetches, told>>

\* The authority certifies a new responder, which takes over from the last one.
Certify(ca) ==
  /\ responder[ca].from # now
  /\ responder' = [responder EXCEPT ![ca] = [from |-> now, to |-> now + ResponderLife]]
  /\ UNCHANGED <<now, revokedAt, crls, ocsps, fetches, told>>

\* collect_validation_material fetches the list of an authority, or fails to, or
\* gets something else that begins like one.
Fetch == fetches < MaxFetches /\ fetches' = fetches + 1
Tell(cs, from, to) == told' = told \cup {[cert |-> c, from |-> from, to |-> to] : c \in cs}

FetchCrl(ca) ==
  /\ Fetch
  /\ crls' = crls \cup {Crl(ca)}
  /\ Tell(ListedBy(ca), 1, MaxTime)
  /\ UNCHANGED <<now, revokedAt, responder, ocsps>>
FetchDamagedCrl(ca) ==
  /\ Fetch
  /\ crls' = crls \cup {DamagedCrl(ca)}
  /\ UNCHANGED <<now, revokedAt, responder, ocsps, told>>

\* fetch_ocsp: the issuer is the first certificate of the pool that has its name.
FetchOcsp(c, ca, by) ==
  /\ Fetch /\ ca.subject = c.issuer
  /\ by = "responder" => responder[IssuerOf(c)] # NoResponder
  /\ ocsps' = ocsps \cup {Answer(c, ca, by)}
  /\ LET told_of == IF Answer(c, ca, by).date # 0 THEN {c} ELSE {}
     IN  IF by = "ca" THEN Tell(told_of, 1, MaxTime)
         ELSE Tell(told_of, responder[ca].from, responder[ca].to)
  /\ UNCHANGED <<now, revokedAt, responder, crls>>

Next ==
  \/ Tick
  \/ \E c \in Certs : Revoke(c)
  \/ \E ca \in Authorities : Certify(ca) \/ FetchCrl(ca) \/ FetchDamagedCrl(ca)
  \/ \E c \in Certs, ca \in Authorities, by \in {"ca", "responder"} : FetchOcsp(c, ca, by)

Spec == Init /\ [][Next]_vars

-----------------------------------------------------------------------------
(* Properties.                                                             *)

\* Nothing is held to be revoked that is not, or before it is: not for a list of the
\* authority's other key, a damaged one, or an answer about another's number
\* (trust.rs:587-713, 796-870).
OnlyRevokedIsRevoked ==
  \A c \in Certs, ca \in Authorities, at \in Times :
    IssuedBy(c, ca) /\ Revoked(c, ca, at) => IsRevoked(c) /\ revokedAt[c] <= at

\* What an authority told about a revoked certificate counts from the revocation on,
\* however much later it was told; what a responder told, while its certificate is
\* valid (trust.rs:587-593, 808-816).
WhatWasToldCounts ==
  \A t \in told : \A at \in Times :
    revokedAt[t.cert] <= at /\ t.from <= at /\ at <= t.to =>
      Revoked(t.cert, IssuerOf(t.cert), at)
=============================================================================
