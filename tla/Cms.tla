-------------------------------- MODULE Cms --------------------------------
(***************************************************************************)
(* The CMS half of src/src/crypto.rs: what cms_sign builds, and what       *)
(* cms_verify, verify_timestamp_token and verify_embedded_timestamp accept.*)
(*                                                                         *)
(* Cryptography is ideal.  A digest is the pair of its algorithm and what  *)
(* was hashed; a signature value says which key made it, with which hash,  *)
(* over what.                                                              *)
(*                                                                         *)
(*   certificate  issuer, serial, and its key [name, kind]                 *)
(*   attribute    oid and a sequence of values, each a tuple               *)
(*   SignerInfo   sid (issuer and serial), digestAlg, sigAlg, attrs (the   *)
(*                signed ones), sig, unsigned (timestamp tokens)           *)
(*   SignedData   type, econtentType, econtent (<< >> if detached), certs, *)
(*                signers                                                  *)
(*   TSTInfo      imprint, genTime, nonce                                  *)
(*                                                                         *)
(* A definition right before another of the same parameters is the other  *)
(* with a likely mistake in it, used by no specification.                  *)
(***************************************************************************)
EXTENDS Integers, Sequences, FiniteSets, SequencesExt

Digests == {"sha256", "sha384", "sha512"}
Digest(alg, what) == <<alg, what>>

IdOf(cert) == <<cert.issuer, cert.serial>>
Attr(oid, values) == [oid |-> oid, values |-> values]

-----------------------------------------------------------------------------
(* Signing.                                                                *)

\* cms_sign: the digest and the signature algorithm that go with a kind of key.
\* The mistake is one digest for all.
SameDigest(kind) == "sha256"
SignDigest(kind) ==
  CASE kind \in {"rsa", "p256"} -> "sha256"
    [] kind = "p384"            -> "sha384"
    [] kind = "ed25519"         -> "sha512"
SignAlg(kind) ==
  CASE kind = "rsa"     -> "rsa-sha256"
    [] kind = "p256"    -> "ecdsa-sha256"
    [] kind = "p384"    -> "ecdsa-sha384"
    [] kind = "ed25519" -> "ed25519"

\* Ed25519 hashes what it signs by itself.
SigBy(key, digestAlg, attrs) ==
  [key |-> key.name, hash |-> IF key.kind = "ed25519" THEN "none" ELSE digestAlg,
   over |-> attrs]

\* build_signed_data: a SignedData with one signer, over a content that is
\* outside (a document) or inside (a TSTInfo).
SignedDataOver(chain, econtentType, econtent, content) ==
  LET cert  == chain[1]
      alg   == SignDigest(cert.key.kind)
      attrs == <<Attr("contentType", <<<<econtentType>>>>),
                 Attr("messageDigest", <<Digest(alg, content)>>),
                 Attr("signingCertificateV2", <<Digest("sha256", cert)>>)>>
  IN  [type |-> "signedData", econtentType |-> econtentType, econtent |-> econtent,
       certs |-> chain,
       signers |-> <<[sid |-> IdOf(cert), digestAlg |-> alg,
                      sigAlg |-> SignAlg(cert.key.kind), attrs |-> attrs,
                      sig |-> SigBy(cert.key, alg, attrs), unsigned |-> << >>]>>]

CmsSigned(chain, data) == SignedDataOver(chain, "data", << >>, data)

\* apply_timestamp: the token becomes an unsigned attribute of the first signer.
WithTimestamp(cms, token) ==
  [cms EXCEPT !.signers[1].unsigned = Append(@, token)]

-----------------------------------------------------------------------------
(* Verification.                                                           *)

\* find_signer_cert: the certificates with the signer's issuer and serial; the
\* first of them is taken.
Matching(cms, si) == {i \in DOMAIN cms.certs : IdOf(cms.certs[i]) = si.sid}
SignerCert(cms, si) ==
  cms.certs[CHOOSE i \in Matching(cms, si) : \A j \in Matching(cms, si) : i <= j]

\* single_attr_value
Places(attrs, oid)  == {i \in DOMAIN attrs : attrs[i].oid = oid}
Absent(attrs, oid)  == Places(attrs, oid) = {}
Single(attrs, oid) ==
  Cardinality(Places(attrs, oid)) = 1
    /\ \A i \in Places(attrs, oid) : Len(attrs[i].values) = 1
Value(attrs, oid) == attrs[CHOOSE i \in Places(attrs, oid) : TRUE].values[1]

\* single_signer: ETSI EN 319 142-1 permits exactly one.
SomeSigner(cms) == cms.signers # << >>
SingleSigner(cms) == Len(cms.signers) = 1

\* check_ess_binding: SHA-1 is the hash of the first version of the attribute.
EssBound(attrs, cert) ==
  /\ \/ Absent(attrs, "signingCertificateV2")
     \/ /\ Single(attrs, "signingCertificateV2")
        /\ \E alg \in Digests : Value(attrs, "signingCertificateV2") = Digest(alg, cert)
  /\ \/ Absent(attrs, "signingCertificate")
     \/ /\ Single(attrs, "signingCertificate")
        /\ Value(attrs, "signingCertificate") = Digest("sha1", cert)

\* The declared signature algorithm agrees with the key and the digest.
Consistent(kind, sigAlg, digestAlg) ==
  CASE kind = "rsa" ->
         sigAlg = "rsa"
           \/ <<sigAlg, digestAlg>> \in {<<"rsa-sha256", "sha256">>,
                <<"rsa-sha384", "sha384">>, <<"rsa-sha512", "sha512">>}
    [] kind \in {"p256", "p384"} ->
         <<sigAlg, digestAlg>> \in {<<"ecdsa-sha256", "sha256">>,
           <<"ecdsa-sha384", "sha384">>, <<"ecdsa-sha512", "sha512">>}
    [] kind = "ed25519" -> sigAlg = "ed25519" /\ digestAlg = "sha512"
    [] OTHER -> FALSE

SignatureVerifies(si, cert) ==
  /\ Consistent(cert.key.kind, si.sigAlg, si.digestAlg)
  /\ si.sig = SigBy(cert.key, si.digestAlg, si.attrs)

\* verify_signed_attrs: the signer si vouches for content.
SignedAttrsVerify(cms, si, content) ==
  /\ Single(si.attrs, "contentType")
  /\ Value(si.attrs, "contentType") = <<cms.econtentType>>
  /\ si.digestAlg \in Digests
  /\ Single(si.attrs, "messageDigest")
  /\ Value(si.attrs, "messageDigest") = Digest(si.digestAlg, content)
  /\ Matching(cms, si) # {}
  /\ EssBound(si.attrs, SignerCert(cms, si))
  /\ SignatureVerifies(si, SignerCert(cms, si))

\* cms_verify: a detached document signature.  The mistake takes the last signer.
CmsVerifiesLast(cms, data) ==
  /\ cms.type = "signedData" /\ cms.econtentType = "data" /\ cms.econtent = << >>
  /\ SomeSigner(cms)
  /\ SignedAttrsVerify(cms, Last(cms.signers), data)
CmsVerifies(cms, data) ==
  /\ cms.type = "signedData" /\ cms.econtentType = "data" /\ cms.econtent = << >>
  /\ SingleSigner(cms)
  /\ SignedAttrsVerify(cms, cms.signers[1], data)

\* signer_certificate_and_pool: whose chain is judged.
HasJudged(cms) == SomeSigner(cms) /\ Matching(cms, cms.signers[1]) # {}
Judged(cms) == SignerCert(cms, cms.signers[1])

\* verify_timestamp_token: the token is signed over the TSTInfo it carries.
TokenVerifies(token) ==
  /\ token.type = "signedData" /\ token.econtentType = "tstInfo"
  /\ token.econtent # << >>
  /\ SingleSigner(token)
  /\ SignedAttrsVerify(token, token.signers[1], token.econtent[1])
TstInfo(token) == token.econtent[1]

\* The imprint of a verified token is the digest of data: verify_doc_timestamp.
\* The mistake is to look at its algorithm only.
StampsAnything(token, data) ==
  \E alg \in Digests : TstInfo(token).imprint[1] = alg
Stamps(token, data) ==
  \E alg \in Digests : TstInfo(token).imprint = Digest(alg, data)

\* verify_embedded_timestamp: the first token, bound to the signature's value.
TimestampVerifies(cms) ==
  /\ SingleSigner(cms)
  /\ cms.signers[1].unsigned # << >>
  /\ TokenVerifies(cms.signers[1].unsigned[1])
  /\ Stamps(cms.signers[1].unsigned[1], cms.signers[1].sig)
=============================================================================
