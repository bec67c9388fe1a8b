---------------------------- MODULE Timestamping ----------------------------
(***************************************************************************)
(* A signature at level B-T, from cms_sign to its verification: the CMS is *)
(* made, apply_timestamp has request_timestamp fetch a token for its       *)
(* signature value over HTTP (HttpFetch), the token is checked and         *)
(* embedded.  A call that fails may be repeated; signing the same bytes    *)
(* again yields the same signature value.  Between the client and the      *)
(* authority there may be caches and proxies.  Other software may rewrite  *)
(* the finished CMS.                                                       *)
(*                                                                         *)
(* The nonce of a request is its number, random_nonce being taken to be    *)
(* fresh, and so is the time: a token made in answer to request n says n.  *)
(*                                                                         *)
(* A definition right before another of the same parameters is the other  *)
(* with a likely mistake in it, used by no specification.                  *)
(***************************************************************************)
EXTENDS HttpFetch, Cms

CONSTANTS
  Data,         \* the bytes that are signed
  Chains,       \* the signers: a keystore's certificates, its own first
  TsaChain,     \* the authority's certificates
  MaxRequests,  \* bound: how often a token is asked for
  MaxRewrites   \* bound: how often the finished CMS is rewritten

ASSUME TimestampingAssumption ==
  /\ MaxRequests \in Nat /\ MaxRewrites \in Nat
  /\ \A ch \in Chains :
       /\ ch \in Seq(Range(ch)) /\ ch # << >>
       /\ ch[1].key.kind \in {"rsa", "p256", "p384", "ed25519"}

VARIABLES
  pc,        \* "idle", "fetching", "signed"
  chains,    \* history: the signers so far, the one at work last
  reply,     \* the TimeStampResp on its way, as a sequence of length one, or nothing
  cms,       \* the finished CMS, as a sequence of length one, or nothing
  nonce,     \* of the latest request
  issued,    \* history: what the authority has signed
  rewrites   \* history: how often the CMS was rewritten

vars == <<http, pc, chains, reply, cms, nonce, issued, rewrites>>
rest == <<pc, chains, reply, cms, nonce, issued, rewrites>>

SigValue(c) == c.signers[1].sig
Signer == Last(chains)[1]

\* The CMS a call works on until it has its timestamp.
Untimed == CmsSigned(Last(chains), Data)

-----------------------------------------------------------------------------
(* The authority and what stands before it.                                *)

\* What an authority may make of the request: a proper TSTInfo, one that leaves
\* out the nonce, one under its favourite hash.
Info(imprint, n) == [imprint |-> imprint, genTime |-> nonce, nonce |-> n]
MadeNow ==
  {Info(Digest("sha256", SigValue(Untimed)), nonce),
   Info(Digest("sha256", SigValue(Untimed)), 0),
   Info(Digest("sha512", SigValue(Untimed)), nonce)}

Token(info) == SignedDataOver(TsaChain, "tstInfo", <<info>>, info)

\* A token whose TSTInfo was damaged after it was signed.
Damaged(info) == [Token(info) EXCEPT !.econtent[1].genTime = 0]

\* TimeStampResp: granted, granted with modifications, or rejected (2).
Granted(info) == [status |-> 0, token |-> <<Token(info)>>]
Replies ==
  {Granted(info) : info \in MadeNow \cup issued}
    \cup {[Granted(info) EXCEPT !.status = s] : info \in MadeNow, s \in {1, 2}}
    \cup {[status |-> 0, token |-> <<Damaged(info)>>] : info \in MadeNow}
    \cup {[status |-> s, token |-> << >>] : s \in {0, 2}}

\* The body as it is, in one chunk, or in two.
Framings ==
  {<<StatusLine(200), EndOfHead, Part(1), Part(2)>>,
   <<StatusLine(200), TransferChunked, EndOfHead, Size(2), Crlf, Part(1), Part(2), Crlf,
     Size(0), Crlf, Crlf>>,
   <<StatusLine(200), TransferChunked, EndOfHead, Size(1), Crlf, Part(1), Crlf,
     Size(1), Crlf, Part(2), Crlf, Size(0), Crlf, Crlf>>}
ServerError == <<StatusLine(500), EndOfHead>> \o [i \in 1..MaxResponse |-> Part(1)]

-----------------------------------------------------------------------------
(* The client.                                                             *)

\* The response is one whole DER value.
Whole(cells) == cells = <<Part(1), Part(2)>>

\* request_timestamp: what a reply must be.  The mistake is to leave it at the
\* imprint.
AnswersImprint(r, sig) ==
  /\ r.status \in {0, 1} /\ r.token # << >>
  /\ TokenVerifies(r.token[1])
  /\ TstInfo(r.token[1]).imprint = Digest("sha256", sig)
Answers(r, sig) ==
  /\ r.status \in {0, 1} /\ r.token # << >>
  /\ TokenVerifies(r.token[1])
  /\ TstInfo(r.token[1]).imprint = Digest("sha256", sig)
  /\ TstInfo(r.token[1]).nonce = nonce

\* cms_sign up to request_timestamp.
Sign(ch) ==
  /\ pc = "idle" /\ nonce < MaxRequests
  /\ StartRequest
  /\ pc' = "fetching" /\ chains' = Append(chains, ch) /\ reply' = << >>
  /\ nonce' = nonce + 1
  /\ UNCHANGED <<cms, issued, rewrites>>

\* The request reaches the authority, or something that answers in its place.
Serve(r, response) ==
  /\ pc = "fetching" /\ Sent(response) /\ r \in Replies
  /\ reply' = <<r>>
  /\ issued' = issued \cup {info \in MadeNow : r.token = <<Token(info)>>}
  /\ UNCHANGED <<pc, chains, cms, nonce, rewrites>>
ServeError ==
  pc = "fetching" /\ Sent(ServerError) /\ UNCHANGED rest

\* The rest of request_timestamp and of apply_timestamp, or the error return.
Acceptable == body.ok /\ Whole(body.cells) /\ Answers(reply[1], SigValue(Untimed))
Leave ==
  phase = "done" /\ phase' = "idle" /\ UNCHANGED <<age, waited, unsent, wire, raw, body>>
Embed ==
  /\ pc = "fetching" /\ Leave /\ Acceptable
  /\ pc' = "signed" /\ cms' = <<WithTimestamp(Untimed, reply[1].token[1])>>
  /\ reply' = << >> /\ UNCHANGED <<chains, nonce, issued, rewrites>>
GiveUpSigning ==
  /\ pc = "fetching" /\ Leave /\ ~Acceptable
  /\ pc' = "idle"
  /\ reply' = << >> /\ UNCHANGED <<chains, cms, nonce, issued, rewrites>>

-----------------------------------------------------------------------------
(* Other software, which may store certificates and attributes as it likes. *)

Doubled(s) == s \o s

\* Another certificate of the same issuer and number: for the same key, or not.
Reissued == [Signer EXCEPT !.version = @ + 1]
Namesake == [Signer EXCEPT !.key.name = "namesake"]

Rewritings(c) ==
  {[c EXCEPT !.certs = Reverse(@)],
   [c EXCEPT !.certs = << >>],
   [c EXCEPT !.certs = <<Reissued>> \o @],
   [c EXCEPT !.certs = <<Namesake>> \o @],
   [c EXCEPT !.signers = @ \o CmsSigned(<<Signer>>, Data).signers],
   [c EXCEPT !.signers = << >>],
   [c EXCEPT !.econtent = <<Data>>],
   [c EXCEPT !.econtentType = "tstInfo"]}
    \cup
  (IF c.signers = << >> THEN {}
   ELSE {[c EXCEPT !.signers[1] = s] :
           s \in LET si == c.signers[1] IN
             {[si EXCEPT !.attrs = Doubled(@)],
              [si EXCEPT !.attrs = SelectSeq(@, LAMBDA a : a.oid # "signingCertificateV2")],
              [si EXCEPT !.attrs[2].values = Doubled(@)],
              [si EXCEPT !.digestAlg = "sha512"],
              [si EXCEPT !.sid = IdOf(TsaChain[1])],
              [si EXCEPT !.unsigned = << >>]}
             \cup {[si EXCEPT !.unsigned = <<Token(info)>> \o @] : info \in issued}
             \cup {[si EXCEPT !.unsigned = <<Damaged(info)>>] : info \in issued}})

Rewrite(c) ==
  /\ pc = "signed" /\ rewrites < MaxRewrites
  /\ c \in Rewritings(cms[1])
  /\ cms' = <<c>> /\ rewrites' = rewrites + 1
  /\ UNCHANGED <<http, pc, chains, reply, nonce, issued>>

-----------------------------------------------------------------------------
Init ==
  /\ HttpInit
  /\ pc = "idle" /\ chains = << >> /\ reply = << >> /\ cms = << >> /\ nonce = 0
  /\ issued = {} /\ rewrites = 0

Fetch == (Client \/ Peer) /\ UNCHANGED rest
Time  == Tick /\ UNCHANGED rest
Reply ==
  /\ pc = "fetching" /\ phase = "writing" /\ unsent = 0
  /\ ServeError \/ \E r \in Replies, response \in Framings : Serve(r, response)

Next ==
  \/ \E ch \in Chains : Sign(ch)
  \/ Fetch \/ Time \/ Reply
  \/ Embed \/ GiveUpSigning
  \/ pc = "signed" /\ \E c \in Rewritings(cms[1]) : Rewrite(c)

Spec == Init /\ [][Next]_vars

\* Time passes, the client takes the steps that only it can take, and the
\* resolver of the system answers in the end.  Nothing is asked of the server.
Fairness ==
  /\ WF_vars(Time)
  /\ WF_vars(Client /\ UNCHANGED rest)
  /\ WF_vars(Reply)
  /\ WF_vars(Embed \/ GiveUpSigning)
FairSpec == Spec /\ Fairness

-----------------------------------------------------------------------------
(* Properties.                                                             *)

\* The state is well-formed; there is a CMS exactly while one is made or kept,
\* and a token is asked for by the latest signer.
TypeOK ==
  /\ phase \in {"idle", "resolving", "connecting", "writing", "checking", "reading",
               "closed", "done"}
  /\ age \in 0..Late /\ waited \in 0..Limit /\ unsent \in 0..Pieces
  /\ Len(raw) <= MaxResponse
  /\ pc \in {"idle", "fetching", "signed"}
  /\ phase = "idle" <=> pc # "fetching"
  /\ nonce \in 0..MaxRequests /\ Len(chains) = nonce /\ rewrites \in 0..MaxRewrites
  /\ Len(cms) = IF pc = "signed" THEN 1 ELSE 0

\* A request that has once met its deadline in time ends, whatever the server
\* does, at most one read timeout after it (tsa.rs:250-271).
OverrunIsBounded == phase = "reading" => age <= RequestTimeout + IoTimeout

\* Every chunk of an accepted response arrived with all the bytes its size
\* announces and the line end after them, wherever the connection was cut
\* (tsa.rs:307-340).
AnnouncedIsReceived ==
  phase = "closed" /\ BodyOf(raw).ok =>
    \A i \in First(raw, 1, "end")..Len(raw) :
      raw[i].k = "size" => Len(raw) > i + raw[i].n + (IF raw[i].n = 0 THEN 0 ELSE 1)

\* The token that is embedded was made in answer to this request, never for an
\* earlier request that stamped the same signature value (tsa.rs:120-141).
TokenIsFresh ==
  pc = "signed" /\ rewrites = 0 => TstInfo(cms[1].signers[1].unsigned[1]).genTime = nonce

\* What a call returns verifies, with its timestamp, whatever the kind of key
\* (crypto.rs:167-343 against crypto.rs:551-740).
SignedVerifies ==
  pc = "signed" /\ rewrites = 0 => CmsVerifies(cms[1], Data) /\ TimestampVerifies(cms[1])

\* However a CMS was rewritten: if it still verifies, the certificate whose chain
\* is going to be judged is the one its signer signed with (crypto.rs:345-370).
AcceptedIsGenuine ==
  pc = "signed" /\ CmsVerifies(cms[1], Data) =>
    HasJudged(cms[1]) /\ Judged(cms[1]) = Signer

\* However a CMS was rewritten: a timestamp that verifies shows a time at which
\* this signature value existed (crypto.rs:434-472).
TimestampIsBound ==
  pc = "signed" /\ TimestampVerifies(cms[1]) =>
    LET time == TstInfo(cms[1].signers[1].unsigned[1]).genTime
    IN  time \in 1..nonce
          /\ SigValue(CmsSigned(chains[time], Data)) = SigValue(cms[1])

\* A call that fetches a token ends, whatever the server does (tsa.rs:250-271).
CallEnds == pc = "fetching" ~> pc # "fetching"
=============================================================================
