------------------------- MODULE TimestampingProofs -------------------------
(***************************************************************************)
(* Proofs about Timestamping, for every kind of key and all time limits: a *)
(* request overruns its deadline by one read at most, a chunked body comes *)
(* through as it was sent or not at all, the token that is embedded is     *)
(* made for this request, what a call returns verifies, and what verifies  *)
(* after any rewriting is what its signer and its TSA made.                *)
(***************************************************************************)
EXTENDS Timestamping, Basics, FiniteSetTheorems, SequenceTheorems, TLAPS

Phases ==
  {"idle", "resolving", "connecting", "writing", "checking", "reading", "closed", "done"}

\* The cells of the responses there are.
Cells ==
  {StatusLine(200), StatusLine(500), TransferChunked, EndOfHead, Crlf}
    \cup {Size(n) : n \in Nat} \cup {Part(n) : n \in Nat}

\* The state of a request: in particular, a read begins before the deadline.
HttpInv ==
  /\ phase \in Phases /\ age \in 0..Late /\ waited \in 0..Limit /\ unsent \in 0..Pieces
  /\ wire \in Seq(Cells) /\ raw \in Seq(Cells) /\ Len(raw) <= MaxResponse
  /\ phase = "reading" => age <= RequestTimeout + waited

\* The state of a call.
CallInv ==
  /\ pc \in {"idle", "fetching", "signed"}
  /\ phase = "idle" <=> pc # "fetching"
  /\ chains \in Seq(Chains) /\ Len(chains) = nonce /\ nonce \in 0..MaxRequests
  /\ pc = "fetching" => nonce >= 1
  /\ rewrites \in 0..MaxRewrites
  /\ Len(cms) = IF pc = "signed" THEN 1 ELSE 0

\* An error of the server has no reply, and is an error.
ErrorInv ==
  pc = "fetching" /\ reply = << >> =>
    /\ ~body.ok
    /\ raw = << >> => wire = << >> \/ wire[1].code # 200
    /\ raw # << >> => raw[1].code # 200

\* A TSTInfo has the number of the request it answers, or none.
InfoIsTrue(info) ==
  /\ info = [imprint |-> info.imprint, genTime |-> info.genTime, nonce |-> info.nonce]
  /\ info.genTime \in 1..nonce /\ info.nonce \in {0, info.genTime}
TokenIsTrue(token) ==
  \E info : InfoIsTrue(info) /\ (token = Token(info) \/ token = Damaged(info))
ReplyInv ==
  /\ \A info \in issued : InfoIsTrue(info)
  /\ pc = "fetching" /\ reply # << >> => Len(reply) = 1
       /\ (reply[1].token # << >> => TokenIsTrue(reply[1].token[1]))

IInv == HttpInv /\ CallInv /\ ErrorInv /\ ReplyInv /\ TokenIsFresh /\ SignedVerifies

-----------------------------------------------------------------------------
(* The request.                                                            *)

LEMMA LateIsNat ==
  /\ Late \in Nat /\ RequestTimeout + IoTimeout < Late
  /\ Limit \in Nat /\ (phase = "reading" => Limit = IoTimeout)
  BY TimeoutAssumption DEF Late, Limit

\* Nothing about the request is bad once it waits for nothing.
LEMMA RequestRests ==
  ASSUME phase' \in Phases, phase' # "reading", waited' = 0, age' \in 0..Late,
         unsent' \in 0..Pieces, wire' \in Seq(Cells), raw' \in Seq(Cells), Len(raw') <= MaxResponse
  PROVE  HttpInv'
<1>1. Limit' \in Nat
  BY TimeoutAssumption DEF Limit
<1>2. Late' = Late
  BY DEF Late
<1>3. waited' \in 0..Limit'
  BY <1>1
<1>4. QED
  BY <1>2, <1>3 DEF HttpInv

LEMMA EmptyIsSeq == << >> \in Seq(Cells) /\ Len(<< >>) = 0
  OBVIOUS

LEMMA GiveUpKeepsHttp == HttpInv /\ GiveUp => HttpInv'
<1> SUFFICES ASSUME HttpInv, GiveUp PROVE HttpInv'
  OBVIOUS
<1>1. /\ phase' = "done" /\ waited' = 0 /\ age' = age /\ wire' = << >> /\ raw' = << >> /\ unsent' = 0
  BY DEF GiveUp, Enter
<1>2. 0 \in 0..Pieces /\ 0 <= MaxResponse
  BY TimeoutAssumption
<1>3. QED
  BY <1>1, <1>2, EmptyIsSeq, RequestRests DEF Phases, HttpInv

LEMMA TickKeepsHttp == HttpInv /\ Tick => HttpInv'
<1> SUFFICES ASSUME HttpInv, Tick PROVE HttpInv'
  OBVIOUS
<1>1. /\ phase' = phase /\ unsent' = unsent /\ wire' = wire /\ raw' = raw
      /\ age' = (IF age < Late THEN age + 1 ELSE age)
      /\ waited' = (IF Limited THEN waited + 1 ELSE 0)
      /\ phase = "resolving" \/ (Limited /\ waited < Limit)
  BY DEF Tick
<1>2. Limit' = Limit /\ Late' = Late /\ Limit \in Nat /\ Late \in Nat
  BY <1>1, LateIsNat DEF Limit, Late
<1>3. age' \in 0..Late /\ waited' \in 0..Limit
  <2>1. age \in 0..Late /\ waited \in 0..Limit
    BY DEF HttpInv
  <2>2. age' \in 0..Late
    BY <1>1, <1>2, <2>1
  <2>3. CASE Limited
    <3>1. waited' = waited + 1 /\ waited < Limit
      BY <1>1, <2>3 DEF Limited
    <3>2. QED
      BY <1>2, <2>1, <2>2, <3>1
  <2>4. CASE ~Limited
    BY <1>1, <1>2, <2>2, <2>4
  <2>5. QED
    BY <2>3, <2>4
<1>4. ASSUME phase = "reading" PROVE age' <= RequestTimeout + waited'
  <2>1. /\ Limited /\ waited < Limit /\ Limit = IoTimeout /\ age <= RequestTimeout + waited
        /\ waited' = waited + 1
    BY <1>1, <1>4, LateIsNat DEF HttpInv, Limited
  <2>2. age' <= age + 1 /\ age \in Nat /\ waited \in Nat /\ age' \in Nat
    BY <1>1, <1>2, <1>3 DEF HttpInv
  <2>3. QED
    BY <2>1, <2>2, TimeoutAssumption
<1>5. QED
  BY <1>1, <1>2, <1>3, <1>4 DEF HttpInv

\* A read begins before the deadline.
LEMMA CheckKeepsHttp == HttpInv /\ CheckDeadline => HttpInv'
<1> SUFFICES ASSUME HttpInv, CheckDeadline PROVE HttpInv'
  OBVIOUS
<1>1. CASE age > RequestTimeout
  BY <1>1, GiveUpKeepsHttp DEF CheckDeadline
<1>2. CASE ~(age > RequestTimeout)
  <2>1. /\ phase' = "reading" /\ waited' = 0 /\ age' = age /\ unsent' = unsent
        /\ wire' = wire /\ raw' = raw
    BY <1>2 DEF CheckDeadline, Enter
  <2>2. Limit' \in Nat /\ Late' = Late
    BY TimeoutAssumption DEF Limit, Late
  <2>3. age <= RequestTimeout + 0 /\ age \in 0..Late
    BY <1>2, LateIsNat, TimeoutAssumption DEF HttpInv
  <2>4. 0 \in 0..Limit'
    BY <2>2
  <2>5. phase' \in Phases /\ age' \in 0..Late' /\ waited' \in 0..Limit' /\ age' <= RequestTimeout + waited'
    BY <2>1, <2>2, <2>3, <2>4 DEF Phases
  <2>6. unsent' \in 0..Pieces /\ wire' \in Seq(Cells) /\ raw' \in Seq(Cells) /\ Len(raw') <= MaxResponse
    BY <2>1 DEF HttpInv
  <2>7. QED
    BY <2>5, <2>6 DEF HttpInv
<1>3. QED
  BY <1>1, <1>2

\* What is received is what was sent, up to some place.
LEMMA ReceivedCells ==
  ASSUME HttpInv, NEW n \in 1..Len(wire)
  PROVE  /\ raw \o SubSeq(wire, 1, n) \in Seq(Cells)
         /\ Len(raw \o SubSeq(wire, 1, n)) = Len(raw) + n
         /\ SubSeq(wire, n + 1, Len(wire)) \in Seq(Cells)
<1>1. wire \in Seq(Cells) /\ raw \in Seq(Cells) /\ Len(wire) \in Nat /\ n \in Nat /\ n <= Len(wire)
  BY DEF HttpInv
<1>2. SubSeq(wire, 1, n) \in Seq(Cells) /\ Len(SubSeq(wire, 1, n)) = n
  BY <1>1
<1>3. SubSeq(wire, n + 1, Len(wire)) \in Seq(Cells)
  BY <1>1
<1>4. QED
  BY <1>1, <1>2, <1>3

LEMMA ReceiveKeepsHttp ==
  ASSUME NEW n \in 1..Len(wire), HttpInv, Receive(n)
  PROVE  HttpInv'
<1>1. CASE Len(raw) + n > MaxResponse
  BY <1>1, GiveUpKeepsHttp DEF Receive
<1>2. CASE ~(Len(raw) + n > MaxResponse)
  <2>1. /\ phase' = "checking" /\ waited' = 0 /\ age' = age /\ unsent' = unsent
        /\ raw' = raw \o SubSeq(wire, 1, n) /\ wire' = SubSeq(wire, n + 1, Len(wire))
    BY <1>2 DEF Receive, Enter
  <2>2. Len(raw') <= MaxResponse
    BY <1>2, <2>1, ReceivedCells, TimeoutAssumption DEF HttpInv
  <2>3. QED
    BY <2>1, <2>2, ReceivedCells, RequestRests DEF Phases, HttpInv
<1>3. QED
  BY <1>1, <1>2

LEMMA FetchKeepsHttp == HttpInv /\ (Client \/ Peer) => HttpInv'
<1> SUFFICES ASSUME HttpInv, Client \/ Peer PROVE HttpInv'
  OBVIOUS
<1>1. CASE ResolveFails \/ Reset \/ TimesOut
  BY <1>1, GiveUpKeepsHttp DEF ResolveFails, Reset, TimesOut
<1>2. CASE Resolve \/ Connect \/ ReadTimesOut \/ Closed
  <2>1. /\ phase' \in {"connecting", "writing", "checking", "closed"} /\ waited' = 0 /\ age' = age
        /\ unsent' = unsent /\ raw' = raw /\ (wire' = wire \/ wire' = << >>)
    BY <1>2 DEF Resolve, Connect, ReadTimesOut, Closed, Enter
  <2>2. QED
    BY <2>1, EmptyIsSeq, RequestRests DEF Phases, HttpInv
<1>3. CASE Write
  <2>1. /\ phase' = "writing" /\ waited' = 0 /\ age' = age /\ unsent' = unsent - 1 /\ unsent > 0
        /\ raw' = raw /\ wire' = wire
    BY <1>3 DEF Write, Enter
  <2>2. unsent' \in 0..Pieces
    BY <2>1, TimeoutAssumption DEF HttpInv
  <2>3. QED
    BY <2>1, <2>2, RequestRests DEF Phases, HttpInv
<1>4. CASE Decode
  <2>1. /\ phase' = "done" /\ waited' = 0 /\ age' = age /\ wire' = << >> /\ raw' = << >> /\ unsent' = 0
    BY <1>4 DEF Decode, Enter
  <2>2. 0 \in 0..Pieces /\ 0 <= MaxResponse
    BY TimeoutAssumption
  <2>3. QED
    BY <2>1, <2>2, EmptyIsSeq, RequestRests DEF Phases, HttpInv
<1>5. QED
  BY <1>1, <1>2, <1>3, <1>4, CheckKeepsHttp, ReceiveKeepsHttp DEF Client, Peer

\* What a server sends is cells.
LEMMA FramingsAreCells == Framings \subseteq Seq(Cells)
<1>1. /\ StatusLine(200) \in Cells /\ TransferChunked \in Cells /\ EndOfHead \in Cells
      /\ Crlf \in Cells
  BY DEF Cells
<1>2. /\ Size(0) \in Cells /\ Size(1) \in Cells /\ Size(2) \in Cells
      /\ Part(1) \in Cells /\ Part(2) \in Cells
  BY DEF Cells
<1>3. QED
  BY <1>1, <1>2 DEF Framings

LEMMA ErrorIsCells ==
  ServerError \in Seq(Cells) /\ ServerError # << >> /\ ServerError[1].code = 500
<1>1. StatusLine(500) \in Cells /\ EndOfHead \in Cells /\ Part(1) \in Cells
  BY DEF Cells
<1>2. [i \in 1..MaxResponse |-> Part(1)] \in Seq(Cells)
  BY <1>1, TimeoutAssumption
<1>3. <<StatusLine(500), EndOfHead>> \in Seq(Cells) /\ Len(<<StatusLine(500), EndOfHead>>) = 2
      /\ <<StatusLine(500), EndOfHead>>[1] = StatusLine(500)
  BY <1>1
<1>4. ServerError \in Seq(Cells) /\ Len(ServerError) >= 2 /\ ServerError[1] = StatusLine(500)
  <2>1. PICK a \in Seq(Cells) : a = <<StatusLine(500), EndOfHead>>
    BY <1>3
  <2>2. PICK b \in Seq(Cells) : b = [i \in 1..MaxResponse |-> Part(1)]
    BY <1>2
  <2>3. a \o b \in Seq(Cells) /\ Len(a \o b) = Len(a) + Len(b) /\ Len(b) \in Nat
    OBVIOUS
  <2>4. Len(a) = 2 /\ a[1] = StatusLine(500)
    BY <2>1
  <2>5. 1 \in 1..(Len(a) + Len(b)) /\ 1 <= Len(a) /\ Len(a) + Len(b) >= 2
    BY <2>3, <2>4
  <2>6. (a \o b)[1] = a[1]
    BY <2>5
  <2>7. ServerError = a \o b
    BY <2>1, <2>2 DEF ServerError
  <2>8. QED
    BY <2>3, <2>4, <2>5, <2>6, <2>7
<1>5. QED
  BY <1>4 DEF StatusLine

LEMMA SentKeepsHttp ==
  ASSUME NEW response \in Seq(Cells), HttpInv, Sent(response)
  PROVE  HttpInv'
<1>1. /\ phase' = "checking" /\ waited' = 0 /\ age' = age /\ unsent' = unsent
      /\ raw' = raw /\ wire' = response
  BY DEF Sent, Enter
<1>2. QED
  BY <1>1, RequestRests DEF Phases, HttpInv

LEMMA StartKeepsHttp == StartRequest => HttpInv'
<1> SUFFICES ASSUME StartRequest PROVE HttpInv'
  OBVIOUS
<1>1. /\ phase' = "resolving" /\ waited' = 0 /\ age' = 0 /\ unsent' = Pieces
      /\ raw' = << >> /\ wire' = << >>
  BY DEF StartRequest, Enter
<1>2. 0 \in 0..Late /\ Pieces \in 0..Pieces /\ 0 <= MaxResponse
  BY LateIsNat, TimeoutAssumption
<1>3. QED
  BY <1>1, <1>2, EmptyIsSeq, RequestRests DEF Phases

LEMMA LeaveKeepsHttp == HttpInv /\ Leave => HttpInv'
<1> SUFFICES ASSUME HttpInv, Leave PROVE HttpInv'
  OBVIOUS
<1>1. /\ phase = "done" /\ phase' = "idle" /\ waited' = waited /\ age' = age
      /\ unsent' = unsent /\ raw' = raw /\ wire' = wire
  BY DEF Leave
<1>2. waited' = 0
  <2>1. Limit = 0
    BY <1>1 DEF Limit
  <2>2. QED
    BY <1>1, <2>1 DEF HttpInv
<1>3. QED
  BY <1>1, <1>2, RequestRests DEF Phases, HttpInv

\* A request that is made stays one until it is done.
LEMMA FetchStaysBusy ==
  ASSUME Client \/ Peer \/ Tick \/ \E response : Sent(response)
  PROVE  phase # "idle" /\ phase' # "idle"
<1>1. CASE Client
  BY <1>1 DEF Client, Resolve, ResolveFails, TimesOut, CheckDeadline, ReadTimesOut, Decode,
              GiveUp, Enter
<1>2. CASE Peer
  BY <1>2 DEF Peer, Connect, Write, Reset, Closed, Receive, GiveUp, Enter
<1>3. CASE Tick
  BY <1>3 DEF Tick, Limited
<1>4. CASE \E response : Sent(response)
  BY <1>4 DEF Sent, Enter
<1>5. QED
  BY <1>1, <1>2, <1>3, <1>4

-----------------------------------------------------------------------------
(* The call.                                                               *)

LEMMA FetchKeepsCall == CallInv /\ (Fetch \/ Time \/ Reply) => CallInv'
<1> SUFFICES ASSUME CallInv, Fetch \/ Time \/ Reply PROVE CallInv'
  OBVIOUS
<1>1. Client \/ Peer \/ Tick \/ \E response : Sent(response)
  BY DEF Fetch, Time, Reply, Serve, ServeError
<1>2. phase # "idle" /\ phase' # "idle"
  BY <1>1, FetchStaysBusy
<1>3. UNCHANGED <<pc, chains, cms, nonce, rewrites>>
  BY DEF Fetch, Time, Reply, Serve, ServeError, rest
<1>4. QED
  BY <1>2, <1>3 DEF CallInv

LEMMA SignKeepsCall ==
  ASSUME NEW ch \in Chains, CallInv, Sign(ch)
  PROVE  CallInv'
<1>1. /\ pc = "idle" /\ nonce < MaxRequests /\ pc' = "fetching" /\ phase' = "resolving"
      /\ chains' = Append(chains, ch) /\ nonce' = nonce + 1 /\ cms' = cms /\ rewrites' = rewrites
  BY DEF Sign, StartRequest, Enter
<1>2. chains' \in Seq(Chains) /\ Len(chains') = Len(chains) + 1
  BY <1>1 DEF CallInv
<1>3. nonce' \in 0..MaxRequests /\ nonce' >= 1 /\ Len(chains') = nonce'
  BY <1>1, <1>2, TimestampingAssumption DEF CallInv
<1>4. QED
  BY <1>1, <1>2, <1>3 DEF CallInv

LEMMA EndKeepsCall == CallInv /\ (Embed \/ GiveUpSigning) => CallInv'
<1> SUFFICES ASSUME CallInv, Embed \/ GiveUpSigning PROVE CallInv'
  OBVIOUS
<1>1. phase' = "idle" /\ UNCHANGED <<chains, nonce, rewrites>>
  BY DEF Embed, GiveUpSigning, Leave
<1>2. CASE Embed
  <2>1. pc' = "signed" /\ \E c : cms' = <<c>>
    BY <1>2 DEF Embed
  <2>2. Len(cms') = 1
    BY <2>1
  <2>3. QED
    BY <1>1, <2>1, <2>2 DEF CallInv
<1>3. CASE GiveUpSigning
  <2>1. pc = "fetching" /\ pc' = "idle" /\ cms' = cms
    BY <1>3 DEF GiveUpSigning
  <2>2. QED
    BY <1>1, <2>1 DEF CallInv
<1>4. QED
  BY <1>2, <1>3

LEMMA RewriteKeepsCall ==
  ASSUME NEW c, CallInv, Rewrite(c)
  PROVE  CallInv'
<1>1. /\ pc = "signed" /\ rewrites < MaxRewrites /\ rewrites' = rewrites + 1
      /\ phase' = phase /\ cms' = <<c>> /\ UNCHANGED <<pc, chains, nonce>>
  BY DEF Rewrite, http
<1>2. rewrites' \in 0..MaxRewrites /\ Len(cms') = 1
  BY <1>1, TimestampingAssumption DEF CallInv
<1>3. QED
  BY <1>1, <1>2 DEF CallInv

-----------------------------------------------------------------------------
(* Errors of the server.                                                   *)

\* Nothing, and a response that is not 200, have no body.
LEMMA NoBodyOfErrors ==
  ASSUME NEW cells \in Seq(Cells), cells = << >> \/ cells[1].code # 200
  PROVE  ~BodyOf(cells).ok
<1>1. CASE cells = << >>
  <2>1. Len(cells) = 0 /\ 1..Len(cells) = {}
    BY <1>1
  <2>2. First(cells, 1, "end") > Len(cells)
    BY <2>1 DEF First
  <2>3. QED
    BY <2>2 DEF BodyOf, NoBody
<1>2. CASE cells[1].code # 200
  BY <1>2 DEF BodyOf, NoBody
<1>3. QED
  BY <1>1, <1>2

LEMMA FetchKeepsError == HttpInv /\ ErrorInv /\ Fetch => ErrorInv'
<1> SUFFICES ASSUME HttpInv, ErrorInv, Fetch, pc = "fetching", reply = << >>
             PROVE  /\ ~body'.ok
                    /\ raw' = << >> => wire' = << >> \/ wire'[1].code # 200
                    /\ raw' # << >> => raw'[1].code # 200
  BY DEF ErrorInv, Fetch, rest
<1>1. /\ ~body.ok
      /\ raw = << >> => wire = << >> \/ wire[1].code # 200
      /\ raw # << >> => raw[1].code # 200
  BY DEF ErrorInv
<1>2. CASE GiveUp
  BY <1>2 DEF GiveUp, NoBody
<1>3. CASE UNCHANGED <<raw, body>> /\ (wire' = wire \/ wire' = << >>)
  BY <1>1, <1>3
<1>4. CASE Decode
  <2>1. ~BodyOf(raw).ok
    BY <1>1, NoBodyOfErrors DEF HttpInv
  <2>2. QED
    BY <1>4, <2>1 DEF Decode
<1>5. CASE \E n \in 1..Len(wire) : Receive(n)
  <2>1. PICK n \in 1..Len(wire) : Receive(n)
    BY <1>5
  <2>2. CASE Len(raw) + n > MaxResponse
    BY <1>2, <2>1, <2>2 DEF Receive
  <2>3. CASE ~(Len(raw) + n > MaxResponse)
    <3>1. raw' = raw \o SubSeq(wire, 1, n) /\ body' = body
      BY <2>1, <2>3 DEF Receive
    <3>2. PICK part \in Seq(Cells) : part = SubSeq(wire, 1, n) /\ Len(part) = n /\ part[1] = wire[1]
      <4>1. wire \in Seq(Cells) /\ Len(wire) \in Nat /\ n \in Nat /\ 1 <= n /\ n <= Len(wire)
        BY DEF HttpInv
      <4>2. /\ SubSeq(wire, 1, n) \in Seq(Cells) /\ Len(SubSeq(wire, 1, n)) = n
            /\ SubSeq(wire, 1, n)[1] = wire[1]
        BY <4>1
      <4>3. QED
        BY <4>2
    <3>3. n >= 1 /\ wire # << >>
      BY DEF HttpInv
    <3>4. Len(part) = n /\ part[1] = wire[1]
      BY <3>2
    <3>5. raw \in Seq(Cells) /\ Len(raw) \in Nat
      BY DEF HttpInv
    <3>6. Len(raw \o part) = Len(raw) + n /\ Len(raw) + n >= 1
      <4>1. Len(raw \o part) = Len(raw) + Len(part) /\ n \in Nat
        BY <3>5
      <4>2. QED
        BY <3>3, <3>4, <3>5, <4>1
    <3>7. raw' # << >>
      BY <3>1, <3>2, <3>6, EmptyIsSeq
    <3>8. raw'[1].code # 200
      <4>1. CASE raw = << >>
        <5>1. raw' = part
          BY <3>1, <3>2, <4>1
        <5>2. QED
          BY <1>1, <3>3, <3>4, <4>1, <5>1
      <4>2. CASE raw # << >>
        <5>1. Len(raw) >= 1 /\ 1 \in 1..(Len(raw) + Len(part))
          BY <3>3, <3>4, <3>5, <4>2
        <5>2. (raw \o part)[1] = raw[1]
          BY <3>5, <5>1
        <5>3. QED
          BY <1>1, <3>1, <3>2, <4>2, <5>2
      <4>3. QED
        BY <4>1, <4>2
    <3>9. QED
      BY <1>1, <3>1, <3>7, <3>8
  <2>4. QED
    BY <2>2, <2>3
<1>6. QED
  BY <1>2, <1>3, <1>4, <1>5
     DEF Fetch, Client, Peer, Resolve, ResolveFails, TimesOut, CheckDeadline, ReadTimesOut, Connect,
         Write, Reset, Closed

LEMMA OthersKeepError ==
  ASSUME ErrorInv, [Next]_vars, ~Fetch
  PROVE  ErrorInv'
<1>1. CASE \E ch \in Chains : Sign(ch)
  BY <1>1 DEF Sign, StartRequest, ErrorInv, NoBody
<1>2. CASE Time
  BY <1>2 DEF Time, Tick, rest, ErrorInv
<1>3. CASE ServeError /\ pc = "fetching"
  <2>1. /\ wire' = ServerError /\ UNCHANGED <<raw, body, pc, reply>>
    BY <1>3 DEF ServeError, Sent, rest
  <2>2. QED
    BY <2>1, ErrorIsCells DEF ErrorInv
<1>4. CASE \E r \in Replies, response \in Framings : Serve(r, response)
  <2>1. \E r : reply' = <<r>>
    BY <1>4 DEF Serve
  <2>2. reply' # << >>
    BY <2>1
  <2>3. QED
    BY <2>2 DEF ErrorInv
<1>5. CASE Embed \/ GiveUpSigning
  BY <1>5 DEF Embed, GiveUpSigning, ErrorInv
<1>6. CASE \E c : Rewrite(c)
  BY <1>6 DEF Rewrite, ErrorInv
<1>7. CASE UNCHANGED vars
  BY <1>7 DEF vars, http, ErrorInv
<1>8. QED
  BY <1>1, <1>2, <1>3, <1>4, <1>5, <1>6, <1>7 DEF Next, Reply

-----------------------------------------------------------------------------
(* Replies.                                                                *)

\* What the authority makes for a request has its number.
LEMMA MadeIsTrue ==
  ASSUME NEW info \in MadeNow, CallInv, pc = "fetching"
  PROVE  InfoIsTrue(info)
<1>1. \E imprint, n : n \in {0, nonce} /\ info = Info(imprint, n)
  BY DEF MadeNow
<1>2. nonce \in 1..nonce
  BY TimestampingAssumption DEF CallInv
<1>3. QED
  BY <1>1, <1>2 DEF Info, InfoIsTrue

LEMMA RepliesAreTrue ==
  ASSUME NEW r \in Replies, CallInv, pc = "fetching", \A info \in issued : InfoIsTrue(info),
         r.token # << >>
  PROVE  TokenIsTrue(r.token[1])
<1>1. CASE \E info \in MadeNow \cup issued : r = Granted(info)
  <2>1. PICK info \in MadeNow \cup issued : r = Granted(info)
    BY <1>1
  <2>2. r.token[1] = Token(info) /\ InfoIsTrue(info)
    BY <2>1, MadeIsTrue DEF Granted
  <2>3. QED
    BY <2>2 DEF TokenIsTrue
<1>2. CASE \E info \in MadeNow, s \in {1, 2} : r = [Granted(info) EXCEPT !.status = s]
  <2>1. PICK info \in MadeNow, s \in {1, 2} : r = [Granted(info) EXCEPT !.status = s]
    BY <1>2
  <2>2. r.token[1] = Token(info) /\ InfoIsTrue(info)
    BY <2>1, MadeIsTrue DEF Granted
  <2>3. QED
    BY <2>2 DEF TokenIsTrue
<1>3. CASE \E info \in MadeNow : r = [status |-> 0, token |-> <<Damaged(info)>>]
  <2>1. PICK info \in MadeNow : r = [status |-> 0, token |-> <<Damaged(info)>>]
    BY <1>3
  <2>2. r.token[1] = Damaged(info) /\ InfoIsTrue(info)
    BY <2>1, MadeIsTrue
  <2>3. QED
    BY <2>2 DEF TokenIsTrue
<1>4. CASE \E s \in {0, 2} : r = [status |-> s, token |-> << >>]
  BY <1>4
<1>5. QED
  BY <1>1, <1>2, <1>3, <1>4 DEF Replies

\* A TSTInfo stays true as requests are made.
LEMMA TrueStaysTrue ==
  ASSUME NEW info, InfoIsTrue(info), nonce \in Nat, nonce' \in Nat, nonce <= nonce'
  PROVE  InfoIsTrue(info)'
  BY DEF InfoIsTrue

LEMMA NextKeepsReply == CallInv /\ ReplyInv /\ [Next]_vars => ReplyInv'
<1> SUFFICES ASSUME CallInv, ReplyInv, [Next]_vars PROVE ReplyInv'
  OBVIOUS
<1>1. CASE \E ch \in Chains : Sign(ch)
  <2>1. nonce' = nonce + 1 /\ issued' = issued /\ reply' = << >>
    BY <1>1 DEF Sign
  <2>2. nonce \in Nat /\ nonce' \in Nat /\ nonce <= nonce'
    BY <2>1, TimestampingAssumption DEF CallInv
  <2>3. QED
    BY <2>1, <2>2, TrueStaysTrue DEF ReplyInv
<1>2. CASE Fetch \/ Time \/ ServeError \/ UNCHANGED vars
  <2>1. UNCHANGED <<pc, reply, nonce, issued>>
    BY <1>2 DEF Fetch, Time, ServeError, rest, vars
  <2>2. QED
    BY <2>1 DEF ReplyInv, TokenIsTrue, InfoIsTrue
<1>3. CASE \E r \in Replies, response \in Framings : Serve(r, response)
  <2>1. PICK r \in Replies, response \in Framings : Serve(r, response)
    BY <1>3
  <2>2. /\ pc = "fetching" /\ reply' = <<r>> /\ nonce' = nonce /\ pc' = pc
        /\ issued' = issued \cup {info \in MadeNow : r.token = <<Token(info)>>}
    BY <2>1 DEF Serve
  <2>3. \A info \in issued' : InfoIsTrue(info)
    BY <2>2, MadeIsTrue DEF ReplyInv
  <2>4. Len(reply') = 1 /\ reply'[1] = r
    BY <2>2
  <2>5. r.token # << >> => TokenIsTrue(r.token[1])
    BY <2>2, RepliesAreTrue DEF ReplyInv
  <2>6. QED
    BY <2>2, <2>3, <2>4, <2>5 DEF ReplyInv, TokenIsTrue, InfoIsTrue
<1>4. CASE Embed \/ GiveUpSigning \/ \E c : Rewrite(c)
  <2>1. UNCHANGED <<nonce, issued>> /\ pc' # "fetching"
    BY <1>4 DEF Embed, GiveUpSigning, Rewrite
  <2>2. QED
    BY <2>1 DEF ReplyInv, InfoIsTrue
<1>5. QED
  BY <1>1, <1>2, <1>3, <1>4 DEF Next, Reply

-----------------------------------------------------------------------------
(* Tokens.                                                                 *)

\* A token that was damaged does not verify.
LEMMA DamageShows ==
  ASSUME NEW info, InfoIsTrue(info), nonce \in Nat
  PROVE  ~TokenVerifies(Damaged(info))
<1> DEFINE cert  == TsaChain[1]
           alg   == SignDigest(cert.key.kind)
           attrs == <<Attr("contentType", <<<<"tstInfo">>>>),
                      Attr("messageDigest", <<Digest(alg, info)>>),
                      Attr("signingCertificateV2", <<Digest("sha256", cert)>>)>>
           other == [info EXCEPT !.genTime = 0]
<1>1. other # info
  <2>1. other.genTime = 0 /\ info.genTime # 0
    BY DEF InfoIsTrue
  <2>2. QED
    BY <2>1
<1>2. Damaged(info).signers = Token(info).signers /\ Damaged(info).econtent[1] = other
  BY DEF Damaged, Token, SignedDataOver
<1>3. Token(info).signers[1].attrs = attrs
  BY DEF Token, SignedDataOver
<1>4. Places(attrs, "messageDigest") = {2}
  BY DEF Places, Attr
<1>5. Value(attrs, "messageDigest") = Digest(alg, info)
  BY <1>4 DEF Value, Attr
<1>6. \A a : Digest(alg, info) # Digest(a, other)
  BY <1>1 DEF Digest
<1>7. QED
  BY <1>2, <1>3, <1>5, <1>6 DEF TokenVerifies, SignedAttrsVerify

\* A token that answers the request was made for it.
LEMMA AnswersAreFresh ==
  ASSUME NEW r, NEW sig, Answers(r, sig), TokenIsTrue(r.token[1]), nonce \in Nat, nonce >= 1
  PROVE  TstInfo(r.token[1]).genTime = nonce
<1>1. PICK info : InfoIsTrue(info) /\ (r.token[1] = Token(info) \/ r.token[1] = Damaged(info))
  BY DEF TokenIsTrue
<1>2. r.token[1] = Token(info)
  BY <1>1, DamageShows DEF Answers
<1>3. TstInfo(r.token[1]) = info
  BY <1>2 DEF TstInfo, Token, SignedDataOver
<1>4. QED
  BY <1>1, <1>3 DEF Answers, InfoIsTrue

-----------------------------------------------------------------------------
(* Signatures.                                                             *)

\* The certificate found for a signer that names the first one is the first one.
LEMMA FirstIsFound ==
  ASSUME NEW S, NEW chain \in Seq(S), chain # << >>, NEW c, NEW si,
         c.certs = chain, si.sid = IdOf(chain[1])
  PROVE  Matching(c, si) # {} /\ SignerCert(c, si) = chain[1]
<1>1. 1 \in DOMAIN chain /\ \A i \in DOMAIN chain : i \in Nat /\ 1 <= i
  OBVIOUS
<1>2. 1 \in Matching(c, si) /\ \A i \in Matching(c, si) : i \in Nat /\ 1 <= i
  BY <1>1 DEF Matching
<1>3. PICK i : i = CHOOSE k \in Matching(c, si) : \A j \in Matching(c, si) : k <= j
  OBVIOUS
<1>4. i \in Matching(c, si) /\ \A j \in Matching(c, si) : i <= j
  BY <1>2, <1>3
<1>5. i = 1
  BY <1>2, <1>4
<1>6. SignerCert(c, si) = c.certs[i]
  BY <1>3 DEF SignerCert
<1>7. QED
  BY <1>2, <1>5, <1>6

\* Each of the three attributes is there once and has one value.
LEMMA AttributesAreSingle ==
  ASSUME NEW u, NEW v, NEW w, NEW attrs,
         attrs = <<Attr("contentType", <<u>>), Attr("messageDigest", <<v>>),
                   Attr("signingCertificateV2", <<w>>)>>
  PROVE  /\ Single(attrs, "contentType") /\ Value(attrs, "contentType") = u
         /\ Single(attrs, "messageDigest") /\ Value(attrs, "messageDigest") = v
         /\ Single(attrs, "signingCertificateV2") /\ Value(attrs, "signingCertificateV2") = w
         /\ Absent(attrs, "signingCertificate")
<1>1. /\ Places(attrs, "contentType") = {1} /\ Places(attrs, "messageDigest") = {2}
      /\ Places(attrs, "signingCertificateV2") = {3} /\ Places(attrs, "signingCertificate") = {}
  BY DEF Places, Attr
<1>2. Cardinality({1}) = 1 /\ Cardinality({2}) = 1 /\ Cardinality({3}) = 1
  BY FS_Singleton
<1>3. /\ attrs[1].values = <<u>> /\ attrs[2].values = <<v>> /\ attrs[3].values = <<w>>
  BY DEF Attr
<1>4. Len(<<u>>) = 1 /\ Len(<<v>>) = 1 /\ Len(<<w>>) = 1
  OBVIOUS
<1>5. /\ Single(attrs, "contentType") /\ Single(attrs, "messageDigest")
      /\ Single(attrs, "signingCertificateV2")
  BY <1>1, <1>2, <1>3, <1>4 DEF Single
<1>6. /\ Value(attrs, "contentType") = u /\ Value(attrs, "messageDigest") = v
      /\ Value(attrs, "signingCertificateV2") = w
  <2>1. /\ (CHOOSE i \in {1} : TRUE) = 1 /\ (CHOOSE i \in {2} : TRUE) = 2
        /\ (CHOOSE i \in {3} : TRUE) = 3
    OBVIOUS
  <2>2. <<u>>[1] = u /\ <<v>>[1] = v /\ <<w>>[1] = w
    OBVIOUS
  <2>3. /\ Value(attrs, "contentType") = attrs[1].values[1]
        /\ Value(attrs, "messageDigest") = attrs[2].values[1]
        /\ Value(attrs, "signingCertificateV2") = attrs[3].values[1]
    BY <1>1, <2>1 DEF Value
  <2>4. QED
    BY <1>3, <2>2, <2>3
<1>7. QED
  BY <1>1, <1>5, <1>6 DEF Absent

\* The digest and the signature algorithm chosen for a key are accepted for it.
LEMMA ChoiceIsConsistent ==
  ASSUME NEW kind \in {"rsa", "p256", "p384", "ed25519"}
  PROVE  SignDigest(kind) \in Digests /\ Consistent(kind, SignAlg(kind), SignDigest(kind))
  BY DEF SignDigest, SignAlg, Digests, Consistent

\* What build_signed_data builds, verify_signed_attrs accepts, whatever became of
\* the unsigned attributes.
LEMMA BuiltVerifies ==
  ASSUME NEW S, NEW chain \in Seq(S), chain # << >>,
         chain[1].key.kind \in {"rsa", "p256", "p384", "ed25519"},
         NEW ct, NEW econtent, NEW content, NEW c, NEW si, NEW built,
         built = SignedDataOver(chain, ct, econtent, content).signers[1],
         c.certs = chain, c.econtentType = ct,
         si.sid = built.sid, si.digestAlg = built.digestAlg, si.sigAlg = built.sigAlg,
         si.attrs = built.attrs, si.sig = built.sig
  PROVE  SignedAttrsVerify(c, si, content)
<1> DEFINE cert == chain[1]
           alg  == SignDigest(cert.key.kind)
<1>1. PICK attrs : attrs = <<Attr("contentType", <<<<ct>>>>), Attr("messageDigest", <<Digest(alg, content)>>),
                             Attr("signingCertificateV2", <<Digest("sha256", cert)>>)>>
  OBVIOUS
<1>2. /\ si.sid = IdOf(cert) /\ si.digestAlg = alg /\ si.sigAlg = SignAlg(cert.key.kind)
      /\ si.attrs = attrs /\ si.sig = SigBy(cert.key, alg, attrs)
  BY <1>1 DEF SignedDataOver
<1>3. /\ Single(attrs, "contentType") /\ Value(attrs, "contentType") = <<ct>>
      /\ Single(attrs, "messageDigest") /\ Value(attrs, "messageDigest") = Digest(alg, content)
      /\ Single(attrs, "signingCertificateV2")
      /\ Value(attrs, "signingCertificateV2") = Digest("sha256", cert)
      /\ Absent(attrs, "signingCertificate")
  <2> HIDE DEF alg
  <2>1. QED
    BY <1>1, AttributesAreSingle
<1>4. Matching(c, si) # {} /\ SignerCert(c, si) = cert
  BY <1>2, FirstIsFound
<1>5. EssBound(attrs, cert)
  BY <1>3 DEF EssBound, Digests
<1>6. alg \in Digests /\ SignatureVerifies(si, cert)
  BY <1>2, ChoiceIsConsistent DEF SignatureVerifies
<1>7. QED
  BY <1>2, <1>3, <1>4, <1>5, <1>6 DEF SignedAttrsVerify

LEMMA EmbedSigns ==
  ASSUME CallInv, ErrorInv, ReplyInv, Embed
  PROVE  TokenIsFresh' /\ SignedVerifies'
<1> DEFINE chain == Last(chains)
           token == reply[1].token[1]
           done  == WithTimestamp(CmsSigned(chain, Data), token)
<1>1. /\ pc = "fetching" /\ Acceptable /\ pc' = "signed" /\ cms' = <<done>>
      /\ nonce' = nonce
  BY DEF Embed, Untimed
<1>2. reply # << >>
  BY <1>1 DEF ErrorInv, Acceptable
<1>3. Answers(reply[1], SigValue(Untimed)) /\ TokenIsTrue(token)
  BY <1>1, <1>2 DEF Acceptable, ReplyInv, Answers
<1>4. nonce \in Nat /\ nonce >= 1
  BY <1>1, TimestampingAssumption DEF CallInv
<1>5. TstInfo(token).genTime = nonce
  BY <1>3, <1>4, AnswersAreFresh
<1>6. PICK si : si = CmsSigned(chain, Data).signers[1]
  OBVIOUS
<1>7. /\ CmsSigned(chain, Data).signers = <<si>> /\ si.unsigned = << >>
      /\ si.sig = SigValue(Untimed)
      /\ si = [sid |-> si.sid, digestAlg |-> si.digestAlg, sigAlg |-> si.sigAlg,
               attrs |-> si.attrs, sig |-> si.sig, unsigned |-> << >>]
  BY <1>6 DEF CmsSigned, SignedDataOver, SigValue, Untimed
<1>8. PICK s : s = [sid |-> si.sid, digestAlg |-> si.digestAlg, sigAlg |-> si.sigAlg,
                    attrs |-> si.attrs, sig |-> si.sig, unsigned |-> <<token>>]
  OBVIOUS
<1>9. /\ done.signers = <<s>> /\ done.type = "signedData" /\ done.econtentType = "data"
      /\ done.econtent = << >> /\ done.certs = chain
  <2>1. Append(si.unsigned, token) = <<token>>
    BY <1>7
  <2>2. [si EXCEPT !.unsigned = <<token>>] = s
    BY <1>7, <1>8
  <2>3. [CmsSigned(chain, Data).signers EXCEPT ![1] = s] = <<s>>
    BY <1>7
  <2>4. done.signers = [CmsSigned(chain, Data).signers EXCEPT ![1].unsigned = Append(@, token)]
    BY DEF WithTimestamp, CmsSigned, SignedDataOver
  <2>5. done.signers = <<s>>
    BY <1>6, <1>7, <2>1, <2>2, <2>3, <2>4
  <2>6. QED
    BY <2>5 DEF WithTimestamp, CmsSigned, SignedDataOver
<1>10. done.signers[1] = s /\ s.unsigned = <<token>> /\ s.unsigned[1] = token
  BY <1>8, <1>9
<1>11. chain \in Chains
  <2>1. chains \in Seq(Chains) /\ Len(chains) \in Nat /\ Len(chains) >= 1
    BY <1>1, <1>4 DEF CallInv
  <2>2. QED
    BY <2>1 DEF Last
<1>12. CmsVerifies(done, Data)
  <2>1. chain \in Seq(Range(chain)) /\ chain # << >>
        /\ chain[1].key.kind \in {"rsa", "p256", "p384", "ed25519"}
    BY <1>11, TimestampingAssumption
  <2>2. /\ s.sid = si.sid /\ s.digestAlg = si.digestAlg /\ s.sigAlg = si.sigAlg
        /\ s.attrs = si.attrs /\ s.sig = si.sig
    BY <1>8
  <2>3. si = SignedDataOver(chain, "data", << >>, Data).signers[1]
    BY <1>6 DEF CmsSigned
  <2>4. SignedAttrsVerify(done, s, Data)
    <3> HIDE DEF done, chain
    <3>1. QED
      BY <1>9, <2>1, <2>2, <2>3, BuiltVerifies
  <2>5. Len(<<s>>) = 1
    OBVIOUS
  <2>6. QED
    BY <1>9, <1>10, <2>4, <2>5 DEF CmsVerifies, SingleSigner
<1>13. TimestampVerifies(done)
  <2>1. TokenVerifies(token) /\ TstInfo(token).imprint = Digest("sha256", si.sig)
    BY <1>3, <1>7 DEF Answers
  <2>2. Stamps(token, s.sig)
    BY <1>8, <2>1 DEF Stamps, Digests
  <2>3. Len(<<s>>) = 1 /\ <<token>> # << >>
    OBVIOUS
  <2>4. QED
    BY <1>9, <1>10, <2>1, <2>2, <2>3 DEF TimestampVerifies, SingleSigner
<1>14. PICK d : d = done
  OBVIOUS
<1>15. cms'[1] = d /\ d.signers[1].unsigned[1] = token
  BY <1>1, <1>10, <1>14
<1>16. TstInfo(cms'[1].signers[1].unsigned[1]).genTime = nonce'
  BY <1>1, <1>5, <1>15
<1>17. CmsVerifies(cms'[1], Data) /\ TimestampVerifies(cms'[1])
  BY <1>12, <1>13, <1>14, <1>15
<1>18. QED
  BY <1>16, <1>17 DEF TokenIsFresh, SignedVerifies

-----------------------------------------------------------------------------
(* The invariant.                                                          *)

LEMMA InitIsGood == Init => IInv
<1> SUFFICES ASSUME Init PROVE IInv
  OBVIOUS
<1>1. /\ phase = "idle" /\ age = 0 /\ waited = 0 /\ unsent = 0 /\ wire = << >> /\ raw = << >>
      /\ pc = "idle" /\ chains = << >> /\ cms = << >> /\ nonce = 0 /\ rewrites = 0 /\ issued = {}
  BY DEF Init, HttpInit
<1>2. HttpInv
  <2>1. 0 \in 0..Late /\ 0 \in 0..Limit /\ 0 \in 0..Pieces /\ 0 <= MaxResponse
    BY LateIsNat, TimeoutAssumption
  <2>2. QED
    BY <1>1, <2>1, EmptyIsSeq DEF HttpInv, Phases
<1>3. CallInv
  <2>1. chains \in Seq(Chains) /\ Len(chains) = 0 /\ Len(cms) = 0
    BY <1>1
  <2>2. QED
    BY <1>1, <2>1, TimestampingAssumption DEF CallInv
<1>4. ErrorInv /\ ReplyInv /\ TokenIsFresh /\ SignedVerifies
  BY <1>1 DEF ErrorInv, ReplyInv, TokenIsFresh, SignedVerifies
<1>5. QED
  BY <1>2, <1>3, <1>4 DEF IInv

LEMMA NextKeepsHttp == HttpInv /\ [Next]_vars => HttpInv'
<1> SUFFICES ASSUME HttpInv, [Next]_vars PROVE HttpInv'
  OBVIOUS
<1>1. CASE \E ch \in Chains : Sign(ch)
  BY <1>1, StartKeepsHttp DEF Sign
<1>2. CASE Fetch \/ Time
  BY <1>2, FetchKeepsHttp, TickKeepsHttp DEF Fetch, Time
<1>3. CASE Reply
  BY <1>3, SentKeepsHttp, FramingsAreCells, ErrorIsCells DEF Reply, Serve, ServeError
<1>4. CASE Embed \/ GiveUpSigning
  BY <1>4, LeaveKeepsHttp DEF Embed, GiveUpSigning
<1>5. CASE UNCHANGED http
  BY <1>5 DEF http, HttpInv, Limit, Late
<1>6. QED
  BY <1>1, <1>2, <1>3, <1>4, <1>5 DEF Next, Rewrite, vars

LEMMA NextKeepsCall == CallInv /\ [Next]_vars => CallInv'
<1> SUFFICES ASSUME CallInv, [Next]_vars PROVE CallInv'
  OBVIOUS
<1>1. CASE UNCHANGED vars
  BY <1>1 DEF vars, http, CallInv
<1>2. QED
  BY <1>1, FetchKeepsCall, SignKeepsCall, EndKeepsCall, RewriteKeepsCall DEF Next

LEMMA NextKeepsSigned ==
  IInv /\ [Next]_vars => TokenIsFresh' /\ SignedVerifies'
<1> SUFFICES ASSUME IInv, [Next]_vars PROVE TokenIsFresh' /\ SignedVerifies'
  OBVIOUS
<1>1. CASE Embed
  BY <1>1, EmbedSigns DEF IInv
<1>2. CASE \E c : Rewrite(c)
  <2>1. rewrites' = rewrites + 1 /\ rewrites \in Nat
    BY <1>2, TimestampingAssumption DEF Rewrite, IInv, CallInv
  <2>2. rewrites' # 0
    BY <2>1
  <2>3. QED
    BY <2>2 DEF TokenIsFresh, SignedVerifies
<1>3. CASE \/ \E ch \in Chains : Sign(ch)
           \/ GiveUpSigning
  <2>1. pc' # "signed"
    BY <1>3 DEF Sign, GiveUpSigning
  <2>2. QED
    BY <2>1 DEF TokenIsFresh, SignedVerifies
<1>4. CASE Fetch \/ Time \/ Reply \/ UNCHANGED vars
  <2>1. UNCHANGED <<pc, cms, nonce, rewrites>>
    BY <1>4 DEF Fetch, Time, Reply, Serve, ServeError, rest, vars
  <2>2. QED
    BY <2>1 DEF IInv, TokenIsFresh, SignedVerifies
<1>5. QED
  BY <1>1, <1>2, <1>3, <1>4 DEF Next

\* The invariant holds at first and is kept by every step: nothing about a request
\* or a reply is ever taken for what it is not.
THEOREM Inductive == Spec => []IInv
<1>1. IInv /\ [Next]_vars => IInv'
  <2> SUFFICES ASSUME IInv, [Next]_vars PROVE IInv'
    OBVIOUS
  <2>1. ErrorInv'
    BY FetchKeepsError, OthersKeepError DEF IInv
  <2>2. QED
    BY <2>1, NextKeepsHttp, NextKeepsCall, NextKeepsReply, NextKeepsSigned DEF IInv
<1>2. QED
  BY <1>1, InitIsGood, PTL DEF Spec

\* The state of a request and of a call is well-formed, for all time limits.
THEOREM Types == Spec => []TypeOK
<1>1. IInv => TypeOK
  BY DEF IInv, HttpInv, CallInv, TypeOK, Phases
<1>2. QED
  BY <1>1, Inductive, PTL

\* A read never ends later than one read timeout after the deadline, whatever the
\* server does and whatever the limits are (tsa.rs:250-271).
THEOREM DeadlineHolds == Spec => []OverrunIsBounded
<1>1. IInv => OverrunIsBounded
  <2> SUFFICES ASSUME IInv, phase = "reading" PROVE age <= RequestTimeout + IoTimeout
    BY DEF OverrunIsBounded
  <2>1. age <= RequestTimeout + waited /\ age \in Nat /\ waited \in Nat /\ waited <= Limit
    BY LateIsNat DEF IInv, HttpInv
  <2>2. Limit = IoTimeout
    BY LateIsNat
  <2>3. QED
    BY <2>1, <2>2, TimeoutAssumption
<1>2. QED
  BY <1>1, Inductive, PTL

\* The token in a finished CMS was made for the request of that call, however many
\* requests there were and whatever answered them (tsa.rs:120-141).
THEOREM TokensAreFresh == Spec => []TokenIsFresh
<1>1. IInv => TokenIsFresh
  BY DEF IInv
<1>2. QED
  BY <1>1, Inductive, PTL

\* What a call returns verifies together with its timestamp, for every signer's
\* chain and every kind of key (crypto.rs:167-343, 551-740).
THEOREM WhatIsSignedVerifies == Spec => []SignedVerifies
<1>1. IInv => SignedVerifies
  BY DEF IInv
<1>2. QED
  BY <1>1, Inductive, PTL

-----------------------------------------------------------------------------
(* What dechunk accepts.                                                   *)

Bodies == [ok : BOOLEAN, cells : Seq(Cells)]

\* The body of dechunk's recursion, with the function it defines as a parameter.
From(d, f, i) ==
  LET line == First(d, i, "crlf")
      end  == line + 1 + d[i].n
  IN  IF i > Len(d) THEN Body(<< >>)
      ELSE IF line > Len(d) \/ line # i + 1 \/ d[i].k # "size" THEN NoBody
      ELSE IF d[i].n = 0 THEN Body(<< >>)
      ELSE IF end > Len(d) \/ d[end].k # "crlf" \/ ~f[end + 1].ok THEN NoBody
      ELSE Body(SubSeq(d, line + 1, end - 1) \o f[end + 1].cells)

LEMMA SizesAreNat ==
  ASSUME NEW cell \in Cells, cell.k = "size"
  PROVE  cell.n \in Nat
  BY DEF Cells, StatusLine, TransferChunked, EndOfHead, Crlf, Size, Part

\* What the recursion takes of the function: a whole chunk, and what follows it.
LEMMA FromCases ==
  ASSUME NEW d \in Seq(Cells), NEW i \in 1..(Len(d) + 1),
         NEW f \in [1..(Len(d) + 1) -> Bodies]
  PROVE  \/ i = Len(d) + 1 /\ From(d, f, i) = Body(<< >>)
         \/ From(d, f, i) = NoBody
         \/ /\ i + 1 <= Len(d) /\ d[i].k = "size" /\ d[i].n = 0
            /\ From(d, f, i) = Body(<< >>)
         \/ /\ d[i].k = "size" /\ d[i].n \in Nat \ {0} /\ i + 2 + d[i].n <= Len(d)
            /\ f[i + 3 + d[i].n].ok
            /\ From(d, f, i) = Body(SubSeq(d, i + 2, i + 1 + d[i].n) \o f[i + 3 + d[i].n].cells)
<1>1. Len(d) \in Nat /\ i \in Nat
  OBVIOUS
<1>2. CASE i > Len(d)
  BY <1>1, <1>2 DEF From
<1>3. CASE i <= Len(d)
  <2>1. d[i] \in Cells
    BY <1>1, <1>3
  <2>2. PICK line : line = First(d, i, "crlf")
    OBVIOUS
  <2>3. PICK n : n = d[i].n
    OBVIOUS
  <2>4. PICK end : end = line + 1 + n
    OBVIOUS
  <2>5. From(d, f, i) =
          IF line > Len(d) \/ line # i + 1 \/ d[i].k # "size" THEN NoBody
          ELSE IF n = 0 THEN Body(<< >>)
          ELSE IF end > Len(d) \/ d[end].k # "crlf" \/ ~f[end + 1].ok THEN NoBody
          ELSE Body(SubSeq(d, line + 1, end - 1) \o f[end + 1].cells)
    BY <1>1, <1>3, <2>2, <2>3, <2>4 DEF From
  <2>6. CASE line > Len(d) \/ line # i + 1 \/ d[i].k # "size"
    BY <2>5, <2>6
  <2>7. CASE ~(line > Len(d) \/ line # i + 1 \/ d[i].k # "size")
    <3>1. n \in Nat /\ line = i + 1 /\ ~(line > Len(d)) /\ d[i].k = "size"
      BY <2>1, <2>3, <2>7, SizesAreNat
    <3>2. end = i + 2 + n /\ end + 1 = i + 3 + n /\ line + 1 = i + 2 /\ end - 1 = i + 1 + n
      BY <1>1, <2>4, <3>1
    <3>3. i + 1 <= Len(d)
      BY <1>1, <3>1
    <3>4. CASE n = 0
      BY <2>3, <2>5, <3>1, <3>3, <3>4
    <3>5. CASE n # 0 /\ (end > Len(d) \/ d[end].k # "crlf" \/ ~f[end + 1].ok)
      BY <2>5, <3>1, <3>5
    <3>6. CASE n # 0 /\ ~(end > Len(d) \/ d[end].k # "crlf" \/ ~f[end + 1].ok)
      <4>1. From(d, f, i) = Body(SubSeq(d, i + 2, i + 1 + n) \o f[i + 3 + n].cells)
        BY <2>5, <3>1, <3>2, <3>6
      <4>2. i + 2 + n <= Len(d) /\ f[i + 3 + n].ok
        BY <1>1, <3>1, <3>2, <3>6
      <4>3. QED
        BY <2>3, <3>1, <3>6, <4>1, <4>2
    <3>7. QED
      BY <3>4, <3>5, <3>6
  <2>8. QED
    BY <2>6, <2>7
<1>4. QED
  BY <1>1, <1>2, <1>3

LEMMA FromTyped ==
  ASSUME NEW d \in Seq(Cells), NEW i \in 1..(Len(d) + 1),
         NEW f \in [1..(Len(d) + 1) -> Bodies]
  PROVE  From(d, f, i) \in Bodies
<1>1. \A s \in Seq(Cells) : Body(s) \in Bodies
  BY DEF Body, Bodies
<1>2. NoBody \in Bodies /\ Body(<< >>) \in Bodies
  BY DEF NoBody, Body, Bodies
<1>3. ASSUME d[i].n \in Nat \ {0}, i + 2 + d[i].n <= Len(d)
      PROVE  SubSeq(d, i + 2, i + 1 + d[i].n) \o f[i + 3 + d[i].n].cells \in Seq(Cells)
  <2>1. PICK n \in Nat : n = d[i].n
    BY <1>3
  <2>2. i + 2 + n <= Len(d) /\ i \in Nat /\ Len(d) \in Nat
    BY <1>3, <2>1
  <2>3. f[i + 3 + n] \in Bodies
    BY <2>2
  <2>4. f[i + 3 + n].cells \in Seq(Cells)
    BY <2>3 DEF Bodies
  <2>5. SubSeq(d, i + 2, i + 1 + n) \in Seq(Cells)
    <3>1. \A k \in (i + 2)..(i + 1 + n) : k \in 1..Len(d)
      BY <2>2
    <3>2. QED
      BY <2>2, <3>1
  <2>6. QED
    BY <2>1, <2>4, <2>5
<1>4. QED
  BY <1>1, <1>2, <1>3, FromCases

\* The recursion looks at later places only.
LEMMA FromLooksAhead ==
  ASSUME NEW d \in Seq(Cells), NEW i \in 1..(Len(d) + 1), NEW g, NEW h,
         \A j \in 1..(Len(d) + 1) : j > i => g[j] = h[j]
  PROVE  From(d, g, i) = From(d, h, i)
<1>1. Len(d) \in Nat /\ i \in Nat
  OBVIOUS
<1>2. PICK line : line = First(d, i, "crlf")
  OBVIOUS
<1>3. CASE i > Len(d) \/ line > Len(d) \/ line # i + 1 \/ d[i].k # "size"
  BY <1>2, <1>3 DEF From
<1>4. CASE ~(i > Len(d) \/ line > Len(d) \/ line # i + 1 \/ d[i].k # "size")
  <2>1. d[i] \in Cells /\ d[i].k = "size" /\ line = i + 1
    BY <1>1, <1>4
  <2>2. PICK n \in Nat : n = d[i].n
    BY <2>1, SizesAreNat
  <2>3. PICK end \in Nat : end = line + 1 + n
    BY <1>1, <2>1, <2>2
  <2>4. end + 1 > i
    BY <1>1, <2>1, <2>2, <2>3
  <2>5. end > Len(d) \/ g[end + 1] = h[end + 1]
    BY <1>1, <2>3, <2>4
  <2>6. QED
    BY <1>2, <2>2, <2>3, <2>5, Zenon DEF From
<1>5. QED
  BY <1>3, <1>4

\* dechunk is well-defined: its function satisfies its equation at every place.
LEMMA DechunkUnfolds ==
  ASSUME NEW d \in Seq(Cells)
  PROVE  \E f \in [1..(Len(d) + 1) -> Bodies] :
           Dechunk(d) = f[1] /\ \A i \in 1..(Len(d) + 1) : f[i] = From(d, f, i)
<1> DEFINE D == 1..(Len(d) + 1)
           step == [x \in D \X [D -> Bodies] |-> From(d, x[2], x[1])]
           rank == [i \in D |-> Len(d) + 1 - i]
<1>1. Len(d) \in Nat /\ rank \in [D -> Nat] /\ Len(d) + 1 \in Nat
  OBVIOUS
<1>2. \A i \in D : rank[i] < Len(d) + 1
  BY <1>1
<1>3. \A i \in D, g \in [D -> Bodies] : step[<<i, g>>] = From(d, g, i) /\ From(d, g, i) \in Bodies
  BY FromTyped
<1>4. step \in [D \X [D -> Bodies] -> Bodies]
  <2>1. \A x \in D \X [D -> Bodies] : From(d, x[2], x[1]) \in Bodies
    BY FromTyped
  <2>2. QED
    BY <2>1
<1>5. ASSUME NEW i \in D, NEW g, NEW h, \A j \in D : rank[j] < rank[i] => g[j] = h[j]
      PROVE  From(d, g, i) = From(d, h, i)
  <2>1. ASSUME NEW j \in D, j > i PROVE g[j] = h[j]
    BY <1>1, <1>5, <2>1
  <2>2. QED
    BY <2>1, FromLooksAhead
<1>6. Ranked(D, rank)
  BY <1>1, <1>2 DEF Ranked
<1>7. PICK e \in [D -> Bodies] : \A i \in D : e[i] = From(d, e, i)
  <2>1. Bodies # {}
    <3>1. NoBody \in Bodies
      BY DEF NoBody, Bodies
    <3>2. QED
      BY <3>1
  <2>2. ASSUME NEW i \in D, NEW g \in [D -> Bodies], NEW h \in [D -> Bodies],
               Agree(D, rank, i, g, h)
        PROVE  step[<<i, g>>] = step[<<i, h>>]
    <3>1. From(d, g, i) = From(d, h, i)
      <4> HIDE DEF D, rank
      <4>1. QED
        BY <1>5, <2>2 DEF Agree
    <3>2. QED
      BY <1>3, <3>1
  <2>3. LooksBack(D, Bodies, rank, step)
    <3> HIDE DEF D, rank, step
    <3>1. QED
      BY <1>4, <2>1, <2>2 DEF LooksBack
  <2>4. PICK e \in [D -> Bodies] : \A i \in D : e[i] = step[<<i, e>>]
    <3> HIDE DEF D, rank, step
    <3>1. QED
      BY <1>6, <2>3, RecursionDefines
  <2>5. QED
    BY <1>3, <2>4
<1>8. e = [i \in D |-> From(d, e, i)]
  BY <1>7
<1>9. PICK f : f = CHOOSE g : g = [i \in D |-> From(d, g, i)]
  OBVIOUS
<1>10. f = [i \in D |-> From(d, f, i)]
  BY <1>8, <1>9
<1>11. Dechunk(d) = f[1]
  BY <1>9, Zenon DEF Dechunk, From
<1>12. \A i \in D : f[i] = e[i]
  <2> DEFINE S == {i \in D : f[i] = e[i]}
  <2>1. ASSUME NEW i \in D, \A j \in D : rank[j] < rank[i] => j \in S PROVE i \in S
    <3>1. From(d, f, i) = From(d, e, i)
      <4> HIDE DEF D, rank
      <4>1. QED
        BY <1>5, <2>1
    <3>2. f[i] = From(d, f, i)
      BY <1>10
    <3>3. QED
      BY <1>7, <3>1, <3>2
  <2>2. D \subseteq S
    <3> HIDE DEF D, rank, S
    <3>1. QED
      BY <1>1, <2>1, ByRank
  <2>3. QED
    BY <2>2
<1>13. 1 \in D /\ f[1] = e[1]
  BY <1>1, <1>12
<1>14. QED
  BY <1>7, <1>11, <1>13

\* A chunk is only accepted whole, with its line end, and what follows it too.
Accepts(d, f) ==
  \A i \in 1..Len(d) : f[i].ok =>
    \/ i + 1 <= Len(d) /\ d[i].k = "size" /\ d[i].n = 0
    \/ /\ d[i].k = "size" /\ d[i].n \in Nat \ {0}
       /\ i + 2 + d[i].n <= Len(d) /\ f[i + 3 + d[i].n].ok

LEMMA DechunkAccepts ==
  ASSUME NEW d \in Seq(Cells), Dechunk(d).ok
  PROVE  \E f : f[1].ok /\ Accepts(d, f)
<1>1. PICK f \in [1..(Len(d) + 1) -> Bodies] :
        Dechunk(d) = f[1] /\ \A i \in 1..(Len(d) + 1) : f[i] = From(d, f, i)
  BY DechunkUnfolds
<1>2. ASSUME NEW i \in 1..Len(d), f[i].ok
      PROVE  \/ i + 1 <= Len(d) /\ d[i].k = "size" /\ d[i].n = 0
             \/ /\ d[i].k = "size" /\ d[i].n \in Nat \ {0}
                /\ i + 2 + d[i].n <= Len(d) /\ f[i + 3 + d[i].n].ok
  <2>1. i \in 1..(Len(d) + 1) /\ i # Len(d) + 1 /\ ~NoBody.ok
    BY DEF NoBody
  <2>2. f[i] = From(d, f, i)
    BY <1>1, <2>1
  <2>3. From(d, f, i) # NoBody
    BY <1>2, <2>1, <2>2
  <2>4. QED
    BY <2>1, <2>3, FromCases
<1>3. QED
  BY <1>1, <1>2 DEF Accepts

-----------------------------------------------------------------------------
(* What was received is the beginning of what the server sent.             *)

\* A response of which a part was received and a part not: what a read moves.
Split(a, w, whole) ==
  /\ Len(a) + Len(w) = Len(whole)
  /\ \A i \in 1..Len(a) : a[i] = whole[i]
  /\ \A j \in 1..Len(w) : w[j] = whole[Len(a) + j]

LEMMA ReadMoves ==
  ASSUME NEW S, NEW a \in Seq(S), NEW w \in Seq(S), NEW whole \in Seq(S), NEW n \in 1..Len(w),
         Split(a, w, whole)
  PROVE  Split(a \o SubSeq(w, 1, n), SubSeq(w, n + 1, Len(w)), whole)
<1>1. PICK la \in Nat : la = Len(a)
  OBVIOUS
<1>2. PICK lw \in Nat : lw = Len(w) /\ n \in 1..lw
  OBVIOUS
<1>3. PICK b : b = SubSeq(w, 1, n)
  OBVIOUS
<1>4. PICK v : v = SubSeq(w, n + 1, lw)
  OBVIOUS
<1>5. \A i \in 1..lw : w[i] \in S
  BY <1>2
<1>6. b \in Seq(S) /\ Len(b) = n /\ \A i \in 1..n : b[i] = w[i]
  <2>1. \A i \in 1..n : i \in 1..lw /\ i \in 1..(n - 1 + 1) /\ 1 + i - 1 = i
    BY <1>2
  <2>2. 1 \in Int /\ n \in Int /\ 1 <= n /\ n - 1 + 1 = n
    BY <1>2
  <2>3. /\ b \in Seq(S) /\ Len(b) = IF 1 <= n THEN n - 1 + 1 ELSE 0
        /\ \A i \in 1..(n - 1 + 1) : b[i] = w[1 + i - 1]
    BY <1>3, <1>5, <2>1, <2>2, SubSeqProperties
  <2>4. QED
    BY <2>1, <2>2, <2>3
<1>7. v \in Seq(S) /\ Len(v) = lw - n /\ \A j \in 1..(lw - n) : v[j] = w[n + j]
  <2>1. \A i \in (n + 1)..lw : i \in 1..lw
    BY <1>2
  <2>2. n + 1 \in Int /\ lw \in Int /\ lw - (n + 1) + 1 = lw - n
    BY <1>2
  <2>3. /\ v \in Seq(S) /\ Len(v) = IF n + 1 <= lw THEN lw - (n + 1) + 1 ELSE 0
        /\ \A j \in 1..(lw - (n + 1) + 1) : v[j] = w[(n + 1) + j - 1]
    BY <1>4, <1>5, <2>1, <2>2, SubSeqProperties
  <2>4. \A j \in 1..(lw - n) : (n + 1) + j - 1 = n + j
    BY <1>2
  <2>5. Len(v) = lw - n
    BY <1>2, <2>2, <2>3
  <2>6. QED
    BY <2>2, <2>3, <2>4, <2>5
<1>8. /\ Len(a \o b) = la + n
      /\ \A i \in 1..(la + n) : (a \o b)[i] = IF i <= la THEN a[i] ELSE b[i - la]
  BY <1>1, <1>6, ConcatProperties
<1>9. PICK c : c = a \o b
  OBVIOUS
<1>10. \A i \in 1..(la + n) : c[i] = whole[i]
  <2>1. ASSUME NEW i \in 1..(la + n), i <= la PROVE c[i] = whole[i]
    <3>1. i \in 1..la
      BY <2>1
    <3>2. a[i] = whole[i]
      BY <1>1, <3>1 DEF Split
    <3>3. c[i] = a[i]
      BY <1>8, <1>9, <2>1
    <3>4. QED
      BY <3>2, <3>3
  <2>2. ASSUME NEW i \in 1..(la + n), ~(i <= la) PROVE c[i] = whole[i]
    <3>1. PICK k \in 1..n : k = i - la
      BY <1>1, <1>2, <2>2
    <3>2. k \in 1..lw /\ la + k = i
      BY <1>1, <1>2, <3>1
    <3>3. c[i] = b[k] /\ b[k] = w[k]
      BY <1>6, <1>8, <1>9, <2>2, <3>1
    <3>4. w[k] = whole[la + k]
      BY <1>1, <1>2, <3>2 DEF Split
    <3>5. QED
      BY <3>2, <3>3, <3>4
  <2>3. QED
    BY <2>1, <2>2
<1>11. ASSUME NEW j \in 1..(lw - n) PROVE v[j] = whole[(la + n) + j]
  <2>1. n + j \in 1..lw /\ la + (n + j) = (la + n) + j
    BY <1>1, <1>2
  <2>2. w[n + j] = whole[la + (n + j)]
    BY <1>1, <1>2, <2>1 DEF Split
  <2>3. QED
    BY <1>7, <2>1, <2>2
<1>12. (la + n) + (lw - n) = Len(whole)
  <2>1. Len(whole) = la + lw
    BY <1>1, <1>2 DEF Split
  <2>2. n \in Int /\ (la + n) + (lw - n) = la + lw
    BY <1>2
  <2>3. QED
    BY <2>1, <2>2
<1>13. Split(c, v, whole)
  BY <1>7, <1>8, <1>9, <1>10, <1>11, <1>12 DEF Split
<1>14. QED
  BY <1>2, <1>3, <1>4, <1>9, <1>13

Sendable == Framings \cup {ServerError}
Received(response) ==
  /\ Len(raw) <= Len(response) /\ \A i \in 1..Len(raw) : raw[i] = response[i]
  /\ phase # "closed" => Split(raw, wire, response)
PrefixInv ==
  IF phase \in {"checking", "reading", "closed"} THEN \E response \in Sendable : Received(response)
  ELSE raw = << >>

LEMMA SendableCells == Sendable \subseteq Seq(Cells)
  BY FramingsAreCells, ErrorIsCells DEF Sendable

LEMMA NextKeepsPrefix == HttpInv /\ PrefixInv /\ [Next]_vars => PrefixInv'
<1> SUFFICES ASSUME HttpInv, PrefixInv, [Next]_vars PROVE PrefixInv'
  OBVIOUS
<1>1. CASE GiveUp \/ StartRequest \/ Decode
  BY <1>1 DEF GiveUp, StartRequest, Decode, Enter, PrefixInv
<1>2. CASE \E response \in Sendable : Sent(response)
  <2>1. PICK response \in Sendable : Sent(response)
    BY <1>2
  <2>2. phase' = "checking" /\ wire' = response /\ raw' = << >>
    BY <2>1 DEF Sent, Enter, PrefixInv
  <2>3. Len(raw') = 0 /\ Len(response) \in Nat
    BY <2>2, SendableCells
  <2>4. Received(response)'
    BY <2>2, <2>3 DEF Received, Split
  <2>5. QED
    BY <2>2, <2>4 DEF PrefixInv
<1>3. CASE \E n \in 1..Len(wire) : Receive(n)
  <2>1. PICK n \in 1..Len(wire) : Receive(n)
    BY <1>3
  <2>2. CASE GiveUp
    BY <1>1, <2>2
  <2>3. CASE ~GiveUp
    <3>1. /\ phase = "reading" /\ phase' = "checking" /\ raw' = raw \o SubSeq(wire, 1, n)
          /\ wire' = SubSeq(wire, n + 1, Len(wire))
      BY <2>1, <2>3 DEF Receive, Enter
    <3>2. PICK response \in Sendable : Received(response)
      BY <3>1 DEF PrefixInv
    <3>3. raw \in Seq(Cells) /\ wire \in Seq(Cells) /\ response \in Seq(Cells)
      BY SendableCells DEF HttpInv
    <3>4. Split(raw, wire, response)
      BY <3>1, <3>2 DEF Received
    <3>5. Split(raw', wire', response)
      BY <3>1, <3>3, <3>4, ReadMoves
    <3>6. raw' \in Seq(Cells) /\ wire' \in Seq(Cells)
      BY <3>1, <3>3, ReceivedCells
    <3>7. Len(raw') <= Len(response) /\ \A i \in 1..Len(raw') : raw'[i] = response[i]
      <4>1. Len(raw') \in Nat /\ Len(wire') \in Nat
        BY <3>6
      <4>2. QED
        BY <3>5, <4>1 DEF Split
    <3>8. Received(response)'
      BY <3>5, <3>7 DEF Received
    <3>9. QED
      BY <3>1, <3>8 DEF PrefixInv
  <2>4. QED
    BY <2>2, <2>3
<1>4. CASE phase' = phase /\ raw' = raw /\ wire' = wire
  BY <1>4 DEF PrefixInv, Received
<1>5. CASE Resolve \/ Connect \/ Write \/ Leave
  BY <1>5 DEF Resolve, Connect, Write, Leave, Enter, PrefixInv
<1>6. CASE Closed \/ ReadTimesOut \/ CheckDeadline
  <2>1. CASE GiveUp
    BY <1>1, <2>1
  <2>2. CASE ~GiveUp
    <3>1. /\ phase \in {"checking", "reading"} /\ raw' = raw
          /\ phase' = "closed" \/ (phase' \in {"checking", "reading"} /\ wire' = wire)
      BY <1>6, <2>2 DEF Closed, ReadTimesOut, CheckDeadline, Enter
    <3>2. PICK response \in Sendable : Received(response)
      BY <3>1 DEF PrefixInv
    <3>3. Received(response)'
      BY <3>1, <3>2 DEF Received
    <3>4. QED
      BY <3>1, <3>3 DEF PrefixInv
  <2>3. QED
    BY <2>1, <2>2
<1>7. CASE Fetch
  BY <1>1, <1>3, <1>5, <1>6, <1>7
     DEF Fetch, Client, Peer, ResolveFails, TimesOut, Reset
<1>8. CASE Time
  BY <1>4, <1>8 DEF Time, Tick
<1>9. CASE Reply
  BY <1>2, <1>9 DEF Reply, Serve, ServeError, Sendable
<1>10. CASE \E c : Rewrite(c)
  BY <1>4, <1>10 DEF Rewrite, http
<1>11. CASE UNCHANGED vars
  BY <1>4, <1>11 DEF vars, http
<1>12. CASE Embed \/ GiveUpSigning \/ \E ch \in Chains : Sign(ch)
  BY <1>1, <1>5, <1>12 DEF Embed, GiveUpSigning, Sign
<1>13. QED
  BY <1>7, <1>8, <1>9, <1>10, <1>11, <1>12 DEF Next

\* The first cell of a kind, where it is the only one.
LEMMA FirstIsOnly ==
  ASSUME NEW s \in Seq(Cells), NEW kind, NEW at \in 1..Len(s), s[at].k = kind,
         \A j \in 1..Len(s) : s[j].k = kind => j = at
  PROVE  First(s, 1, kind) = at
<1> DEFINE places == {j \in 1..Len(s) : s[j].k = kind}
<1>1. places = {at}
  OBVIOUS
<1>2. (CHOOSE j \in {at} : \A l \in {at} : j <= l) = at
  OBVIOUS
<1>3. First(s, 1, kind) = IF places = {} THEN Len(s) + 1
                          ELSE CHOOSE j \in places : \A l \in places : j <= l
  BY DEF First
<1>4. QED
  BY <1>1, <1>2, <1>3

LEMMA FirstIsLater ==
  ASSUME NEW s \in Seq(Cells), NEW kind, \A j \in 1..Len(s) : s[j].k # kind
  PROVE  First(s, 1, kind) = Len(s) + 1
  BY DEF First

\* The beginning of a chunked response that was accepted: it goes on after the
\* head, and chunk by chunk.
Begins(s, response) ==
  Len(s) <= Len(response) /\ \A i \in 1..Len(s) : s[i] = response[i]
ChunkedHead(response) ==
  /\ Len(response) > 3
  /\ response[1] = StatusLine(200) /\ response[2] = TransferChunked /\ response[3] = EndOfHead
  /\ \A i \in 1..Len(response) :
       (response[i].k = "end" => i = 3) /\ (response[i].k = "chunked" => i = 2)
Chunked(s, f) ==
  f[1].ok /\ \A i \in 1..(Len(s) - 3) : f[i].ok =>
    \/ i + 4 <= Len(s) /\ s[i + 3].n = 0
    \/ s[i + 3].n # 0 /\ i + 5 + s[i + 3].n <= Len(s) /\ f[i + 3 + s[i + 3].n].ok

LEMMA ChunkedGoesOn ==
  ASSUME NEW s \in Seq(Cells), NEW response \in Seq(Cells), Begins(s, response),
         ChunkedHead(response), BodyOf(s).ok
  PROVE  Len(s) >= 3 /\ First(s, 1, "end") = 3 /\ \E f : Chunked(s, f)
<1>1. PICK n \in Nat : n = Len(s)
  OBVIOUS
<1>2. PICK m \in Nat : m = Len(response) /\ n <= m
  BY <1>1 DEF Begins
<1>3. \A i \in 1..n : i \in 1..m /\ s[i] = response[i]
  BY <1>1, <1>2 DEF Begins
<1>4. ~NoBody.ok
  BY DEF NoBody
<1>5. n >= 3
  <2> SUFFICES ASSUME n < 3 PROVE FALSE
    BY <1>1
  <2>1. \A j \in 1..Len(s) : s[j].k # "end"
    BY <1>1, <1>2, <1>3 DEF ChunkedHead
  <2>2. First(s, 1, "end") = n + 1
    BY <1>1, <2>1, FirstIsLater
  <2>3. QED
    BY <1>1, <1>4, <2>2 DEF BodyOf
<1>6. First(s, 1, "end") = 3 /\ First(s, 1, "chunked") = 2
  <2>1. EndOfHead.k = "end" /\ TransferChunked.k = "chunked"
    BY DEF EndOfHead, TransferChunked
  <2>2. 2 \in 1..Len(s) /\ 3 \in 1..Len(s) /\ s[3].k = "end" /\ s[2].k = "chunked"
    BY <1>1, <1>3, <1>5, <2>1 DEF ChunkedHead
  <2>3. \A j \in 1..Len(s) : (s[j].k = "end" => j = 3) /\ (s[j].k = "chunked" => j = 2)
    BY <1>1, <1>2, <1>3 DEF ChunkedHead
  <2>4. First(s, 1, "end") = 3
    BY <2>2, <2>3, FirstIsOnly
  <2>5. First(s, 1, "chunked") = 2
    BY <2>2, <2>3, FirstIsOnly
  <2>6. QED
    BY <2>4, <2>5
<1>7. PICK d : d = SubSeq(s, 4, n)
  OBVIOUS
<1>8. Dechunk(d).ok
  BY <1>1, <1>4, <1>6, <1>7 DEF BodyOf
<1>9. d \in Seq(Cells) /\ Len(d) = n - 3 /\ \A i \in 1..(n - 3) : d[i] = s[i + 3]
  <2>1. \A i \in 4..n : s[i] \in Cells
    BY <1>1
  <2>2. 4 \in Int /\ n \in Int /\ n - 4 + 1 = n - 3 /\ (4 <= n \/ n - 3 = 0)
    BY <1>5
  <2>3. /\ d \in Seq(Cells) /\ Len(d) = IF 4 <= n THEN n - 4 + 1 ELSE 0
        /\ \A i \in 1..(n - 4 + 1) : d[i] = s[4 + i - 1]
    BY <1>7, <2>1, <2>2, SubSeqProperties
  <2>4. \A i \in 1..(n - 3) : 4 + i - 1 = i + 3
    OBVIOUS
  <2>5. QED
    BY <2>2, <2>3, <2>4
<1>10. PICK f : f[1].ok /\ Accepts(d, f)
  BY <1>8, <1>9, DechunkAccepts
<1>11. ASSUME NEW i \in 1..(n - 3), f[i].ok
       PROVE  \/ i + 4 <= n /\ s[i + 3].n = 0
              \/ s[i + 3].n # 0 /\ i + 5 + s[i + 3].n <= n /\ f[i + 3 + s[i + 3].n].ok
  <2>1. i \in 1..Len(d) /\ d[i] = s[i + 3]
    BY <1>9
  <2>2. \/ i + 1 <= n - 3 /\ d[i].n = 0
        \/ d[i].n \in Nat \ {0} /\ i + 2 + d[i].n <= n - 3 /\ f[i + 3 + d[i].n].ok
    BY <1>9, <1>10, <1>11, <2>1 DEF Accepts
  <2>3. CASE i + 1 <= n - 3 /\ d[i].n = 0
    BY <2>1, <2>3
  <2>4. CASE d[i].n \in Nat \ {0} /\ i + 2 + d[i].n <= n - 3 /\ f[i + 3 + d[i].n].ok
    <3>1. PICK k \in Nat \ {0} : k = d[i].n
      BY <2>4
    <3>2. i + 5 + k <= n
      BY <2>4, <3>1, SMTT(30)
    <3>3. QED
      BY <2>1, <2>4, <3>1, <3>2
  <2>5. QED
    BY <2>2, <2>3, <2>4
<1>12. QED
  BY <1>1, <1>5, <1>6, <1>10, <1>11 DEF Chunked

\* Of each of the responses, the part that was accepted has every announced chunk.
Announced(s) ==
  \A i \in First(s, 1, "end")..Len(s) :
    s[i].k = "size" => Len(s) > i + s[i].n + (IF s[i].n = 0 THEN 0 ELSE 1)

LEMMA PlainIsAnnounced ==
  ASSUME NEW s \in Seq(Cells), BodyOf(s).ok,
         Begins(s, <<StatusLine(200), EndOfHead, Part(1), Part(2)>>)
  PROVE  Announced(s)
<1> DEFINE response == <<StatusLine(200), EndOfHead, Part(1), Part(2)>>
<1>1. \A j \in 1..4 : (response[j].k = "end" <=> j = 2) /\ response[j].k # "size"
  BY DEF StatusLine, EndOfHead, Part
<1>2. Len(s) \in Nat /\ Len(s) <= 4 /\ \A j \in 1..Len(s) : j \in 1..4 /\ s[j] = response[j]
  BY DEF Begins
<1>3. CASE Len(s) < 2
  <2>1. \A j \in 1..Len(s) : s[j].k # "end"
    BY <1>1, <1>2, <1>3
  <2>2. First(s, 1, "end") = Len(s) + 1
    BY <2>1, FirstIsLater
  <2>3. QED
    BY <1>2, <2>2 DEF Announced
<1>4. CASE Len(s) >= 2
  <2>1. 2 \in 1..Len(s) /\ s[2].k = "end" /\ \A j \in 1..Len(s) : s[j].k = "end" => j = 2
    <3> HIDE DEF response
    <3>1. QED
      BY <1>1, <1>2, <1>4
  <2>2. First(s, 1, "end") = 2
    BY <2>1, FirstIsOnly
  <2>3. \A i \in 2..Len(s) : s[i].k # "size"
    <3> HIDE DEF response
    <3>1. QED
      BY <1>1, <1>2
  <2>4. QED
    BY <2>2, <2>3 DEF Announced
<1>5. QED
  BY <1>2, <1>3, <1>4

LEMMA OneChunkIsAnnounced ==
  ASSUME NEW s \in Seq(Cells), BodyOf(s).ok,
         Begins(s, <<StatusLine(200), TransferChunked, EndOfHead, Size(2), Crlf, Part(1), Part(2),
                     Crlf, Size(0), Crlf, Crlf>>)
  PROVE  Announced(s)
<1>1. PICK response : response =
        <<StatusLine(200), TransferChunked, EndOfHead, Size(2), Crlf, Part(1), Part(2),
          Crlf, Size(0), Crlf, Crlf>>
  OBVIOUS
<1>2. /\ response \in Seq(Cells) /\ Len(response) = 11
      /\ response[1] = StatusLine(200) /\ response[2] = TransferChunked /\ response[3] = EndOfHead
  BY <1>1, FramingsAreCells DEF Framings
<1>3. \A j \in 1..11 : /\ response[j].k = "end" => j = 3
                       /\ response[j].k = "chunked" => j = 2
                       /\ response[j].k = "size" => j \in {4, 9}
  BY <1>1 DEF StatusLine, TransferChunked, EndOfHead, Size, Crlf, Part
<1>4. response[4].n = 2 /\ response[9].n = 0
  BY <1>1 DEF Size
<1>5. Begins(s, response)
  BY <1>1
<1>6. PICK f : Len(s) >= 3 /\ First(s, 1, "end") = 3 /\ Chunked(s, f)
  <2>1. ChunkedHead(response)
    BY <1>2, <1>3 DEF ChunkedHead
  <2>2. QED
    BY <1>2, <1>5, <2>1, ChunkedGoesOn
<1>7. PICK n \in Nat : n = Len(s) /\ n <= 11
  <2>1. Len(s) <= Len(response)
    BY <1>5 DEF Begins
  <2>2. Len(s) \in Nat /\ Len(s) <= 11
    BY <1>2, <2>1
  <2>3. QED
    BY <2>2
<1>8. \A j \in 1..n : s[j] = response[j]
  BY <1>5, <1>7 DEF Begins
<1>9. n >= 4 => n >= 8 /\ f[6].ok
  <2> SUFFICES ASSUME n >= 4 PROVE n >= 8 /\ f[6].ok
    OBVIOUS
  <2>1. s[4].n = 2 /\ 1 \in 1..(n - 3) /\ 1 + 3 = 4 /\ f[1].ok
    BY <1>4, <1>6, <1>8 DEF Chunked
  <2>2. 1 + 5 + s[4].n <= n /\ f[1 + 3 + s[4].n].ok
    BY <1>6, <1>7, <2>1 DEF Chunked
  <2>3. QED
    BY <2>1, <2>2
<1>10. n >= 9 => n >= 10
  <2> SUFFICES ASSUME n >= 9 PROVE n >= 10
    OBVIOUS
  <2>1. s[9].n = 0 /\ 6 \in 1..(n - 3) /\ 6 + 3 = 9 /\ f[6].ok
    BY <1>4, <1>8, <1>9
  <2>2. QED
    BY <1>6, <1>7, <2>1 DEF Chunked
<1>11. ASSUME NEW i \in 3..n, s[i].k = "size"
       PROVE  n > i + s[i].n + (IF s[i].n = 0 THEN 0 ELSE 1)
  <2>1. i = 4 \/ i = 9
    BY <1>3, <1>7, <1>8, <1>11
  <2>2. s[i] = response[i]
    BY <1>8
  <2>3. CASE i = 4
    BY <1>4, <1>9, <2>2, <2>3
  <2>4. CASE i = 9
    BY <1>4, <1>10, <2>2, <2>4
  <2>5. QED
    BY <2>1, <2>3, <2>4
<1>12. QED
  BY <1>6, <1>7, <1>11 DEF Announced

LEMMA TwoChunksAreAnnounced ==
  ASSUME NEW s \in Seq(Cells), BodyOf(s).ok,
         Begins(s, <<StatusLine(200), TransferChunked, EndOfHead, Size(1), Crlf, Part(1), Crlf,
                     Size(1), Crlf, Part(2), Crlf, Size(0), Crlf, Crlf>>)
  PROVE  Announced(s)
<1>1. PICK response : response =
        <<StatusLine(200), TransferChunked, EndOfHead, Size(1), Crlf, Part(1), Crlf,
          Size(1), Crlf, Part(2), Crlf, Size(0), Crlf, Crlf>>
  OBVIOUS
<1>2. /\ response \in Seq(Cells) /\ Len(response) = 14
      /\ response[1] = StatusLine(200) /\ response[2] = TransferChunked /\ response[3] = EndOfHead
  BY <1>1, FramingsAreCells DEF Framings
<1>3. \A j \in 1..14 : /\ response[j].k = "end" => j = 3
                       /\ response[j].k = "chunked" => j = 2
                       /\ response[j].k = "size" => j \in {4, 8, 12}
  BY <1>1 DEF StatusLine, TransferChunked, EndOfHead, Size, Crlf, Part
<1>4. response[4].n = 1 /\ response[8].n = 1 /\ response[12].n = 0
  BY <1>1 DEF Size
<1>5. Begins(s, response)
  BY <1>1
<1>6. PICK f : Len(s) >= 3 /\ First(s, 1, "end") = 3 /\ Chunked(s, f)
  <2>1. ChunkedHead(response)
    BY <1>2, <1>3 DEF ChunkedHead
  <2>2. QED
    BY <1>2, <1>5, <2>1, ChunkedGoesOn
<1>7. PICK n \in Nat : n = Len(s) /\ n <= 14
  BY <1>2, <1>5 DEF Begins
<1>8. \A j \in 1..n : s[j] = response[j]
  BY <1>5, <1>7 DEF Begins
<1>9. n >= 4 => n >= 7 /\ f[5].ok
  <2> SUFFICES ASSUME n >= 4 PROVE n >= 7 /\ f[5].ok
    OBVIOUS
  <2>1. s[4].n = 1 /\ 1 \in 1..(n - 3) /\ 1 + 3 = 4 /\ f[1].ok
    BY <1>4, <1>6, <1>8 DEF Chunked
  <2>2. 1 + 5 + s[4].n <= n /\ f[1 + 3 + s[4].n].ok
    BY <1>6, <1>7, <2>1 DEF Chunked
  <2>3. QED
    BY <2>1, <2>2
<1>10. n >= 8 => n >= 11 /\ f[9].ok
  <2> SUFFICES ASSUME n >= 8 PROVE n >= 11 /\ f[9].ok
    OBVIOUS
  <2>1. s[8].n = 1 /\ 5 \in 1..(n - 3) /\ 5 + 3 = 8 /\ f[5].ok
    BY <1>4, <1>8, <1>9
  <2>2. 5 + 5 + s[8].n <= n /\ f[5 + 3 + s[8].n].ok
    BY <1>6, <1>7, <2>1 DEF Chunked
  <2>3. QED
    BY <2>1, <2>2
<1>11. n >= 12 => n >= 13
  <2> SUFFICES ASSUME n >= 12 PROVE n >= 13
    OBVIOUS
  <2>1. s[12].n = 0 /\ 9 \in 1..(n - 3) /\ 9 + 3 = 12 /\ f[9].ok
    BY <1>4, <1>8, <1>10
  <2>2. QED
    BY <1>6, <1>7, <2>1 DEF Chunked
<1>12. ASSUME NEW i \in 3..n, s[i].k = "size"
       PROVE  n > i + s[i].n + (IF s[i].n = 0 THEN 0 ELSE 1)
  <2>1. i \in {4, 8, 12}
    BY <1>3, <1>7, <1>8, <1>12
  <2>2. s[i] = response[i]
    BY <1>8
  <2>3. CASE i = 4
    BY <1>4, <1>9, <2>2, <2>3
  <2>4. CASE i = 8
    BY <1>4, <1>10, <2>2, <2>4
  <2>5. CASE i = 12
    BY <1>4, <1>11, <2>2, <2>5
  <2>6. QED
    BY <2>1, <2>3, <2>4, <2>5
<1>13. QED
  BY <1>6, <1>7, <1>12 DEF Announced

\* Every chunk of an accepted response arrived with all the bytes its size announces and the
\* line end after them, wherever the connection was cut (tsa.rs:307-340).
THEOREM ChunksAreWhole == Spec => []AnnouncedIsReceived
<1>1. Init => PrefixInv
  BY DEF Init, HttpInit, PrefixInv
<1>2. IInv /\ PrefixInv /\ [Next]_vars => PrefixInv'
  BY NextKeepsPrefix DEF IInv
<1>3. IInv /\ PrefixInv => AnnouncedIsReceived
  <2> SUFFICES ASSUME IInv, PrefixInv, phase = "closed", BodyOf(raw).ok PROVE Announced(raw)
    BY DEF AnnouncedIsReceived, Announced
  <2>1. raw \in Seq(Cells)
    BY DEF IInv, HttpInv
  <2>2. PICK response \in Sendable : Begins(raw, response)
    BY DEF PrefixInv, Received, Begins
  <2>3. CASE response = ServerError
    <3>1. Len(raw) \in Nat /\ ServerError[1].code # 200
      BY DEF ServerError, StatusLine
    <3>2. raw = << >> \/ raw[1].code # 200
      BY <2>1, <2>2, <2>3, <3>1 DEF Begins
    <3>3. QED
      BY <2>1, <3>2, NoBodyOfErrors
  <2>4. CASE response \in Framings
    BY <2>1, <2>2, <2>4, PlainIsAnnounced, OneChunkIsAnnounced, TwoChunksAreAnnounced DEF Framings
  <2>5. QED
    BY <2>2, <2>3, <2>4 DEF Sendable
<1>4. QED
  BY <1>1, <1>2, <1>3, Inductive, PTL DEF Spec

-----------------------------------------------------------------------------
(* However the CMS is rewritten.                                           *)

\* What the signer's signature value is: it does not depend on the other certificates.
SignedBy(cert) == CmsSigned(<<cert>>, Data).signers[1]

\* A TSTInfo that was issued stamps the signature value of the signer of its time.
IsIssued(info) ==
  info \in issued /\ InfoIsTrue(info)
    /\ \E alg : info.imprint = Digest(alg, SignedBy(chains[info.genTime][1]).sig)
TokenIsIssued(token) ==
  \E info : IsIssued(info) /\ (token = Token(info) \/ token = Damaged(info))
IssuedInv ==
  /\ \A info \in issued : IsIssued(info)
  /\ pc = "fetching" /\ reply # << >> /\ reply[1].token # << >> =>
       (TokenVerifies(reply[1].token[1]) => TokenIsIssued(reply[1].token[1]))

\* No rewriting changes a signature value or makes a token.
IsSignerInfo(si) ==
  si = [sid |-> si.sid, digestAlg |-> si.digestAlg, sigAlg |-> si.sigAlg,
        attrs |-> si.attrs, sig |-> si.sig, unsigned |-> si.unsigned]
HasIssued(tokens) == \E T : tokens \in Seq(T) /\ \A token \in T : TokenIsIssued(token)
IsGenuine(si) ==
  IsSignerInfo(si) /\ si.sig = SignedBy(Signer).sig /\ HasIssued(si.unsigned)
AreGenuine(signers) == \E S : signers \in Seq(S) /\ \A si \in S : IsGenuine(si)
IsCms(c) ==
  c = [type |-> c.type, econtentType |-> c.econtentType, econtent |-> c.econtent,
       certs |-> c.certs, signers |-> c.signers]
CmsInv == pc = "signed" => IsCms(cms[1]) /\ AreGenuine(cms[1].signers)

LEMMA SignedByFirst ==
  ASSUME NEW chain
  PROVE  /\ CmsSigned(chain, Data).signers = <<SignedBy(chain[1])>>
         /\ SignedBy(chain[1]).unsigned = << >>
         /\ CmsSigned(chain, Data) =
              [type |-> "signedData", econtentType |-> "data", econtent |-> << >>,
               certs |-> chain, signers |-> <<SignedBy(chain[1])>>]
<1>1. <<chain[1]>>[1] = chain[1]
  OBVIOUS
<1>2. QED
  BY <1>1 DEF SignedBy, CmsSigned, SignedDataOver

\* What was issued stays issued.
LEMMA IssuedStays ==
  ASSUME NEW info, IsIssued(info), issued \subseteq issued', CallInv,
         \/ chains' = chains /\ nonce' = nonce
         \/ nonce' = nonce + 1 /\ \E ch \in Chains : chains' = Append(chains, ch)
  PROVE  IsIssued(info)'
<1>1. nonce \in Nat /\ chains \in Seq(Chains) /\ Len(chains) = nonce /\ info.genTime \in 1..nonce
  BY TimestampingAssumption DEF CallInv, IsIssued, InfoIsTrue
<1>2. chains'[info.genTime] = chains[info.genTime]
  BY <1>1
<1>3. InfoIsTrue(info)'
  BY <1>1 DEF IsIssued, InfoIsTrue
<1>4. QED
  BY <1>2, <1>3 DEF IsIssued

LEMMA MadeIsIssued ==
  ASSUME NEW info \in MadeNow, CallInv, pc = "fetching", info \in issued',
         chains' = chains, nonce' = nonce
  PROVE  IsIssued(info)'
<1>1. InfoIsTrue(info)'
  BY MadeIsTrue DEF InfoIsTrue
<1>2. nonce \in Nat /\ chains \in Seq(Chains) /\ Len(chains) = nonce /\ nonce >= 1
  BY TimestampingAssumption DEF CallInv
<1>3. Last(chains) = chains[nonce]
  BY <1>2 DEF Last
<1>4. \E alg, n : info = Info(Digest(alg, SigValue(Untimed)), n)
  BY DEF MadeNow
<1>5. info.genTime = nonce /\ \E alg : info.imprint = Digest(alg, SigValue(Untimed))
  BY <1>4 DEF Info
<1>6. SigValue(Untimed) = SignedBy(chains[nonce][1]).sig
  <2>1. Untimed.signers = <<SignedBy(chains[nonce][1])>>
    BY <1>3, SignedByFirst DEF Untimed
  <2>2. QED
    BY <2>1 DEF SigValue
<1>7. QED
  BY <1>1, <1>5, <1>6 DEF IsIssued

LEMMA TokensOfReplies ==
  ASSUME NEW r \in Replies, r.token # << >>
  PROVE  \/ \E info \in MadeNow \cup issued : r.token = <<Token(info)>>
         \/ \E info \in MadeNow : r.token = <<Damaged(info)>>
<1>1. CASE \E info \in MadeNow \cup issued : r = Granted(info)
  BY <1>1 DEF Granted
<1>2. CASE \E info \in MadeNow, s \in {1, 2} : r = [Granted(info) EXCEPT !.status = s]
  BY <1>2 DEF Granted
<1>3. CASE \E info \in MadeNow : r = [status |-> 0, token |-> <<Damaged(info)>>]
  BY <1>3
<1>4. CASE \E s \in {0, 2} : r = [status |-> s, token |-> << >>]
  BY <1>4
<1>5. QED
  BY <1>1, <1>2, <1>3, <1>4 DEF Replies

LEMMA NextKeepsIssued == CallInv /\ IssuedInv /\ ReplyInv /\ [Next]_vars => IssuedInv'
<1> SUFFICES ASSUME CallInv, IssuedInv, ReplyInv, [Next]_vars PROVE IssuedInv'
  OBVIOUS
<1>1. CASE /\ UNCHANGED <<chains, nonce, issued>>
           /\ (pc' # "fetching" \/ reply' = << >> \/ (pc' = pc /\ reply' = reply))
  <2>1. \A info : IsIssued(info) => IsIssued(info)'
    BY <1>1 DEF IsIssued, InfoIsTrue
  <2>2. QED
    BY <1>1, <2>1 DEF IssuedInv, TokenIsIssued
<1>2. CASE \E ch \in Chains : Sign(ch)
  <2>1. /\ nonce' = nonce + 1 /\ issued' = issued /\ reply' = << >>
        /\ \E ch \in Chains : chains' = Append(chains, ch)
    BY <1>2 DEF Sign
  <2>2. \A info \in issued' : IsIssued(info)'
    BY <2>1, IssuedStays DEF IssuedInv
  <2>3. QED
    BY <2>1, <2>2 DEF IssuedInv
<1>3. CASE \E r \in Replies, response \in Framings : Serve(r, response)
  <2>1. PICK r \in Replies, response \in Framings : Serve(r, response)
    BY <1>3
  <2>2. /\ pc = "fetching" /\ reply' = <<r>> /\ nonce' = nonce /\ pc' = pc /\ chains' = chains
        /\ issued' = issued \cup {info \in MadeNow : r.token = <<Token(info)>>}
    BY <2>1 DEF Serve
  <2>3. \A info \in issued' : IsIssued(info)'
    BY <2>2, IssuedStays, MadeIsIssued DEF IssuedInv
  <2>4. ASSUME r.token # << >>, TokenVerifies(r.token[1]) PROVE TokenIsIssued(r.token[1])'
    <3>1. ASSUME NEW info \in MadeNow \cup issued, r.token = <<Token(info)>>
          PROVE  TokenIsIssued(r.token[1])'
      <4>1. info \in issued'
        BY <2>2, <3>1
      <4>2. r.token[1] = Token(info)
        BY <3>1
      <4>3. IsIssued(info)'
        BY <2>3, <4>1
      <4>4. QED
        BY <4>2, <4>3 DEF TokenIsIssued
    <3>2. ASSUME NEW info \in MadeNow, r.token = <<Damaged(info)>> PROVE FALSE
      <4>1. InfoIsTrue(info) /\ nonce \in Nat
        BY <2>2, MadeIsTrue, TimestampingAssumption DEF CallInv
      <4>2. r.token[1] = Damaged(info)
        BY <3>2
      <4>3. QED
        BY <2>4, <4>1, <4>2, DamageShows
    <3>3. \/ \E info \in MadeNow \cup issued : r.token = <<Token(info)>>
          \/ \E info \in MadeNow : r.token = <<Damaged(info)>>
      BY <2>4, TokensOfReplies
    <3>4. QED
      BY <3>1, <3>2, <3>3
  <2>5. reply'[1] = r
    BY <2>2
  <2>6. QED
    BY <2>3, <2>4, <2>5 DEF IssuedInv
<1>4. CASE Fetch \/ Time \/ ServeError \/ UNCHANGED vars
  BY <1>1, <1>4 DEF Fetch, Time, ServeError, rest, vars
<1>5. CASE Embed \/ GiveUpSigning \/ \E c : Rewrite(c)
  BY <1>1, <1>5 DEF Embed, GiveUpSigning, Rewrite
<1>6. QED
  BY <1>2, <1>3, <1>4, <1>5 DEF Next, Reply

LEMMA EmbedIsGenuine == CallInv /\ ErrorInv /\ IssuedInv /\ Embed => CmsInv'
<1> SUFFICES ASSUME CallInv, ErrorInv, IssuedInv, Embed PROVE CmsInv'
  OBVIOUS
<1>1. /\ pc = "fetching" /\ Acceptable /\ pc' = "signed" /\ nonce' = nonce /\ chains' = chains
      /\ cms' = <<WithTimestamp(Untimed, reply[1].token[1])>> /\ issued' = issued
  BY DEF Embed
<1>2. reply # << >>
  BY <1>1 DEF ErrorInv, Acceptable
<1>3. PICK token : token = reply[1].token[1]
  OBVIOUS
<1>4. TokenIsIssued(token)
  BY <1>1, <1>2, <1>3 DEF Acceptable, Answers, IssuedInv
<1>5. PICK built : built = SignedBy(Signer)
  OBVIOUS
<1>6. /\ built = [sid |-> built.sid, digestAlg |-> built.digestAlg, sigAlg |-> built.sigAlg,
                  attrs |-> built.attrs, sig |-> built.sig, unsigned |-> << >>]
  BY <1>5 DEF SignedBy, CmsSigned, SignedDataOver
<1>7. Untimed = [type |-> "signedData", econtentType |-> "data", econtent |-> << >>,
                 certs |-> Last(chains), signers |-> <<built>>]
  BY <1>5, SignedByFirst DEF Untimed, Signer
<1>8. PICK si : si = [sid |-> built.sid, digestAlg |-> built.digestAlg, sigAlg |-> built.sigAlg,
                      attrs |-> built.attrs, sig |-> built.sig, unsigned |-> <<token>>]
  OBVIOUS
<1>9. cms'[1] = [type |-> "signedData", econtentType |-> "data", econtent |-> << >>,
                 certs |-> Last(chains), signers |-> <<si>>]
  BY <1>1, <1>3, <1>6, <1>7, <1>8 DEF WithTimestamp
<1>10. IsGenuine(si)'
  <2>1. Signer' = Signer /\ TokenIsIssued(token)'
    BY <1>1, <1>4 DEF Signer, TokenIsIssued, IsIssued, InfoIsTrue
  <2>2. si.unsigned \in Seq({token}) /\ \A t \in {token} : TokenIsIssued(t)'
    BY <1>8, <2>1
  <2>3. si.sig = SignedBy(Signer').sig
    BY <1>5, <1>8, <2>1
  <2>4. IsSignerInfo(si)
    BY <1>8 DEF IsSignerInfo
  <2>5. QED
    BY <2>2, <2>3, <2>4 DEF IsGenuine, HasIssued
<1>11. cms'[1].signers \in Seq({si}) /\ \A t \in {si} : IsGenuine(t)'
  BY <1>9, <1>10
<1>12. IsCms(cms'[1])
  BY <1>9 DEF IsCms
<1>13. QED
  BY <1>11, <1>12 DEF CmsInv, AreGenuine

\* The other fields of a record do not change with one.
Retouched(si, x, s) ==
  s = [si EXCEPT !.attrs = x] \/ s = [si EXCEPT !.digestAlg = x] \/ s = [si EXCEPT !.sid = x]
Restamped(si, x, s) == s = [si EXCEPT !.unsigned = x]

LEMMA SignerInfoStays ==
  ASSUME NEW si, IsSignerInfo(si), NEW x, NEW s
  PROVE  /\ Retouched(si, x, s) => IsSignerInfo(s) /\ s.sig = si.sig /\ s.unsigned = si.unsigned
         /\ Restamped(si, x, s) => IsSignerInfo(s) /\ s.sig = si.sig /\ s.unsigned = x
<1>1. PICK a, b, c, d, e, f :
        si = [sid |-> a, digestAlg |-> b, sigAlg |-> c, attrs |-> d, sig |-> e, unsigned |-> f]
  BY DEF IsSignerInfo
<1>2. CASE s = [si EXCEPT !.attrs = x]
  <2>1. s = [sid |-> a, digestAlg |-> b, sigAlg |-> c, attrs |-> x, sig |-> e, unsigned |-> f]
    BY <1>1, <1>2
  <2>2. s # [si EXCEPT !.unsigned = x] \/ si.unsigned = x
    BY <1>1, <2>1
  <2>3. QED
    BY <1>1, <2>1, <2>2 DEF IsSignerInfo, Restamped
<1>3. CASE s = [si EXCEPT !.digestAlg = x]
  <2>1. s = [sid |-> a, digestAlg |-> x, sigAlg |-> c, attrs |-> d, sig |-> e, unsigned |-> f]
    BY <1>1, <1>3
  <2>2. s # [si EXCEPT !.unsigned = x] \/ si.unsigned = x
    BY <1>1, <2>1
  <2>3. QED
    BY <1>1, <2>1, <2>2 DEF IsSignerInfo, Restamped
<1>4. CASE s = [si EXCEPT !.sid = x]
  <2>1. s = [sid |-> x, digestAlg |-> b, sigAlg |-> c, attrs |-> d, sig |-> e, unsigned |-> f]
    BY <1>1, <1>4
  <2>2. s # [si EXCEPT !.unsigned = x] \/ si.unsigned = x
    BY <1>1, <2>1
  <2>3. QED
    BY <1>1, <2>1, <2>2 DEF IsSignerInfo, Restamped
<1>5. CASE s = [si EXCEPT !.unsigned = x]
  <2>1. s = [sid |-> a, digestAlg |-> b, sigAlg |-> c, attrs |-> d, sig |-> e, unsigned |-> x]
    BY <1>1, <1>5
  <2>2. IsSignerInfo(s) /\ s.sig = si.sig /\ s.unsigned = x
    BY <1>1, <2>1 DEF IsSignerInfo
  <2>3. Retouched(si, x, s) => x = f
    BY <1>1, <2>1 DEF Retouched
  <2>4. si.unsigned = f
    BY <1>1
  <2>5. QED
    BY <2>2, <2>3, <2>4
<1>6. QED
  BY <1>2, <1>3, <1>4, <1>5 DEF Retouched, Restamped

LEMMA CmsStays ==
  ASSUME NEW c, IsCms(c), NEW x, NEW d
  PROVE  /\ d = [c EXCEPT !.certs = x] \/ d = [c EXCEPT !.econtent = x]
              \/ d = [c EXCEPT !.econtentType = x] => IsCms(d) /\ d.signers = c.signers
         /\ d = [c EXCEPT !.signers = x] => IsCms(d) /\ d.signers = x
<1>1. PICK t, u, v, w, s :
        c = [type |-> t, econtentType |-> u, econtent |-> v, certs |-> w, signers |-> s]
  BY DEF IsCms
<1>2. c.signers = s
  BY <1>1
<1>3. ASSUME d = [c EXCEPT !.certs = x] PROVE IsCms(d) /\ d.signers = s
  <2>1. d = [type |-> t, econtentType |-> u, econtent |-> v, certs |-> x, signers |-> s]
    BY <1>1, <1>3
  <2>2. QED
    BY <2>1 DEF IsCms
<1>4. ASSUME d = [c EXCEPT !.econtent = x] PROVE IsCms(d) /\ d.signers = s
  <2>1. d = [type |-> t, econtentType |-> u, econtent |-> x, certs |-> w, signers |-> s]
    BY <1>1, <1>4
  <2>2. QED
    BY <2>1 DEF IsCms
<1>5. ASSUME d = [c EXCEPT !.econtentType = x] PROVE IsCms(d) /\ d.signers = s
  <2>1. d = [type |-> t, econtentType |-> x, econtent |-> v, certs |-> w, signers |-> s]
    BY <1>1, <1>5
  <2>2. QED
    BY <2>1 DEF IsCms
<1>6. ASSUME d = [c EXCEPT !.signers = x] PROVE IsCms(d) /\ d.signers = x
  <2>1. d = [type |-> t, econtentType |-> u, econtent |-> v, certs |-> w, signers |-> x]
    BY <1>1, <1>6
  <2>2. QED
    BY <2>1 DEF IsCms
<1>7. QED
  BY <1>2, <1>3, <1>4, <1>5, <1>6

\* Signers are added, and tokens, and a signer is changed.
LEMMA MoreSigners ==
  ASSUME NEW signers, AreGenuine(signers), NEW more, AreGenuine(more)
  PROVE  AreGenuine(signers \o more)
<1>1. PICK S : signers \in Seq(S) /\ \A si \in S : IsGenuine(si)
  BY DEF AreGenuine
<1>2. PICK T : more \in Seq(T) /\ \A si \in T : IsGenuine(si)
  BY DEF AreGenuine
<1>3. signers \in Seq(S \cup T) /\ more \in Seq(S \cup T)
  BY <1>1, <1>2
<1>4. signers \o more \in Seq(S \cup T)
  BY <1>3, ConcatProperties
<1>5. QED
  BY <1>1, <1>2, <1>4 DEF AreGenuine

LEMMA MoreTokens ==
  ASSUME NEW tokens, HasIssued(tokens), NEW token, TokenIsIssued(token)
  PROVE  HasIssued(<<token>>) /\ HasIssued(<<token>> \o tokens)
<1>1. PICK T : tokens \in Seq(T) /\ \A t \in T : TokenIsIssued(t)
  BY DEF HasIssued
<1>2. PICK one : one = <<token>>
  OBVIOUS
<1>3. one \in Seq({token}) /\ tokens \in Seq(T \cup {token}) /\ one \in Seq(T \cup {token})
  BY <1>1, <1>2
<1>4. one \o tokens \in Seq(T \cup {token})
  BY <1>3, ConcatProperties
<1>5. QED
  BY <1>1, <1>2, <1>3, <1>4 DEF HasIssued

LEMMA OtherSigner ==
  ASSUME NEW signers, AreGenuine(signers), NEW s, IsGenuine(s)
  PROVE  AreGenuine([signers EXCEPT ![1] = s])
<1>1. PICK S : signers \in Seq(S) /\ \A si \in S : IsGenuine(si)
  BY DEF AreGenuine
<1>2. signers \in Seq(S \cup {s})
  BY <1>1
<1>3. [signers EXCEPT ![1] = s] \in Seq(S \cup {s})
  <2>1. PICK U : U = S \cup {s}
    OBVIOUS
  <2>2. PICK n \in Nat : signers \in [1..n -> U]
    BY <1>2, <2>1
  <2>3. [signers EXCEPT ![1] = s] \in [1..n -> U]
    BY <2>1, <2>2
  <2>4. \A f \in [1..n -> U] : f \in Seq(U)
    OBVIOUS
  <2>5. QED
    BY <2>1, <2>3, <2>4, Zenon
<1>4. QED
  BY <1>1, <1>3 DEF AreGenuine

LEMMA NoTokens == HasIssued(<< >>)
<1>1. PICK T : T = {}
  OBVIOUS
<1>2. << >> \in Seq(T) /\ \A token \in T : TokenIsIssued(token)
  BY <1>1
<1>3. QED
  BY <1>2, Zenon DEF HasIssued

\* What keeps a signer genuine.
LEMMA GenuineStays ==
  ASSUME NEW si, IsGenuine(si), NEW x, NEW s
  PROVE  /\ Retouched(si, x, s) => IsGenuine(s)
         /\ Restamped(si, x, s) /\ HasIssued(x) => IsGenuine(s)
  BY SignerInfoStays DEF IsGenuine

\* What other software makes of a signer.
LEMMA RewrittenSigner ==
  ASSUME NEW si, IsGenuine(si), NEW s, IssuedInv,
         s \in {[si EXCEPT !.attrs = Doubled(@)],
                [si EXCEPT !.attrs = SelectSeq(@, LAMBDA a : a.oid # "signingCertificateV2")],
                [si EXCEPT !.attrs[2].values = Doubled(@)],
                [si EXCEPT !.digestAlg = "sha512"],
                [si EXCEPT !.sid = IdOf(TsaChain[1])],
                [si EXCEPT !.unsigned = << >>]}
               \cup {[si EXCEPT !.unsigned = <<Token(info)>> \o @] : info \in issued}
               \cup {[si EXCEPT !.unsigned = <<Damaged(info)>>] : info \in issued}
  PROVE  IsGenuine(s)
<1>1. ASSUME NEW x, s = [si EXCEPT !.attrs = x] \/ s = [si EXCEPT !.digestAlg = x]
                      \/ s = [si EXCEPT !.sid = x]
      PROVE  IsGenuine(s)
  BY <1>1, GenuineStays DEF Retouched
<1>2. ASSUME NEW x, s = [si EXCEPT !.unsigned = x], HasIssued(x) PROVE IsGenuine(s)
  BY <1>2, GenuineStays DEF Restamped
<1>3. CASE s = [si EXCEPT !.attrs = Doubled(@)]
  BY <1>1, <1>3
<1>4. CASE s = [si EXCEPT !.attrs = SelectSeq(@, LAMBDA a : a.oid # "signingCertificateV2")]
  <2>1. PICK x : x = SelectSeq(si.attrs, LAMBDA a : a.oid # "signingCertificateV2")
    OBVIOUS
  <2>2. s = [si EXCEPT !.attrs = x]
    BY <1>4, <2>1
  <2>3. QED
    BY <1>1, <2>2
<1>5. CASE s = [si EXCEPT !.attrs[2].values = Doubled(@)]
  <2>1. PICK x : x = [si.attrs EXCEPT ![2].values = Doubled(@)]
    OBVIOUS
  <2>2. s = [si EXCEPT !.attrs = x]
    BY <1>5, <2>1
  <2>3. QED
    BY <1>1, <2>2
<1>6. CASE s = [si EXCEPT !.digestAlg = "sha512"] \/ s = [si EXCEPT !.sid = IdOf(TsaChain[1])]
  BY <1>1, <1>6
<1>7. CASE s = [si EXCEPT !.unsigned = << >>]
  BY <1>2, <1>7, NoTokens
<1>8. CASE \E info \in issued : s = [si EXCEPT !.unsigned = <<Token(info)>> \o @]
  <2>1. PICK info \in issued : s = [si EXCEPT !.unsigned = <<Token(info)>> \o @]
    BY <1>8
  <2>2. TokenIsIssued(Token(info))
    BY DEF IssuedInv, TokenIsIssued
  <2>3. PICK x : x = <<Token(info)>> \o si.unsigned
    OBVIOUS
  <2>4. HasIssued(x)
    BY <2>2, <2>3, MoreTokens DEF IsGenuine
  <2>5. s = [si EXCEPT !.unsigned = x]
    BY <2>1, <2>3
  <2>6. QED
    BY <1>2, <2>4, <2>5
<1>9. CASE \E info \in issued : s = [si EXCEPT !.unsigned = <<Damaged(info)>>]
  <2>1. PICK info \in issued : s = [si EXCEPT !.unsigned = <<Damaged(info)>>]
    BY <1>9
  <2>2. TokenIsIssued(Damaged(info))
    BY DEF IssuedInv, TokenIsIssued
  <2>3. HasIssued(<<Damaged(info)>>)
    BY <2>2, MoreTokens DEF IsGenuine
  <2>4. QED
    BY <1>2, <2>1, <2>3
<1>10. QED
  BY <1>3, <1>4, <1>5, <1>6, <1>7, <1>8, <1>9

\* The signer that cms_sign makes, before it has a timestamp.
LEMMA BuiltIsGenuine == IsGenuine(SignedBy(Signer)) /\ AreGenuine(<<SignedBy(Signer)>>)
<1>1. HasIssued(<< >>)
  BY NoTokens
<1>2. IsSignerInfo(SignedBy(Signer)) /\ SignedBy(Signer).unsigned = << >>
  BY DEF IsSignerInfo, SignedBy, CmsSigned, SignedDataOver
<1>3. IsGenuine(SignedBy(Signer))
  BY <1>1, <1>2 DEF IsGenuine
<1>4. PICK si : si = SignedBy(Signer)
  OBVIOUS
<1>5. PICK S : S = {si}
  OBVIOUS
<1>6. AreGenuine(<<si>>)
  <2>1. <<si>> \in Seq(S) /\ \A s \in S : IsGenuine(s)
    BY <1>3, <1>4, <1>5, SMTT(30)
  <2>2. QED
    BY <2>1, Zenon DEF AreGenuine
<1>7. QED
  BY <1>3, <1>4, <1>6

LEMMA RewriteIsGenuine ==
  ASSUME NEW c, IsCms(c), AreGenuine(c.signers), IssuedInv, NEW d \in Rewritings(c)
  PROVE  IsCms(d) /\ AreGenuine(d.signers)
<1>1. CASE \/ \E x : \/ d = [c EXCEPT !.certs = x]
                     \/ d = [c EXCEPT !.econtent = x]
                     \/ d = [c EXCEPT !.econtentType = x]
  BY <1>1, CmsStays
<1>2. ASSUME NEW x, d = [c EXCEPT !.signers = x], AreGenuine(x)
      PROVE  IsCms(d) /\ AreGenuine(d.signers)
  BY <1>2, CmsStays
<1>3. CASE d = [c EXCEPT !.signers = @ \o CmsSigned(<<Signer>>, Data).signers]
  <2>1. PICK x : x = c.signers \o <<SignedBy(Signer)>>
    OBVIOUS
  <2>2. <<Signer>>[1] = Signer
    OBVIOUS
  <2>3. d = [c EXCEPT !.signers = x]
    BY <1>3, <2>1, <2>2, SignedByFirst
  <2>4. AreGenuine(x)
    BY <2>1, BuiltIsGenuine, MoreSigners
  <2>5. QED
    BY <1>2, <2>3, <2>4
<1>4. CASE d = [c EXCEPT !.signers = << >>]
  <2>1. PICK S : S = {}
    OBVIOUS
  <2>2. AreGenuine(<< >>)
    <3>1. << >> \in Seq(S) /\ \A si \in S : IsGenuine(si)
      BY <2>1
    <3>2. QED
      BY <3>1, Zenon DEF AreGenuine
  <2>3. QED
    BY <1>2, <1>4, <2>2
<1>5. CASE /\ c.signers # << >>
           /\ d \in {[c EXCEPT !.signers[1] = s] :
                s \in LET si == c.signers[1] IN
                  {[si EXCEPT !.attrs = Doubled(@)],
                   [si EXCEPT !.attrs = SelectSeq(@, LAMBDA a : a.oid # "signingCertificateV2")],
                   [si EXCEPT !.attrs[2].values = Doubled(@)],
                   [si EXCEPT !.digestAlg = "sha512"],
                   [si EXCEPT !.sid = IdOf(TsaChain[1])],
                   [si EXCEPT !.unsigned = << >>]}
                  \cup {[si EXCEPT !.unsigned = <<Token(info)>> \o @] : info \in issued}
                  \cup {[si EXCEPT !.unsigned = <<Damaged(info)>>] : info \in issued}}
  <2>1. PICK si : si = c.signers[1]
    OBVIOUS
  <2>2. IsGenuine(si)
    BY <1>5, <2>1 DEF AreGenuine
  <2>3. PICK s : IsGenuine(s) /\ d = [c EXCEPT !.signers[1] = s]
    BY <1>5, <2>1, <2>2, RewrittenSigner
  <2>4. PICK x : x = [c.signers EXCEPT ![1] = s]
    OBVIOUS
  <2>5. AreGenuine(x)
    BY <2>3, <2>4, OtherSigner
  <2>6. d = [c EXCEPT !.signers = x]
    BY <2>3, <2>4
  <2>7. QED
    BY <1>2, <2>5, <2>6
<1>6. QED
  BY <1>1, <1>3, <1>4, <1>5 DEF Rewritings

LEMMA NextKeepsCms ==
  CallInv /\ ErrorInv /\ IssuedInv /\ CmsInv /\ [Next]_vars => CmsInv'
<1> SUFFICES ASSUME CallInv, ErrorInv, IssuedInv, CmsInv, [Next]_vars PROVE CmsInv'
  OBVIOUS
<1>1. CASE pc' # "signed"
  BY <1>1 DEF CmsInv
<1>2. ASSUME UNCHANGED <<chains, issued, nonce>>
      PROVE  \A signers : AreGenuine(signers) => AreGenuine(signers)'
  <2>1. \A token : TokenIsIssued(token) => TokenIsIssued(token)'
    BY <1>2 DEF TokenIsIssued, IsIssued, InfoIsTrue
  <2>2. \A si : IsGenuine(si) => IsGenuine(si)'
    <3>1. ASSUME NEW si, IsGenuine(si) PROVE IsGenuine(si)'
      <4>1. PICK T : si.unsigned \in Seq(T) /\ \A token \in T : TokenIsIssued(token)
        BY <3>1 DEF IsGenuine, HasIssued
      <4>2. \E U : si.unsigned \in Seq(U) /\ \A token \in U : TokenIsIssued(token)'
        BY <2>1, <4>1
      <4>3. Signer' = Signer
        BY <1>2 DEF Signer
      <4>4. QED
        BY <3>1, <4>2, <4>3 DEF IsGenuine, HasIssued
    <3>2. QED
      BY <3>1
  <2>3. ASSUME NEW signers, AreGenuine(signers) PROVE AreGenuine(signers)'
    <3>1. PICK S : signers \in Seq(S) /\ \A si \in S : IsGenuine(si)
      BY <2>3 DEF AreGenuine
    <3>2. \A si \in S : IsGenuine(si)'
      BY <2>2, <3>1
    <3>3. QED
      BY <3>1, <3>2 DEF AreGenuine
  <2>4. QED
    BY <2>3
<1>3. CASE Fetch \/ Time \/ ServeError \/ UNCHANGED vars
  <2>1. UNCHANGED <<pc, cms, chains, issued, nonce>>
    BY <1>3 DEF Fetch, Time, ServeError, rest, vars
  <2>2. QED
    BY <1>2, <2>1 DEF CmsInv
<1>4. CASE \E c \in Rewritings(cms[1]) : Rewrite(c)
  <2>1. PICK c \in Rewritings(cms[1]) : Rewrite(c)
    BY <1>4
  <2>2. /\ pc = "signed" /\ cms' = <<c>> /\ UNCHANGED <<chains, issued, nonce>>
    BY <2>1 DEF Rewrite
  <2>3. IsCms(c) /\ AreGenuine(c.signers)
    BY <2>2, RewriteIsGenuine DEF CmsInv
  <2>4. AreGenuine(c.signers)'
    BY <1>2, <2>2, <2>3
  <2>5. cms'[1] = c
    BY <2>2
  <2>6. QED
    BY <2>3, <2>4, <2>5 DEF CmsInv
<1>5. CASE Embed
  BY <1>5, EmbedIsGenuine
<1>6. CASE GiveUpSigning \/ (\E ch \in Chains : Sign(ch))
           \/ \E r \in Replies, response \in Framings : Serve(r, response)
  BY <1>1, <1>6 DEF GiveUpSigning, Sign, Serve
<1>7. QED
  BY <1>3, <1>4, <1>5, <1>6 DEF Next, Reply

\* A signature that verifies under a certificate's key, and binds that certificate, is the
\* signer's own and the certificate is the one it was made with.
LEMMA OnlyItsOwn ==
  ASSUME NEW c, NEW si, NEW data, IsGenuine(si), SignedAttrsVerify(c, si, data)
  PROVE  SignerCert(c, si) = Signer
<1>1. PICK J : J = SignerCert(c, si)
  OBVIOUS
<1>2. PICK attrs : attrs = <<Attr("contentType", <<<<"data">>>>),
                             Attr("messageDigest", <<Digest(SignDigest(Signer.key.kind), Data)>>),
                             Attr("signingCertificateV2", <<Digest("sha256", Signer)>>)>>
  OBVIOUS
<1>3. SignedBy(Signer).sig = SigBy(Signer.key, SignDigest(Signer.key.kind), attrs)
  BY <1>2 DEF SignedBy, CmsSigned, SignedDataOver
<1>4. si.attrs = attrs
  <2>1. SigBy(Signer.key, SignDigest(Signer.key.kind), attrs).over = attrs
    BY DEF SigBy
  <2>2. SigBy(J.key, si.digestAlg, si.attrs).over = si.attrs
    BY DEF SigBy
  <2>3. si.sig = SigBy(J.key, si.digestAlg, si.attrs)
    BY <1>1 DEF SignedAttrsVerify, SignatureVerifies
  <2>4. QED
    BY <1>3, <2>1, <2>2, <2>3 DEF IsGenuine
<1>5. /\ Single(attrs, "signingCertificateV2")
      /\ Value(attrs, "signingCertificateV2") = Digest("sha256", Signer)
  BY <1>2, AttributesAreSingle
<1>6. ~Absent(attrs, "signingCertificateV2")
  BY <1>2 DEF Absent, Places, Attr
<1>7. \E alg \in Digests : Digest("sha256", Signer) = Digest(alg, J)
  BY <1>1, <1>4, <1>5, <1>6 DEF SignedAttrsVerify, EssBound
<1>8. QED
  BY <1>1, <1>7 DEF Digest

\* A genuine token is bound to the signature value it was issued for.
LEMMA StampsItsOwn ==
  ASSUME NEW si, IsGenuine(si), si.unsigned # << >>, TokenVerifies(si.unsigned[1]),
         Stamps(si.unsigned[1], si.sig), nonce \in Nat
  PROVE  LET time == TstInfo(si.unsigned[1]).genTime
         IN  time \in 1..nonce /\ SignedBy(chains[time][1]).sig = si.sig
<1>1. PICK token : token = si.unsigned[1]
  OBVIOUS
<1>2. TokenIsIssued(token)
  BY <1>1 DEF IsGenuine, HasIssued
<1>3. PICK info : IsIssued(info) /\ (token = Token(info) \/ token = Damaged(info))
  BY <1>2 DEF TokenIsIssued
<1>4. token = Token(info)
  BY <1>1, <1>3, DamageShows DEF IsIssued
<1>5. TstInfo(token) = info
  BY <1>4 DEF TstInfo, Token, SignedDataOver
<1>6. \E alg : info.imprint = Digest(alg, si.sig)
  BY <1>1, <1>5 DEF Stamps
<1>7. \E alg : info.imprint = Digest(alg, SignedBy(chains[info.genTime][1]).sig)
  BY <1>3 DEF IsIssued
<1>8. SignedBy(chains[info.genTime][1]).sig = si.sig
  BY <1>6, <1>7 DEF Digest
<1>9. info.genTime \in 1..nonce
  BY <1>3 DEF IsIssued, InfoIsTrue
<1>10. QED
  BY <1>1, <1>5, <1>8, <1>9

\* With what was issued and how a CMS may have been rewritten.
RInv == IInv /\ IssuedInv /\ CmsInv

THEOREM InductiveOnRewriting == Spec => []RInv
<1>1. Init => IssuedInv /\ CmsInv
  BY DEF Init, IssuedInv, CmsInv
<1>2. IInv /\ IssuedInv /\ CmsInv /\ [Next]_vars => IssuedInv' /\ CmsInv'
  BY NextKeepsIssued, NextKeepsCms DEF IInv
<1>3. QED
  BY <1>1, <1>2, Inductive, PTL DEF Spec, RInv

\* However a CMS was rewritten: if it still verifies, the certificate whose chain is going to
\* be judged is the one its signer signed with (crypto.rs:345-370).
THEOREM OnlyTheSignerIsJudged == Spec => []AcceptedIsGenuine
<1>1. RInv => AcceptedIsGenuine
  <2> SUFFICES ASSUME RInv, pc = "signed", CmsVerifies(cms[1], Data)
               PROVE  HasJudged(cms[1]) /\ Judged(cms[1]) = Signer
    BY DEF AcceptedIsGenuine
  <2>1. PICK si : si = cms[1].signers[1]
    OBVIOUS
  <2>2. IsGenuine(si) /\ cms[1].signers # << >>
    BY <2>1 DEF RInv, CmsInv, AreGenuine, CmsVerifies, SingleSigner
  <2>3. SignedAttrsVerify(cms[1], si, Data)
    BY <2>1 DEF CmsVerifies
  <2>4. SignerCert(cms[1], si) = Signer
    BY <2>2, <2>3, OnlyItsOwn
  <2>5. Matching(cms[1], si) # {}
    BY <2>3, SMTT(30) DEF SignedAttrsVerify
  <2>6. QED
    BY <2>1, <2>2, <2>4, <2>5 DEF HasJudged, Judged, SomeSigner
<1>2. QED
  BY <1>1, InductiveOnRewriting, PTL

\* However a CMS was rewritten: a timestamp that verifies shows a time at which this signature
\* value existed (crypto.rs:434-472).
THEOREM TimestampsAreBound == Spec => []TimestampIsBound
<1>1. RInv => TimestampIsBound
  <2> SUFFICES ASSUME RInv, pc = "signed", TimestampVerifies(cms[1])
               PROVE  LET time == TstInfo(cms[1].signers[1].unsigned[1]).genTime
                      IN  time \in 1..nonce
                            /\ SigValue(CmsSigned(chains[time], Data)) = SigValue(cms[1])
    BY DEF TimestampIsBound
  <2>1. PICK si : si = cms[1].signers[1]
    OBVIOUS
  <2>2. IsGenuine(si)
    BY <2>1 DEF RInv, CmsInv, AreGenuine, TimestampVerifies, SingleSigner
  <2>3. si.unsigned # << >> /\ TokenVerifies(si.unsigned[1]) /\ Stamps(si.unsigned[1], si.sig)
    BY <2>1 DEF TimestampVerifies
  <2>4. nonce \in Nat
    BY TimestampingAssumption DEF RInv, IInv, CallInv
  <2>5. PICK time : time = TstInfo(si.unsigned[1]).genTime
    OBVIOUS
  <2>6. time \in 1..nonce /\ SignedBy(chains[time][1]).sig = si.sig
    BY <2>2, <2>3, <2>4, <2>5, StampsItsOwn
  <2>7. SigValue(CmsSigned(chains[time], Data)) = SignedBy(chains[time][1]).sig
    <3>1. CmsSigned(chains[time], Data).signers = <<SignedBy(chains[time][1])>>
      BY SignedByFirst
    <3>2. QED
      BY <3>1 DEF SigValue
  <2>8. SigValue(cms[1]) = si.sig
    BY <2>1 DEF SigValue
  <2>9. QED
    BY <2>1, <2>5, <2>6, <2>7, <2>8
<1>2. QED
  BY <1>1, InductiveOnRewriting, PTL

=============================================================================
