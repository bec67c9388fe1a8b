----------------------------- MODULE HttpFetch -----------------------------
(***************************************************************************)
(* http_request_plain and dechunk of src/src/tsa.rs: one request over a    *)
(* connection that may be slow, cut off or reset, with a time limit on     *)
(* each blocking call and a deadline for the whole.                        *)
(*                                                                         *)
(* A response is a sequence of cells: the status line, other header        *)
(* fields, the end of the head, and then data, chunk sizes and line ends.  *)
(* Computing takes no time; time passes in the calls that wait.            *)
(*                                                                         *)
(* A definition right before another of the same parameters is the other  *)
(* with a likely mistake in it, used by no specification.                  *)
(***************************************************************************)
EXTENDS Integers, Sequences, SequencesExt

CONSTANTS
  RequestTimeout,  \* REQUEST_TIMEOUT
  ConnectTimeout,  \* CONNECT_TIMEOUT
  IoTimeout,       \* the read and the write timeout of the socket
  MaxResponse,     \* MAX_RESPONSE_BYTES
  Pieces           \* writes it takes to send the request

ASSUME TimeoutAssumption ==
  /\ RequestTimeout \in Nat /\ ConnectTimeout \in Nat /\ IoTimeout \in Nat
  /\ IoTimeout > 0 /\ ConnectTimeout > 0
  /\ MaxResponse \in Nat /\ Pieces \in Nat

VARIABLES
  phase,   \* what the request is at
  age,     \* time since it began; all beyond Late are one
  waited,  \* time since the blocking call it is in began
  unsent,  \* writes still to do
  wire,    \* what the server has still to send
  raw,     \* what was received
  body     \* the response body, or that there is none

http == <<phase, age, waited, unsent, wire, raw, body>>

Late == RequestTimeout + IoTimeout + 1

\* The calls that wait, and for how long at most.  Resolving a name has no limit
\* of its own.
Limit ==
  CASE phase = "connecting" -> ConnectTimeout
    [] phase \in {"writing", "reading"} -> IoTimeout
    [] OTHER -> 0
Limited == phase \in {"connecting", "writing", "reading"}

NoBody == [ok |-> FALSE, cells |-> << >>]
Body(cells) == [ok |-> TRUE, cells |-> cells]

-----------------------------------------------------------------------------
(* Responses.                                                              *)

StatusLine(code) == [k |-> "status", code |-> code]
TransferChunked  == [k |-> "chunked"]
EndOfHead        == [k |-> "end"]
Size(n)          == [k |-> "size", n |-> n]
Crlf             == [k |-> "crlf"]
Part(n)          == [k |-> "data", n |-> n]

\* The place of the first cell of a kind from i on, beyond the end if there is none.
First(cells, i, kind) ==
  LET places == {j \in i..Len(cells) : cells[j].k = kind}
  IN  IF places = {} THEN Len(cells) + 1
      ELSE CHOOSE j \in places : \A l \in places : j <= l

\* dechunk: size line, that many bytes, line end, and again, until size zero or
\* until there is nothing more.  The mistake takes a chunk that is cut off.  Sizes are
\* naturals: for a chunk that ends within two bytes of the largest usize the addition
\* at tsa.rs:324 panics, here there is no body for it as for any chunk cut off.
DechunkCut(d) ==
  LET from[i \in 1..(Len(d) + 1)] ==
        LET line == First(d, i, "crlf")
            end  == line + 1 + d[i].n
        IN  IF i > Len(d) THEN Body(<< >>)
            ELSE IF line > Len(d) \/ line # i + 1 \/ d[i].k # "size" THEN NoBody
            ELSE IF d[i].n = 0 THEN Body(<< >>)
            ELSE IF end > Len(d) THEN Body(SubSeq(d, line + 1, Len(d)))
            ELSE IF d[end].k # "crlf" \/ ~from[end + 1].ok THEN NoBody
            ELSE Body(SubSeq(d, line + 1, end - 1) \o from[end + 1].cells)
  IN  from[1]
Dechunk(d) ==
  LET from[i \in 1..(Len(d) + 1)] ==
        LET line == First(d, i, "crlf")
            end  == line + 1 + d[i].n
        IN  IF i > Len(d) THEN Body(<< >>)
            ELSE IF line > Len(d) \/ line # i + 1 \/ d[i].k # "size" THEN NoBody
            ELSE IF d[i].n = 0 THEN Body(<< >>)
            ELSE IF end > Len(d) \/ d[end].k # "crlf" \/ ~from[end + 1].ok THEN NoBody
            ELSE Body(SubSeq(d, line + 1, end - 1) \o from[end + 1].cells)
  IN  from[1]

\* What is made of all that was received.
BodyOf(cells) ==
  LET eoh  == First(cells, 1, "end")
      rest == SubSeq(cells, eoh + 1, Len(cells))
  IN  IF eoh > Len(cells) \/ cells[1].k # "status" \/ cells[1].code # 200 THEN NoBody
      ELSE IF First(cells, 1, "chunked") < eoh THEN Dechunk(rest)
      ELSE Body(rest)

-----------------------------------------------------------------------------
(* The request.                                                            *)

Enter(p) == phase' = p /\ waited' = 0

\* The clock, which does not advance past the limit of a blocking call.
Tick ==
  /\ phase = "resolving" \/ (Limited /\ waited < Limit)
  /\ age' = IF age < Late THEN age + 1 ELSE age
  /\ waited' = IF Limited THEN waited + 1 ELSE 0
  /\ UNCHANGED <<phase, unsent, wire, raw, body>>

\* The deadline starts before the name of the host is resolved.
StartRequest ==
  /\ phase = "idle"
  /\ Enter("resolving") /\ age' = 0 /\ unsent' = Pieces
  /\ wire' = << >> /\ raw' = << >> /\ body' = NoBody

GiveUp ==
  /\ Enter("done") /\ age' = age /\ wire' = << >> /\ raw' = << >>
  /\ body' = NoBody /\ unsent' = 0

Resolve == phase = "resolving" /\ Enter("connecting") /\ UNCHANGED <<age, unsent, wire, raw, body>>
ResolveFails == phase = "resolving" /\ GiveUp

Connect == phase = "connecting" /\ Enter("writing") /\ UNCHANGED <<age, unsent, wire, raw, body>>

\* write_all: one write at a time, the header and the body.
Write ==
  /\ phase = "writing" /\ unsent > 0
  /\ Enter("writing") /\ unsent' = unsent - 1
  /\ UNCHANGED <<age, wire, raw, body>>

\* The request is out, and the server has its answer.
Sent(response) ==
  /\ phase = "writing" /\ unsent = 0
  /\ Enter("checking") /\ wire' = response
  /\ UNCHANGED <<age, unsent, raw, body>>

\* The peer refuses or resets the connection.
Reset == phase \in {"connecting", "writing", "reading"} /\ GiveUp

\* A connection attempt or a write that runs into its timeout is an error; the
\* mistake is to connect without one.
WriteTimesOut ==
  /\ phase = "writing" /\ waited = Limit /\ unsent > 0
  /\ GiveUp
TimesOut ==
  /\ phase \in {"connecting", "writing"} /\ waited = Limit
  /\ phase = "writing" => unsent > 0
  /\ GiveUp

\* The test of the deadline before every read; the mistake is in a read that
\* comes without it.
CheckNothing ==
  /\ phase = "checking"
  /\ Enter("reading") /\ UNCHANGED <<age, unsent, wire, raw, body>>
CheckDeadline ==
  /\ phase = "checking"
  /\ IF age > RequestTimeout THEN GiveUp
     ELSE Enter("reading") /\ UNCHANGED <<age, unsent, wire, raw, body>>

\* read returns what has arrived, as much of it as it likes; the mistake is to
\* take whatever comes.
ReceiveAll(n) ==
  /\ phase = "reading" /\ n \in 1..Len(wire)
  /\ Enter("checking")
  /\ raw' = raw \o SubSeq(wire, 1, n)
  /\ wire' = SubSeq(wire, n + 1, Len(wire))
  /\ UNCHANGED <<age, unsent, body>>
Receive(n) ==
  /\ phase = "reading" /\ n \in 1..Len(wire)
  /\ IF Len(raw) + n > MaxResponse THEN GiveUp
     ELSE /\ Enter("checking")
          /\ raw' = raw \o SubSeq(wire, 1, n)
          /\ wire' = SubSeq(wire, n + 1, Len(wire))
          /\ UNCHANGED <<age, unsent, body>>

\* A read that runs into its timeout is tried again.
ReadTimesOut ==
  /\ phase = "reading" /\ waited = IoTimeout
  /\ Enter("checking") /\ UNCHANGED <<age, unsent, wire, raw, body>>

\* The server closes the connection, whether or not it has sent everything.
Closed ==
  /\ phase = "reading"
  /\ Enter("closed") /\ wire' = << >> /\ UNCHANGED <<age, unsent, raw, body>>

Decode ==
  /\ phase = "closed"
  /\ Enter("done") /\ body' = BodyOf(raw) /\ age' = age
  /\ wire' = << >> /\ raw' = << >> /\ unsent' = 0

HttpInit ==
  /\ phase = "idle" /\ age = 0 /\ waited = 0 /\ unsent = 0
  /\ wire = << >> /\ raw = << >> /\ body = NoBody

\* What the program and its system do by themselves, and what needs the peer.
Client == Resolve \/ ResolveFails \/ TimesOut \/ CheckDeadline \/ ReadTimesOut \/ Decode
Peer == Connect \/ Write \/ Reset \/ Closed \/ \E n \in 1..Len(wire) : Receive(n)
=============================================================================
