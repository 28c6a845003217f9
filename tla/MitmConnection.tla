--------------------------- MODULE MitmConnection ---------------------------
(***************************************************************************)
(* An intercepted connection: the loop of handle_connect_mitm              *)
(* (src/src/http_proxy.rs) that reads requests from the TLS stream, has    *)
(* them handled, and writes the answers, one request after another.        *)
(*                                                                         *)
(* The client (cargo's HTTP library, or any other) sends a script of       *)
(* requests.  It may have several under way, waits for "100 Continue"      *)
(* where it asked for it (or loses patience), and may hang up at any byte. *)
(* The stream is a queue of tokens: lines, and units of a body.            *)
(* Assumption: a client declares the length of a body in content-length.   *)
(***************************************************************************)
EXTENDS Naturals, Sequences

CONSTANTS
  MaxRequests,  \* bound: requests of a connection
  MaxBody,      \* bound: units of a body
  Window        \* bound: requests sent and not yet answered

ASSUME BoundAssumption ==
  MaxRequests \in Nat /\ MaxBody \in Nat /\ Window \in Nat \ {0}

\* The headers the loop looks at: Expect: 100-continue, Connection: close and
\* Content-Length.
HeaderNames == {"expect", "close", "length"}

\* padded: an empty line comes before the request (some clients send one after
\* a body).
HttpRequest ==
  {r \in [padded : BOOLEAN, headers : SUBSET HeaderNames, body : 0..MaxBody] :
     r.body > 0 => "length" \in r.headers}

VARIABLES
  script,   \* the requests of the client; fixed when the behaviour starts
  sending,  \* the number of the request the client is sending
  stage,    \* the part of it that comes next
  left,     \* its headers not sent yet
  units,    \* the units of its body not sent yet
  hungUp,   \* has the client closed the connection?
  wire,     \* tokens sent and not read
  spc,      \* where the loop stands
  now,      \* the request it is reading: number, headers seen, body to read
  taken,    \* the units of a body it has read: whose they were
  handled,  \* history: what handle_internal_request was given
  replies,  \* what the loop has written and the client not read
  heard     \* history: what the client has read

clientVars == <<script, sending, stage, left, units, hungUp>>
serverVars == <<spc, now, taken, handled>>
mitmVars == <<clientVars, serverVars, wire, replies, heard>>

NoRequest == [of |-> 0, seen |-> {}, length |-> 0]

MitmInit ==
  /\ script \in UNION {[1..n -> HttpRequest] : n \in 0..MaxRequests}
  /\ \A i \in DOMAIN script : script[i].padded => i > 1
  /\ sending = 1
  /\ stage = "pad"
  /\ left = {}
  /\ units = 0
  /\ hungUp = FALSE
  /\ wire = <<>>
  /\ spc = "line"
  /\ now = NoRequest
  /\ taken = <<>>
  /\ handled = <<>>
  /\ replies = <<>>
  /\ heard = <<>>

-----------------------------------------------------------------------------
(* The client. *)

Token(p) == [part |-> p, of |-> sending, cut |-> FALSE]
CutToken(p) == [part |-> p, of |-> sending, cut |-> TRUE]

Answers == {k \in DOMAIN heard : heard[k].kind = "answer"}
Told100(i) == \E k \in DOMAIN heard : heard[k] = [kind |-> "continue", of |-> i]

Send(tok) == wire' = Append(wire, tok)

\* Of the requests sent, no more than Window are not answered yet.
WindowOpen == \A k \in 1..(sending - Window) : \E m \in Answers : heard[m].of = k

SendLine ==
  /\ ~hungUp
  /\ sending \in DOMAIN script
  /\ \/ /\ stage = "pad" /\ script[sending].padded
        /\ Send(Token("blank"))
        /\ stage' = "line"
        /\ UNCHANGED left
     \/ /\ \/ stage = "line"
           \/ stage = "pad" /\ ~script[sending].padded
        /\ WindowOpen
        /\ Send(Token("line"))
        /\ stage' = "headers"
        /\ left' = script[sending].headers
  /\ UNCHANGED <<script, sending, units, hungUp, serverVars, replies, heard>>

\* The loop collects the headers before it looks at any, so the order they are
\* sent in makes no difference, and one stands for all.
Following == CHOOSE h \in left : TRUE

SendHeader ==
  /\ ~hungUp
  /\ stage = "headers"
  /\ left # {}
  /\ Send(Token(Following))
  /\ left' = left \ {Following}
  /\ UNCHANGED <<script, sending, stage, units, hungUp, serverVars, replies, heard>>

NextRequest == sending' = sending + 1 /\ stage' = "pad"

SendBlank ==
  /\ ~hungUp
  /\ stage = "headers" /\ left = {}
  /\ Send(Token("blank"))
  /\ units' = script[sending].body
  /\ IF script[sending].body = 0
       THEN NextRequest
       ELSE stage' = "body" /\ UNCHANGED sending
  /\ UNCHANGED <<script, left, hungUp, serverVars, replies, heard>>

SendUnit ==
  /\ Send(Token("body"))
  /\ units' = units - 1
  /\ IF units = 1 THEN NextRequest ELSE UNCHANGED <<sending, stage>>
  /\ UNCHANGED <<script, left, hungUp, serverVars, replies, heard>>

Waits == "expect" \in script[sending].headers /\ units = script[sending].body

SendBody ==
  /\ ~hungUp
  /\ stage = "body"
  /\ Waits => Told100(sending)
  /\ SendUnit

\* The client sends the body although it has heard nothing.
LosePatience ==
  /\ ~hungUp
  /\ stage = "body"
  /\ Waits
  /\ SendUnit

Hear ==
  /\ replies # <<>>
  /\ heard' = Append(heard, Head(replies))
  /\ replies' = Tail(replies)
  /\ UNCHANGED <<clientVars, serverVars, wire>>

\* The client hangs up, between two tokens or inside a line.
HangUp ==
  /\ ~hungUp
  /\ hungUp' = TRUE
  /\ \/ UNCHANGED wire
     \/ /\ sending \in DOMAIN script
        /\ stage # "body"
        /\ \E p \in CASE stage = "headers" -> IF left = {} THEN {"blank"} ELSE left
                      [] OTHER -> {"line"} :
             Send(CutToken(p))
  /\ UNCHANGED <<script, sending, stage, left, units, serverVars, replies, heard>>

-----------------------------------------------------------------------------
(* The loop. *)

Ended == hungUp /\ wire = <<>>       \* a read returns no bytes

Take == wire' = Tail(wire)
Goes(s) == spc' = s

EndLoop == Goes("closed") /\ UNCHANGED <<now, taken>>

StartRequest(i) ==
  /\ now' = [NoRequest EXCEPT !.of = i]
  /\ taken' = <<>>
  /\ Goes("headers")

BadLineAnswered ==                               \* slip: answers the last one
  Goes("answer") /\ UNCHANGED <<now, taken>>
BadLine == EndLoop

\* The request line: empty ones are skipped, and one of fewer than three words
\* ends the loop.  (A line that was cut may still have three.)  No other line of
\* a client that declares its bodies is read here.
ReadLine ==
  /\ spc = "line" /\ wire # <<>>
  /\ Take
  /\ \/ Head(wire).part = "blank" /\ UNCHANGED <<spc, now, taken>>
     \/ Head(wire).part = "line" /\ StartRequest(Head(wire).of)
     \/ Head(wire).cut /\ BadLine
  /\ UNCHANGED <<clientVars, handled, replies, heard>>

AfterHeadersSilent(n) == Goes("body")            \* slip: no "100 Continue"

\* After the headers: "100 Continue", then the body, if there are any.
AfterHeaders(n) ==
  Goes(IF "expect" \in n.seen THEN "continue" ELSE "body")

\* What a header line may add to what was seen.  Of one that was cut, the name
\* or the value may be incomplete.
Noted(n, tok) ==
  LET lengths == IF tok.part # "length" THEN {n.length}
                 ELSE (IF tok.cut THEN 0 ELSE script[tok.of].body)..script[tok.of].body
      noted == {[of |-> n.of, seen |-> n.seen \cup {tok.part}, length |-> l] :
                  l \in lengths}
  IN  noted \cup {m \in {n} : tok.cut}

ReadHeader ==
  /\ spc = "headers" /\ wire # <<>>
  /\ Take
  /\ IF Head(wire).part = "blank"
       THEN AfterHeaders(now) /\ UNCHANGED now
       ELSE /\ now' \in Noted(now, Head(wire))
            /\ UNCHANGED spc
  /\ UNCHANGED <<clientVars, taken, handled, replies, heard>>

EndInBodyServed ==                               \* slip: takes what there is
  now' = [now EXCEPT !.length = Len(taken)] /\ UNCHANGED <<spc, taken>>
EndInBody == EndLoop

\* The stream ends: in front of a request the loop ends, within the headers
\* they are taken for complete, within the body the handler returns an error.
ReadEnd ==
  /\ Ended
  /\ \/ spc = "line" /\ EndLoop
     \/ spc = "headers" /\ AfterHeaders(now) /\ UNCHANGED <<now, taken>>
     \/ spc = "body" /\ Len(taken) < now.length /\ EndInBody
  /\ UNCHANGED <<clientVars, wire, handled, replies, heard>>

WritesAnyway(kind, s) ==                         \* slip: the error is ignored
  /\ \/ replies' = Append(replies, [kind |-> kind, of |-> now.of])
     \/ hungUp /\ UNCHANGED replies
  /\ Goes(s)

\* A write to a client that has hung up may fail, and ends the handler.
Writes(kind, s) ==
  \/ /\ replies' = Append(replies, [kind |-> kind, of |-> now.of])
     /\ Goes(s)
  \/ /\ hungUp
     /\ Goes("closed")
     /\ UNCHANGED replies

SendContinue ==
  /\ spc = "continue"
  /\ Writes("continue", "body")
  /\ UNCHANGED <<clientVars, wire, now, taken, handled, heard>>

\* read_exact(content_length).
ReadBody ==
  /\ spc = "body" /\ Len(taken) < now.length
  /\ wire # <<>>
  /\ Take
  /\ taken' = Append(taken, Head(wire).of)
  /\ UNCHANGED <<clientVars, spc, now, handled, replies, heard>>

\* handle_internal_request, with the body that was read.
Handle ==
  /\ spc = "body" /\ Len(taken) = now.length
  /\ handled' = Append(handled, [of |-> now.of, body |-> taken])
  /\ Goes("answer")
  /\ UNCHANGED <<clientVars, wire, now, taken, replies, heard>>

Respond ==
  /\ spc = "answer"
  /\ Writes("answer", IF "close" \in now.seen THEN "closed" ELSE "line")
  /\ UNCHANGED <<clientVars, wire, now, taken, handled, heard>>

ClientSends == SendLine \/ SendHeader \/ SendBlank \/ SendBody
Loop ==
  ReadLine \/ ReadHeader \/ ReadEnd \/ SendContinue \/ ReadBody \/ Handle \/ Respond

MitmNext == ClientSends \/ LosePatience \/ Hear \/ HangUp \/ Loop

MitmSpec == MitmInit /\ [][MitmNext]_mitmVars

-----------------------------------------------------------------------------
MitmTypeOK ==
  /\ script \in Seq(HttpRequest) /\ Len(script) <= MaxRequests
  /\ sending \in 1..(Len(script) + 1)
  /\ stage \in {"pad", "line", "headers", "body"}
  /\ left \subseteq HeaderNames
  /\ units \in 0..MaxBody
  /\ hungUp \in BOOLEAN
  /\ wire \in Seq([part : HeaderNames \cup {"line", "blank", "body"},
                   of : 1..Len(script), cut : BOOLEAN])
  /\ spc \in {"line", "headers", "continue", "body", "answer", "closed"}
  /\ now \in [of : 0..Len(script), seen : SUBSET HeaderNames, length : 0..MaxBody]
  /\ taken \in Seq(1..Len(script))
  /\ handled \in Seq([of : 1..Len(script), body : Seq(1..Len(script))])
  /\ replies \in Seq([kind : {"continue", "answer"}, of : 1..Len(script)])
  /\ heard \in Seq([kind : {"continue", "answer"}, of : 1..Len(script)])

BodyOf(i) == [u \in 1..script[i].body |-> i]

\* A request is handled with its own body, all of it: bytes of two requests are
\* never mixed, whatever the client has under way, and one that the client did
\* not send to the end is handled at most without a body, never with a part.
HandledWhole ==
  \A k \in DOMAIN handled :
    \/ handled[k].body = BodyOf(handled[k].of)
    \/ hungUp /\ handled[k].of = sending /\ handled[k].body = <<>>

\* The requests are handled in the order they were sent in, none twice, none
\* left out; and the answers the client reads are those to its first, second,
\* ... request, each handled before.
AnswersMatch ==
  LET told == heard \o replies
      AnswerAt(k, i) == told[k].kind = "answer" /\ told[k].of = i
  IN  /\ \A k \in DOMAIN handled : handled[k].of = k
      /\ \A k \in DOMAIN told : \A i \in 1..Len(script) :
           AnswerAt(k, i) =>
             /\ i <= Len(handled)
             /\ \A j \in 1..(i - 1) : \E m \in 1..(k - 1) : AnswerAt(m, j)
             /\ \A m \in 1..(k - 1) : \A j \in 1..Len(script) : AnswerAt(m, j) => j < i

AnsweredTo(i) == \E k \in Answers : heard[k].of = i
ClosedBefore(i) == \E k \in DOMAIN script : k < i /\ "close" \in script[k].headers

\* A request of the script is answered, or never will be for a reason the
\* client gave.
Settles(i) == i \notin DOMAIN script \/ AnsweredTo(i) \/ ClosedBefore(i) \/ hungUp

\* The loop is over, or reads what is not there.
LoopWaits ==
  \/ spc = "closed"
  \/ /\ wire = <<>> /\ ~hungUp
     /\ spc \in {"line", "headers"} \/ (spc = "body" /\ Len(taken) < now.length)

\* The client has read all there is, and has sent its script to the end, or waits
\* for "100 Continue", or for an answer before it sends another request.
ClientWaits ==
  /\ replies = <<>>
  /\ \/ sending \notin DOMAIN script
     \/ stage = "body" /\ Waits /\ ~Told100(sending)
     \/ /\ stage = "line" \/ (stage = "pad" /\ ~script[sending].padded)
        /\ ~WindowOpen

\* The loop and its client never wait for each other, one for "100 Continue" or an
\* answer, the other for a body or a request; nor does the client for a loop that
\* is over, while a request it may expect an answer to is left.
NeverStuck ==
  \A i \in DOMAIN script : LoopWaits /\ ClientWaits => Settles(i)

\* One request at a time, and in order: what Requests promises.
AnswersTold ==
  LET told == heard \o replies
  IN  {told[k].of : k \in {j \in DOMAIN told : told[j].kind = "answer"}}

Promise == INSTANCE Requests WITH answered <- AnswersTold
RequestsSpec == Promise!Spec

=============================================================================
