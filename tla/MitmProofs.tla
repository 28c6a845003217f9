----------------------------- MODULE MitmProofs -----------------------------
(***************************************************************************)
(* Proofs about MitmConnection, for every number of requests, every length *)
(* of their bodies and every client: requests are handled whole, one after *)
(* the other, and answered in order, as Requests promises; nobody waits    *)
(* for somebody who waits; and a connection comes to rest.                 *)
(*                                                                         *)
(* What makes it true is where the loop stands in the stream: at the place *)
(* from which the client has sent what is on the wire, one token after the *)
(* other, to get to where it is now.  The invariant says that there is     *)
(* such a way (a function of the places on it), until the loop has read    *)
(* the end of a stream that was cut.                                       *)
(***************************************************************************)
EXTENDS MitmConnection, SequenceTheorems, TLAPS

-----------------------------------------------------------------------------
(* Places of a client in its script. *)

Place == [of : Nat \ {0}, stage : {"pad", "line", "headers", "body"},
          left : SUBSET HeaderNames, units : Nat]

At(i, s, l, u) == [of |-> i, stage |-> s, left |-> l, units |-> u]
Start(i) == At(i, "pad", {}, 0)
Here == At(sending, stage, left, units)

WellPlaced(sc, p) ==
  /\ p \in Place
  /\ p.of <= Len(sc) + 1
  /\ p.stage # "pad" => p.of <= Len(sc)
  /\ p.stage # "headers" => p.left = {}
  /\ p.stage = "headers" => p.left \subseteq sc[p.of].headers
  /\ p.stage # "body" => p.units = 0
  /\ p.stage = "body" => p.units \in 1..sc[p.of].body

\* One token takes a client from the place p to the place q.
Sends(sc, p, t, q) ==
  \/ /\ p.stage = "pad" /\ sc[p.of].padded /\ t.part = "blank"
     /\ q = At(p.of, "line", {}, 0)
  \/ /\ p.stage = "line" \/ (p.stage = "pad" /\ ~sc[p.of].padded)
     /\ t.part = "line"
     /\ q = At(p.of, "headers", sc[p.of].headers, 0)
  \/ /\ p.stage = "headers" /\ t.part \in p.left
     /\ q = At(p.of, "headers", p.left \ {t.part}, 0)
  \/ /\ p.stage = "headers" /\ p.left = {} /\ t.part = "blank"
     /\ q = IF sc[p.of].body = 0 THEN Start(p.of + 1)
            ELSE At(p.of, "body", {}, sc[p.of].body)
  \/ /\ p.stage = "body" /\ t.part = "body"
     /\ q = IF p.units = 1 THEN Start(p.of + 1) ELSE At(p.of, "body", {}, p.units - 1)

\* A token that was cut leaves it where it was.
Cuts(sc, p, t) ==
  \/ p.stage = "headers" /\ t.part \in (IF p.left = {} THEN {"blank"} ELSE p.left)
  \/ p.stage \in {"pad", "line"} /\ t.part = "line"

Link(sc, p, t, q) ==
  /\ p.of <= Len(sc) /\ t.of = p.of
  /\ IF t.cut THEN Cuts(sc, p, t) /\ q = p ELSE Sends(sc, p, t, q)

\* st leads along the tokens of w to the place end.
Way(sc, w, st, end) ==
  /\ \A k \in 0..Len(w) : WellPlaced(sc, st[k])
  /\ st[Len(w)] = end
  /\ \A k \in 1..Len(w) : Link(sc, st[k - 1], w[k], st[k])

Appended(st, n, q) == [k \in 0..(n + 1) |-> IF k <= n THEN st[k] ELSE q]
Shifted(st, n) == [k \in 0..(n - 1) |-> st[k + 1]]

\* A token that is sent makes the way longer ...
LEMMA WayAppended ==
  ASSUME NEW sc, NEW S, NEW w \in Seq(S), NEW st, NEW p, NEW t \in S, NEW q,
         Way(sc, w, st, p), Link(sc, p, t, q), WellPlaced(sc, q)
  PROVE  /\ Way(sc, Append(w, t), Appended(st, Len(w), q), q)
         /\ Appended(st, Len(w), q)[0] = st[0]
<1> DEFINE n == Len(w)
           v == Append(w, t)
           st2 == Appended(st, n, q)
<1>1. n \in Nat /\ Len(v) = n + 1 /\ v[n + 1] = t /\ \A k \in 1..n : v[k] = w[k]
  BY AppendProperties
<1>2. /\ \A k \in 0..n : st2[k] = st[k]
      /\ st2[n + 1] = q
  BY <1>1 DEF Appended
<1> HIDE DEF n, v, st2
<1>3. \A k \in 0..n : WellPlaced(sc, st[k])
  BY DEF Way, n
<1>4. st[n] = p /\ \A k \in 1..n : Link(sc, st[k - 1], w[k], st[k])
  BY DEF Way, n
<1>5. \A k \in 0..(n + 1) : WellPlaced(sc, st2[k])
  <2> TAKE k \in 0..(n + 1)
  <2>1. CASE k = n + 1
    BY <1>2, <2>1
  <2>2. CASE k # n + 1
    <3>1. k \in 0..n
      BY <1>1, <2>2
    <3> QED BY <1>2, <1>3, <3>1
  <2> QED BY <2>1, <2>2
<1>6. \A k \in 1..(n + 1) : Link(sc, st2[k - 1], v[k], st2[k])
  <2> TAKE k \in 1..(n + 1)
  <2>1. CASE k = n + 1
    <3>1. k - 1 = n /\ n \in 0..n
      BY <1>1, <2>1
    <3>2. st2[k - 1] = p /\ v[k] = t /\ st2[k] = q
      BY <1>1, <1>2, <1>4, <2>1, <3>1
    <3> QED BY <3>2
  <2>2. CASE k # n + 1
    <3>1. k \in 1..n /\ k \in 0..n /\ k - 1 \in 0..n
      BY <1>1, <2>2
    <3>2. st2[k - 1] = st[k - 1] /\ v[k] = w[k] /\ st2[k] = st[k]
      BY <1>1, <1>2, <3>1
    <3>3. Link(sc, st[k - 1], w[k], st[k])
      BY <1>4, <3>1
    <3> QED BY <3>2, <3>3
  <2> QED BY <2>1, <2>2
<1>7. Way(sc, v, st2, q)
  BY <1>1, <1>2, <1>5, <1>6 DEF Way
<1>8. st2[0] = st[0]
  BY <1>1, <1>2
<1> QED BY <1>7, <1>8 DEF v, st2, n

\* ... and one that is read makes it shorter.
LEMMA WayShifted ==
  ASSUME NEW sc, NEW S, NEW w \in Seq(S), w # <<>>, NEW st, NEW p,
         Way(sc, w, st, p)
  PROVE  /\ Way(sc, Tail(w), Shifted(st, Len(w)), p)
         /\ Shifted(st, Len(w))[0] = st[1]
         /\ Link(sc, st[0], Head(w), st[1])
         /\ WellPlaced(sc, st[0]) /\ WellPlaced(sc, st[1])
         /\ Len(w) = 1 => st[1] = p
<1> DEFINE n == Len(w)
           v == Tail(w)
           st2 == Shifted(st, n)
<1>1. n \in Nat \ {0} /\ Head(w) = w[1]
  BY EmptySeq
<1>2. Len(v) = n - 1 /\ \A k \in 1..(n - 1) : v[k] = w[k + 1]
  BY HeadTailProperties
<1>3. \A k \in 0..(n - 1) : st2[k] = st[k + 1]
  BY DEF Shifted
<1> HIDE DEF n, v, st2
<1>4. \A k \in 0..n : WellPlaced(sc, st[k])
  BY DEF Way, n
<1>5. st[n] = p /\ \A k \in 1..n : Link(sc, st[k - 1], w[k], st[k])
  BY DEF Way, n
<1>6. \A k \in 0..(n - 1) : WellPlaced(sc, st2[k])
  <2> TAKE k \in 0..(n - 1)
  <2>1. k + 1 \in 0..n
    BY <1>1
  <2> QED BY <1>3, <1>4, <2>1
<1>7. \A k \in 1..(n - 1) : Link(sc, st2[k - 1], v[k], st2[k])
  <2> TAKE k \in 1..(n - 1)
  <2>1. k + 1 \in 1..n /\ k - 1 \in 0..(n - 1) /\ k \in 0..(n - 1) /\ (k - 1) + 1 = k
        /\ (k + 1) - 1 = k
    BY <1>1
  <2>2. st2[k - 1] = st[k] /\ v[k] = w[k + 1] /\ st2[k] = st[k + 1]
    BY <1>2, <1>3, <2>1
  <2>3. Link(sc, st[(k + 1) - 1], w[k + 1], st[k + 1])
    BY <1>5, <2>1
  <2> QED BY <2>1, <2>2, <2>3
<1>8. st2[n - 1] = p /\ st2[0] = st[1]
  <2>1. n - 1 \in 0..(n - 1) /\ 0 \in 0..(n - 1) /\ (n - 1) + 1 = n /\ 0 + 1 = 1
    BY <1>1
  <2> QED BY <1>3, <1>5, <2>1
<1>9. Link(sc, st[0], Head(w), st[1])
  <2>1. 1 \in 1..n /\ 1 - 1 = 0
    BY <1>1
  <2> QED BY <1>1, <1>5, <2>1
<1>10. WellPlaced(sc, st[0]) /\ WellPlaced(sc, st[1])
  BY <1>1, <1>4
<1>11. Way(sc, v, st2, p)
  BY <1>2, <1>6, <1>7, <1>8 DEF Way
<1> QED BY <1>5, <1>8, <1>9, <1>10, <1>11 DEF v, st2, n

LEMMA HereFields ==
  /\ Here.of = sending /\ Here.stage = stage /\ Here.left = left /\ Here.units = units
  /\ Here' = At(sending', stage', left', units')
BY DEF Here, At

-----------------------------------------------------------------------------
(* The steps of the client. *)

Tokens ==
  [part : HeaderNames \cup {"line", "blank", "body"}, of : 1..Len(script),
   cut : BOOLEAN]

Unread == UNCHANGED <<script, serverVars, replies, heard>>

\* The client goes on: one token is sent, whole.
Advances ==
  /\ ~hungUp /\ hungUp' = hungUp
  /\ WellPlaced(script, Here)'
  /\ \E t \in Tokens : /\ t.cut = FALSE
                       /\ wire' = Append(wire, t)
                       /\ Link(script, Here, t, Here')
  /\ Unread

LEMMA ScriptFacts ==
  ASSUME MitmTypeOK
  PROVE  /\ DOMAIN script = 1..Len(script) /\ Len(script) \in Nat
         /\ \A i \in 1..Len(script) :
              /\ script[i] \in HttpRequest
              /\ script[i].padded \in BOOLEAN
              /\ script[i].headers \subseteq HeaderNames
              /\ script[i].body \in 0..MaxBody /\ script[i].body \in Nat
              /\ script[i].body > 0 => "length" \in script[i].headers
<1>1. script \in Seq(HttpRequest) /\ MaxBody \in Nat
  BY BoundAssumption DEF MitmTypeOK
<1>2. \A r \in HttpRequest :
        /\ r.padded \in BOOLEAN /\ r.headers \subseteq HeaderNames
        /\ r.body \in 0..MaxBody /\ r.body \in Nat
        /\ r.body > 0 => "length" \in r.headers
  BY <1>1 DEF HttpRequest
<1>3. \A i \in 1..Len(script) : script[i] \in HttpRequest
  BY <1>1
<1> QED BY <1>1, <1>2, <1>3

LEMMA SendLineAdvances ==
  ASSUME MitmTypeOK, WellPlaced(script, Here), SendLine
  PROVE  Advances
<1> USE ScriptFacts
<1>1. /\ sending \in 1..Len(script) /\ sending \in Nat \ {0}
      /\ units \in Nat /\ left \subseteq HeaderNames
  BY DEF SendLine, MitmTypeOK
<1>2. stage \in {"pad", "line"} /\ left = {} /\ units = 0
  BY HereFields DEF SendLine, WellPlaced
<1>3. /\ ~hungUp /\ hungUp' = hungUp /\ Unread
      /\ sending' = sending /\ units' = units /\ script' = script
  BY DEF SendLine, Unread
<1>4. CASE /\ stage = "pad" /\ script[sending].padded
           /\ Send(Token("blank")) /\ stage' = "line" /\ left' = left
  <2>1. Token("blank") \in Tokens /\ Token("blank").cut = FALSE
    BY <1>1 DEF Token, Tokens
  <2>2. Link(script, Here, Token("blank"), Here')
    BY <1>1, <1>2, <1>3, <1>4, HereFields DEF Link, Sends, Token
  <2>3. WellPlaced(script, Here)'
    BY <1>1, <1>2, <1>3, <1>4 DEF WellPlaced, Here, At, Place
  <2> QED BY <1>3, <1>4, <2>1, <2>2, <2>3 DEF Advances, Send
<1>5. CASE /\ stage = "line" \/ (stage = "pad" /\ ~script[sending].padded)
           /\ Send(Token("line")) /\ stage' = "headers"
           /\ left' = script[sending].headers
  <2>1. Token("line") \in Tokens /\ Token("line").cut = FALSE
    BY <1>1 DEF Token, Tokens
  <2>2. Link(script, Here, Token("line"), Here')
    BY <1>1, <1>2, <1>3, <1>5, HereFields DEF Link, Sends, Token
  <2>3. WellPlaced(script, Here)'
    BY <1>1, <1>2, <1>3, <1>5 DEF WellPlaced, Here, At, Place
  <2> QED BY <1>3, <1>5, <2>1, <2>2, <2>3 DEF Advances, Send
<1> QED BY <1>4, <1>5 DEF SendLine

LEMMA SendHeaderAdvances ==
  ASSUME MitmTypeOK, WellPlaced(script, Here), SendHeader
  PROVE  Advances
<1> USE ScriptFacts
<1>1. /\ sending \in Nat \ {0} /\ units \in Nat /\ left \subseteq HeaderNames
      /\ stage = "headers"
  BY DEF SendHeader, MitmTypeOK
<1>2. sending \in 1..Len(script) /\ units = 0 /\ left \subseteq script[sending].headers
  BY <1>1 DEF WellPlaced, Here, At
<1>3. /\ ~hungUp /\ hungUp' = hungUp /\ Unread /\ script' = script
      /\ sending' = sending /\ units' = units /\ stage' = stage
  BY DEF SendHeader, Unread
<1>4. Following \in left /\ left' = left \ {Following}
  BY DEF SendHeader, Following
<1>5. Token(Following) \in Tokens /\ Token(Following).cut = FALSE
  BY <1>1, <1>2, <1>4 DEF Token, Tokens
<1>6. Link(script, Here, Token(Following), Here')
  BY <1>1, <1>2, <1>3, <1>4, HereFields DEF Link, Sends, Token
<1>7. WellPlaced(script, Here)'
  BY <1>1, <1>2, <1>3, <1>4 DEF WellPlaced, Here, At, Place
<1> QED BY <1>3, <1>5, <1>6, <1>7 DEF Advances, SendHeader, Send

LEMMA SendBlankAdvances ==
  ASSUME MitmTypeOK, WellPlaced(script, Here), SendBlank
  PROVE  Advances
<1> USE ScriptFacts
<1>1. /\ sending \in Nat \ {0} /\ units \in Nat /\ left = {}
      /\ stage = "headers"
  BY DEF SendBlank, MitmTypeOK
<1>2. sending \in 1..Len(script)
  BY <1>1 DEF WellPlaced, Here, At
<1>3. /\ ~hungUp /\ hungUp' = hungUp /\ Unread /\ script' = script
      /\ left' = left /\ units' = script[sending].body
  BY DEF SendBlank, Unread
<1>4. IF script[sending].body = 0
        THEN sending' = sending + 1 /\ stage' = "pad"
        ELSE stage' = "body" /\ sending' = sending
  BY DEF SendBlank, NextRequest
<1>5. Token("blank") \in Tokens /\ Token("blank").cut = FALSE
  BY <1>2 DEF Token, Tokens
<1>6. Link(script, Here, Token("blank"), Here')
  BY <1>1, <1>2, <1>3, <1>4, HereFields DEF Link, Sends, Token, Start
<1>7. WellPlaced(script, Here)'
  BY <1>1, <1>2, <1>3, <1>4 DEF WellPlaced, Here, At, Place
<1> QED BY <1>3, <1>5, <1>6, <1>7 DEF Advances, SendBlank, Send

LEMMA SendUnitAdvances ==
  ASSUME MitmTypeOK, WellPlaced(script, Here), SendBody \/ LosePatience
  PROVE  Advances
<1> USE ScriptFacts
<1>1. /\ sending \in Nat \ {0} /\ units \in Nat /\ left \subseteq HeaderNames
      /\ stage = "body"
  BY DEF SendBody, LosePatience, MitmTypeOK
<1>2. sending \in 1..Len(script) /\ left = {} /\ units \in 1..script[sending].body
  BY <1>1 DEF WellPlaced, Here, At
<1>3. SendUnit
  BY DEF SendBody, LosePatience
<1>4. /\ ~hungUp /\ hungUp' = hungUp /\ Unread /\ script' = script
      /\ left' = left /\ units' = units - 1
  BY <1>3 DEF SendBody, LosePatience, SendUnit, Unread
<1>5. IF units = 1
        THEN sending' = sending + 1 /\ stage' = "pad"
        ELSE stage' = stage /\ sending' = sending
  BY <1>3 DEF SendUnit, NextRequest
<1>6. Token("body") \in Tokens /\ Token("body").cut = FALSE
  BY <1>2 DEF Token, Tokens
<1>7. Link(script, Here, Token("body"), Here')
  BY <1>1, <1>2, <1>4, <1>5, HereFields DEF Link, Sends, Token, Start
<1>8. WellPlaced(script, Here)'
  BY <1>1, <1>2, <1>4, <1>5 DEF WellPlaced, Here, At, Place
<1> QED BY <1>3, <1>4, <1>6, <1>7, <1>8 DEF Advances, SendUnit, Send

-----------------------------------------------------------------------------
(* The invariant. *)

\* Where the loop stands: what it has read of a request is what the client had
\* sent of it when it was at p.
Reads(p) ==
  \/ spc = "line" /\ p.stage \in {"pad", "line"} /\ p.of = Len(handled) + 1
  \/ /\ spc = "headers" /\ p.stage = "headers" /\ taken = <<>>
     /\ p.of = now.of /\ now.of = Len(handled) + 1
     /\ now.length = IF "length" \in script[now.of].headers \ p.left
                       THEN script[now.of].body ELSE 0
     /\ now.seen = script[now.of].headers \ p.left
  \/ /\ spc \in {"continue", "body"} /\ now.of = Len(handled) + 1
     /\ spc = "continue" => taken = <<>>
     /\ now.length = script[now.of].body /\ Len(taken) <= now.length
     /\ \A k \in 1..Len(taken) : taken[k] = now.of
     /\ p = IF Len(taken) = now.length THEN Start(now.of + 1)
            ELSE At(now.of, "body", {}, now.length - Len(taken))
     /\ now.seen = script[now.of].headers
  \/ /\ spc = "answer" /\ now.of = Len(handled) /\ p = Start(now.of + 1)
     /\ now.seen = script[now.of].headers

\* The loop has read the end of a stream that was cut: the request it is about
\* is the last, and has no body.
ReadsBroken ==
  /\ hungUp /\ wire = <<>>
  /\ \/ /\ spc \in {"headers", "continue", "body"} /\ taken = <<>>
        /\ now.of = sending /\ sending = Len(handled) + 1
     \/ spc = "answer" /\ now.of = Len(handled) /\ sending = Len(handled)
     \/ spc = "line" /\ sending = Len(handled)

FollowsStream ==
  \/ spc = "closed" \/ ReadsBroken
  \/ \E st : Way(script, wire, st, Here) /\ Reads(st[0])

NowInScript ==
  spc \in {"headers", "continue", "body", "answer"} => now.of \in 1..Len(script)

CutIsLast == \A k \in 1..Len(wire) : wire[k].cut => hungUp /\ k = Len(wire)

Whole(k) ==
  \/ handled[k].body = BodyOf(k)
  \/ hungUp /\ k = sending /\ handled[k].body = <<>>

HandledInOrder == \A k \in 1..Len(handled) : handled[k].of = k /\ Whole(k)

IsAnswer(m, i) == m.kind = "answer" /\ m.of = i

\* The answers among the messages told are those to the first n requests.
AnswersUpTo(told, n) ==
  /\ \A i \in 1..n : \E k \in 1..Len(told) : IsAnswer(told[k], i)
  /\ \A k \in 1..Len(told) : \A i \in Nat : IsAnswer(told[k], i) =>
       /\ i <= n
       /\ \A j \in 1..(i - 1) : \E m \in 1..(k - 1) : IsAnswer(told[m], j)
       /\ \A m \in 1..(k - 1) : \A j \in Nat : IsAnswer(told[m], j) => j < i

AnswersFollow ==
  \E n \in Nat :
    /\ n \in {Len(handled) - 1, Len(handled)}
    /\ spc = "answer" => n = Len(handled) - 1
    /\ spc \notin {"answer", "closed"} => n = Len(handled)
    /\ AnswersUpTo(heard \o replies, n)

StreamInv ==
  /\ MitmTypeOK /\ WellPlaced(script, Here)
  /\ NowInScript /\ CutIsLast /\ FollowsStream
  /\ HandledInOrder /\ AnswersFollow

\* The loop is never ahead of the client.
SentUpTo ==
  /\ \A k \in 1..Len(wire) : wire[k].of <= sending
  /\ spc \in {"headers", "continue", "body"} => now.of <= sending

\* Where a body is read the client was told to send it.
ContinueTold ==
  spc = "body" /\ "expect" \in now.seen =>
    \E k \in 1..Len(heard \o replies) :
      (heard \o replies)[k] = [kind |-> "continue", of |-> now.of]

\* A loop that is over while the client is there has answered a request that asked
\* for it, and all before.
ClosedForCause ==
  spc = "closed" /\ ~hungUp =>
    /\ Len(handled) \in 1..Len(script) /\ "close" \in script[Len(handled)].headers
    /\ AnswersUpTo(heard \o replies, Len(handled))

MitmInv == StreamInv /\ SentUpTo /\ ContinueTold /\ ClosedForCause

\* What the client does leaves the loop where it is.
LEMMA ReadsSame ==
  ASSUME NEW p, Reads(p), UNCHANGED <<script, spc, now, taken, handled>>
  PROVE  Reads(p)'
<1>1. /\ script' = script /\ spc' = spc /\ now' = now /\ taken' = taken
      /\ handled' = handled
  OBVIOUS
<1> QED BY <1>1 DEF Reads

\* A connection starts in it.
LEMMA StreamInvInit ==
  ASSUME MitmInit
  PROVE  StreamInv
<1>1. script \in Seq(HttpRequest) /\ Len(script) <= MaxRequests
  <2>1. PICK n \in 0..MaxRequests : script \in [1..n -> HttpRequest]
    BY DEF MitmInit
  <2>2. n \in Nat /\ MaxRequests \in Nat
    BY <2>1, BoundAssumption
  <2>3. script \in Seq(HttpRequest) /\ Len(script) = n
    BY <2>1, <2>2
  <2> QED BY <2>1, <2>2, <2>3
<1>2. /\ sending = 1 /\ stage = "pad" /\ left = {} /\ units = 0 /\ hungUp = FALSE
      /\ wire = <<>> /\ spc = "line" /\ now = NoRequest /\ taken = <<>>
      /\ handled = <<>> /\ replies = <<>> /\ heard = <<>>
  BY DEF MitmInit
<1>3. MitmTypeOK
  <2>1. /\ Len(script) \in Nat /\ 0 \in 0..Len(script) /\ 1 \in 1..(Len(script) + 1)
        /\ 0 \in 0..MaxBody
    BY <1>1, BoundAssumption
  <2>2. \A S : <<>> \in Seq(S)
    OBVIOUS
  <2>3. /\ now \in [of : 0..Len(script), seen : SUBSET HeaderNames, length : 0..MaxBody]
        /\ left \subseteq HeaderNames
    BY <1>2, <2>1 DEF NoRequest
  <2> QED BY <1>1, <1>2, <2>1, <2>2, <2>3 DEF MitmTypeOK
<1>4. WellPlaced(script, Here)
  BY <1>1, <1>2 DEF WellPlaced, Here, At, Place
<1>5. NowInScript /\ CutIsLast /\ HandledInOrder
  BY <1>2 DEF NowInScript, CutIsLast, HandledInOrder
<1>6. FollowsStream
  <2> DEFINE st == [k \in {0} |-> Here]
  <2>1. st[0] = Here /\ Len(wire) = 0
    BY <1>2
  <2> HIDE DEF st
  <2>2. Way(script, wire, st, Here)
    BY <1>4, <2>1 DEF Way
  <2>3. Reads(Here)
    BY <1>2, HereFields DEF Reads
  <2> QED BY <2>1, <2>2, <2>3 DEF FollowsStream
<1>7. AnswersFollow
  <2>1. heard \o replies = <<>> /\ Len(handled) = 0 /\ Len(heard \o replies) = 0
    BY <1>2
  <2>2. AnswersUpTo(heard \o replies, 0)
    BY <2>1 DEF AnswersUpTo
  <2> QED BY <1>2, <2>1, <2>2 DEF AnswersFollow
<1> QED BY <1>3, <1>4, <1>5, <1>6, <1>7 DEF StreamInv

\* The client goes on, and the way to where it is with it.
LEMMA AdvancesKeeps ==
  ASSUME StreamInv, Advances
  PROVE  StreamInv'
<1> USE ScriptFacts DEF StreamInv
<1>1. /\ script' = script /\ spc' = spc /\ now' = now /\ taken' = taken
      /\ handled' = handled /\ replies' = replies /\ heard' = heard
      /\ hungUp = FALSE /\ hungUp' = FALSE
  BY DEF Advances, Unread, serverVars, MitmTypeOK
<1>2. PICK t \in Tokens : /\ t.cut = FALSE /\ wire' = Append(wire, t)
                         /\ Link(script, Here, t, Here')
  BY DEF Advances
<1>3. WellPlaced(script, Here)' /\ WellPlaced(script, Here')
  BY <1>1 DEF Advances
<1>4. wire \in Seq(Tokens)
  BY DEF MitmTypeOK, Tokens
<1>5. wire' \in Seq(Tokens)
  BY <1>2, <1>4, AppendProperties
<1>6. MitmTypeOK'
  <2>1. /\ sending' \in 1..(Len(script) + 1)
        /\ stage' \in {"pad", "line", "headers", "body"}
        /\ left' \subseteq HeaderNames
        /\ units' \in Nat
    BY <1>3, HereFields DEF WellPlaced, Place, At
  <2>2. units' \in 0..MaxBody
    <3>1. stage' # "body" => units' = 0
      BY <1>3, HereFields DEF WellPlaced, At
    <3>2. stage' = "body" => /\ sending' \in 1..Len(script)
                             /\ units' <= script[sending'].body
      BY <1>3, <2>1, HereFields DEF WellPlaced, At
    <3>3. MaxBody \in Nat
      BY BoundAssumption
    <3> QED BY <2>1, <3>1, <3>2, <3>3, SMTT(30) DEF MitmTypeOK
  <2> QED BY <1>1, <1>5, <2>1, <2>2 DEF MitmTypeOK, Tokens
<1>7. NowInScript' /\ AnswersFollow'
  BY <1>1 DEF NowInScript, AnswersFollow
<1>8. CutIsLast'
  <2>1. \A k \in 1..Len(wire) : ~wire[k].cut
    BY <1>1 DEF CutIsLast
  <2>2. \A k \in 1..Len(wire') : ~wire'[k].cut
    BY <1>2, <1>4, <2>1, AppendProperties
  <2> QED BY <2>2 DEF CutIsLast
<1>9. HandledInOrder'
  BY <1>1 DEF HandledInOrder, Whole, BodyOf
<1>10. FollowsStream'
  <2>1. CASE spc = "closed"
    BY <1>1, <2>1 DEF FollowsStream
  <2>2. CASE \E st : Way(script, wire, st, Here) /\ Reads(st[0])
    <3>1. PICK st : Way(script, wire, st, Here) /\ Reads(st[0])
      BY <2>2
    <3>2. PICK st2 : Way(script, wire', st2, Here') /\ st2[0] = st[0]
      <4>1. /\ Way(script, Append(wire, t), Appended(st, Len(wire), Here'), Here')
            /\ Appended(st, Len(wire), Here')[0] = st[0]
        BY <1>2, <1>3, <1>4, <3>1, WayAppended
      <4> QED BY <1>2, <4>1, Zenon
    <3>3. Reads(st2[0])
      BY <3>1, <3>2
    <3>4. Reads(st2[0])'
      BY <1>1, <3>3, ReadsSame
    <3>5. Way(script, wire, st2, Here)'
      BY <1>1, <3>2
    <3> QED BY <3>4, <3>5 DEF FollowsStream
  <2>3. ~ReadsBroken
    BY <1>1 DEF ReadsBroken
  <2> QED BY <2>1, <2>2, <2>3 DEF FollowsStream
<1> QED BY <1>3, <1>6, <1>7, <1>8, <1>9, <1>10

-----------------------------------------------------------------------------
(* The messages told. *)

Messages == [kind : {"continue", "answer"}, of : 1..Len(script)]

\* A message that is no answer answers nothing ...
LEMMA TellsNothing ==
  ASSUME NEW S, NEW told \in Seq(S), NEW n \in Nat, AnswersUpTo(told, n),
         NEW m \in S, m.kind # "answer"
  PROVE  AnswersUpTo(Append(told, m), n)
<1> DEFINE new == Append(told, m)
<1>1. /\ Len(told) \in Nat /\ Len(new) = Len(told) + 1 /\ new[Len(told) + 1] = m
      /\ \A k \in 1..Len(told) : new[k] = told[k]
  BY AppendProperties
<1> HIDE DEF new
<1>2. \A k \in 1..Len(new) : k \in 1..Len(told) \/ k = Len(told) + 1
  BY <1>1
<1>3. \A k \in 1..Len(told) : k \in 1..Len(new)
  BY <1>1
<1>4. \A k \in 1..Len(new) : \A i : IsAnswer(new[k], i) =>
        k \in 1..Len(told) /\ IsAnswer(told[k], i)
  BY <1>1, <1>2 DEF IsAnswer
<1>5. \A k \in 1..Len(told) : \A i : IsAnswer(told[k], i) => IsAnswer(new[k], i)
  BY <1>1 DEF IsAnswer
<1>6. \A i \in 1..n : \E k \in 1..Len(new) : IsAnswer(new[k], i)
  BY <1>3, <1>5 DEF AnswersUpTo
<1>7. ASSUME NEW k \in 1..Len(new), NEW i \in Nat, IsAnswer(new[k], i)
      PROVE  /\ i <= n
             /\ \A j \in 1..(i - 1) : \E l \in 1..(k - 1) : IsAnswer(new[l], j)
             /\ \A l \in 1..(k - 1) : \A j \in Nat : IsAnswer(new[l], j) => j < i
  <2>1. k \in 1..Len(told) /\ IsAnswer(told[k], i)
    BY <1>4, <1>7
  <2>2. \A l \in 1..(k - 1) : l \in 1..Len(told) /\ l \in 1..Len(new)
    BY <1>1, <2>1
  <2>3. /\ i <= n
        /\ \A j \in 1..(i - 1) : \E l \in 1..(k - 1) : IsAnswer(told[l], j)
        /\ \A l \in 1..(k - 1) : \A j \in Nat : IsAnswer(told[l], j) => j < i
    BY <2>1 DEF AnswersUpTo
  <2>4. \A j \in 1..(i - 1) : \E l \in 1..(k - 1) : IsAnswer(new[l], j)
    BY <1>5, <2>2, <2>3
  <2>5. \A l \in 1..(k - 1) : \A j \in Nat : IsAnswer(new[l], j) => j < i
    BY <1>4, <2>2, <2>3
  <2> QED BY <2>3, <2>4, <2>5
<1>8. AnswersUpTo(new, n)
  BY <1>6, <1>7 DEF AnswersUpTo
<1> QED BY <1>8 DEF new

\* ... and the answer to the next request is the next answer.
LEMMA TellsNext ==
  ASSUME NEW S, NEW told \in Seq(S), NEW n \in Nat, AnswersUpTo(told, n),
         NEW m \in S, m.kind = "answer", m.of = n + 1
  PROVE  AnswersUpTo(Append(told, m), n + 1)
<1> DEFINE new == Append(told, m)
<1>1. /\ Len(told) \in Nat /\ Len(new) = Len(told) + 1 /\ new[Len(told) + 1] = m
      /\ \A k \in 1..Len(told) : new[k] = told[k]
  BY AppendProperties
<1> HIDE DEF new
<1>2. \A k \in 1..Len(new) : k \in 1..Len(told) \/ k = Len(told) + 1
  BY <1>1
<1>3. \A k \in 1..Len(told) : k \in 1..Len(new)
  BY <1>1
<1>4. \A k \in 1..Len(told) : \A i : IsAnswer(told[k], i) <=> IsAnswer(new[k], i)
  BY <1>1 DEF IsAnswer
<1>5. IsAnswer(new[Len(told) + 1], n + 1) /\ Len(told) + 1 \in 1..Len(new)
  BY <1>1 DEF IsAnswer
<1>6. \A i \in 1..(n + 1) : \E k \in 1..Len(new) : IsAnswer(new[k], i)
  <2> TAKE i \in 1..(n + 1)
  <2>1. CASE i = n + 1
    BY <1>5, <2>1
  <2>2. CASE i # n + 1
    <3>1. i \in 1..n
      BY <2>2
    <3> QED BY <1>3, <1>4, <3>1 DEF AnswersUpTo
  <2> QED BY <2>1, <2>2
<1>7. ASSUME NEW k \in 1..Len(new), NEW i \in Nat, IsAnswer(new[k], i)
      PROVE  /\ i <= n + 1
             /\ \A j \in 1..(i - 1) : \E l \in 1..(k - 1) : IsAnswer(new[l], j)
             /\ \A l \in 1..(k - 1) : \A j \in Nat : IsAnswer(new[l], j) => j < i
  <2>1. CASE k \in 1..Len(told)
    <3>1. \A l \in 1..(k - 1) : l \in 1..Len(told)
      BY <1>1, <2>1
    <3>2. IsAnswer(told[k], i)
      BY <1>4, <1>7, <2>1
    <3>3. /\ i <= n
          /\ \A j \in 1..(i - 1) : \E l \in 1..(k - 1) : IsAnswer(told[l], j)
          /\ \A l \in 1..(k - 1) : \A j \in Nat : IsAnswer(told[l], j) => j < i
      BY <2>1, <3>2 DEF AnswersUpTo
    <3>4. \A j \in 1..(i - 1) : \E l \in 1..(k - 1) : IsAnswer(new[l], j)
      BY <1>4, <3>1, <3>3
    <3>5. \A l \in 1..(k - 1) : \A j \in Nat : IsAnswer(new[l], j) => j < i
      BY <1>4, <3>1, <3>3
    <3> QED BY <3>3, <3>4, <3>5
  <2>2. CASE k = Len(told) + 1
    <3>1. i = n + 1 /\ i - 1 = n /\ k - 1 = Len(told)
      BY <1>1, <1>7, <2>2 DEF IsAnswer
    <3>2. \A j \in 1..(i - 1) : \E l \in 1..(k - 1) : IsAnswer(new[l], j)
      BY <1>4, <3>1 DEF AnswersUpTo
    <3>3. \A l \in 1..Len(told) : \A j \in Nat : IsAnswer(told[l], j) => j <= n
      BY DEF AnswersUpTo
    <3>4. \A l \in 1..(k - 1) : \A j \in Nat : IsAnswer(new[l], j) => j < i
      BY <1>4, <3>1, <3>3
    <3> QED BY <3>1, <3>2, <3>4
  <2> QED BY <1>2, <2>1, <2>2
<1>8. AnswersUpTo(new, n + 1)
  BY <1>6, <1>7 DEF AnswersUpTo
<1> QED BY <1>8 DEF new

\* Whether the client has read a message or not, it was told.
LEMMA ToldAppended ==
  ASSUME NEW S, NEW h \in Seq(S), NEW r \in Seq(S), NEW m \in S
  PROVE  h \o Append(r, m) = Append(h \o r, m)
<1>1. /\ Append(r, m) \in Seq(S) /\ h \o r \in Seq(S)
      /\ h \o Append(r, m) \in Seq(S) /\ Append(h \o r, m) \in Seq(S)
  BY AppendProperties, ConcatProperties
<1> QED BY <1>1, SeqEqual, AppendProperties, ConcatProperties

LEMMA ToldHeard ==
  ASSUME NEW S, NEW h \in Seq(S), NEW r \in Seq(S), r # <<>>
  PROVE  /\ Append(h, Head(r)) \o Tail(r) = h \o r
         /\ Append(h, Head(r)) \in Seq(S) /\ Tail(r) \in Seq(S)
<1>1. /\ Head(r) \in S /\ Tail(r) \in Seq(S) /\ Append(h, Head(r)) \in Seq(S)
      /\ Len(Append(h, Head(r))) = Len(h) + 1
  BY HeadTailProperties, AppendProperties
<1>2. Append(h, Head(r)) \o Tail(r) \in Seq(S) /\ h \o r \in Seq(S)
  BY <1>1, ConcatProperties
<1>3. Len(Append(h, Head(r)) \o Tail(r)) = Len(h \o r)
  BY <1>1, ConcatProperties, HeadTailProperties
<1>4. \A k \in 1..Len(h \o r) : (Append(h, Head(r)) \o Tail(r))[k] = (h \o r)[k]
  BY <1>1, <1>3, ConcatProperties, AppendProperties, HeadTailProperties
<1> QED BY <1>1, <1>2, <1>3, <1>4, SeqEqual

-----------------------------------------------------------------------------
(* The client reads, and hangs up. *)

LEMMA HearKeeps ==
  ASSUME StreamInv, Hear
  PROVE  StreamInv'
<1> USE DEF StreamInv
<1>1. /\ script' = script /\ sending' = sending /\ stage' = stage /\ left' = left
      /\ units' = units /\ hungUp' = hungUp /\ wire' = wire
      /\ spc' = spc /\ now' = now /\ taken' = taken /\ handled' = handled
  BY DEF Hear, clientVars, serverVars
<1>2. heard \in Seq(Messages) /\ replies \in Seq(Messages) /\ replies # <<>>
  BY DEF MitmTypeOK, Messages, Hear
<1>3. /\ heard' \o replies' = heard \o replies
      /\ heard' \in Seq(Messages) /\ replies' \in Seq(Messages)
  BY <1>2, ToldHeard DEF Hear
<1>4. MitmTypeOK'
  BY <1>1, <1>3 DEF MitmTypeOK, Messages
<1>5. Here' = Here
  BY <1>1 DEF Here
<1>6. WellPlaced(script, Here)' /\ NowInScript' /\ CutIsLast'
  BY <1>1, <1>5 DEF NowInScript, CutIsLast
<1>7. FollowsStream'
  <2>1. CASE spc = "closed"
    BY <1>1, <2>1 DEF FollowsStream
  <2>2. CASE ReadsBroken
    BY <1>1, <2>2 DEF FollowsStream, ReadsBroken
  <2>3. CASE \E st : Way(script, wire, st, Here) /\ Reads(st[0])
    <3>1. PICK st : Way(script, wire, st, Here) /\ Reads(st[0])
      BY <2>3
    <3>2. Reads(st[0])'
      BY <1>1, <3>1, ReadsSame
    <3>3. Way(script, wire, st, Here)'
      BY <1>1, <1>5, <3>1
    <3> QED BY <3>2, <3>3 DEF FollowsStream
  <2> QED BY <2>1, <2>2, <2>3 DEF FollowsStream
<1>8. HandledInOrder'
  BY <1>1 DEF HandledInOrder, Whole, BodyOf
<1>9. AnswersFollow'
  BY <1>1, <1>3 DEF AnswersFollow
<1> QED BY <1>4, <1>6, <1>7, <1>8, <1>9

LEMMA HangUpKeeps ==
  ASSUME StreamInv, HangUp
  PROVE  StreamInv'
<1> USE ScriptFacts DEF StreamInv
<1>1. /\ script' = script /\ sending' = sending /\ stage' = stage /\ left' = left
      /\ units' = units /\ hungUp = FALSE /\ hungUp' = TRUE
      /\ spc' = spc /\ now' = now /\ taken' = taken /\ handled' = handled
      /\ replies' = replies /\ heard' = heard
  BY DEF HangUp, serverVars, MitmTypeOK
<1>2. Here' = Here
  BY <1>1 DEF Here
<1>3. wire \in Seq(Tokens) /\ \A k \in 1..Len(wire) : ~wire[k].cut
  BY <1>1 DEF MitmTypeOK, Tokens, CutIsLast
<1>4. \/ wire' = wire
      \/ \E t \in Tokens : t.cut /\ wire' = Append(wire, t) /\ Link(script, Here, t, Here)
  <2>1. SUFFICES ASSUME wire' # wire
                 PROVE  \E t \in Tokens : /\ t.cut /\ wire' = Append(wire, t)
                                          /\ Link(script, Here, t, Here)
    OBVIOUS
  <2>2. sending \in 1..Len(script) /\ stage # "body"
    BY <2>1 DEF HangUp
  <2>3. PICK p \in IF stage = "headers" THEN IF left = {} THEN {"blank"} ELSE left
                   ELSE {"line"} :
          Send(CutToken(p))
    <3>1. CASE stage = "headers"
      BY <2>1, <3>1, Zenon DEF HangUp
    <3>2. CASE stage # "headers"
      BY <2>1, <3>2, Zenon DEF HangUp
    <3> QED BY <3>1, <3>2
  <2> DEFINE t == [part |-> p, of |-> sending, cut |-> TRUE]
  <2>4. CutToken(p) = t
    BY DEF CutToken
  <2>5. wire' = Append(wire, t)
    BY <2>3, <2>4 DEF Send
  <2>6. left \subseteq HeaderNames /\ stage \in {"pad", "line", "headers", "body"}
    BY DEF MitmTypeOK
  <2>7. t \in Tokens /\ t.cut
    BY <2>2, <2>3, <2>6 DEF Tokens
  <2>8. Link(script, Here, t, Here)
    BY <2>2, <2>3, <2>6, HereFields DEF Link, Cuts
  <2> QED BY <2>5, <2>7, <2>8
<1>5. wire' \in Seq(Tokens)
  BY <1>3, <1>4, AppendProperties
<1>6. MitmTypeOK'
  BY <1>1, <1>5 DEF MitmTypeOK, Tokens
<1>7. WellPlaced(script, Here)' /\ NowInScript' /\ AnswersFollow'
  BY <1>1, <1>2 DEF NowInScript, AnswersFollow
<1>8. CutIsLast'
  <2>1. CASE wire' = wire
    BY <1>3, <2>1 DEF CutIsLast
  <2>2. CASE \E t \in Tokens : t.cut /\ wire' = Append(wire, t)
    <3>1. Len(wire') = Len(wire) + 1 /\ \A k \in 1..Len(wire) : wire'[k] = wire[k]
      BY <1>3, <2>2, AppendProperties
    <3>2. \A k \in 1..Len(wire') : k \in 1..Len(wire) \/ k = Len(wire')
      BY <1>3, <3>1
    <3> QED BY <1>1, <1>3, <3>1, <3>2 DEF CutIsLast
  <2> QED BY <1>4, <2>1, <2>2
<1>9. FollowsStream'
  <2>1. CASE spc = "closed"
    BY <1>1, <2>1 DEF FollowsStream
  <2>2. CASE \E st : Way(script, wire, st, Here) /\ Reads(st[0])
    <3>1. PICK st : Way(script, wire, st, Here) /\ Reads(st[0])
      BY <2>2
    <3>2. \E st2 : Way(script, wire', st2, Here) /\ st2[0] = st[0]
      <4>1. CASE wire' = wire
        BY <3>1, <4>1
      <4>2. CASE wire' # wire
        <5>1. PICK t \in Tokens : wire' = Append(wire, t) /\ Link(script, Here, t, Here)
          BY <1>4, <4>2
        <5>2. /\ Way(script, Append(wire, t), Appended(st, Len(wire), Here), Here)
              /\ Appended(st, Len(wire), Here)[0] = st[0]
          BY <1>3, <3>1, <5>1, WayAppended
        <5> QED BY <5>1, <5>2, Zenon
      <4> QED BY <4>1, <4>2
    <3>3. PICK st2 : Way(script, wire', st2, Here) /\ st2[0] = st[0]
      BY <3>2
    <3>4. Reads(st2[0])
      BY <3>1, <3>3
    <3>5. Reads(st2[0])'
      BY <1>1, <3>4, ReadsSame
    <3>6. Way(script, wire, st2, Here)'
      BY <1>1, <1>2, <3>3
    <3> QED BY <3>5, <3>6 DEF FollowsStream
  <2>3. ~ReadsBroken
    BY <1>1 DEF ReadsBroken
  <2> QED BY <2>1, <2>2, <2>3 DEF FollowsStream
<1>10. HandledInOrder'
  BY <1>1 DEF HandledInOrder, Whole, BodyOf
<1> QED BY <1>6, <1>7, <1>8, <1>9, <1>10

-----------------------------------------------------------------------------
(* The steps of the loop. *)

\* The loop reads a token: it is the next one of the way, and if it was cut,
\* there is nothing behind it.
LEMMA ReadsToken ==
  ASSUME StreamInv, wire # <<>>, spc # "closed", Take
  PROVE  /\ wire' \in Seq(Tokens) /\ Head(wire) \in Tokens
         /\ \E p, q, st :
              /\ Reads(p) /\ WellPlaced(script, p) /\ WellPlaced(script, q)
              /\ Link(script, p, Head(wire), q)
              /\ Way(script, wire', st, Here) /\ st[0] = q
              /\ Head(wire).cut => hungUp /\ wire' = <<>> /\ p = Here /\ q = Here
         /\ \A k \in 1..Len(wire') : wire'[k].cut => hungUp /\ k = Len(wire')
<1> USE DEF StreamInv
<1>1. wire \in Seq(Tokens) /\ wire' = Tail(wire)
  BY DEF MitmTypeOK, Tokens, Take
<1>2. /\ wire' \in Seq(Tokens) /\ Len(wire') = Len(wire) - 1 /\ Head(wire) \in Tokens
      /\ \A k \in 1..Len(wire') : wire'[k] = wire[k + 1]
      /\ Head(wire) = wire[1] /\ Len(wire) \in Nat \ {0} /\ Len(wire') \in Nat
  BY <1>1, HeadTailProperties, EmptySeq, LenProperties
<1>3. \A k \in 1..Len(wire') : wire'[k].cut => hungUp /\ k = Len(wire')
  <2> TAKE k \in 1..Len(wire')
  <2>1. k + 1 \in 1..Len(wire) /\ wire'[k] = wire[k + 1]
    BY <1>2
  <2>2. wire[k + 1].cut => hungUp /\ k + 1 = Len(wire)
    BY <2>1 DEF CutIsLast
  <2> QED BY <1>2, <2>1, <2>2
<1>4. PICK st : Way(script, wire, st, Here) /\ Reads(st[0])
  BY DEF FollowsStream, ReadsBroken
<1>5. /\ Way(script, Tail(wire), Shifted(st, Len(wire)), Here)
      /\ Shifted(st, Len(wire))[0] = st[1]
      /\ Link(script, st[0], Head(wire), st[1])
      /\ WellPlaced(script, st[0]) /\ WellPlaced(script, st[1])
      /\ Len(wire) = 1 => st[1] = Here
  BY <1>1, <1>4, WayShifted
<1>6. Head(wire).cut => hungUp /\ wire' = <<>> /\ st[0] = Here /\ st[1] = Here
  <2> HAVE Head(wire).cut
  <2>1. hungUp /\ Len(wire) = 1
    BY <1>2 DEF CutIsLast
  <2>2. Len(wire') = 0
    BY <1>2, <2>1
  <2>3. wire' = <<>>
    BY <1>2, <2>2, EmptySeq
  <2> QED BY <1>5, <2>1, <2>3 DEF Link
<1>7. \E p, q, st1 :
        /\ Reads(p) /\ WellPlaced(script, p) /\ WellPlaced(script, q)
        /\ Link(script, p, Head(wire), q)
        /\ Way(script, wire', st1, Here) /\ st1[0] = q
        /\ Head(wire).cut => hungUp /\ wire' = <<>> /\ p = Here /\ q = Here
  BY <1>1, <1>4, <1>5, <1>6, Zenon
<1> QED BY <1>2, <1>3, <1>7

\* What the loop does leaves the client where it is, and the requests handled.
LEMMA LoopFrame ==
  ASSUME StreamInv, UNCHANGED <<clientVars, handled>>
  PROVE  /\ Here' = Here /\ WellPlaced(script, Here)' /\ HandledInOrder'
         /\ script' = script /\ hungUp' = hungUp /\ sending' = sending
         /\ handled' = handled
<1>1. /\ script' = script /\ sending' = sending /\ stage' = stage /\ left' = left
      /\ units' = units /\ hungUp' = hungUp /\ handled' = handled
  BY DEF clientVars
<1>2. Here' = Here
  BY <1>1 DEF Here
<1> QED BY <1>1, <1>2 DEF StreamInv, HandledInOrder, Whole, BodyOf

LEMMA SendContinueKeeps ==
  ASSUME StreamInv, SendContinue
  PROVE  StreamInv'
<1> USE ScriptFacts DEF StreamInv
<1>1. /\ spc = "continue" /\ UNCHANGED <<clientVars, handled>>
      /\ wire' = wire /\ now' = now /\ taken' = taken /\ heard' = heard
      /\ spc' \in {"body", "closed"}
      /\ \/ replies' = Append(replies, [kind |-> "continue", of |-> now.of])
         \/ replies' = replies
  BY DEF SendContinue, Writes, Goes
<1>2. /\ Here' = Here /\ WellPlaced(script, Here)' /\ HandledInOrder'
      /\ script' = script /\ hungUp' = hungUp /\ sending' = sending
      /\ handled' = handled
  BY <1>1, LoopFrame
<1>3. now.of \in 1..Len(script)
  BY <1>1 DEF NowInScript
<1> DEFINE m == [kind |-> "continue", of |-> now.of]
<1>4. heard \in Seq(Messages) /\ replies \in Seq(Messages) /\ m \in Messages
      /\ heard \o replies \in Seq(Messages)
  BY <1>3, ConcatProperties DEF MitmTypeOK, Messages
<1>5. replies' \in Seq(Messages)
  <2>1. Append(replies, m) \in Seq(Messages)
    BY <1>4, AppendProperties, Zenon
  <2>2. replies' = Append(replies, m) \/ replies' = replies
    BY <1>1
  <2> HIDE DEF m, StreamInv
  <2> QED BY <1>4, <2>1, <2>2, Zenon
<1>6. MitmTypeOK'
  BY <1>1, <1>2, <1>5 DEF MitmTypeOK, Messages, clientVars
<1>7. NowInScript' /\ CutIsLast'
  BY <1>1, <1>2, <1>3 DEF NowInScript, CutIsLast
<1>8. FollowsStream'
  <2>1. CASE spc' = "closed"
    BY <2>1 DEF FollowsStream
  <2>2. CASE ReadsBroken /\ spc' = "body"
    BY <1>1, <1>2, <2>2 DEF FollowsStream, ReadsBroken
  <2>3. CASE spc' = "body" /\ \E st : Way(script, wire, st, Here) /\ Reads(st[0])
    <3>1. PICK st : Way(script, wire, st, Here) /\ Reads(st[0])
      BY <2>3
    <3>2. Reads(st[0])'
      BY <1>1, <1>2, <2>3, <3>1 DEF Reads
    <3>3. Way(script, wire, st, Here)'
      BY <1>1, <1>2, <3>1
    <3> QED BY <3>2, <3>3 DEF FollowsStream
  <2> QED BY <1>1, <2>1, <2>2, <2>3 DEF FollowsStream
<1>9. AnswersFollow'
  <2>1. PICK n \in Nat : n = Len(handled) /\ AnswersUpTo(heard \o replies, n)
    BY <1>1 DEF AnswersFollow
  <2>2. AnswersUpTo((heard \o replies)', n)
    <3>1. CASE replies' = replies
      BY <1>1, <2>1, <3>1
    <3>2. CASE replies' = Append(replies, m)
      <4>1. AnswersUpTo(Append(heard \o replies, m), n)
        BY <1>4, <2>1, TellsNothing
      <4>2. heard \o Append(replies, m) = Append(heard \o replies, m)
        BY <1>4, ToldAppended
      <4>3. heard' \o replies' = Append(heard \o replies, m)
        BY <1>1, <3>2, <4>2, Zenon
      <4> QED BY <4>1, <4>3, Zenon
    <3> QED BY <1>1, <3>1, <3>2
  <2> QED BY <1>1, <1>2, <2>1, <2>2 DEF AnswersFollow
<1> QED BY <1>2, <1>6, <1>7, <1>8, <1>9

LEMMA HandleKeeps ==
  ASSUME StreamInv, Handle
  PROVE  StreamInv'
<1> USE ScriptFacts DEF StreamInv
<1>1. /\ spc = "body" /\ spc' = "answer" /\ Len(taken) = now.length
      /\ handled' = Append(handled, [of |-> now.of, body |-> taken])
      /\ UNCHANGED <<script, sending, stage, left, units, hungUp>>
      /\ wire' = wire /\ now' = now /\ taken' = taken
      /\ replies' = replies /\ heard' = heard
  BY DEF Handle, clientVars, Goes
<1>2. Here' = Here
  BY <1>1 DEF Here
<1>3. now.of \in 1..Len(script)
  BY <1>1 DEF NowInScript
<1> DEFINE Done == [of : 1..Len(script), body : Seq(1..Len(script))]
           d == [of |-> now.of, body |-> taken]
<1>4. handled \in Seq(Done) /\ d \in Done
  BY <1>3 DEF MitmTypeOK
<1>5. d.of = now.of /\ d.body = taken
  OBVIOUS
<1> HIDE DEF d
<1>6. /\ handled' \in Seq(Done) /\ Len(handled') = Len(handled) + 1
      /\ handled'[Len(handled) + 1] = d /\ Len(handled) \in Nat
      /\ \A k \in 1..Len(handled) : handled'[k] = handled[k]
  BY <1>1, <1>4, AppendProperties DEF d
<1>7. MitmTypeOK'
  BY <1>1, <1>6 DEF MitmTypeOK
<1>8. WellPlaced(script, Here)' /\ NowInScript' /\ CutIsLast'
  BY <1>1, <1>2, <1>3 DEF NowInScript, CutIsLast
<1>9. now.of = Len(handled) + 1
  BY <1>1 DEF FollowsStream, ReadsBroken, Reads
<1>10. taken = BodyOf(now.of) \/ (hungUp /\ now.of = sending /\ taken = <<>>)
  <2>1. CASE ReadsBroken
    BY <1>1, <2>1 DEF ReadsBroken
  <2>2. CASE \E st : Way(script, wire, st, Here) /\ Reads(st[0])
    <3>1. /\ now.length = script[now.of].body
          /\ \A k \in 1..Len(taken) : taken[k] = now.of
      BY <1>1, <2>2 DEF Reads
    <3>2. taken \in Seq(1..Len(script))
      BY DEF MitmTypeOK
    <3>3. taken = [k \in 1..Len(taken) |-> taken[k]]
      BY <3>2
    <3> QED BY <1>1, <3>1, <3>3 DEF BodyOf
  <2> QED BY <1>1, <2>1, <2>2 DEF FollowsStream
<1>11. HandledInOrder'
  <2> SUFFICES ASSUME NEW k \in 1..Len(handled')
               PROVE  handled'[k].of = k /\ Whole(k)'
    BY DEF HandledInOrder
  <2>1. CASE k = Len(handled) + 1
    BY <1>1, <1>5, <1>6, <1>9, <1>10, <2>1 DEF Whole, BodyOf
  <2>2. CASE k # Len(handled) + 1
    <3>1. k \in 1..Len(handled) /\ handled'[k] = handled[k]
      BY <1>6, <2>2
    <3> QED BY <1>1, <3>1 DEF HandledInOrder, Whole, BodyOf
  <2> QED BY <2>1, <2>2
<1>12. FollowsStream'
  <2>1. CASE ReadsBroken
    BY <1>1, <1>6, <2>1 DEF FollowsStream, ReadsBroken
  <2>2. CASE \E st : Way(script, wire, st, Here) /\ Reads(st[0])
    <3>1. PICK st : Way(script, wire, st, Here) /\ Reads(st[0])
      BY <2>2
    <3>2. st[0] = Start(now.of + 1)
      BY <1>1, <3>1 DEF Reads
    <3>3. now.seen = script[now.of].headers
      BY <1>1, <3>1 DEF Reads
    <3>4. Reads(st[0])'
      BY <1>1, <1>6, <1>9, <3>2, <3>3 DEF Reads
    <3>5. Way(script, wire, st, Here)'
      BY <1>1, <1>2, <3>1
    <3> QED BY <3>4, <3>5 DEF FollowsStream
  <2> QED BY <1>1, <2>1, <2>2 DEF FollowsStream
<1>13. AnswersFollow'
  <2>1. PICK n \in Nat : n = Len(handled) /\ AnswersUpTo(heard \o replies, n)
    BY <1>1 DEF AnswersFollow
  <2> QED BY <1>1, <1>6, <2>1 DEF AnswersFollow
<1> QED BY <1>7, <1>8, <1>11, <1>12, <1>13

LEMMA RespondKeeps ==
  ASSUME StreamInv, Respond
  PROVE  StreamInv'
<1> USE ScriptFacts DEF StreamInv
<1>1. /\ spc = "answer" /\ UNCHANGED <<clientVars, handled>>
      /\ wire' = wire /\ now' = now /\ taken' = taken /\ heard' = heard
      /\ spc' \in {"line", "closed"}
      /\ \/ replies' = Append(replies, [kind |-> "answer", of |-> now.of])
         \/ replies' = replies /\ spc' = "closed"
  BY DEF Respond, Writes, Goes
<1>2. /\ Here' = Here /\ WellPlaced(script, Here)' /\ HandledInOrder'
      /\ script' = script /\ hungUp' = hungUp /\ sending' = sending
      /\ handled' = handled
  BY <1>1, LoopFrame
<1>3. now.of \in 1..Len(script)
  BY <1>1 DEF NowInScript
<1> DEFINE m == [kind |-> "answer", of |-> now.of]
<1>4. heard \in Seq(Messages) /\ replies \in Seq(Messages) /\ m \in Messages
      /\ heard \o replies \in Seq(Messages)
  BY <1>3, ConcatProperties DEF MitmTypeOK, Messages
<1>5. replies' \in Seq(Messages)
  <2>1. Append(replies, m) \in Seq(Messages)
    BY <1>4, AppendProperties, Zenon
  <2>2. replies' = Append(replies, m) \/ replies' = replies
    BY <1>1
  <2> HIDE DEF m, StreamInv
  <2> QED BY <1>4, <2>1, <2>2, Zenon
<1>6. MitmTypeOK'
  BY <1>1, <1>2, <1>5 DEF MitmTypeOK, Messages, clientVars
<1>7. NowInScript' /\ CutIsLast'
  BY <1>1, <1>2, <1>3 DEF NowInScript, CutIsLast
<1>8. now.of = Len(handled)
  BY <1>1 DEF FollowsStream, ReadsBroken, Reads
<1>9. FollowsStream'
  <2>1. CASE spc' = "closed"
    BY <2>1 DEF FollowsStream
  <2>2. CASE ReadsBroken /\ spc' = "line"
    BY <1>1, <1>2, <2>2 DEF FollowsStream, ReadsBroken
  <2>3. CASE spc' = "line" /\ \E st : Way(script, wire, st, Here) /\ Reads(st[0])
    <3>1. PICK st : Way(script, wire, st, Here) /\ Reads(st[0])
      BY <2>3
    <3>2. st[0] = Start(now.of + 1)
      BY <1>1, <3>1 DEF Reads
    <3>3. Reads(st[0])'
      BY <1>1, <1>2, <1>8, <2>3, <3>2 DEF Reads, Start, At
    <3>4. Way(script, wire, st, Here)'
      BY <1>1, <1>2, <3>1
    <3> QED BY <3>3, <3>4 DEF FollowsStream
  <2> QED BY <1>1, <2>1, <2>2, <2>3 DEF FollowsStream
<1>10. AnswersFollow'
  <2>1. PICK n \in Nat : n = Len(handled) - 1 /\ AnswersUpTo(heard \o replies, n)
    BY <1>1 DEF AnswersFollow
  <2>2. CASE replies' = replies /\ spc' = "closed"
    BY <1>1, <1>2, <2>1, <2>2 DEF AnswersFollow
  <2>3. CASE replies' = Append(replies, m)
    <3>1. AnswersUpTo(Append(heard \o replies, m), n + 1)
      <4>1. m.kind = "answer" /\ m.of = n + 1
        BY <1>3, <1>8, <2>1
      <4> HIDE DEF m
      <4> QED BY <1>4, <2>1, <4>1, TellsNext
    <3>2. AnswersUpTo((heard \o replies)', n + 1)
      <4>1. heard \o Append(replies, m) = Append(heard \o replies, m)
        BY <1>4, ToldAppended
      <4>2. heard' \o replies' = Append(heard \o replies, m)
        BY <1>1, <2>3, <4>1, Zenon
      <4> QED BY <3>1, <4>2, Zenon
    <3>3. n + 1 = Len(handled') /\ n + 1 \in Nat
      BY <1>2, <2>1
    <3> QED BY <1>1, <3>2, <3>3 DEF AnswersFollow
  <2> QED BY <1>1, <2>2, <2>3
<1> QED BY <1>2, <1>6, <1>7, <1>9, <1>10

\* Reading a line, nothing is told.
LEMMA AnswersFollowSame ==
  ASSUME AnswersFollow, UNCHANGED <<handled, heard, replies>>,
         spc \notin {"answer", "closed"}, spc' # "answer"
  PROVE  AnswersFollow'
BY DEF AnswersFollow

LEMMA ReadLineKeeps ==
  ASSUME StreamInv, ReadLine
  PROVE  StreamInv'
<1> USE ScriptFacts DEF StreamInv
<1>1. /\ spc = "line" /\ wire # <<>> /\ Take
      /\ UNCHANGED <<clientVars, handled>> /\ replies' = replies /\ heard' = heard
  BY DEF ReadLine
<1>2. /\ Here' = Here /\ WellPlaced(script, Here)' /\ HandledInOrder'
      /\ script' = script /\ hungUp' = hungUp /\ sending' = sending
      /\ handled' = handled
  BY <1>1, LoopFrame
<1>3. /\ wire' \in Seq(Tokens) /\ Head(wire) \in Tokens
      /\ \A k \in 1..Len(wire') : wire'[k].cut => hungUp /\ k = Len(wire')
  BY <1>1, ReadsToken
<1>4. PICK p, q, st :
        /\ Reads(p) /\ WellPlaced(script, p) /\ WellPlaced(script, q)
        /\ Link(script, p, Head(wire), q)
        /\ Way(script, wire', st, Here) /\ st[0] = q
        /\ Head(wire).cut => hungUp /\ wire' = <<>> /\ p = Here /\ q = Here
  BY <1>1, ReadsToken
<1>5. CutIsLast'
  BY <1>2, <1>3 DEF CutIsLast
<1>6. Way(script, wire, st, Here)'
  BY <1>2, <1>4
<1>7. /\ p.stage \in {"pad", "line"} /\ p.of = Len(handled) + 1
      /\ p.of \in 1..Len(script) /\ Head(wire).of = p.of
  BY <1>1, <1>4 DEF Reads, Link, WellPlaced, Place
<1>8. \/ Head(wire).part = "blank" /\ spc' = spc /\ now' = now /\ taken' = taken
      \/ /\ Head(wire).part = "line" /\ spc' = "headers" /\ taken' = <<>>
         /\ now' = [of |-> p.of, seen |-> {}, length |-> 0]
      \/ Head(wire).cut /\ spc' = "closed" /\ now' = now /\ taken' = taken
  BY <1>7 DEF ReadLine, StartRequest, BadLine, EndLoop, Goes, NoRequest
<1>9. MitmTypeOK'
  <2>1. /\ spc' \in {"line", "headers", "continue", "body", "answer", "closed"}
        /\ taken' \in Seq(1..Len(script))
        /\ now' \in [of : 0..Len(script), seen : SUBSET HeaderNames,
                     length : 0..MaxBody]
    <3>1. 0 \in 0..MaxBody /\ p.of \in 0..Len(script)
      BY <1>7, BoundAssumption
    <3>2. <<>> \in Seq(1..Len(script))
      OBVIOUS
    <3>3. /\ now \in [of : 0..Len(script), seen : SUBSET HeaderNames,
                     length : 0..MaxBody]
          /\ taken \in Seq(1..Len(script))
      BY DEF MitmTypeOK
    <3>4. CASE now' = now /\ taken' = taken /\ spc' \in {"line", "closed"}
      BY <3>3, <3>4
    <3>5. CASE /\ spc' = "headers" /\ taken' = <<>>
               /\ now' = [of |-> p.of, seen |-> {}, length |-> 0]
      BY <3>1, <3>2, <3>5
    <3> QED BY <1>1, <1>8, <3>4, <3>5
  <2> QED BY <1>1, <1>2, <1>3, <2>1 DEF MitmTypeOK, Tokens, clientVars
<1>10. AnswersFollow'
  BY <1>1, <1>2, <1>8, AnswersFollowSame
<1>11. NowInScript'
  BY <1>1, <1>2, <1>7, <1>8 DEF NowInScript
<1>12. FollowsStream'
  <2>1. CASE spc' = "closed"
    BY <2>1 DEF FollowsStream
  <2>2. CASE Head(wire).part = "blank" /\ spc' = spc
    <3>1. ~Head(wire).cut /\ q = At(p.of, "line", {}, 0)
      BY <1>4, <1>7, <2>2 DEF Link, Sends, Cuts
    <3>2. q.stage = "line" /\ q.of = Len(handled) + 1
      BY <1>7, <3>1 DEF At
    <3>3. Reads(q)'
      BY <1>1, <1>2, <2>2, <3>2 DEF Reads
    <3> QED BY <1>4, <1>6, <3>3 DEF FollowsStream
  <2>3. CASE /\ Head(wire).part = "line" /\ spc' = "headers" /\ taken' = <<>>
             /\ now' = [of |-> p.of, seen |-> {}, length |-> 0]
    <3>1. now'.of = p.of /\ now'.length = 0 /\ now'.seen = {}
      BY <2>3
    <3>2. CASE Head(wire).cut
      <4>1. hungUp /\ wire' = <<>> /\ p.of = sending
        BY <1>4, <3>2, HereFields
      <4> QED BY <1>2, <1>7, <2>3, <3>1, <4>1 DEF FollowsStream, ReadsBroken
    <3>3. CASE ~Head(wire).cut
      <4>1. q = At(p.of, "headers", script[p.of].headers, 0)
        BY <1>4, <1>7, <2>3, <3>3 DEF Link, Sends
      <4>2. q.stage = "headers" /\ q.of = p.of /\ q.left = script[p.of].headers
        BY <4>1 DEF At
      <4>3. script[p.of].headers \ q.left = {}
        BY <4>2
      <4>4. Reads(q)'
        BY <1>2, <1>7, <2>3, <3>1, <4>2, <4>3 DEF Reads
      <4> QED BY <1>4, <1>6, <4>4 DEF FollowsStream
    <3> QED BY <3>2, <3>3
  <2> QED BY <1>8, <2>1, <2>2, <2>3
<1> QED BY <1>2, <1>5, <1>9, <1>10, <1>11, <1>12

LEMMA ReadHeaderKeeps ==
  ASSUME StreamInv, ReadHeader
  PROVE  StreamInv'
<1> USE ScriptFacts DEF StreamInv
<1>1. /\ spc = "headers" /\ wire # <<>> /\ Take /\ taken' = taken
      /\ UNCHANGED <<clientVars, handled>> /\ replies' = replies /\ heard' = heard
  BY DEF ReadHeader
<1>2. /\ Here' = Here /\ WellPlaced(script, Here)' /\ HandledInOrder'
      /\ script' = script /\ hungUp' = hungUp /\ sending' = sending
      /\ handled' = handled
  BY <1>1, LoopFrame
<1>3. /\ wire' \in Seq(Tokens) /\ Head(wire) \in Tokens
      /\ \A k \in 1..Len(wire') : wire'[k].cut => hungUp /\ k = Len(wire')
  BY <1>1, ReadsToken
<1>4. PICK p, q, st :
        /\ Reads(p) /\ WellPlaced(script, p) /\ WellPlaced(script, q)
        /\ Link(script, p, Head(wire), q)
        /\ Way(script, wire', st, Here) /\ st[0] = q
        /\ Head(wire).cut => hungUp /\ wire' = <<>> /\ p = Here /\ q = Here
  BY <1>1, ReadsToken
<1>5. CutIsLast'
  BY <1>2, <1>3 DEF CutIsLast
<1>6. Way(script, wire, st, Here)'
  BY <1>2, <1>4
<1>7. /\ p.stage = "headers" /\ taken = <<>> /\ p.of = now.of
      /\ now.of = Len(handled) + 1
      /\ now.length = IF "length" \in script[now.of].headers \ p.left
                        THEN script[now.of].body ELSE 0
      /\ now.seen = script[now.of].headers \ p.left
      /\ p.of \in 1..Len(script) /\ Head(wire).of = p.of
      /\ p.left \subseteq script[p.of].headers
  BY <1>1, <1>4 DEF Reads, Link, WellPlaced, Place
<1>8. now \in [of : 0..Len(script), seen : SUBSET HeaderNames, length : 0..MaxBody]
  BY DEF MitmTypeOK
<1>9. CASE Head(wire).part = "blank"
  <2>1. spc' \in {"continue", "body"} /\ now' = now
    BY <1>9 DEF ReadHeader, AfterHeaders, Goes
  <2>2. MitmTypeOK'
    BY <1>1, <1>2, <1>3, <2>1 DEF MitmTypeOK, Tokens, clientVars
  <2>3. NowInScript' /\ AnswersFollow'
    BY <1>1, <1>2, <1>7, <2>1, AnswersFollowSame DEF NowInScript
  <2>4. FollowsStream'
    <3>1. CASE Head(wire).cut
      <4>1. hungUp /\ wire' = <<>> /\ p.of = sending
        BY <1>4, <3>1, HereFields
      <4> QED BY <1>1, <1>2, <1>7, <2>1, <4>1 DEF FollowsStream, ReadsBroken
    <3>2. CASE ~Head(wire).cut
      <4>1. "blank" \notin HeaderNames
        BY DEF HeaderNames
      <4>2. /\ p.left = {}
            /\ q = IF script[p.of].body = 0 THEN Start(p.of + 1)
                   ELSE At(p.of, "body", {}, script[p.of].body)
        BY <1>4, <1>7, <1>9, <3>2, <4>1 DEF Link, Sends
      <4>3. now.length = script[now.of].body /\ script[now.of].body \in Nat
        BY <1>7, <4>2
      <4>4. Len(taken) = 0
        BY <1>7
      <4>5. q = IF Len(taken) = now.length THEN Start(now.of + 1)
                ELSE At(now.of, "body", {}, now.length - Len(taken))
        BY <1>7, <4>2, <4>3, <4>4
      <4>6. now.seen = script[now.of].headers
        BY <1>7, <4>2
      <4>7. Reads(q)'
        BY <1>1, <1>2, <1>7, <2>1, <4>3, <4>4, <4>5, <4>6 DEF Reads
      <4> QED BY <1>4, <1>6, <4>7 DEF FollowsStream
    <3> QED BY <3>1, <3>2
  <2> QED BY <1>2, <1>5, <2>2, <2>3, <2>4
<1>10. CASE Head(wire).part # "blank"
  <2>1. spc' = "headers" /\ now' \in Noted(now, Head(wire))
    BY <1>1, <1>10 DEF ReadHeader
  <2>2. Head(wire).part \in p.left
    BY <1>4, <1>7, <1>10 DEF Link, Sends, Cuts
  <2>3. /\ now'.of = now.of
        /\ now' \in [of : 0..Len(script), seen : SUBSET HeaderNames,
                     length : 0..MaxBody]
        /\ ~Head(wire).cut =>
             /\ now'.length = IF Head(wire).part = "length"
                                THEN script[p.of].body ELSE now.length
             /\ now'.seen = now.seen \cup {Head(wire).part}
    <3>1. /\ now.of \in 0..Len(script) /\ now.seen \subseteq HeaderNames
          /\ now.length \in 0..MaxBody /\ p.left \subseteq HeaderNames
          /\ script[p.of].body \in 0..MaxBody /\ MaxBody \in Nat
      BY <1>4, <1>7, <1>8, BoundAssumption DEF WellPlaced, Place
    <3>2. CASE now' = now /\ Head(wire).cut
      BY <1>8, <3>2
    <3>3. CASE now' # now \/ ~Head(wire).cut
      <4> DEFINE lengths == IF Head(wire).part # "length" THEN {now.length}
                            ELSE (IF Head(wire).cut THEN 0 ELSE script[p.of].body)
                                   ..script[p.of].body
      <4>1. PICK l \in lengths :
              now' = [of |-> now.of, seen |-> now.seen \cup {Head(wire).part},
                      length |-> l]
        BY <1>7, <2>1, <3>3 DEF Noted
      <4>2. /\ l \in 0..MaxBody
            /\ ~Head(wire).cut => l = IF Head(wire).part = "length"
                                        THEN script[p.of].body ELSE now.length
        BY <3>1
      <4>3. /\ now'.of = now.of /\ now'.length = l
            /\ now'.seen = now.seen \cup {Head(wire).part}
        BY <4>1
      <4> QED BY <2>2, <3>1, <4>1, <4>2, <4>3
    <3> QED BY <3>2, <3>3
  <2>4. MitmTypeOK'
    BY <1>1, <1>2, <1>3, <2>1, <2>3 DEF MitmTypeOK, Tokens, clientVars
  <2>5. NowInScript' /\ AnswersFollow'
    BY <1>1, <1>2, <1>7, <2>1, <2>3, AnswersFollowSame DEF NowInScript
  <2>6. FollowsStream'
    <3>1. CASE Head(wire).cut
      <4>1. hungUp /\ wire' = <<>> /\ p.of = sending
        BY <1>4, <3>1, HereFields
      <4> QED BY <1>1, <1>2, <1>7, <2>1, <2>3, <4>1 DEF FollowsStream, ReadsBroken
    <3>2. CASE ~Head(wire).cut
      <4>1. q = At(p.of, "headers", p.left \ {Head(wire).part}, 0)
        BY <1>4, <1>7, <1>10, <3>2 DEF Link, Sends
      <4>2. /\ q.stage = "headers" /\ q.of = p.of
            /\ q.left = p.left \ {Head(wire).part}
        BY <4>1 DEF At
      <4>3. now'.length = IF "length" \in script[now.of].headers \ q.left
                            THEN script[now.of].body ELSE 0
        BY <1>7, <2>2, <2>3, <3>2, <4>2
      <4>4. now'.seen = script[now.of].headers \ q.left
        BY <1>7, <2>2, <2>3, <3>2, <4>2
      <4>5. /\ spc' = "headers" /\ taken' = <<>> /\ q.stage = "headers"
            /\ q.of = now'.of /\ now'.of = Len(handled') + 1
            /\ script' = script /\ now'.of = now.of
        BY <1>1, <1>2, <1>7, <2>1, <2>3, <4>2
      <4>6. Reads(q)'
        BY <4>3, <4>4, <4>5 DEF Reads
      <4> QED BY <1>4, <1>6, <4>6 DEF FollowsStream
    <3> QED BY <3>1, <3>2
  <2> QED BY <1>2, <1>5, <2>4, <2>5, <2>6
<1> QED BY <1>9, <1>10

LEMMA ReadEndKeeps ==
  ASSUME StreamInv, ReadEnd
  PROVE  StreamInv'
<1> USE ScriptFacts DEF StreamInv
<1>1. /\ hungUp /\ wire = <<>> /\ wire' = wire /\ now' = now /\ taken' = taken
      /\ UNCHANGED <<clientVars, handled>> /\ replies' = replies /\ heard' = heard
      /\ \/ spc \in {"line", "body"} /\ spc' = "closed"
         \/ spc = "headers" /\ spc' \in {"continue", "body"}
  BY DEF ReadEnd, Ended, EndLoop, EndInBody, AfterHeaders, Goes
<1>2. /\ Here' = Here /\ WellPlaced(script, Here)' /\ HandledInOrder'
      /\ script' = script /\ hungUp' = hungUp /\ sending' = sending
      /\ handled' = handled
  BY <1>1, LoopFrame
<1>3. MitmTypeOK' /\ CutIsLast' /\ NowInScript' /\ AnswersFollow'
  <2>1. MitmTypeOK'
    BY <1>1, <1>2 DEF MitmTypeOK, clientVars
  <2>2. CutIsLast' /\ NowInScript'
    BY <1>1, <1>2 DEF CutIsLast, NowInScript
  <2> QED BY <1>1, <2>1, <2>2, AnswersFollowSame
<1>4. FollowsStream'
  <2>1. CASE spc' = "closed"
    BY <2>1 DEF FollowsStream
  <2>2. CASE spc = "headers" /\ spc' \in {"continue", "body"}
    <3>1. taken = <<>> /\ now.of = sending /\ sending = Len(handled) + 1
      <4>1. CASE ReadsBroken
        BY <2>2, <4>1 DEF ReadsBroken
      <4>2. CASE \E st : Way(script, wire, st, Here) /\ Reads(st[0])
        <5>1. PICK st : Way(script, wire, st, Here) /\ Reads(st[0])
          BY <4>2
        <5>2. Len(wire) = 0
          BY <1>1
        <5>3. st[0] = Here
          BY <5>1, <5>2 DEF Way
        <5> QED BY <2>2, <5>1, <5>3, HereFields DEF Reads
      <4> QED BY <2>2, <4>1, <4>2 DEF FollowsStream
    <3> QED BY <1>1, <1>2, <2>2, <3>1 DEF FollowsStream, ReadsBroken
  <2> QED BY <1>1, <2>1, <2>2
<1> QED BY <1>2, <1>3, <1>4

LEMMA ReadBodyKeeps ==
  ASSUME StreamInv, ReadBody
  PROVE  StreamInv'
<1> USE ScriptFacts DEF StreamInv
<1>1. /\ spc = "body" /\ wire # <<>> /\ Take /\ Len(taken) < now.length
      /\ taken' = Append(taken, Head(wire).of) /\ now' = now /\ spc' = spc
      /\ UNCHANGED <<clientVars, handled>> /\ replies' = replies /\ heard' = heard
  BY DEF ReadBody
<1>2. /\ Here' = Here /\ WellPlaced(script, Here)' /\ HandledInOrder'
      /\ script' = script /\ hungUp' = hungUp /\ sending' = sending
      /\ handled' = handled
  BY <1>1, LoopFrame
<1>3. /\ wire' \in Seq(Tokens) /\ Head(wire) \in Tokens
      /\ \A k \in 1..Len(wire') : wire'[k].cut => hungUp /\ k = Len(wire')
  BY <1>1, ReadsToken
<1>4. PICK p, q, st :
        /\ Reads(p) /\ WellPlaced(script, p) /\ WellPlaced(script, q)
        /\ Link(script, p, Head(wire), q)
        /\ Way(script, wire', st, Here) /\ st[0] = q
        /\ Head(wire).cut => hungUp /\ wire' = <<>> /\ p = Here /\ q = Here
  BY <1>1, ReadsToken
<1>5. CutIsLast'
  BY <1>2, <1>3 DEF CutIsLast
<1>6. Way(script, wire, st, Here)'
  BY <1>2, <1>4
<1>7. taken \in Seq(1..Len(script)) /\ now.length \in Nat /\ Len(taken) \in Nat
  BY BoundAssumption DEF MitmTypeOK
<1>8. /\ now.of = Len(handled) + 1 /\ now.length = script[now.of].body
      /\ \A k \in 1..Len(taken) : taken[k] = now.of
      /\ p = At(now.of, "body", {}, now.length - Len(taken))
      /\ p.of = now.of /\ p.of \in 1..Len(script) /\ Head(wire).of = p.of
      /\ p.stage = "body" /\ p.units = now.length - Len(taken)
      /\ now.seen = script[now.of].headers
  <2>1. /\ now.of = Len(handled) + 1 /\ now.length = script[now.of].body
        /\ \A k \in 1..Len(taken) : taken[k] = now.of
        /\ p = At(now.of, "body", {}, now.length - Len(taken))
        /\ now.seen = script[now.of].headers
    BY <1>1, <1>4, <1>7 DEF Reads
  <2>2. p.of = now.of /\ p.stage = "body" /\ p.units = now.length - Len(taken)
    BY <2>1 DEF At
  <2>3. p.of \in 1..Len(script) /\ Head(wire).of = p.of
    BY <1>4 DEF Link, WellPlaced, Place
  <2> QED BY <2>1, <2>2, <2>3
<1>9. /\ taken' \in Seq(1..Len(script)) /\ Len(taken') = Len(taken) + 1
      /\ \A k \in 1..Len(taken) : taken'[k] = taken[k]
      /\ taken'[Len(taken) + 1] = now.of
  BY <1>1, <1>7, <1>8, AppendProperties
<1>10. MitmTypeOK'
  BY <1>1, <1>2, <1>3, <1>9 DEF MitmTypeOK, Tokens, clientVars
<1>11. AnswersFollow' /\ NowInScript'
  BY <1>1, <1>2, AnswersFollowSame DEF NowInScript
<1>12. q = IF p.units = 1 THEN Start(p.of + 1) ELSE At(p.of, "body", {}, p.units - 1)
  BY <1>4, <1>8 DEF Link, Sends, Cuts
<1>13. q = IF Len(taken') = now.length THEN Start(now.of + 1)
           ELSE At(now.of, "body", {}, now.length - Len(taken'))
  <2> HIDE DEF StreamInv
  <2>0. p.units = now.length - Len(taken) /\ Len(taken') = Len(taken) + 1
    BY <1>8, <1>9
  <2>1. p.units = 1 <=> Len(taken') = now.length
    <3>1. \A a, b \in Nat : a - b = 1 <=> b + 1 = a
      OBVIOUS
    <3> QED BY <1>7, <2>0, <3>1
  <2>2. p.units - 1 = now.length - Len(taken')
    <3>1. \A a, b \in Nat : (a - b) - 1 = a - (b + 1)
      OBVIOUS
    <3> QED BY <1>7, <2>0, <3>1
  <2> QED BY <1>8, <1>12, <2>1, <2>2
<1>14. Reads(q)'
  <2>1. \A k \in 1..Len(taken') : taken'[k] = now.of
    <3> TAKE k \in 1..Len(taken')
    <3>1. k \in 1..Len(taken) \/ k = Len(taken) + 1
      BY <1>7, <1>9
    <3> QED BY <1>8, <1>9, <3>1
  <2>2. Len(taken') <= now.length
    BY <1>1, <1>7, <1>9
  <2> QED BY <1>1, <1>2, <1>8, <1>13, <2>1, <2>2 DEF Reads
<1>15. FollowsStream'
  BY <1>4, <1>6, <1>14 DEF FollowsStream
<1> QED BY <1>2, <1>5, <1>10, <1>11, <1>15

-----------------------------------------------------------------------------
(* The theorems. *)

LEMMA StreamInvNext ==
  ASSUME StreamInv, [MitmNext]_mitmVars
  PROVE  StreamInv'
<1>1. CASE SendLine
  BY <1>1, SendLineAdvances, AdvancesKeeps DEF StreamInv
<1>2. CASE SendHeader
  BY <1>2, SendHeaderAdvances, AdvancesKeeps DEF StreamInv
<1>3. CASE SendBlank
  BY <1>3, SendBlankAdvances, AdvancesKeeps DEF StreamInv
<1>4. CASE SendBody \/ LosePatience
  BY <1>4, SendUnitAdvances, AdvancesKeeps DEF StreamInv
<1>5. CASE Hear
  BY <1>5, HearKeeps
<1>6. CASE HangUp
  BY <1>6, HangUpKeeps
<1>7. CASE ReadLine
  BY <1>7, ReadLineKeeps
<1>8. CASE ReadHeader
  BY <1>8, ReadHeaderKeeps
<1>9. CASE ReadEnd
  BY <1>9, ReadEndKeeps
<1>10. CASE SendContinue
  BY <1>10, SendContinueKeeps
<1>11. CASE ReadBody
  BY <1>11, ReadBodyKeeps
<1>12. CASE Handle
  BY <1>12, HandleKeeps
<1>13. CASE Respond
  BY <1>13, RespondKeeps
<1>14. CASE UNCHANGED mitmVars
  <2>1. /\ script' = script /\ sending' = sending /\ stage' = stage /\ left' = left
        /\ units' = units /\ hungUp' = hungUp /\ wire' = wire
        /\ spc' = spc /\ now' = now /\ taken' = taken /\ handled' = handled
        /\ replies' = replies /\ heard' = heard
    BY <1>14 DEF mitmVars, clientVars, serverVars
  <2>2. Here' = Here
    BY <2>1 DEF Here
  <2>3. MitmTypeOK'
    BY <2>1 DEF StreamInv, MitmTypeOK
  <2>4. WellPlaced(script, Here)'
    BY <2>1, <2>2 DEF StreamInv
  <2>5. NowInScript' /\ CutIsLast'
    BY <2>1 DEF StreamInv, NowInScript, CutIsLast
  <2>6. FollowsStream'
    <3>1. CASE spc = "closed" \/ ReadsBroken
      BY <2>1, <3>1 DEF FollowsStream, ReadsBroken
    <3>2. CASE ~(spc = "closed" \/ ReadsBroken)
      <4>1. PICK st : Way(script, wire, st, Here) /\ Reads(st[0])
        BY <3>2 DEF StreamInv, FollowsStream
      <4>2. Way(script, wire, st, Here)' /\ Reads(st[0])'
        BY <2>1, <2>2, <4>1, ReadsSame
      <4> QED BY <4>2 DEF FollowsStream
    <3> QED BY <3>1, <3>2
  <2>7. HandledInOrder'
    BY <2>1 DEF StreamInv, HandledInOrder, Whole, BodyOf
  <2>8. AnswersFollow'
    BY <2>1 DEF StreamInv, AnswersFollow
  <2> QED BY <2>3, <2>4, <2>5, <2>6, <2>7, <2>8 DEF StreamInv
<1> QED BY <1>1, <1>2, <1>3, <1>4, <1>5, <1>6, <1>7, <1>8, <1>9, <1>10, <1>11,
     <1>12, <1>13, <1>14 DEF MitmNext, ClientSends, Loop

\* The invariant says what is wanted of a connection.
LEMMA StreamInvHandled ==
  ASSUME StreamInv
  PROVE  HandledWhole /\ AnswersMatch
<1> USE ScriptFacts DEF StreamInv
<1>1. /\ handled \in Seq([of : 1..Len(script), body : Seq(1..Len(script))])
      /\ DOMAIN handled = 1..Len(handled) /\ Len(handled) \in Nat
  BY DEF MitmTypeOK
<1>2. HandledWhole
  BY <1>1 DEF HandledWhole, HandledInOrder, Whole
<1>3. heard \in Seq(Messages) /\ replies \in Seq(Messages)
  BY DEF MitmTypeOK, Messages
<1> DEFINE told == heard \o replies
<1>4. told \in Seq(Messages) /\ DOMAIN told = 1..Len(told) /\ Len(told) \in Nat
  BY <1>3, ConcatProperties
<1>5. PICK n \in Nat : n <= Len(handled) /\ AnswersUpTo(told, n)
  <2>1. PICK n \in Nat : /\ n \in {Len(handled) - 1, Len(handled)}
                         /\ AnswersUpTo(told, n)
    BY DEF AnswersFollow
  <2>2. Len(handled) \in Nat
    BY <1>1
  <2>3. \A h \in Nat : n \in {h - 1, h} => n <= h
    OBVIOUS
  <2> QED BY <2>1, <2>2, <2>3
<1> HIDE DEF told
<1>6. ASSUME NEW k \in DOMAIN told, NEW i \in 1..Len(script), IsAnswer(told[k], i)
      PROVE  /\ i <= Len(handled)
             /\ \A j \in 1..(i - 1) : \E m \in 1..(k - 1) : IsAnswer(told[m], j)
             /\ \A m \in 1..(k - 1) : \A j \in 1..Len(script) :
                  IsAnswer(told[m], j) => j < i
  <2>1. k \in 1..Len(told) /\ i \in Nat /\ 1..Len(script) \subseteq Nat
    BY <1>4
  <2>2. /\ i <= n
        /\ \A j \in 1..(i - 1) : \E m \in 1..(k - 1) : IsAnswer(told[m], j)
        /\ \A m \in 1..(k - 1) : \A j \in Nat : IsAnswer(told[m], j) => j < i
    BY <1>5, <1>6, <2>1 DEF AnswersUpTo
  <2>3. i <= Len(handled)
    BY <1>1, <1>5, <2>1, <2>2
  <2> QED BY <2>1, <2>2, <2>3
<1>7. \A k \in DOMAIN handled : handled[k].of = k
  BY <1>1 DEF HandledInOrder
<1>8. AnswersMatch
  BY <1>6, <1>7 DEF AnswersMatch, told, IsAnswer
<1> QED BY <1>2, <1>8

-----------------------------------------------------------------------------
(* What the two tell each other. *)

\* A token is of the request the client is sending.
LEMMA SendsOwn ==
  ASSUME StreamInv, Advances \/ HangUp
  PROVE  /\ sending' \in Nat /\ sending <= sending'
         /\ \/ wire' = wire
            \/ \E t \in Tokens : t.of = sending /\ wire' = Append(wire, t)
<1>1. sending \in Nat
  BY DEF StreamInv, MitmTypeOK
<1>2. CASE Advances
  <2>1. PICK t \in Tokens : /\ t.cut = FALSE /\ wire' = Append(wire, t)
                           /\ Link(script, Here, t, Here')
    BY <1>2 DEF Advances
  <2>2. t.of = Here.of /\ Sends(script, Here, t, Here')
    BY <2>1 DEF Link
  <2>3. Here'.of = Here.of \/ Here'.of = Here.of + 1
    BY <2>2 DEF Sends, Start, At
  <2>4. Here.of = sending /\ Here'.of = sending'
    BY HereFields DEF At
  <2> QED BY <1>1, <2>1, <2>2, <2>3, <2>4
<1>3. CASE HangUp
  <2>1. sending' = sending
    BY <1>3 DEF HangUp
  <2>2. wire' \in Seq(Tokens) /\ wire \in Seq(Tokens)
    BY <1>3, HangUpKeeps DEF StreamInv, MitmTypeOK, HangUp, Tokens
  <2>3. CASE wire' # wire
    <3>1. PICK p : wire' = Append(wire, CutToken(p))
      BY <1>3, <2>3 DEF HangUp, Send
    <3>2. wire'[Len(wire')] = CutToken(p) /\ Len(wire') = Len(wire) + 1
      BY <2>2, <3>1
    <3>3. CutToken(p) \in Tokens /\ CutToken(p).of = sending
      BY <2>2, <3>2 DEF CutToken
    <3> QED BY <1>1, <2>1, <3>1, <3>3
  <2> QED BY <1>1, <2>1, <2>3
<1> QED BY <1>2, <1>3

LEMMA ClientAdvances ==
  ASSUME StreamInv, ClientSends \/ LosePatience
  PROVE  Advances
BY SendLineAdvances, SendHeaderAdvances, SendBlankAdvances, SendUnitAdvances
   DEF StreamInv, ClientSends

\* Of the loop, ReadLine goes to a request, and it is one that was sent.
LEMMA LoopReads ==
  ASSUME StreamInv, Loop
  PROVE  /\ script' = script /\ sending' = sending /\ hungUp' = hungUp
         /\ heard' = heard
         /\ wire' = wire \/ (wire # <<>> /\ wire' = Tail(wire))
         /\ \/ wire # <<>> /\ now'.of = Head(wire).of
            \/ /\ now'.of = now.of
               /\ spc' \in {"headers", "continue", "body"} =>
                    spc \in {"headers", "continue", "body"}
BY DEF Loop, ReadLine, ReadHeader, ReadEnd, SendContinue, ReadBody, Handle, Respond,
  Take, Goes, StartRequest, BadLine, EndLoop, AfterHeaders, EndInBody, Writes,
  NoRequest, Noted, clientVars

LEMMA SentUpToNext ==
  ASSUME StreamInv, SentUpTo, [MitmNext]_mitmVars
  PROVE  SentUpTo'
<1>1. /\ wire \in Seq(Tokens) /\ sending \in Nat
      /\ \A t \in Tokens : t.of \in Nat
  BY DEF StreamInv, MitmTypeOK, Tokens
<1>2. CASE Advances \/ HangUp
  <2>1. spc' = spc /\ now' = now
    BY <1>2 DEF Advances, Unread, HangUp, serverVars
  <2>2. sending' \in Nat /\ sending <= sending'
    BY <1>2, SendsOwn
  <2>3. \A k \in 1..Len(wire') : wire'[k] \in Tokens /\ wire'[k].of <= sending
    <3>1. CASE wire' = wire
      BY <1>1, <3>1 DEF SentUpTo
    <3>2. CASE wire' # wire
      <4>1. PICK t \in Tokens : t.of = sending /\ wire' = Append(wire, t)
        BY <1>2, <3>2, SendsOwn
      <4> QED BY <1>1, <4>1, AppendProperties DEF SentUpTo
    <3> QED BY <3>1, <3>2
  <2>4. spc \in {"headers", "continue", "body"} => now.of \in Nat
    BY DEF StreamInv, NowInScript
  <2> QED BY <1>1, <2>1, <2>2, <2>3, <2>4 DEF SentUpTo
<1>3. CASE Loop
  <2>1. \A k \in 1..Len(wire') : wire'[k].of <= sending
    <3>1. CASE wire' = wire
      BY <3>1 DEF SentUpTo
    <3>2. CASE wire # <<>> /\ wire' = Tail(wire)
      BY <1>1, <3>2, HeadTailProperties DEF SentUpTo
    <3> QED BY <1>3, <3>1, <3>2, LoopReads
  <2>2. wire # <<>> => Head(wire).of <= sending
    BY <1>1, HeadTailProperties, EmptySeq DEF SentUpTo
  <2> QED BY <1>3, <2>1, <2>2, LoopReads DEF SentUpTo
<1>4. CASE Hear \/ UNCHANGED mitmVars
  BY <1>4 DEF SentUpTo, Hear, mitmVars, clientVars, serverVars
<1> QED BY <1>2, <1>3, <1>4, ClientAdvances DEF MitmNext

\* What is told stays told; and the loop tells something in two places.
LEMMA TellsMore ==
  ASSUME StreamInv, [MitmNext]_mitmVars
  PROVE  /\ heard \o replies \in Seq(Messages)
         /\ \/ heard' \o replies' = heard \o replies
            \/ \E m \in Messages :
                 /\ heard' \o replies' = Append(heard \o replies, m)
                 /\ \/ SendContinue /\ m = [kind |-> "continue", of |-> now.of]
                       /\ spc' = "body"
                    \/ Respond /\ m = [kind |-> "answer", of |-> now.of]
                       /\ spc' = IF "close" \in now.seen THEN "closed" ELSE "line"
<1>1. /\ heard \in Seq(Messages) /\ replies \in Seq(Messages)
      /\ heard \o replies \in Seq(Messages)
  BY ConcatProperties DEF StreamInv, MitmTypeOK, Messages
<1>2. CASE heard' = heard /\ replies' = replies
  BY <1>1, <1>2
<1>3. CASE Hear
  BY <1>1, <1>3, ToldHeard DEF Hear
<1>4. ASSUME NEW m, m \in Messages, replies' = Append(replies, m), heard' = heard
      PROVE  heard' \o replies' = Append(heard \o replies, m)
  BY <1>1, <1>4, ToldAppended
<1>5. CASE SendContinue
  <2>1. [kind |-> "continue", of |-> now.of] \in Messages
    BY <1>5 DEF SendContinue, StreamInv, NowInScript, Messages
  <2> QED BY <1>1, <1>2, <1>4, <1>5, <2>1 DEF SendContinue, Writes, Goes
<1>6. CASE Respond
  <2>1. [kind |-> "answer", of |-> now.of] \in Messages
    BY <1>6 DEF Respond, StreamInv, NowInScript, Messages
  <2> QED BY <1>1, <1>2, <1>4, <1>6, <2>1 DEF Respond, Writes, Goes
<1>7. \/ heard' = heard /\ replies' = replies
      \/ Hear \/ SendContinue \/ Respond
  BY DEF MitmNext, ClientSends, SendLine, SendHeader, SendBlank, SendBody, SendUnit,
    LosePatience, HangUp, Loop, ReadLine, ReadHeader, ReadEnd, ReadBody, Handle,
    mitmVars
<1> QED BY <1>2, <1>3, <1>5, <1>6, <1>7

LEMMA ContinueToldNext ==
  ASSUME StreamInv, ContinueTold, [MitmNext]_mitmVars
  PROVE  ContinueTold'
<1>1. heard \o replies \in Seq(Messages)
  BY TellsMore
<1>2. ASSUME NEW m \in Messages,
             \E k \in 1..Len(heard \o replies) : (heard \o replies)[k] = m
      PROVE  \E k \in 1..Len(heard' \o replies') : (heard' \o replies')[k] = m
  <2>1. CASE heard' \o replies' = heard \o replies
    BY <1>2, <2>1
  <2>2. CASE \E n \in Messages : heard' \o replies' = Append(heard \o replies, n)
    BY <1>1, <1>2, <2>2, AppendProperties
  <2> QED BY <2>1, <2>2, TellsMore
<1>3. CASE spc = "body" /\ spc' = "body" /\ now' = now
  <2>1. [kind |-> "continue", of |-> now.of] \in Messages
    BY <1>3 DEF StreamInv, NowInScript, Messages
  <2> QED BY <1>2, <1>3, <2>1 DEF ContinueTold
<1>4. CASE SendContinue /\ spc' = "body"
  <2> DEFINE m == [kind |-> "continue", of |-> now.of]
  <2>1. now' = now /\ m \in Messages
    BY <1>4 DEF SendContinue, StreamInv, NowInScript, Messages
  <2>2. heard \in Seq(Messages) /\ replies \in Seq(Messages)
    BY DEF StreamInv, MitmTypeOK, Messages
  <2>3. heard' \o replies' = Append(heard \o replies, m)
    <3>1. heard' = heard /\ replies' = Append(replies, m)
      BY <1>4 DEF SendContinue, Writes, Goes
    <3> HIDE DEF m
    <3> QED BY <2>1, <2>2, <3>1, ToldAppended
  <2>4. \E k \in 1..Len(heard' \o replies') : (heard' \o replies')[k] = m
    <3> HIDE DEF m
    <3> QED BY <1>1, <2>1, <2>3, AppendProperties
  <2> QED BY <2>1, <2>4 DEF ContinueTold
<1>5. CASE spc = "headers" /\ now' = now /\ AfterHeaders(now)
  BY <1>5 DEF AfterHeaders, Goes, ContinueTold
<1>6. \/ spc' # "body"
      \/ spc = "body" /\ spc' = "body" /\ now' = now
      \/ SendContinue
      \/ spc = "headers" /\ now' = now /\ AfterHeaders(now)
  <2>1. CASE ClientSends \/ LosePatience \/ HangUp \/ Hear \/ UNCHANGED mitmVars
    BY <2>1 DEF ClientSends, SendLine, SendHeader, SendBlank, SendBody, SendUnit,
      LosePatience, HangUp, Hear, mitmVars, serverVars
  <2>2. CASE Loop
    BY <2>2 DEF Loop, ReadLine, ReadHeader, ReadEnd, ReadBody, Handle, Respond,
      StartRequest, BadLine, EndLoop, EndInBody, Writes, Goes
  <2> QED BY <2>1, <2>2 DEF MitmNext
<1> QED BY <1>3, <1>4, <1>5, <1>6 DEF ContinueTold

LEMMA ClosedForCauseNext ==
  ASSUME StreamInv, ClosedForCause, [MitmNext]_mitmVars
  PROVE  ClosedForCause'
<1>1. SUFFICES ASSUME spc' = "closed", ~hungUp'
               PROVE  /\ Len(handled') \in 1..Len(script')
                      /\ "close" \in script'[Len(handled')].headers
                      /\ AnswersUpTo(heard' \o replies', Len(handled'))
  BY DEF ClosedForCause
<1>2. script' = script
  BY DEF MitmNext, ClientSends, SendLine, SendHeader, SendBlank, SendBody, SendUnit,
    LosePatience, HangUp, Hear, Loop, ReadLine, ReadHeader, ReadEnd, SendContinue,
    ReadBody, Handle, Respond, mitmVars, clientVars
<1>3. CASE spc = "closed" /\ ~hungUp
  <2>1. handled' = handled
    BY <1>3 DEF MitmNext, ClientSends, SendLine, SendHeader, SendBlank, SendBody,
      SendUnit, LosePatience, HangUp, Hear, Loop, ReadLine, ReadHeader, ReadEnd,
      SendContinue, ReadBody, Handle, Respond, mitmVars, serverVars
  <2>2. heard' \o replies' = heard \o replies
    BY <1>3, TellsMore DEF SendContinue, Respond
  <2> QED BY <1>2, <1>3, <2>1, <2>2 DEF ClosedForCause
<1>4. CASE Respond /\ ~hungUp
  <2>1. /\ spc = "answer" /\ "close" \in now.seen /\ handled' = handled
        /\ heard' \o replies' = Append(heard \o replies, [kind |-> "answer", of |-> now.of])
    <3>1. /\ spc = "answer" /\ handled' = handled /\ heard' = heard
          /\ replies' = Append(replies, [kind |-> "answer", of |-> now.of])
          /\ "close" \in now.seen
      BY <1>1, <1>4 DEF Respond, Writes, Goes
    <3>2. [kind |-> "answer", of |-> now.of] \in Messages
      BY <3>1 DEF StreamInv, NowInScript, Messages
    <3>3. heard \in Seq(Messages) /\ replies \in Seq(Messages)
      BY DEF StreamInv, MitmTypeOK, Messages
    <3> QED BY <3>1, <3>2, <3>3, ToldAppended
  <2>2. PICK st : Way(script, wire, st, Here) /\ Reads(st[0])
    BY <1>4, <2>1 DEF StreamInv, FollowsStream, ReadsBroken
  <2>3. now.of = Len(handled) /\ now.seen = script[now.of].headers
    BY <2>1, <2>2 DEF Reads
  <2>4. now.of \in 1..Len(script)
    BY <2>1 DEF StreamInv, NowInScript
  <2>5. PICK n \in Nat : n = Len(handled) - 1 /\ AnswersUpTo(heard \o replies, n)
    BY <2>1 DEF StreamInv, AnswersFollow
  <2>6. n + 1 = now.of /\ n + 1 = Len(handled)
    BY <2>3, <2>4, <2>5
  <2>7. AnswersUpTo(heard' \o replies', n + 1)
    <3> DEFINE m == [kind |-> "answer", of |-> now.of]
    <3>1. m \in Messages /\ m.kind = "answer" /\ m.of = n + 1
      BY <2>4, <2>6 DEF Messages
    <3>2. heard \o replies \in Seq(Messages) /\ heard' \o replies' = Append(heard \o replies, m)
      BY <2>1, TellsMore
    <3> HIDE DEF m
    <3> QED BY <2>5, <3>1, <3>2, TellsNext
  <2> QED BY <1>2, <2>1, <2>3, <2>4, <2>6, <2>7
<1>5. CASE ClientSends \/ LosePatience \/ Hear \/ HangUp \/ UNCHANGED mitmVars
  <2>1. spc' = spc /\ (hungUp => hungUp')
    BY <1>5 DEF ClientSends, SendLine, SendHeader, SendBlank, SendBody, SendUnit,
      LosePatience, Hear, HangUp, mitmVars, clientVars, serverVars
  <2> QED BY <1>1, <1>3, <2>1
<1>6. CASE Loop
  <2>1. hungUp' = hungUp
    BY <1>6, LoopReads
  <2>2. CASE ReadLine
    <3>1. wire # <<>> /\ wire \in Seq(Tokens) /\ spc = "line"
      BY <2>2 DEF ReadLine, StreamInv, MitmTypeOK, Tokens
    <3>2. Head(wire).cut => hungUp
      <4>1. 1 \in 1..Len(wire) /\ Head(wire) = wire[1]
        BY <3>1, EmptySeq
      <4> QED BY <4>1 DEF StreamInv, CutIsLast
    <3>3. spc' = "closed" => Head(wire).cut
      BY <2>2, <3>1 DEF ReadLine, StartRequest, BadLine, Goes
    <3> QED BY <1>1, <2>1, <3>2, <3>3
  <2>3. CASE ReadHeader \/ ReadEnd \/ SendContinue \/ ReadBody \/ Handle
    BY <1>1, <2>1, <2>3 DEF ReadHeader, ReadEnd, SendContinue, ReadBody, Handle,
      AfterHeaders, Writes, Goes, Ended
  <2> QED BY <1>1, <1>4, <1>6, <2>1, <2>2, <2>3 DEF Loop
<1> QED BY <1>5, <1>6 DEF MitmNext

LEMMA MitmInvInit ==
  ASSUME MitmInit
  PROVE  MitmInv
<1>1. wire = <<>> /\ spc = "line"
  BY DEF MitmInit
<1> QED BY <1>1, StreamInvInit DEF MitmInv, SentUpTo, ContinueTold, ClosedForCause

LEMMA MitmInvNext ==
  ASSUME MitmInv, [MitmNext]_mitmVars
  PROVE  MitmInv'
BY StreamInvNext, SentUpToNext, ContinueToldNext, ClosedForCauseNext DEF MitmInv

LEMMA MitmInvHandled ==
  ASSUME MitmInv
  PROVE  HandledWhole /\ AnswersMatch
BY StreamInvHandled DEF MitmInv

\* A client that has read all that was told was answered where the messages say so.
LEMMA HeardAll ==
  ASSUME StreamInv, replies = <<>>
  PROVE  /\ heard \o replies = heard /\ DOMAIN heard = 1..Len(heard)
         /\ \A n \in Nat : AnswersUpTo(heard \o replies, n) =>
              \A i \in 1..n : AnsweredTo(i)
<1>1. heard \in Seq(Messages)
  BY DEF StreamInv, MitmTypeOK, Messages
<1>2. heard \o replies = heard /\ DOMAIN heard = 1..Len(heard)
  BY <1>1
<1>3. ASSUME NEW n \in Nat, AnswersUpTo(heard, n), NEW i \in 1..n
      PROVE  AnsweredTo(i)
  <2>1. PICK k \in 1..Len(heard) : IsAnswer(heard[k], i)
    BY <1>3 DEF AnswersUpTo
  <2> QED BY <1>2, <2>1 DEF AnsweredTo, Answers, IsAnswer
<1> QED BY <1>2, <1>3

\* A loop that reads what is not there, of a client that is there, stands where the
\* client does.
LEMMA WaitingTogether ==
  ASSUME StreamInv, wire = <<>>, ~hungUp, spc # "closed"
  PROVE  Reads(Here)
<1>1. PICK st : Way(script, wire, st, Here) /\ Reads(st[0])
  BY DEF StreamInv, FollowsStream, ReadsBroken
<1>2. Len(wire) = 0
  OBVIOUS
<1> QED BY <1>1, <1>2 DEF Way

LEMMA MitmInvStuck ==
  ASSUME MitmInv
  PROVE  NeverStuck
<1> USE ScriptFacts
<1>1. SUFFICES ASSUME NEW i \in 1..Len(script), LoopWaits, ClientWaits, ~hungUp
               PROVE  AnsweredTo(i) \/ ClosedBefore(i)
  BY DEF NeverStuck, Settles, MitmInv, StreamInv
<1>2. /\ StreamInv /\ MitmTypeOK /\ Len(script) \in Nat /\ replies = <<>>
      /\ DOMAIN script = 1..Len(script) /\ Len(handled) \in Nat
  BY <1>1 DEF MitmInv, StreamInv, ClientWaits, MitmTypeOK
<1>3. CASE spc = "closed"
  <2>1. /\ Len(handled) \in 1..Len(script)
        /\ "close" \in script[Len(handled)].headers
        /\ AnswersUpTo(heard \o replies, Len(handled))
    BY <1>1, <1>3 DEF MitmInv, ClosedForCause
  <2>2. CASE i <= Len(handled)
    BY <1>2, <2>1, <2>2, HeardAll
  <2>3. CASE Len(handled) < i
    BY <1>2, <2>1, <2>3 DEF ClosedBefore
  <2> QED BY <1>2, <2>2, <2>3
<1>4. CASE spc # "closed"
  <2>1. /\ wire = <<>> /\ Reads(Here)
        /\ spc \in {"line", "headers"} \/ (spc = "body" /\ Len(taken) < now.length)
    BY <1>1, <1>2, <1>4, WaitingTogether DEF LoopWaits
  <2>2. WellPlaced(script, Here) /\ sending \in 1..(Len(script) + 1)
    BY <1>2 DEF StreamInv, MitmTypeOK
  <2>3. stage \in {"pad", "line"} => spc = "line" /\ sending = Len(handled) + 1
    <3>1. spc = "headers" => stage = "headers"
      BY <2>1, HereFields DEF Reads
    <3>2. spc = "body" => stage = "body"
      <4> HAVE spc = "body"
      <4>1. Here = At(now.of, "body", {}, now.length - Len(taken))
        <5>1. now.length # Len(taken)
          BY <1>2, <2>1, BoundAssumption DEF MitmTypeOK
        <5> QED BY <2>1, <5>1 DEF Reads
      <4> QED BY <4>1, HereFields DEF At
    <3> QED BY <2>1, <3>1, <3>2, HereFields DEF Reads
  <2>4. stage \in {"pad", "line"} => \A k \in 1..(sending - 1) : AnsweredTo(k)
    <3> HAVE stage \in {"pad", "line"}
    <3>1. PICK n \in Nat : n = Len(handled) /\ AnswersUpTo(heard \o replies, n)
      BY <1>2, <2>3 DEF StreamInv, AnswersFollow
    <3>2. sending - 1 = n
      BY <1>2, <2>3, <3>1
    <3> QED BY <1>2, <3>1, <3>2, HeardAll
  <2>5. CASE sending \notin DOMAIN script
    <3>1. sending = Len(script) + 1
      BY <1>2, <2>2, <2>5
    <3>2. stage = "pad"
      BY <1>2, <2>2, <3>1, HereFields DEF WellPlaced
    <3> QED BY <1>2, <2>4, <3>1, <3>2
  <2>6. CASE stage = "body" /\ Waits /\ ~Told100(sending)
    <3>1. spc = "body"
      BY <2>1, <2>6, HereFields DEF Reads
    <3>2. now.of = sending /\ now.seen = script[now.of].headers
      <4>1. Here = At(now.of, "body", {}, now.length - Len(taken))
        <5>1. now.length # Len(taken)
          BY <1>2, <2>1, <3>1, BoundAssumption DEF MitmTypeOK
        <5> QED BY <2>1, <3>1, <5>1 DEF Reads
      <4> QED BY <2>1, <3>1, <4>1, HereFields DEF Reads, At
    <3>3. "expect" \in now.seen
      BY <2>6, <3>2 DEF Waits
    <3>4. \E k \in 1..Len(heard) : heard[k] = [kind |-> "continue", of |-> now.of]
      BY <1>2, <3>1, <3>3, HeardAll DEF MitmInv, ContinueTold
    <3>5. Told100(sending)
      BY <1>2, <3>2, <3>4, HeardAll DEF Told100
    <3> QED BY <2>6, <3>5
  <2>7. CASE /\ stage = "line" \/ (stage = "pad" /\ ~script[sending].padded)
             /\ ~WindowOpen
    <3>1. PICK k \in 1..(sending - Window) : ~\E m \in Answers : heard[m].of = k
      BY <2>7 DEF WindowOpen
    <3>2. k \in 1..(sending - 1)
      BY <2>2, BoundAssumption
    <3>3. AnsweredTo(k)
      BY <2>4, <2>7, <3>2
    <3> QED BY <3>1, <3>3 DEF AnsweredTo
  <2> QED BY <1>1, <2>5, <2>6, <2>7 DEF ClientWaits
<1> QED BY <1>3, <1>4

-----------------------------------------------------------------------------
(* A connection keeps the promise of Requests. *)

\* The requests answered are the first n, if the messages say so.
LEMMA AnsweredFirst ==
  ASSUME NEW told \in Seq(Messages), NEW n \in Nat, AnswersUpTo(told, n)
  PROVE  {told[k].of : k \in {j \in DOMAIN told : told[j].kind = "answer"}} = 1..n
<1>1. DOMAIN told = 1..Len(told)
  OBVIOUS
<1>2. ASSUME NEW k \in 1..Len(told), told[k].kind = "answer"
      PROVE  told[k].of \in 1..n
  <2>1. told[k] \in Messages
    OBVIOUS
  <2>2. told[k].of \in 1..Len(script)
    BY <2>1 DEF Messages
  <2>3. told[k].of \in Nat /\ 1 <= told[k].of
    BY <2>2
  <2>4. told[k].of <= n
    BY <1>2, <2>3 DEF AnswersUpTo, IsAnswer
  <2> QED BY <2>3, <2>4
<1>3. ASSUME NEW i \in 1..n
      PROVE  \E k \in 1..Len(told) : told[k].kind = "answer" /\ told[k].of = i
  BY <1>3 DEF AnswersUpTo, IsAnswer
<1> QED BY <1>1, <1>2, <1>3

LEMMA AnswersToldAre ==
  ASSUME StreamInv, NEW n \in Nat, AnswersUpTo(heard \o replies, n)
  PROVE  AnswersTold = 1..n
<1>1. heard \o replies \in Seq(Messages)
  BY ConcatProperties DEF StreamInv, MitmTypeOK, Messages
<1> QED BY <1>1, AnsweredFirst DEF AnswersTold

LEMMA PromiseInit ==
  ASSUME MitmInit
  PROVE  Promise!Init
<1>1. handled = <<>> /\ heard \o replies = <<>>
  BY DEF MitmInit
<1>2. AnswersTold = {}
  BY <1>1 DEF AnswersTold
<1> QED BY <1>1, <1>2 DEF Promise!Init

\* The call of handle_internal_request is that of the promise ...
LEMMA HandlePromised ==
  ASSUME MitmInv, MitmInv', Handle
  PROVE  Promise!Next
<1> USE ScriptFacts
<1>0. PICK i : i = now.of
  OBVIOUS
<1>1. /\ spc = "body" /\ Len(taken) = now.length /\ script' = script
      /\ handled' = Append(handled, [of |-> i, body |-> taken])
      /\ heard' = heard /\ replies' = replies
  BY <1>0 DEF Handle, clientVars
<1>2. StreamInv /\ StreamInv' /\ MitmTypeOK /\ Len(handled) \in Nat
  <2>1. StreamInv /\ StreamInv'
    BY DEF MitmInv
  <2>2. MitmTypeOK
    BY <2>1 DEF StreamInv
  <2> QED BY <2>1, <2>2 DEF MitmTypeOK
<1>3. /\ i \in 1..Len(script) /\ i = Len(handled) + 1 /\ i <= sending
      /\ DOMAIN handled = 1..Len(handled) /\ DOMAIN script = 1..Len(script)
  <2>1. i = Len(handled) + 1
    BY <1>0, <1>1, <1>2 DEF StreamInv, FollowsStream, ReadsBroken, Reads
  <2> QED BY <1>0, <1>1, <1>2, <2>1 DEF StreamInv, NowInScript, MitmInv, SentUpTo, MitmTypeOK
<1>4. AnswersTold = 1..Len(handled) /\ AnswersTold' = AnswersTold
  <2>1. AnswersUpTo(heard \o replies, Len(handled))
    BY <1>1, <1>2 DEF StreamInv, AnswersFollow
  <2> QED BY <1>1, <1>2, <2>1, AnswersToldAre DEF AnswersTold
<1>5. \A k \in DOMAIN handled : handled[k].body = Promise!BodyOf(k)
  <2> TAKE k \in DOMAIN handled
  <2>1. k \in 1..Len(handled) /\ k < i
    BY <1>2, <1>3
  <2>2. k # sending
    BY <1>2, <1>3, <2>1 DEF MitmTypeOK
  <2>3. handled[k].body = BodyOf(k)
    BY <1>2, <2>1, <2>2 DEF StreamInv, HandledInOrder, Whole
  <2> QED BY <2>3 DEF Promise!BodyOf, BodyOf
<1>6. taken = Promise!BodyOf(i) \/ taken = Promise!NoBody
  <2>1. /\ handled \in Seq([of : 1..Len(script), body : Seq(1..Len(script))])
        /\ taken \in Seq(1..Len(script))
    BY <1>2 DEF MitmTypeOK
  <2>2. Len(handled') = i /\ handled'[i] = [of |-> i, body |-> taken]
    BY <1>1, <1>3, <2>1, AppendProperties
  <2>3. Whole(i)'
    <3>1. i \in 1..Len(handled')
      BY <1>3, <2>2
    <3> QED BY <1>2, <3>1 DEF StreamInv, HandledInOrder
  <2>4. taken = BodyOf(i) \/ taken = <<>>
    <3>1. handled'[i].body = taken
      BY <2>2
    <3> QED BY <1>1, <2>3, <3>1 DEF Whole, BodyOf
  <2> QED BY <2>4 DEF Promise!BodyOf, Promise!NoBody, BodyOf
<1>7. Promise!Handle(i)
  BY <1>1, <1>3, <1>4, <1>5, <1>6 DEF Promise!Handle
<1> QED BY <1>3, <1>7 DEF Promise!Next

\* ... as is its answer ...
LEMMA RespondPromised ==
  ASSUME MitmInv, MitmInv', Respond, NEW m \in Messages,
         heard' \o replies' = Append(heard \o replies, m),
         m = [kind |-> "answer", of |-> now.of]
  PROVE  Promise!Next
<1>1. spc = "answer" /\ handled' = handled /\ script' = script
  BY DEF Respond, clientVars
<1>2. StreamInv /\ StreamInv' /\ MitmTypeOK /\ Len(handled) \in Nat
  <2>1. StreamInv /\ StreamInv'
    BY DEF MitmInv
  <2>2. MitmTypeOK
    BY <2>1 DEF StreamInv
  <2>3. handled \in Seq([of : 1..Len(script), body : Seq(1..Len(script))])
    BY <2>2 DEF MitmTypeOK
  <2>4. Len(handled) \in Nat
    BY <2>3, LenProperties
  <2> QED BY <2>1, <2>2, <2>4
<1>3. now.of = Len(handled) /\ now.of \in 1..Len(script) /\ DOMAIN script = 1..Len(script)
  BY <1>1, <1>2, ScriptFacts DEF StreamInv, NowInScript, FollowsStream, ReadsBroken, Reads
<1>4. PICK n \in Nat : n = Len(handled) - 1 /\ AnswersUpTo(heard \o replies, n)
  BY <1>1, <1>2 DEF StreamInv, AnswersFollow
<1>5. AnswersTold = 1..(now.of - 1)
  BY <1>2, <1>3, <1>4, AnswersToldAre
<1>6. AnswersTold' = 1..now.of
  <2>1. heard \o replies \in Seq(Messages) /\ m.kind = "answer" /\ m.of = n + 1
    BY <1>2, <1>3, <1>4, ConcatProperties DEF StreamInv, MitmTypeOK, Messages
  <2>2. AnswersUpTo(heard' \o replies', n + 1)
    BY <1>4, <2>1, TellsNext
  <2>3. n + 1 = now.of /\ n + 1 \in Nat
    BY <1>3, <1>4
  <2>4. PICK told \in Seq(Messages) : told = heard' \o replies'
    BY <2>1, AppendProperties
  <2>5. {told[k].of : k \in {j \in DOMAIN told : told[j].kind = "answer"}} = 1..(n + 1)
    BY <2>2, <2>3, <2>4, AnsweredFirst
  <2> QED BY <2>3, <2>4, <2>5 DEF AnswersTold
<1>7. Promise!Answer(now.of)
  BY <1>1, <1>3, <1>5, <1>6 DEF Promise!Answer
<1> QED BY <1>3, <1>7 DEF Promise!Next

\* ... and no other step of the two is one of the promise's.
LEMMA PromiseNext ==
  ASSUME MitmInv, MitmInv', [MitmNext]_mitmVars
  PROVE  [Promise!Next]_(Promise!vars)
<1>1. StreamInv /\ heard \o replies \in Seq(Messages)
  BY TellsMore DEF MitmInv
<1>2. CASE Handle
  BY <1>2, HandlePromised
<1>3. script' = script
  BY DEF MitmNext, ClientSends, SendLine, SendHeader, SendBlank, SendBody, SendUnit,
    LosePatience, HangUp, Hear, Loop, ReadLine, ReadHeader, ReadEnd, SendContinue,
    ReadBody, Handle, Respond, mitmVars, clientVars
<1>4. ~Handle => handled' = handled
  BY DEF MitmNext, ClientSends, SendLine, SendHeader, SendBlank, SendBody, SendUnit,
    LosePatience, HangUp, Hear, Loop, ReadLine, ReadHeader, ReadEnd, SendContinue,
    ReadBody, Respond, mitmVars, serverVars
<1>5. CASE ~Handle /\ heard' \o replies' = heard \o replies
  BY <1>3, <1>4, <1>5 DEF AnswersTold, Promise!vars
<1>6. CASE /\ ~Handle
           /\ \E m \in Messages :
                /\ heard' \o replies' = Append(heard \o replies, m)
                /\ \/ SendContinue /\ m = [kind |-> "continue", of |-> now.of]
                   \/ Respond /\ m = [kind |-> "answer", of |-> now.of]
  <2>1. PICK m \in Messages :
          /\ heard' \o replies' = Append(heard \o replies, m)
          /\ \/ SendContinue /\ m.kind = "continue"
             \/ Respond /\ m = [kind |-> "answer", of |-> now.of]
    BY <1>6
  <2>2. CASE Respond /\ m = [kind |-> "answer", of |-> now.of]
    BY <2>1, <2>2, RespondPromised
  <2>3. CASE SendContinue /\ m.kind = "continue"
    <3>1. PICK n \in Nat : AnswersUpTo(heard \o replies, n)
      BY <1>1 DEF StreamInv, AnswersFollow
    <3>2. AnswersUpTo(heard' \o replies', n)
      BY <1>1, <2>1, <2>3, <3>1, TellsNothing
    <3>3. heard' \o replies' \in Seq(Messages)
      BY <1>1, <2>1, AppendProperties
    <3>4. AnswersTold = 1..n
      BY <1>1, <3>1, AnswersToldAre
    <3>5. PICK told \in Seq(Messages) : told = heard' \o replies'
      BY <3>3
    <3>6. {told[k].of : k \in {j \in DOMAIN told : told[j].kind = "answer"}} = 1..n
      BY <3>2, <3>5, AnsweredFirst
    <3>7. AnswersTold' = AnswersTold
      BY <3>4, <3>5, <3>6, ZenonT(40) DEF AnswersTold
    <3> QED BY <1>3, <1>4, <1>6, <3>7 DEF Promise!vars
  <2> QED BY <2>1, <2>2, <2>3
<1> QED BY <1>1, <1>2, <1>5, <1>6, TellsMore

-----------------------------------------------------------------------------
(* A connection runs down. *)

Among(h, S) == IF h \in S THEN 1 ELSE 0

\* The tokens of a request, at most: an empty line, the request line, the headers,
\* the empty line after them, the body.
TokensOfOne == MaxBody + 6

\* Of these a client at p has sent so many, or need not send them.
Done(p) ==
  CASE p.stage = "pad" -> 0
    [] p.stage = "line" -> 1
    [] p.stage = "headers" ->
         5 - (Among("expect", p.left) + Among("close", p.left) + Among("length", p.left))
    [] p.stage = "body" -> 6 + script[p.of].body - p.units

Unsent(p) == (Len(script) + 1 - p.of) * TokensOfOne - Done(p)

\* What the loop may yet do without another token.
Rest ==
  CASE spc = "closed" -> 0
    [] spc = "line" -> 1
    [] spc = "answer" -> 3
    [] spc = "body" -> 4
    [] spc = "continue" -> 6
    [] spc = "headers" -> 8

\* The steps left to a connection, at most.
Work == 20 * Unsent(Here) + 10 * Len(wire) + Rest + Len(replies)
        + (IF hungUp THEN 0 ELSE 20)

LEMMA WorkStays ==
  ASSUME UNCHANGED mitmVars
  PROVE  Work' = Work
<1>1. /\ script' = script /\ sending' = sending /\ stage' = stage /\ left' = left
      /\ units' = units /\ hungUp' = hungUp /\ wire' = wire /\ spc' = spc
      /\ replies' = replies
  BY DEF mitmVars, clientVars, serverVars
<1>2. Here' = Here /\ Rest' = Rest
  BY <1>1 DEF Here, At, Rest
<1>3. Done(Here)' = Done(Here)
  BY <1>1 DEF Done, Here, At, Among
<1>4. Unsent(Here)' = Unsent(Here)
  BY <1>1, <1>2, <1>3 DEF Unsent, TokensOfOne
<1> QED BY <1>1, <1>2, <1>4 DEF Work

LEMMA DoneBound ==
  ASSUME MitmTypeOK, NEW p, WellPlaced(script, p)
  PROVE  /\ Done(p) \in 0..(TokensOfOne - 1)
         /\ p.of = Len(script) + 1 => Done(p) = 0
<1>1. /\ p.stage \in {"pad", "line", "headers", "body"} /\ p.of \in Nat \ {0}
      /\ p.units \in Nat /\ p.of <= Len(script) + 1
      /\ p.stage # "pad" => p.of \in 1..Len(script)
      /\ MaxBody \in Nat /\ Len(script) \in Nat
  BY ScriptFacts, BoundAssumption DEF WellPlaced, Place
<1>2. CASE p.stage \in {"pad", "line"}
  BY <1>1, <1>2 DEF Done, TokensOfOne
<1>3. CASE p.stage = "headers"
  BY <1>1, <1>3 DEF Done, TokensOfOne, Among
<1>4. CASE p.stage = "body"
  <2>1. script[p.of].body \in 0..MaxBody /\ p.units \in 1..script[p.of].body
    BY <1>1, <1>4, ScriptFacts DEF WellPlaced
  <2> QED BY <1>1, <1>4, <2>1, SMTT(30) DEF Done, TokensOfOne
<1> QED BY <1>1, <1>2, <1>3, <1>4

\* A product grows with its factor.
LEMMA OneMore ==
  ASSUME NEW a \in Nat, NEW b \in Nat
  PROVE  a * b \in Nat /\ (a + 1) * b = a * b + b
OBVIOUS

LEMMA UnsentNat ==
  ASSUME MitmTypeOK, NEW p, WellPlaced(script, p)
  PROVE  Unsent(p) \in Nat
<1>1. p.of \in 1..(Len(script) + 1) /\ Len(script) \in Nat /\ TokensOfOne \in Nat
  BY ScriptFacts, BoundAssumption DEF WellPlaced, Place, TokensOfOne
<1>2. CASE p.of = Len(script) + 1
  <2>1. Len(script) + 1 - p.of = 0 /\ Done(p) = 0
    BY <1>1, <1>2, DoneBound
  <2>2. 0 * TokensOfOne = 0
    BY <1>1
  <2> QED BY <2>1, <2>2 DEF Unsent
<1>3. CASE p.of # Len(script) + 1
  <2>1. PICK a \in Nat : a = Len(script) - p.of
    BY <1>1, <1>3
  <2>2. Len(script) + 1 - p.of = a + 1
    BY <1>1, <2>1
  <2>3. a * TokensOfOne \in Nat /\ (a + 1) * TokensOfOne = a * TokensOfOne + TokensOfOne
    BY <1>1, OneMore
  <2>4. Done(p) \in 0..(TokensOfOne - 1)
    BY DoneBound
  <2>5. Unsent(p) = (a + 1) * TokensOfOne - Done(p)
    BY <2>2 DEF Unsent
  <2> QED BY <1>1, <2>3, <2>4, <2>5
<1> QED BY <1>2, <1>3

\* A token that is sent is one less to send.
LEMMA SendsOne ==
  ASSUME MitmTypeOK, NEW p, NEW t, NEW q, WellPlaced(script, p), WellPlaced(script, q),
         p.of <= Len(script), Sends(script, p, t, q)
  PROVE  Unsent(q) < Unsent(p)
<1>1. /\ p.of \in 1..Len(script) /\ Len(script) \in Nat
      /\ MaxBody \in Nat /\ TokensOfOne = MaxBody + 6 /\ TokensOfOne \in Nat
      /\ script[p.of].body \in 0..MaxBody /\ script[p.of].body \in Nat
  BY ScriptFacts, BoundAssumption DEF WellPlaced, Place, TokensOfOne
<1>2. PICK a \in Nat : a = Len(script) - p.of
  BY <1>1
<1>3. /\ Unsent(p) = (a + 1) * TokensOfOne - Done(p)
      /\ a * TokensOfOne \in Nat
      /\ (a + 1) * TokensOfOne = a * TokensOfOne + TokensOfOne
  <2>1. Len(script) + 1 - p.of = a + 1
    BY <1>1, <1>2
  <2> QED BY <1>1, <2>1, OneMore DEF Unsent
<1>4. Done(p) \in 0..(TokensOfOne - 1) /\ Done(q) \in 0..(TokensOfOne - 1)
  BY DoneBound
<1>5. CASE q = Start(p.of + 1)
  <2>1. Len(script) + 1 - q.of = a /\ q.stage = "pad"
    BY <1>1, <1>2, <1>5 DEF Start, At
  <2>2. Unsent(q) = a * TokensOfOne
    BY <1>3, <2>1 DEF Unsent, Done
  <2> QED BY <1>1, <1>3, <1>4, <2>2
<1>6. CASE q.of = p.of /\ Done(p) < Done(q)
  <2>1. Unsent(q) = (a + 1) * TokensOfOne - Done(q)
    <3>1. Len(script) + 1 - q.of = a + 1
      BY <1>1, <1>2, <1>6
    <3> QED BY <3>1 DEF Unsent
  <2> QED BY <1>1, <1>3, <1>4, <1>6, <2>1
<1>7. CASE /\ p.stage = "pad" /\ q = At(p.of, "line", {}, 0)
  BY <1>6, <1>7 DEF Done, At
<1>8. CASE /\ p.stage \in {"pad", "line"}
           /\ q = At(p.of, "headers", script[p.of].headers, 0)
  <2>1. q.stage = "headers" /\ q.of = p.of
    BY <1>8 DEF At
  <2>2. Done(q) >= 2
    BY <2>1 DEF Done, Among
  <2>3. Done(p) <= 1
    BY <1>8 DEF Done
  <2> QED BY <1>4, <1>6, <2>1, <2>2, <2>3
<1>9. CASE /\ p.stage = "headers" /\ t.part \in p.left
           /\ q = At(p.of, "headers", p.left \ {t.part}, 0)
  <2>1. t.part \in {"expect", "close", "length"}
    BY <1>9 DEF WellPlaced, Place, HeaderNames
  <2>2. q.stage = "headers" /\ q.left = p.left \ {t.part} /\ q.of = p.of
    BY <1>9 DEF At
  <2>3. \A h, S : Among(h, S) \in {0, 1} /\ (Among(h, S) = 1 <=> h \in S)
    BY DEF Among
  <2>4. \A h : h \in q.left <=> h \in p.left /\ h # t.part
    BY <2>2
  <2>5. /\ Done(p) = 5 - (Among("expect", p.left) + Among("close", p.left)
                          + Among("length", p.left))
        /\ Done(q) = 5 - (Among("expect", q.left) + Among("close", q.left)
                          + Among("length", q.left))
    BY <1>9, <2>2 DEF Done
  <2>6. /\ Among(t.part, p.left) = 1 /\ Among(t.part, q.left) = 0
        /\ \A h : h # t.part => Among(h, q.left) = Among(h, p.left)
    <3>1. t.part \in p.left /\ t.part \notin q.left
      BY <1>9, <2>4
    <3>2. Among(t.part, p.left) = 1 /\ Among(t.part, q.left) = 0
      BY <3>1 DEF Among
    <3>3. ASSUME NEW h, h # t.part
          PROVE  Among(h, q.left) = Among(h, p.left)
      <4>1. h \in q.left <=> h \in p.left
        BY <2>4, <3>3
      <4> QED BY <4>1 DEF Among
    <3> QED BY <3>2, <3>3
  <2>7. CASE t.part = "expect"
    BY <1>6, <2>2, <2>3, <2>5, <2>6, <2>7
  <2>8. CASE t.part = "close"
    BY <1>6, <2>2, <2>3, <2>5, <2>6, <2>8
  <2>9. CASE t.part = "length"
    BY <1>6, <2>2, <2>3, <2>5, <2>6, <2>9
  <2> QED BY <2>1, <2>7, <2>8, <2>9
<1>10. CASE p.stage = "headers" /\ q = At(p.of, "body", {}, script[p.of].body)
  <2>1. q.stage = "body" /\ q.units = script[p.of].body /\ q.of = p.of
    BY <1>10 DEF At
  <2>2. Done(q) = 6
    BY <1>1, <2>1 DEF Done
  <2>3. Done(p) <= 5
    BY <1>10 DEF Done, Among
  <2> QED BY <1>4, <1>6, <2>1, <2>2, <2>3
<1>11. CASE p.stage = "body" /\ q = At(p.of, "body", {}, p.units - 1)
  <2>1. q.stage = "body" /\ q.units = p.units - 1 /\ q.of = p.of /\ p.units \in Nat
    BY <1>11 DEF At, WellPlaced, Place
  <2>2. Done(p) = 6 + script[p.of].body - p.units
    BY <1>11 DEF Done
  <2>3. Done(q) = 6 + script[p.of].body - (p.units - 1)
    BY <2>1 DEF Done
  <2> QED BY <1>1, <1>6, <2>1, <2>2, <2>3
<1> QED BY <1>5, <1>7, <1>8, <1>9, <1>10, <1>11 DEF Sends

WorkCounts ==
  /\ Unsent(Here) \in Nat /\ Len(wire) \in Nat /\ Len(replies) \in Nat /\ Rest \in Nat

LEMMA WorkParts ==
  ASSUME MitmInv
  PROVE  WorkCounts
<1>1. StreamInv /\ MitmTypeOK
  BY DEF MitmInv, StreamInv
<1>2. Unsent(Here) \in Nat
  BY <1>1, UnsentNat DEF StreamInv
<1>3. Len(wire) \in Nat /\ Len(replies) \in Nat
  BY <1>1 DEF MitmTypeOK
<1>4. Rest \in Nat
  BY <1>1 DEF MitmTypeOK, Rest
<1> QED BY <1>2, <1>3, <1>4 DEF WorkCounts

LEMMA WorkNat ==
  ASSUME MitmInv
  PROVE  Work \in Nat
BY WorkParts DEF Work, WorkCounts

\* Whatever the two do, there is less left to do.
LEMMA WorkShrinks ==
  ASSUME MitmInv, WorkCounts, WorkCounts', MitmNext
  PROVE  Work' < Work
<1>1. /\ StreamInv /\ MitmTypeOK /\ hungUp \in BOOLEAN
      /\ wire \in Seq(Tokens) /\ replies \in Seq(Messages)
      /\ WellPlaced(script, Here)
  <2>1. StreamInv /\ MitmTypeOK
    BY DEF MitmInv, StreamInv
  <2> QED BY <2>1 DEF StreamInv, MitmTypeOK, Tokens, Messages
<1>2. /\ Unsent(Here) \in Nat /\ Len(wire) \in Nat /\ Len(replies) \in Nat
      /\ Rest \in Nat
  BY DEF WorkCounts
<1>3. /\ Unsent(Here)' \in Nat /\ Len(wire)' \in Nat /\ Len(replies)' \in Nat
      /\ Rest' \in Nat
  BY DEF WorkCounts
<1>4. CASE Advances
  <2>1. PICK t \in Tokens : /\ t.cut = FALSE /\ wire' = Append(wire, t)
                           /\ Link(script, Here, t, Here')
    BY <1>4 DEF Advances
  <2>2. Len(wire') = Len(wire) + 1
    BY <1>1, <2>1
  <2>3. script' = script /\ spc' = spc /\ replies' = replies /\ hungUp' = hungUp
    BY <1>4 DEF Advances, Unread, serverVars
  <2>4. Unsent(Here') < Unsent(Here)
    <3>1. WellPlaced(script, Here') /\ Here.of <= Len(script)
          /\ Sends(script, Here, t, Here')
      BY <1>4, <2>1, <2>3 DEF Advances, Link
    <3> QED BY <1>1, <3>1, SendsOne
  <2>5. Unsent(Here)' = Unsent(Here') /\ Rest' = Rest
    BY <2>3 DEF Unsent, Done, Rest
  <2> QED BY <1>2, <1>3, <2>2, <2>3, <2>4, <2>5, SMTT(30) DEF Work
<1>5. CASE ~Advances /\ UNCHANGED clientVars
  <2>1. script' = script /\ hungUp' = hungUp /\ Here' = Here
    BY <1>5 DEF clientVars, Here
  <2>2. Unsent(Here)' = Unsent(Here)
    BY <2>1 DEF Unsent, Done
  <2>3. CASE Hear
    <3>1. Len(replies') = Len(replies) - 1 /\ wire' = wire /\ Rest' = Rest
      BY <1>1, <2>3 DEF Hear, serverVars, Rest
    <3> QED BY <1>2, <1>3, <2>1, <2>2, <3>1 DEF Work
  <2>4. CASE wire # <<>> /\ Take /\ replies' = replies /\ Rest' < Rest + 10
    <3>1. Len(wire') = Len(wire) - 1
      BY <1>1, <2>4 DEF Take
    <3> QED BY <1>2, <1>3, <2>1, <2>2, <2>4, <3>1 DEF Work
  <2>5. CASE wire' = wire /\ replies' = replies /\ Rest' < Rest
    BY <1>2, <1>3, <2>1, <2>2, <2>5 DEF Work
  <2>6. CASE wire' = wire /\ Len(replies') = Len(replies) + 1 /\ Rest' + 1 < Rest
    <3>1. \A u, w, n, r, r2, h \in Nat :
            r2 + 1 < r => 20 * u + 10 * w + r2 + (n + 1) + h < 20 * u + 10 * w + r + n + h
      OBVIOUS
    <3>2. (IF hungUp THEN 0 ELSE 20) \in Nat
      OBVIOUS
    <3> QED BY <1>2, <1>3, <2>1, <2>2, <2>6, <3>1, <3>2, ZenonT(40) DEF Work
  <2>7. CASE ReadLine \/ ReadHeader \/ ReadBody
    <3>1. /\ spc \in {"line", "headers", "body"}
          /\ spc' \in {"line", "headers", "body", "continue", "closed"}
          /\ spc = "line" \/ spc' # "headers" \/ spc = "headers"
          /\ replies' = replies
      BY <2>7 DEF ReadLine, ReadHeader, ReadBody, StartRequest, BadLine, EndLoop,
        AfterHeaders, Goes
    <3>2. Rest' < Rest + 10
      BY <3>1 DEF Rest
    <3> QED BY <2>4, <2>7, <3>1, <3>2 DEF ReadLine, ReadHeader, ReadBody
  <2>8. CASE ReadEnd \/ Handle
    BY <2>5, <2>8 DEF ReadEnd, Handle, AfterHeaders, EndLoop, EndInBody, Goes, Rest
  <2>9. CASE SendContinue \/ Respond
    <3>1. CASE replies' = replies
      BY <2>5, <2>9, <3>1 DEF SendContinue, Respond, Writes, Goes, Rest
    <3>2. CASE replies' # replies
      <4>1. /\ wire' = wire
            /\ \/ spc = "continue" /\ spc' = "body"
               \/ spc = "answer" /\ spc' \in {"line", "closed"}
            /\ \E k : replies' = Append(replies, [kind |-> k, of |-> now.of])
        BY <2>9, <3>2 DEF SendContinue, Respond, Writes, Goes
      <4>2. Len(replies') = Len(replies) + 1
        BY <1>1, <4>1
      <4>3. Rest' + 1 < Rest
        BY <4>1 DEF Rest
      <4> QED BY <2>6, <4>1, <4>2, <4>3
    <3> QED BY <3>1, <3>2
  <2>10. ~HangUp /\ ~ClientSends /\ ~LosePatience
    <3>1. ~HangUp
      BY <2>1 DEF HangUp
    <3> QED BY <1>1, <1>5, <3>1, ClientAdvances
  <2> QED BY <2>3, <2>7, <2>8, <2>9, <2>10 DEF MitmNext, Loop
<1>6. CASE HangUp
  <2>1. /\ script' = script /\ Here' = Here /\ hungUp = FALSE /\ hungUp' = TRUE
        /\ replies' = replies /\ spc' = spc
    BY <1>1, <1>6 DEF HangUp, serverVars, Here
  <2>2. Unsent(Here)' = Unsent(Here) /\ Rest' = Rest
    BY <2>1 DEF Unsent, Done, Rest
  <2>3. Len(wire') <= Len(wire) + 1
    <3>1. wire' = wire \/ \E t \in Tokens : wire' = Append(wire, t)
      BY <1>1, <1>6, SendsOwn
    <3> QED BY <1>1, <1>2, <3>1
  <2> QED BY <1>2, <1>3, <2>1, <2>2, <2>3 DEF Work
<1> QED BY <1>1, <1>4, <1>5, <1>6, ClientAdvances
     DEF MitmNext, Loop, Hear, ReadLine, ReadHeader, ReadEnd, SendContinue, ReadBody,
       Handle, Respond

\* Where the loop stands in the stream, in every state of a connection.
THEOREM MitmInvariant == MitmSpec => []MitmInv
BY MitmInvInit, MitmInvNext, PTL DEF MitmSpec

\* MitmTypeOK: the loop and its client stay within their states, whatever the
\* client sends and wherever it stops.
THEOREM MitmTypes == MitmSpec => []MitmTypeOK
<1>1. MitmInv => MitmTypeOK
  BY DEF MitmInv, StreamInv
<1> QED BY <1>1, MitmInvariant, PTL

\* HandledWhole: no request is handled with a part of its body, or with bytes of
\* another one (handle_connect_mitm, from the request line to the handler).
THEOREM MitmHandledWhole == MitmSpec => []HandledWhole
BY MitmInvariant, MitmInvHandled, PTL

\* AnswersMatch: requests are handled in order, none twice, and their answers are
\* told in the same order (the loop of handle_connect_mitm).
THEOREM MitmAnswersMatch == MitmSpec => []AnswersMatch
BY MitmInvariant, MitmInvHandled, PTL

\* NeverStuck: the loop and its client never wait for each other, nor a client for
\* a loop that is over (the 100 Continue and the reads of handle_connect_mitm).
THEOREM MitmNeverStuck == MitmSpec => []NeverStuck
BY MitmInvariant, MitmInvStuck, PTL

\* RequestsSpec: requests are handled one at a time and in order, each with its own
\* body, and the next one only when the one before was answered (Requests).
THEOREM MitmImplementsRequests == MitmSpec => RequestsSpec
<1>1. MitmInit => Promise!Init
  BY PromiseInit
<1>2. MitmInv /\ MitmInv' /\ [MitmNext]_mitmVars => [Promise!Next]_(Promise!vars)
  BY PromiseNext
<1> QED BY <1>1, <1>2, MitmInvariant, PTL DEF MitmSpec, RequestsSpec, Promise!Spec

\* A connection runs down: every step of the client, of the loop or of what they tell
\* each other takes something from what is left, so that there are no more than Work.
\* With MitmNeverStuck: where nothing goes on, every request is settled.
THEOREM MitmRunsDown == MitmSpec => [](Work \in Nat) /\ [][Work' < Work]_mitmVars
<1>1. MitmInv => Work \in Nat
  BY WorkNat
<1>2. MitmInv => WorkCounts
  BY WorkParts
<1>3. MitmInv /\ WorkCounts /\ WorkCounts' /\ [MitmNext]_mitmVars => [Work' < Work]_mitmVars
  BY WorkShrinks
<1> QED BY <1>1, <1>2, <1>3, MitmInvariant, PTL DEF MitmSpec

=============================================================================
