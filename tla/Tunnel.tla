------------------------------- MODULE Tunnel -------------------------------
(***************************************************************************)
(* A connection to any other host: handle_connect_passthrough              *)
(* (src/src/http_proxy.rs) copies bytes both ways between the client and   *)
(* the upstream until either copy ends, and then drops both connections.   *)
(* The client was told "200" before the upstream is connected to.          *)
(*                                                                         *)
(* Bytes are counted, in units.  Of those a source has sent, the copy has  *)
(* read some into its buffer and written some of these to the other side.  *)
(***************************************************************************)
EXTENDS Naturals

CONSTANTS
  Units,      \* bound: units each side sends, [{"up", "down"} -> Nat]
  MayBreak    \* may a connection fail?

Ways == {"up", "down"}   \* client to upstream, upstream to client

ASSUME UnitsAssumption == Units \in [Ways -> Nat] /\ MayBreak \in BOOLEAN

VARIABLES
  tunnel,   \* where the handler stands
  sent,     \* units the source of each way has sent
  finished, \* has the source of each way closed its side?
  read,     \* units the copy has read
  written,  \* units the copy has written on
  ending    \* why the handler returned

tunnelVars == <<tunnel, sent, finished, read, written, ending>>

TunnelInit ==
  /\ tunnel = "connecting"
  /\ sent = [w \in Ways |-> 0]
  /\ finished = [w \in Ways |-> FALSE]
  /\ read = [w \in Ways |-> 0]
  /\ written = [w \in Ways |-> 0]
  /\ ending = "none"

-----------------------------------------------------------------------------
(* The two ends.  The client may send as soon as it was told "200". *)

CanSend(w) == ~finished[w] /\ (w = "up" \/ tunnel = "open")

\* The upstream answers when it has the whole request.
ToSend(w) ==
  CanSend(w) /\ sent[w] < Units[w] /\ (w = "down" => written["up"] = Units["up"])

SendUnits(w) ==
  /\ ToSend(w)
  /\ sent' = [sent EXCEPT ![w] = @ + 1]
  /\ UNCHANGED <<tunnel, finished, read, written, ending>>

\* Either end closes its side when it has sent what it has to send.  It still
\* reads what the other sends: closing a side ends one of the two ways.
Finish(w) ==
  /\ CanSend(w)
  /\ sent[w] = Units[w]
  /\ finished' = [finished EXCEPT ![w] = TRUE]
  /\ UNCHANGED <<tunnel, sent, read, written, ending>>

-----------------------------------------------------------------------------
(* The handler. *)

Return(why) == tunnel' = "closed" /\ ending' = why

ConnectUpstream ==
  /\ tunnel = "connecting"
  /\ \/ tunnel' = "open" /\ UNCHANGED ending
     \/ MayBreak /\ Return("refused")
  /\ UNCHANGED <<sent, finished, read, written>>

ToRead(w) == tunnel = "open" /\ read[w] = written[w] /\ sent[w] > read[w]
ToWrite(w) == tunnel = "open" /\ read[w] > written[w]

\* tokio::io::copy reads what there is ...
CopyRead(w) ==
  /\ ToRead(w)
  /\ \E n \in (read[w] + 1)..sent[w] : read' = [read EXCEPT ![w] = n]
  /\ UNCHANGED <<tunnel, sent, finished, written, ending>>

\* ... and writes it on, before it reads again.
CopyWrite(w) ==
  /\ ToWrite(w)
  /\ \E n \in (written[w] + 1)..read[w] : written' = [written EXCEPT ![w] = n]
  /\ UNCHANGED <<tunnel, sent, finished, read, ending>>

CopyEndsIdle(w) ==                               \* slip: an idle tunnel is closed
  /\ tunnel = "open" /\ sent[w] = read[w] /\ read[w] = written[w]
  /\ Return(w)
  /\ UNCHANGED <<sent, finished, read, written>>

\* A copy that has read the end of its source is done, and so is select!:
\* the other copy is dropped where it stands, and with it both connections.
CopyEnds(w) ==
  /\ tunnel = "open"
  /\ finished[w]
  /\ sent[w] = read[w] /\ read[w] = written[w]
  /\ Return(w)
  /\ UNCHANGED <<sent, finished, read, written>>

\* A read or a write fails: the copy returns an error, and so ends select!.
CopyBreaks ==
  /\ MayBreak
  /\ tunnel = "open"
  /\ Return("broken")
  /\ UNCHANGED <<sent, finished, read, written>>

EndStep(w) == SendUnits(w) \/ Finish(w)
HandlerStep(w) == CopyRead(w) \/ CopyWrite(w) \/ CopyEnds(w)

TunnelNext ==
  \/ ConnectUpstream \/ CopyBreaks
  \/ \E w \in Ways : EndStep(w) \/ HandlerStep(w)

TunnelSpec == TunnelInit /\ [][TunnelNext]_tunnelVars

-----------------------------------------------------------------------------
TunnelTypeOK ==
  /\ tunnel \in {"connecting", "open", "closed"}
  /\ sent \in [Ways -> Nat]
  /\ finished \in [Ways -> BOOLEAN]
  /\ read \in [Ways -> Nat]
  /\ written \in [Ways -> Nat]
  /\ ending \in Ways \cup {"none", "refused", "broken"}

\* The answer has arrived, or will not for a reason other than the copying.
Arrives ==
  \/ written["down"] = Units["down"]
  \/ finished["up"]
  \/ ending \in {"refused", "broken"}

\* Where no unit is left to be sent, read or written, by anyone who still can, the
\* answer has arrived: no unit is left behind in a buffer.
NoneLeftBehind ==
  tunnel # "connecting" /\ (\A w \in Ways : ~ToSend(w) /\ ~ToRead(w) /\ ~ToWrite(w))
    => Arrives

\* "Non-registry traffic passes through unmodified" (src/README.md:183): unless
\* a connection failed, what a side sent has been written to the other when the
\* tunnel is gone, the answer to the client above all.
PassesThrough ==
  tunnel = "closed" /\ ending \notin {"refused", "broken"} =>
    written["down"] = Units["down"]

=============================================================================
