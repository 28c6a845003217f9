------------------------------ MODULE Requests ------------------------------
(***************************************************************************)
(* What a connection promises to a client that sends requests, as many at  *)
(* a time as it likes (handle_connect_mitm, src/src/http_proxy.rs): they   *)
(* are handled one at a time and in their order, each with its own body,   *)
(* and the next one only when the one before was answered.  A request the  *)
(* client did not send to its end may be handled without its body, and is  *)
(* then the last.                                                          *)
(***************************************************************************)
EXTENDS Naturals, Sequences

VARIABLES
  script,    \* the requests of the client; fixed when the behaviour starts
  handled,   \* those handled: which request, and whose units the body was
  answered   \* the numbers of those answered

vars == <<script, handled, answered>>

Init == handled = <<>> /\ answered = {}

BodyOf(i) == [u \in 1..script[i].body |-> i]
NoBody == <<>>

Handle(i) ==
  /\ i \in DOMAIN script /\ i = Len(handled) + 1
  /\ answered = 1..Len(handled)
  /\ \A k \in DOMAIN handled : handled[k].body = BodyOf(k)
  /\ \E b \in {BodyOf(i), NoBody} : handled' = Append(handled, [of |-> i, body |-> b])
  /\ UNCHANGED <<script, answered>>

Answer(i) ==
  /\ i = Len(handled) /\ answered = 1..(i - 1)
  /\ answered' = 1..i
  /\ UNCHANGED <<script, handled>>

Next == \E i \in DOMAIN script : Handle(i) \/ Answer(i)

Spec == Init /\ [][Next]_vars

=============================================================================
