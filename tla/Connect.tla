------------------------------ MODULE Connect ------------------------------
(***************************************************************************)
(* A CONNECT request: handle_connect (src/src/http_proxy.rs) answers "200" *)
(* and leaves the connection to a task of its own, which intercepts it     *)
(* (MitmConnection) if the host is one of an upstream registry, and else   *)
(* passes it through (Tunnel).                                             *)
(***************************************************************************)
EXTENDS MitmConnection, Tunnel, ServerSetup

CONSTANT Setups   \* servers

ASSUME SetupAssumption == Setups \subseteq Setup

VARIABLES
  setup,  \* the server; fixed when the behaviour starts
  host,   \* the host of the request; fixed when the behaviour starts
  route   \* what has become of the connection

connectVars == <<setup, host, route, mitmVars, tunnelVars>>
fixedVars == <<setup, host>>

ShouldIntercept(h) == IsOrIsBelow(h, UpstreamHosts(setup.specs))

\* The requests of the client are kept for the interception of a host.
ConnectStart ==
  /\ route = "asked"
  /\ MitmInit
  /\ ~ShouldIntercept(host) => script = <<>>
  /\ TunnelInit

ConnectInit == setup \in Setups /\ host \in Hosts /\ ConnectStart

\* handle_connect answers 200, and a task waits for the connection.
HandleConnect ==
  /\ route = "asked"
  /\ route' = "upgrading"
  /\ UNCHANGED <<fixedVars, mitmVars, tunnelVars>>

\* The HTTP connection becomes a stream of bytes; or the upgrade fails.
Upgrade ==
  /\ route = "upgrading"
  /\ route' \in {IF ShouldIntercept(host) THEN "handshake" ELSE "tunnel", "failed"}
  /\ UNCHANGED <<fixedVars, mitmVars, tunnelVars>>

\* A certificate is made for the host, and the client accepts it or not.
Handshake ==
  /\ route = "handshake"
  /\ route' \in {"mitm", "failed"}
  /\ UNCHANGED <<fixedVars, mitmVars, tunnelVars>>

Intercepted(A) == route = "mitm" /\ A /\ UNCHANGED <<fixedVars, route, tunnelVars>>
Passed(A) == route = "tunnel" /\ A /\ UNCHANGED <<fixedVars, route, mitmVars>>

\* A connection that is over.
Over ==
  /\ \/ route = "failed"
     \/ route = "mitm" /\ spc = "closed"
     \/ route = "tunnel" /\ tunnel = "closed"
  /\ UNCHANGED connectVars

ConnectNext ==
  \/ HandleConnect \/ Upgrade \/ Handshake
  \/ Intercepted(MitmNext)
  \/ Passed(TunnelNext)
  \/ Over

\* The runtime runs the task again whenever the stream is ready, and select!
\* polls both copies.  The two ends send what they have to send and read what
\* they are sent; nothing says that they close their side, or that a client
\* loses patience.
ConnectFairness ==
  /\ WF_connectVars(HandleConnect)
  /\ WF_connectVars(Upgrade) /\ WF_connectVars(Handshake)
  /\ WF_connectVars(Intercepted(ClientSends))
  /\ WF_connectVars(Intercepted(Hear))
  /\ WF_connectVars(Intercepted(Loop))
  /\ WF_connectVars(Passed(ConnectUpstream))
  /\ \A w \in Ways : /\ WF_connectVars(Passed(SendUnits(w)))
                    /\ WF_connectVars(Passed(HandlerStep(w)))

ConnectSpec == ConnectInit /\ [][ConnectNext]_connectVars /\ ConnectFairness

-----------------------------------------------------------------------------
ConnectTypeOK ==
  /\ MitmTypeOK /\ TunnelTypeOK
  /\ setup \in Setup /\ host \in Hosts
  /\ route \in {"asked", "upgrading", "handshake", "mitm", "tunnel", "failed"}

\* On an intercepted connection every request is answered, unless the client
\* hangs up or asked for the connection to be closed earlier.  The client need
\* not lose patience: the two never wait for each other, one for
\* "100 Continue", the other for the body.
AllAnswered ==
  \A i \in 1..MaxRequests : route = "mitm" ~> Settles(i)

\* Through the tunnel the answer of the upstream arrives in full, if the client
\* keeps its own side open until then and no connection fails.
AnswerArrives == route = "tunnel" ~> Arrives

=============================================================================
