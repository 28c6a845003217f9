------------------------------- MODULE Server -------------------------------
(***************************************************************************)
(* A connection the server accepts (run_server, src/src/main.rs), and its  *)
(* first request, which comes in one of three ways: to the server as a     *)
(* registry (through axum), to a proxy for a URL (handle_forward_request,  *)
(* src/src/http_proxy.rs), or as a CONNECT (Connect).  The first two are   *)
(* exchanges: one request, one answer.  On a connection that is kept, the  *)
(* next request is another.                                                *)
(* What a registry does with an operation is the business of LayerStack;   *)
(* here it is one of four outcomes.                                        *)
(***************************************************************************)
EXTENDS Connect, Routing

CONSTANT Visits   \* [setup, request, scripts]: a server, what it is asked, and
                  \* the scripts of an intercepted client that asks it

\* The request, and the way it comes: one sent over an intercepted connection is
\* as a CONNECT to the server itself.  host is that of the URL or the CONNECT;
\* large: the body has more than the 2 MB that axum lets a handler take.
Doors == {"registry", "absolute", "connect"}
Request ==
  [door : Doors, method : Methods, host : Hosts, path : Seq(Words) \ {<<>>},
   query : BOOLEAN, large : BOOLEAN]

ASSUME VisitAssumption ==
  \A v \in Visits : v.setup \in Setups /\ v.request \in Request

VARIABLES
  request,  \* fixed when the behaviour starts
  xpc,      \* where the exchange stands
  doing,    \* the operation it is about
  outcome,  \* what came of it
  status,   \* the answer
  passedTo  \* the host the request was passed on to, or the search of it

exchangeVars == <<xpc, doing, outcome, status, passedTo>>
serverAll == <<request, exchangeVars, connectVars>>

Nothing == Operation("nothing", <<>>)

ServerInit ==
  /\ \E v \in Visits :
       /\ setup = v.setup /\ request = v.request /\ host = v.request.host
       /\ script \in {<<>>} \cup v.scripts
       /\ v.request.door # "connect" => script = <<>>
       /\ ConnectStart
  /\ xpc = "accepted" /\ doing = Nothing
  /\ outcome = "none" /\ status = "none" /\ passedTo = NoHost

Stays == UNCHANGED <<request, connectVars>>

-----------------------------------------------------------------------------
(* serve_stream *)

DispatchedByMethod ==                            \* slip: CONNECT only
  IF setup.proxy /\ request.door = "connect" THEN "connect" ELSE "axum"

\* is_proxy_request and handle_proxy_request.  Without the proxy all goes to
\* axum, which looks at the path only.
Dispatched ==
  IF setup.proxy /\ request.door = "connect" THEN "connect"
  ELSE IF setup.proxy /\ request.door = "absolute" THEN "forward"
  ELSE "axum"

Dispatch ==
  /\ xpc = "accepted"
  /\ xpc' = Dispatched
  /\ UNCHANGED <<doing, outcome, status, passedTo>>
  /\ Stays

AnswerLost(s) == xpc' = "answered" /\ UNCHANGED status   \* slip: nothing sent
Answer(s) == status' = s /\ xpc' = "answered"

\* A router's verdict: an operation to perform, or a refusal.
Perform(operation) ==
  /\ doing' = operation
  /\ IF operation.op \in Refusals
       THEN Answer(operation.op)
       ELSE xpc' = "perform" /\ UNCHANGED status
  /\ UNCHANGED <<outcome, passedTo>>

\* A CONNECT has no path.
Found == IF request.door = "connect" THEN Refused("404") ELSE DirectRoute(request)

\* The handler of a publish takes the body as Bytes, up to a limit, if it can be
\* read; none of the others reads it.
RouteDirect ==
  /\ xpc = "axum"
  /\ \/ /\ Found.op = "publish"
        /\ Answer("400") \/ (request.large /\ Answer("413"))
        /\ UNCHANGED <<doing, outcome, passedTo>>
     \/ /\ ~(Found.op = "publish" /\ request.large)
        /\ Perform(Found)
  /\ Stays

\* handle_forward_request: the body is read whole, whoever it is for.
Forward ==
  /\ xpc = "forward"
  /\ \/ /\ Answer("400") /\ UNCHANGED <<doing, outcome, passedTo>>
     \/ /\ ShouldIntercept(request.host)
        /\ Perform(InternalRoute(request))
     \/ /\ ~ShouldIntercept(request.host)
        /\ IF request.method \in {"GET", "POST", "PUT", "DELETE", "HEAD"}
             THEN /\ xpc' = "relay" /\ passedTo' = request.host
                  /\ UNCHANGED status
             ELSE Answer("405") /\ UNCHANGED passedTo
        /\ UNCHANGED <<doing, outcome>>
  /\ Stays

-----------------------------------------------------------------------------
(* The handlers of the operations, in either of their two copies. *)

\* What may come of an operation: it is done; there is no such crate or version;
\* the request is not one the registry takes; something fails.
Outcomes(op) ==
  IF op = "config" THEN {"done"}
  ELSE IF op \in {"lookup", "download"} THEN {"done", "absent", "failed"}
  ELSE IF op = "publish" THEN {"done", "rejected", "failed"}
  ELSE {}

StatusAbsent(op, o) ==                           \* slip: a failure is an absence
  IF o = "done" THEN "200"
  ELSE IF o = "rejected" THEN "400"
  ELSE IF op = "publish" THEN "500" ELSE "404"

StatusOf(op, o) ==
  IF o = "done" THEN "200"
  ELSE IF o = "absent" THEN "404"
  ELSE IF o = "rejected" THEN "400"
  ELSE IF op = "publish" THEN "500" ELSE "502"

Operate ==
  /\ xpc = "perform"
  /\ \E o \in Outcomes(doing.op) :
       /\ outcome' = o
       /\ Answer(StatusOf(doing.op, o))
  /\ UNCHANGED <<doing, passedTo>>
  /\ Stays

\* A search goes to the API of an upstream.
Search ==
  /\ xpc = "perform" /\ doing.op = "search"
  /\ xpc' = "relay"
  /\ passedTo' = HostOf[UpstreamApi(setup.specs)]
  /\ UNCHANGED <<doing, outcome, status>>
  /\ Stays

\* The answer of the host is sent on whole, or else 502: for the request could
\* not be sent, or the answer not be read to its end.
Relay ==
  /\ xpc = "relay"
  /\ \/ outcome' = "done" /\ Answer("as answered")
     \/ outcome' = "failed" /\ Answer("502")
  /\ UNCHANGED <<doing, passedTo>>
  /\ Stays

\* The client hangs up, and its handler is dropped where it stands.
ClientLeaves ==
  /\ xpc \in {"accepted", "axum", "forward", "perform", "relay"}
  /\ xpc' = "gone"
  /\ UNCHANGED <<doing, outcome, status, passedTo>>
  /\ Stays

\* A request that is handled on an intercepted connection is routed as those
\* of handle_forward_request are.
ViaConnect ==
  /\ xpc = "connect"
  /\ ConnectNext
  /\ doing' = IF handled' = handled THEN doing ELSE InternalRoute(request)
  /\ UNCHANGED <<request, xpc, outcome, status, passedTo>>

ServerFinished == xpc \in {"answered", "gone"} /\ UNCHANGED serverAll

ServerNext ==
  \/ Dispatch \/ RouteDirect \/ Forward \/ Operate \/ Search \/ Relay
  \/ ClientLeaves
  \/ ViaConnect
  \/ ServerFinished

ServerSpec == ServerInit /\ [][ServerNext]_serverAll /\ ConnectFairness

-----------------------------------------------------------------------------
Operations ==
  {"nothing", "config", "lookup", "download", "search", "publish"} \cup Refusals

ServerTypeOK ==
  /\ request \in Request
  /\ xpc \in {"accepted", "axum", "forward", "connect", "perform", "relay",
              "answered", "gone"}
  /\ doing.op \in Operations
  /\ outcome \in {"none", "done", "absent", "rejected", "failed"}
  /\ status \in {"none", "200", "400", "404", "405", "413", "500", "502",
                 "as answered"}
  /\ passedTo \in Hosts \cup {NoHost}
  /\ xpc = "answered" <=> status # "none"

\* cargo asks for w; through the proxy, if there is one.
Asks(w) ==
  /\ request.door = "connect" => setup.proxy
  /\ Target(request.method, request.path, request.query) = TargetOf(w)

\* Whichever way it comes, a request of cargo's is taken by the overlay for what
\* cargo wants: the same crate, the same version, the same operation, although
\* two routers decide it, one by patterns and one by conditions tried in order.
RightOperation ==
  \A w \in Wanted : Asks(w) /\ doing # Nothing => doing = w

\* cargo takes 404 for "there is no such crate": a request of its own is given
\* this answer only if the registries said so, never if one failed, nor for a
\* path the server does not know, nor for one it takes for another; and 200 only
\* if it was done.
AnswerIsTrue ==
  \A w \in Wanted :
    Asks(w) /\ request.door # "connect" =>
      /\ status = "404" => doing = w /\ outcome = "absent"
      /\ status = "200" => doing = w /\ outcome = "done"

\* The hosts that the arguments name as those of a registry.
RegistryHosts ==
  {HostOf[u] : u \in Urls \cap UNION {{setup.specs[k].api, setup.specs[k].index} :
                                       k \in Remotes(setup.specs)}}

\* What a client sends to a registry of the overlay through the proxy does not
\* pass by the overlay, neither through a tunnel nor as a forwarded request: so
\* a crate published locally hides the one of that name upstream.  Only a search
\* is passed on.
RegistryTrafficStaysIn ==
  IsOrIsBelow(host, RegistryHosts) =>
    /\ route # "tunnel"
    /\ passedTo # NoHost => doing.op = "search"

\* No crate is published, listed or given out for somebody else's host: through
\* the proxy, the overlay performs an operation of its own only for the hosts of
\* the registries and, where crates.io is one of them, that of its files.  This is
\* not that other traffic is unaltered: of a forwarded request the server answers
\* some methods 405 itself (Forward).
ActsForRegistriesOnly ==
  setup.proxy /\ request.door # "registry" /\ doing # Nothing =>
    \/ IsOrIsBelow(host, RegistryHosts)
    \/ IsOrIsBelow(host, {StaticCratesIo}) /\ RegistryHosts \cap SaysCratesIo # {}

\* A registry is the same after its specification was printed and read again, as
\* the default ones are when the arguments are parsed.
SpecsSurvive ==
  \A k \in DOMAIN setup.specs : FromStr(Display(setup.specs[k])) = setup.specs[k]

=============================================================================
