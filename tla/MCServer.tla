------------------------------ MODULE MCServer ------------------------------
(* Values for the constants of Server: three servers, what cargo asks them   *)
(* about crates whose names are words of the server's own paths, and some    *)
(* requests that cargo does not send.                                        *)
EXTENDS Server, TLC

CONSTANTS cratesIo, indexCratesIo, staticCratesIo, api, index, belowIndex, other

MCHosts ==
  {cratesIo, indexCratesIo, staticCratesIo, api, index, belowIndex, other}
MCSubdomainOf ==
  {<<indexCratesIo, cratesIo>>, <<staticCratesIo, cratesIo>>, <<belowIndex, index>>}

MCApi == <<"https://crates.io">>
MCIndex == <<"https://index.crates.io">>
MyApi == <<"https://api">>
MyIndex == <<"https://index">>
Unreadable == <<"no URL", "">>
MCPiece == {"https://crates.io", "https://index.crates.io", "https://api",
            "https://index", "no URL", "", "dir"}
MCHostOf ==
  (MCApi :> cratesIo) @@ (MCIndex :> indexCratesIo) @@ (MyApi :> api)
  @@ (MyIndex :> index) @@ (Unreadable :> NoHost)
  @@ [t \in {<<p>> : p \in MCPiece} |-> NoHost]

LocalDir == FromStr(Arg("local", <<"dir", "">>))
Server1(specs, proxy) == [specs |-> specs, proxy |-> proxy]

\* The registries by default; one of two URLs over crates.io's API with another
\* index; and no proxy.
MCSetups ==
  {Server1(<<FromStr(Arg("local", NoText)), FromStr(Arg("crates.io", NoText))>>, TRUE),
   Server1(<<LocalDir, FromStr(Arg("remote", MyApi \o MyIndex)),
             FromStr(Arg("remote", MyIndex \o Unreadable))>>, TRUE),
   Server1(<<FromStr(Arg("remote", MCApi \o MyIndex))>>, TRUE),
   Server1(<<FromStr(Arg("remote", MyApi)), FromStr(Arg("crates-io", NoText))>>, FALSE)}

MCNames == {"1", "v1", "new", "crates", "download"}
MCVersions == {"1.0.0"}
MCFirst == [n \in {"new"} |-> "n"]
MCFirstTwo == [n \in {"crates", "download"} |-> IF n = "crates" THEN "cr" ELSE "do"]
MCNextTwo == [n \in {"crates", "download"} |-> IF n = "crates" THEN "at" ELSE "wn"]
MCWords == Fixed \cup MCNames \cup MCVersions \cup {"cr", "at", "do", "wn", "n"}
MCWidth ==
  [w \in MCWords |->
     CASE w \in {"1", "2", "3", "n"} -> 1
       [] w \in {"v1", "cr", "at", "do", "wn"} -> 2
       [] w \in {"api", "new"} -> 3
       [] w = "1.0.0" -> 5
       [] w = "crates" -> 6
       [] w = "download" -> 8
       [] OTHER -> 11]

Targets ==
  {TargetOf(w) : w \in Wanted}
  \cup {Target("GET", <<"config.json">>, TRUE), Target("HEAD", <<"config.json">>, FALSE),
        Target("PUT", <<"config.json">>, FALSE), Target("GET", <<"3", "n">>, FALSE),
        Target("GET", Crates \o <<"n", "1.0.0", "n", "download">>, FALSE),
        Target("GET", Crates \o <<"n">>, FALSE), Target("GET", Crates, FALSE),
        Target("GET", <<"api">>, FALSE), Target("PATCH", <<"n">>, FALSE)}

Asking(door, h, t, large) ==
  [door |-> door, method |-> t.method, host |-> h, path |-> t.path,
   query |-> t.query, large |-> large]

Visit(s, r, scripts) == [setup |-> s, request |-> r, scripts |-> scripts]

\* One request, with a unit of a body if it is a publish.
Plain(t) ==
  IF t.method = "PUT" THEN {<<[padded |-> FALSE, headers |-> {"length"}, body |-> 1]>>}
  ELSE {<<[padded |-> FALSE, headers |-> {}, body |-> 0]>>}

Exchanges ==
  {Visit(s, Asking(door, h, t, large), {}) :
     s \in MCSetups, door \in {"registry", "absolute"}, h \in MCHosts, t \in Targets,
     large \in BOOLEAN}
Interceptions ==
  UNION {{Visit(s, Asking("connect", h, t, FALSE), Plain(t)) :
            s \in {u \in MCSetups : IsOrIsBelow(h, UpstreamHosts(u.specs))},
            t \in Targets} : h \in MCHosts}
Tunnels ==
  {Visit(s, Asking("connect", h, Target("GET", <<"config.json">>, FALSE), FALSE), {}) :
     s \in MCSetups, h \in MCHosts}

\* One client is followed through whatever it may send on its connection.
Followed ==
  {Visit(s, Asking("connect", staticCratesIo, TargetOf(Lookup(<<"v1">>)), FALSE),
         UNION {[1..n -> HttpRequest] : n \in 0..MaxRequests}) :
     s \in {u \in MCSetups : u.proxy /\ Len(u.specs) = 2}}

MCVisits == Exchanges \cup Interceptions \cup Tunnels \cup Followed
MCUnits == [w \in Ways |-> 2]

=============================================================================
