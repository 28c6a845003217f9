------------------------------ MODULE Routing ------------------------------
(***************************************************************************)
(* What a request asks for: the two routers of the server, that of axum    *)
(* (build_registry_router, src/src/lib.rs) for requests it is sent as a    *)
(* registry, and handle_internal_request (src/src/endpoints.rs) for those  *)
(* it intercepts.  They were written apart, one of patterns of segments,   *)
(* one of conditions on strings, tried in order.                           *)
(*                                                                         *)
(* A path is the sequence of its segments, words of which the width        *)
(* matters.  Assumptions: no segment is empty, no other one begins with    *)
(* "crates", and all are of ASCII, so that the characters the second       *)
(* router counts are the bytes it cuts.                                    *)
(***************************************************************************)
EXTENDS Naturals, Sequences

CONSTANTS
  Words,     \* segments of paths: names, versions, parts of names, fixed ones
  Width,     \* characters of a word
  Names,     \* words that are names of crates
  Versions,  \* words that are versions
  First,     \* the first character of a name
  FirstTwo,  \* its first two
  NextTwo    \* its third and fourth

Fixed == {"config.json", "1", "2", "3", "api", "v1", "crates", "new", "download"}

ASSUME WordAssumption ==
  /\ Fixed \cup Names \cup Versions \subseteq Words
  /\ Width \in [Words -> Nat \ {0}]
  /\ Width["config.json"] = 11 /\ Width["crates"] = 6 /\ Width["download"] = 8
  /\ Width["api"] = 3 /\ Width["new"] = 3 /\ Width["v1"] = 2
  /\ Width["1"] = 1 /\ Width["2"] = 1 /\ Width["3"] = 1
  /\ "download" \notin Versions
  /\ \A n \in Names :
       /\ Width[n] = 3 => First[n] \in Words
       /\ Width[n] > 3 => \A w \in {FirstTwo[n], NextTwo[n]} :
                            w \in Words /\ Width[w] = 2

Methods == {"GET", "HEAD", "PUT", "POST", "DELETE", "PATCH", "CONNECT"}

\* What the server does for a request, or the status of the one it refuses.
Operation(op, args) == [op |-> op, args |-> args]
Refused(code) == Operation(code, <<>>)
Lookup(name) == Operation("lookup", name)
Asked(query) == IF query THEN <<"?">> ELSE <<>>

Refusals == {"400", "404", "405"}

-----------------------------------------------------------------------------
(* axum: a fixed segment goes before a parameter, a pattern that fits and    *)
(* has no handler for the method is answered 405.                            *)

On(methods, method, operation) ==
  IF method \in methods THEN operation ELSE Refused("405")

\* get() answers HEAD as well.
Get(method, operation) == On({"GET", "HEAD"}, method, operation)

Crates == <<"api", "v1", "crates">>

DirectRoute(r) ==
  IF r.path = <<"config.json">> THEN Get(r.method, Operation("config", <<>>))
  ELSE IF Len(r.path) = 2 /\ r.path[1] \in {"1", "2"}
    THEN Get(r.method, Lookup(<<r.path[2]>>))
  ELSE IF r.path = Crates THEN Get(r.method, Operation("search", Asked(r.query)))
  ELSE IF Len(r.path) = 3 THEN Get(r.method, Lookup(<<r.path[3]>>))
  ELSE IF r.path = Crates \o <<"new">>
    THEN On({"PUT"}, r.method, Operation("publish", <<>>))
  ELSE IF Len(r.path) = 6 /\ SubSeq(r.path, 1, 3) = Crates /\ r.path[6] = "download"
    THEN Get(r.method, Operation("download", <<r.path[4], r.path[5]>>))
  ELSE Refused("404")

-----------------------------------------------------------------------------
(* handle_internal_request.  The query is part of the string it looks at.    *)

From(p, k) == SubSeq(p, k, Len(p))

BelowCrates(p) == Len(p) > 3 /\ SubSeq(p, 1, 3) = Crates
EndsInDownload(r) == ~r.query /\ r.path[Len(r.path)] = "download"

\* trim_start_matches("/api/v1/crates/") and trim_end_matches("/download"),
\* which takes off every one that stands at the end.
DownloadParts(p) ==
  SubSeq(p, 4, CHOOSE m \in 4..Len(p) :
                 /\ m = 4 \/ p[m] # "download"
                 /\ \A k \in (m + 1)..Len(p) : p[k] = "download")

InternalSearchFirst(r) ==                        \* slip: the prefix tried first
  LET p == r.path
      rest == Asked(r.query)
  IN  IF r.method = "PUT" THEN Operation("publish", <<>>)
      ELSE IF p = <<"config.json">> THEN Operation("config", <<>>)
      ELSE IF Len(p) > 2 /\ SubSeq(p, 1, 3) = Crates
        THEN Operation("search", From(p, 4) \o rest)
      ELSE IF Len(p) > 1 /\ p[1] \in {"1", "2"} THEN Lookup(From(p, 2) \o rest)
      ELSE IF Len(p) > 2 THEN Lookup(From(p, 3) \o rest)
      ELSE Refused("404")

\* A "/" at the fourth and the seventh character: two segments of width two.
InternalGet(r) ==
  LET p == r.path
      rest == Asked(r.query)
  IN  IF p = <<"config.json">> /\ ~r.query THEN Operation("config", <<>>)
      ELSE IF Len(p) > 1 /\ p[1] \in {"1", "2"} THEN Lookup(From(p, 2) \o rest)
      ELSE IF Len(p) > 1 /\ p[1] = "3"
        THEN IF Len(p) > 2 THEN Lookup(From(p, 3) \o rest) ELSE Refused("400")
      ELSE IF Len(p) > 2 /\ Width[p[1]] = 2 /\ Width[p[2]] = 2
        THEN Lookup(From(p, 3) \o rest)
      ELSE IF BelowCrates(p) /\ EndsInDownload(r)
        THEN IF Len(DownloadParts(p)) = 2
               THEN Operation("download", DownloadParts(p)) ELSE Refused("400")
      ELSE IF Len(p) > 2 /\ SubSeq(p, 1, 3) = Crates
        THEN Operation("search", From(p, 4) \o rest)
      ELSE Refused("404")

InternalRoute(r) ==
  IF r.method = "GET" THEN InternalGet(r)
  ELSE IF r.method = "PUT" /\ r.path = Crates \o <<"new">> /\ ~r.query
    THEN Operation("publish", <<>>)
  ELSE Refused("404")

-----------------------------------------------------------------------------
(* What cargo asks a registry for, and RemoteRegistry an upstream, which may *)
(* be another such server.                                                   *)

IndexPath(n) ==
  IF Width[n] = 1 THEN <<"1", n>>
  ELSE IF Width[n] = 2 THEN <<"2", n>>
  ELSE IF Width[n] = 3 THEN <<"3", First[n], n>>
  ELSE <<FirstTwo[n], NextTwo[n], n>>

Lookups == {Lookup(<<n>>) : n \in Names}
Downloads == {Operation("download", <<n, v>>) : n \in Names, v \in Versions}
Others ==
  {Operation("config", <<>>), Operation("publish", <<>>),
   Operation("search", Asked(TRUE))}
Wanted == Lookups \cup Downloads \cup Others

Target(method, path, query) == [method |-> method, path |-> path, query |-> query]

TargetOf(w) ==
  IF w.op = "publish" THEN Target("PUT", Crates \o <<"new">>, FALSE)
  ELSE IF w.op = "config" THEN Target("GET", <<"config.json">>, FALSE)
  ELSE IF w.op = "lookup" THEN Target("GET", IndexPath(w.args[1]), FALSE)
  ELSE IF w.op = "download"
    THEN Target("GET", Crates \o <<w.args[1], w.args[2], "download">>, FALSE)
  ELSE Target("GET", Crates, TRUE)

=============================================================================
