---------------------------- MODULE ServerSetup ----------------------------
(***************************************************************************)
(* What the arguments of the server make of it: the registries that        *)
(* RegistrySpec reads from them, and the hosts that build_registry has     *)
(* intercepted for these (src/src/registry/spec.rs).                       *)
(*                                                                         *)
(* A text, such as a URL or a path, is the sequence of its pieces between  *)
(* commas.                                                                 *)
(***************************************************************************)
EXTENDS Naturals, Sequences

CONSTANTS
  Piece,         \* pieces of texts
  Hosts,
  NoHost,        \* what a URL that cannot be parsed has for a host
  HostOf,        \* the host of a URL
  SubdomainOf,   \* pairs of a host and a host it is a subdomain of
  SaysCratesIo,  \* the hosts whose names contain "crates.io"
  StaticCratesIo,
  CratesIoApi, CratesIoIndex

Text == Seq(Piece) \ {<<>>}
NoText == <<>>          \* no text; the empty text is a text of one piece
Urls == DOMAIN HostOf

ASSUME HostAssumption ==
  /\ NoHost \notin Hosts
  /\ {<<p>> : p \in Piece} \subseteq Urls /\ Urls \subseteq Text
  /\ HostOf \in [Urls -> Hosts \cup {NoHost}]
  /\ SubdomainOf \subseteq Hosts \X Hosts
  /\ SaysCratesIo \subseteq Hosts /\ StaticCratesIo \in Hosts
  /\ CratesIoApi \in Urls /\ CratesIoIndex \in Urls
  /\ Len(CratesIoApi) = 1 /\ CratesIoApi # CratesIoIndex

-----------------------------------------------------------------------------
(* RegistrySpec and its two conversions.                                     *)

Local(path) == [kind |-> "local", path |-> path]
Remote(api, index) == [kind |-> "remote", api |-> api, index |-> index]
CratesIo == Remote(CratesIoApi, CratesIoIndex)
NoSpec == [kind |-> "error"]

\* The text of an API has no comma, that of an index may.
RegistrySpec ==
  [kind : {"local"}, path : {NoText} \cup Text]
  \cup [kind : {"remote"}, api : {<<p>> : p \in Piece}, index : Text]

\* A word, or a word, "=", and a text: cut at the first "=".
Argument == [word : STRING, value : {NoText} \cup Text]
Arg(word, value) == [word |-> word, value |-> value]

\* FromStr: the value of a remote registry is cut at the first comma.
FromStr(a) ==
  IF a.word \in {"crates.io", "crates-io"} /\ a.value = NoText THEN CratesIo
  ELSE IF a.word = "local" THEN Local(a.value)
  ELSE IF a.word = "remote" /\ a.value # NoText
    THEN Remote(<<Head(a.value)>>,
                IF Len(a.value) = 1 THEN a.value ELSE Tail(a.value))
  ELSE NoSpec

DisplayByApi(s) ==                               \* slip: looks at the API only
  IF s.kind = "local" THEN Arg("local", s.path)
  ELSE IF s.api = s.index THEN Arg("remote", s.api)
  ELSE IF s.api = CratesIoApi THEN Arg("crates.io", NoText)
  ELSE Arg("remote", s.api \o s.index)

\* Display: clap prints the default registries and reads them back.
Display(s) ==
  IF s.kind = "local" THEN Arg("local", s.path)
  ELSE IF s.api = s.index THEN Arg("remote", s.api)
  ELSE IF s = CratesIo THEN Arg("crates.io", NoText)
  ELSE Arg("remote", s.api \o s.index)

-----------------------------------------------------------------------------
(* build_registry. *)

Remotes(specs) == {k \in DOMAIN specs : specs[k].kind = "remote"}

HostsOf(spec) == {HostOf[u] : u \in {spec.api, spec.index} \cap Urls} \ {NoHost}

UpstreamHostsApiOnly(specs) ==                   \* slip: the index is forgotten
  {HostOf[specs[k].api] : k \in Remotes(specs)} \ {NoHost}

\* The hosts of the registries; and of the files of crates.io, if one is there.
UpstreamHosts(specs) ==
  LET named == UNION {HostsOf(specs[k]) : k \in Remotes(specs)}
  IN  named \cup (IF named \cap SaysCratesIo = {} THEN {} ELSE {StaticCratesIo})

IsOrIsBelow(h, hosts) == \E u \in hosts : h = u \/ <<h, u>> \in SubdomainOf

\* upstream_api(): the remote registry at the bottom answers searches.
UpstreamApi(specs) ==
  IF Remotes(specs) = {} THEN CratesIoApi
  ELSE specs[CHOOSE k \in Remotes(specs) : \A j \in Remotes(specs) : j <= k].api

\* The arguments: registries, and the absence of --no-proxy.
Setup == [specs : Seq(RegistrySpec) \ {<<>>}, proxy : BOOLEAN]

=============================================================================
