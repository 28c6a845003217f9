---------------------------- MODULE ServerProofs ----------------------------
(***************************************************************************)
(* Proofs about Server, and with it about Connect, Tunnel and ServerSetup: *)
(* for every server, every request and every client: what a request is     *)
(* taken for, where it goes and how it is answered, what is lost on the    *)
(* way (nothing), and that a visit comes to rest.                          *)
(***************************************************************************)
EXTENDS Server, RoutingProofs, MitmProofs, WellFoundedInduction

-----------------------------------------------------------------------------
(* Specifications of registries are printed and read again. *)

LEMMA TextFacts ==
  ASSUME NEW t \in Text
  PROVE  /\ t \in Seq(Piece) /\ t # <<>> /\ Len(t) \in Nat \ {0}
         /\ Head(t) \in Piece
         /\ Len(t) # 1 => Tail(t) \in Text
<1>1. t \in Seq(Piece) /\ t # <<>> /\ Len(t) \in Nat \ {0} /\ Head(t) \in Piece
  BY EmptySeq, HeadTailProperties DEF Text
<1>2. Tail(t) \in Seq(Piece) /\ Len(Tail(t)) = Len(t) - 1
  BY <1>1, HeadTailProperties
<1>3. Len(t) # 1 => Tail(t) # <<>>
  <2>1. Len(t) # 1 => Len(Tail(t)) # 0
    BY <1>1, <1>2
  <2> QED BY <2>1, EmptySeq
<1> QED BY <1>1, <1>2, <1>3 DEF Text

\* A piece, a comma and a text: cut at the first comma they are as before.
LEMMA CutAtComma ==
  ASSUME NEW p \in Piece, NEW t \in Text
  PROVE  /\ <<p>> \o t \in Text /\ Len(<<p>> \o t) # 1
         /\ Head(<<p>> \o t) = p /\ Tail(<<p>> \o t) = t
<1> DEFINE s == <<p>>
           c == s \o t
<1>1. s \in Seq(Piece) /\ Len(s) = 1 /\ s[1] = p
  OBVIOUS
<1>2. t \in Seq(Piece) /\ Len(t) \in Nat \ {0}
  BY TextFacts
<1> HIDE DEF s
<1>3. /\ c \in Seq(Piece) /\ Len(c) = 1 + Len(t)
      /\ \A i \in 1..(1 + Len(t)) : c[i] = IF i <= 1 THEN p ELSE t[i - 1]
  BY <1>1, <1>2, ConcatProperties
<1> HIDE DEF c
<1>4. c # <<>> /\ Len(c) # 1
  BY <1>2, <1>3, EmptySeq
<1>5. Head(c) = p
  BY <1>2, <1>3, <1>4
<1>6. /\ Tail(c) \in Seq(Piece) /\ Len(Tail(c)) = Len(t)
      /\ \A i \in 1..Len(t) : Tail(c)[i] = c[i + 1]
  BY <1>2, <1>3, <1>4, HeadTailProperties
<1>7. \A i \in 1..Len(t) : Tail(c)[i] = t[i]
  <2> TAKE i \in 1..Len(t)
  <2>1. i + 1 \in 1..(1 + Len(t)) /\ ~(i + 1 <= 1) /\ (i + 1) - 1 = i
    BY <1>2
  <2> QED BY <1>3, <1>6, <2>1
<1>8. Tail(c) = t
  BY <1>2, <1>6, <1>7, SeqEqual
<1> QED BY <1>3, <1>4, <1>5, <1>8 DEF c, s, Text

\* SpecsSurvive, of every specification there is: what Display prints FromStr
\* reads as the same registry (src/src/registry/spec.rs).
THEOREM SpecRoundTrip ==
  \A s \in RegistrySpec : FromStr(Display(s)) = s
<1> SUFFICES ASSUME NEW s \in RegistrySpec
             PROVE  FromStr(Display(s)) = s
  OBVIOUS
<1>1. CASE \E path \in {NoText} \cup Text : s = Local(path)
  <2>1. PICK path : s = Local(path)
    BY <1>1
  <2>2. Display(s) = Arg("local", path)
    BY <2>1 DEF Display, Local
  <2>3. FromStr(Arg("local", path)) = Local(path)
    BY DEF FromStr, Arg
  <2> QED BY <2>1, <2>2, <2>3
<1>2. CASE \E p \in Piece, index \in Text : s = Remote(<<p>>, index)
  <2>1. PICK p \in Piece, index \in Text : s = Remote(<<p>>, index)
    BY <1>2
  <2>2. s.kind # "local" /\ s.api = <<p>> /\ s.index = index
    BY <2>1 DEF Remote
  <2>3. CASE index = <<p>>
    <3>1. Display(s) = Arg("remote", <<p>>)
      BY <2>2, <2>3 DEF Display
    <3>2. <<p>> # NoText /\ Len(<<p>>) = 1 /\ Head(<<p>>) = p
      BY DEF NoText
    <3>3. FromStr(Arg("remote", <<p>>)) = Remote(<<p>>, <<p>>)
      BY <3>2 DEF FromStr, Arg
    <3> QED BY <2>1, <2>3, <3>1, <3>3
  <2>4. CASE index # <<p>> /\ s = CratesIo
    <3>1. Display(s) = Arg("crates.io", NoText)
      BY <2>2, <2>4 DEF Display
    <3>2. FromStr(Arg("crates.io", NoText)) = CratesIo
      BY DEF FromStr, Arg
    <3> QED BY <2>4, <3>1, <3>2
  <2>5. CASE index # <<p>> /\ s # CratesIo
    <3> DEFINE c == <<p>> \o index
    <3>1. Display(s) = Arg("remote", c)
      BY <2>2, <2>5 DEF Display
    <3>2. /\ c \in Text /\ c # NoText /\ Len(c) # 1 /\ Head(c) = p
          /\ Tail(c) = index
      BY CutAtComma, TextFacts DEF NoText
    <3> HIDE DEF c
    <3>3. FromStr(Arg("remote", c)) = Remote(<<p>>, index)
      BY <3>2 DEF FromStr, Arg
    <3> QED BY <2>1, <3>1, <3>3
  <2> QED BY <2>3, <2>4, <2>5
<1>3. \/ \E path \in {NoText} \cup Text : s = Local(path)
      \/ \E p \in Piece, index \in Text : s = Remote(<<p>>, index)
  BY DEF RegistrySpec, Local, Remote
<1> QED BY <1>1, <1>2, <1>3

-----------------------------------------------------------------------------
(* The hosts that are intercepted. *)

LEMMA SetupFacts ==
  ASSUME NEW s \in Setup
  PROVE  /\ s.specs \in Seq(RegistrySpec) /\ DOMAIN s.specs = 1..Len(s.specs)
         /\ Len(s.specs) \in Nat
         /\ \A k \in DOMAIN s.specs : s.specs[k] \in RegistrySpec
         /\ s.proxy \in BOOLEAN
BY DEF Setup

\* The API of a remote registry is a URL, or one that cannot be parsed.
LEMMA RemoteApi ==
  ASSUME NEW s \in RegistrySpec, s.kind = "remote"
  PROVE  s.api \in Urls /\ s.index \in Text
<1>1. s \in [kind : {"remote"}, api : {<<p>> : p \in Piece}, index : Text]
  BY DEF RegistrySpec
<1>2. s.api \in {<<p>> : p \in Piece} /\ s.index \in Text
  BY <1>1
<1> QED BY <1>2, HostAssumption


\* Of some of the first n numbers, one is the largest.
LEMMA LargestOf ==
  ASSUME NEW n \in Nat, NEW S \in SUBSET (1..n), S # {}
  PROVE  \E k \in S : \A j \in S : j <= k
<1> DEFINE R == {ss \in Nat \X Nat : ss[1] < ss[2]}
           T == {m \in Nat : n - m \in S}
<1>1. IsWellFoundedOn(R, Nat)
  BY NatLessThanWellFounded DEF OpToRel
<1>2. PICK k0 \in S : TRUE
  OBVIOUS
<1>3. k0 \in 1..n /\ n - (n - k0) = k0 /\ n - k0 \in Nat
  OBVIOUS
<1>4. T \subseteq Nat /\ T # {}
  BY <1>2, <1>3
<1> HIDE DEF T
<1>5. PICK m \in T : \A y \in T : ~(<<y, m>> \in R)
  <2> HIDE DEF R
  <2> QED BY <1>1, <1>4, WFMin
<1>6. \A y \in T : m <= y
  <2> TAKE y \in T
  <2>1. m \in Nat /\ y \in Nat
    BY <1>4
  <2>2. <<y, m>> \in Nat \X Nat /\ <<y, m>>[1] = y /\ <<y, m>>[2] = m
    BY <2>1
  <2>3. ~(y < m)
    BY <1>5, <2>2
  <2> QED BY <2>1, <2>3
<1>7. n - m \in S
  BY <1>5 DEF T
<1>8. \A j \in S : j <= n - m
  <2> TAKE j \in S
  <2>1. j \in 1..n /\ n - j \in Nat /\ n - (n - j) = j
    OBVIOUS
  <2>2. n - j \in T
    BY <2>1 DEF T
  <2>3. m <= n - j /\ m \in Nat
    BY <1>4, <1>5, <1>6, <2>2
  <2> QED BY <2>1, <2>3
<1> QED BY <1>7, <1>8

\* A search goes to a host, or to a URL that cannot be parsed.
LEMMA SearchedHost ==
  ASSUME NEW s \in Setup
  PROVE  HostOf[UpstreamApi(s.specs)] \in Hosts \cup {NoHost}
<1>1. CASE Remotes(s.specs) = {}
  BY <1>1, HostAssumption DEF UpstreamApi
<1>2. CASE Remotes(s.specs) # {}
  <2>1. Remotes(s.specs) \in SUBSET (1..Len(s.specs)) /\ Len(s.specs) \in Nat
    BY SetupFacts DEF Remotes
  <2>2. \E k \in Remotes(s.specs) : \A j \in Remotes(s.specs) : j <= k
    BY <1>2, <2>1, LargestOf
  <2> DEFINE k == CHOOSE k \in Remotes(s.specs) : \A j \in Remotes(s.specs) : j <= k
  <2>3. k \in Remotes(s.specs)
    BY <2>2
  <2> HIDE DEF k
  <2>4. s.specs[k] \in RegistrySpec /\ s.specs[k].kind = "remote"
    BY <2>3, SetupFacts DEF Remotes
  <2>5. s.specs[k].api \in Urls
    BY <2>4, RemoteApi
  <2>6. UpstreamApi(s.specs) = s.specs[k].api
    BY <1>2 DEF UpstreamApi, k
  <2> QED BY <2>5, <2>6, HostAssumption
<1> QED BY <1>1, <1>2

NamedHosts(specs) == UNION {HostsOf(specs[k]) : k \in Remotes(specs)}

\* The hosts that the arguments name are those that are intercepted ...
LEMMA NamedAreRegistries == NamedHosts(setup.specs) = RegistryHosts \ {NoHost}
BY DEF NamedHosts, HostsOf, RegistryHosts

LEMMA RegistriesAreIntercepted ==
  ASSUME host \in Hosts, IsOrIsBelow(host, RegistryHosts)
  PROVE  ShouldIntercept(host)
<1>1. PICK u \in RegistryHosts : host = u \/ <<host, u>> \in SubdomainOf
  BY DEF IsOrIsBelow
<1>2. u \in Hosts /\ u # NoHost
  BY <1>1, HostAssumption
<1>3. u \in UpstreamHosts(setup.specs)
  BY <1>1, <1>2, NamedAreRegistries DEF NamedHosts, UpstreamHosts
<1> QED BY <1>1, <1>3 DEF ShouldIntercept, IsOrIsBelow

\* ... and no others, but for that of the files of crates.io.
LEMMA InterceptedAreRegistries ==
  ASSUME ShouldIntercept(host)
  PROVE  \/ IsOrIsBelow(host, RegistryHosts)
         \/ /\ IsOrIsBelow(host, {StaticCratesIo})
            /\ RegistryHosts \cap SaysCratesIo # {}
<1>1. PICK u \in UpstreamHosts(setup.specs) : host = u \/ <<host, u>> \in SubdomainOf
  BY DEF ShouldIntercept, IsOrIsBelow
<1>2. CASE u \in NamedHosts(setup.specs)
  BY <1>1, <1>2, NamedAreRegistries DEF IsOrIsBelow
<1>3. CASE u = StaticCratesIo /\ NamedHosts(setup.specs) \cap SaysCratesIo # {}
  BY <1>1, <1>3, NamedAreRegistries DEF IsOrIsBelow
<1> QED BY <1>1, <1>2, <1>3 DEF UpstreamHosts, NamedHosts

-----------------------------------------------------------------------------
(* The tunnel. *)

\* A copy that ended had written what it read, and had read everything.
EndedWhole ==
  \A w \in Ways : ending = w => written[w] = Units[w]

TunnelInv ==
  /\ TunnelTypeOK
  /\ \A w \in Ways : /\ written[w] <= read[w] /\ read[w] <= sent[w]
                     /\ sent[w] <= Units[w]
                     /\ finished[w] => sent[w] = Units[w]
  /\ tunnel = "closed" <=> ending # "none"
  /\ \A w \in Ways : ending = w => finished[w]
  /\ EndedWhole

LEMMA TunnelInvInit ==
  ASSUME TunnelInit
  PROVE  TunnelInv
BY UnitsAssumption DEF TunnelInit, TunnelInv, TunnelTypeOK, EndedWhole, Ways

LEMMA TunnelInvNext ==
  ASSUME TunnelInv, [TunnelNext]_tunnelVars
  PROVE  TunnelInv'
<1> USE UnitsAssumption DEF TunnelInv, TunnelTypeOK, EndedWhole
<1>1. CASE ConnectUpstream
  BY <1>1 DEF ConnectUpstream, Return, Ways
<1>2. CASE CopyBreaks
  BY <1>2 DEF CopyBreaks, Return, Ways
<1>3. ASSUME NEW w \in Ways, SendUnits(w)
      PROVE  TunnelInv'
  BY <1>3 DEF SendUnits, ToSend, CanSend
<1>4. ASSUME NEW w \in Ways, Finish(w)
      PROVE  TunnelInv'
  BY <1>4 DEF Finish
<1>5. ASSUME NEW w \in Ways, CopyRead(w)
      PROVE  TunnelInv'
  BY <1>5 DEF CopyRead, ToRead
<1>6. ASSUME NEW w \in Ways, CopyWrite(w)
      PROVE  TunnelInv'
  BY <1>6 DEF CopyWrite, ToWrite
<1>7. ASSUME NEW w \in Ways, CopyEnds(w)
      PROVE  TunnelInv'
  BY <1>7 DEF CopyEnds, Return, Ways
<1>8. CASE UNCHANGED tunnelVars
  BY <1>8 DEF tunnelVars
<1> QED BY <1>1, <1>2, <1>3, <1>4, <1>5, <1>6, <1>7, <1>8
     DEF TunnelNext, EndStep, HandlerStep

LEMMA TunnelInvLeaves ==
  ASSUME TunnelInv
  PROVE  NoneLeftBehind
<1> SUFFICES ASSUME tunnel # "connecting",
                    \A w \in Ways : ~ToSend(w) /\ ~ToRead(w) /\ ~ToWrite(w),
                    ~finished["up"], ending \notin {"refused", "broken"}
             PROVE  written["down"] = Units["down"]
  BY DEF NoneLeftBehind, Arrives
<1>1. /\ "up" \in Ways /\ "down" \in Ways
      /\ tunnel \in {"open", "closed"} /\ ending \in Ways \cup {"none"}
      /\ Units \in [Ways -> Nat]
      /\ sent \in [Ways -> Nat] /\ read \in [Ways -> Nat] /\ written \in [Ways -> Nat]
  BY UnitsAssumption DEF TunnelInv, TunnelTypeOK, Ways
<1>2. CASE tunnel = "closed"
  <2>1. ending = "down"
    BY <1>1, <1>2 DEF TunnelInv, Ways
  <2> QED BY <1>1, <2>1 DEF TunnelInv, EndedWhole
<1>3. CASE tunnel = "open"
  <2>1. \A w \in Ways : written[w] = read[w] /\ read[w] = sent[w]
    BY <1>1, <1>3 DEF TunnelInv, ToRead, ToWrite
  <2>2. sent["up"] = Units["up"]
    BY <1>1 DEF TunnelInv, ToSend, CanSend
  <2>3. sent["down"] = Units["down"]
    BY <1>1, <1>3, <2>1, <2>2 DEF TunnelInv, ToSend, CanSend
  <2> QED BY <1>1, <2>1, <2>3
<1> QED BY <1>1, <1>2, <1>3

\* NoneLeftBehind: a tunnel that comes to rest has delivered the answer, or there
\* is a reason that is not the copying (handle_connect_passthrough).
THEOREM TunnelLeavesNothing == TunnelSpec => []NoneLeftBehind
BY TunnelInvLeaves, TunnelInvInit, TunnelInvNext, PTL DEF TunnelSpec

\* What is left to happen in a tunnel: units to be sent, read and written in each
\* way, sides to be closed, and the two changes of its own state.
Ahead(w) ==
  (Units[w] - sent[w]) + (Units[w] - read[w]) + (Units[w] - written[w])
    + (IF finished[w] THEN 0 ELSE 1)
TunnelAhead ==
  Ahead("up") + Ahead("down")
    + (IF tunnel = "connecting" THEN 2 ELSE IF tunnel = "open" THEN 1 ELSE 0)

LEMMA AheadTypes ==
  ASSUME TunnelInv
  PROVE  Ahead("up") \in Nat /\ Ahead("down") \in Nat /\ TunnelAhead \in Nat
<1>1. ASSUME NEW w \in Ways PROVE Ahead(w) \in Nat
  <2>1. /\ Units[w] \in Nat /\ sent[w] \in Nat /\ read[w] \in Nat /\ written[w] \in Nat
        /\ written[w] <= read[w] /\ read[w] <= sent[w] /\ sent[w] <= Units[w]
    BY UnitsAssumption DEF TunnelInv, TunnelTypeOK
  <2> QED BY <2>1 DEF Ahead
<1> QED BY <1>1 DEF TunnelAhead, Ways

\* Every step in a tunnel is one of a bounded number.
LEMMA TunnelStepsDown ==
  ASSUME TunnelInv, TunnelInv', TunnelNext
  PROVE  TunnelAhead' < TunnelAhead
<1>1. Ahead("up") \in Nat /\ Ahead("down") \in Nat
  BY AheadTypes
<1>2. CASE tunnel' # tunnel /\ UNCHANGED <<sent, finished, read, written>>
  <2>1. /\ Ahead("up")' = Ahead("up") /\ Ahead("down")' = Ahead("down")
    BY <1>2 DEF Ahead
  <2>2. (tunnel = "connecting" /\ tunnel' \in {"open", "closed"})
        \/ (tunnel = "open" /\ tunnel' = "closed")
    BY <1>2 DEF TunnelNext, ConnectUpstream, CopyBreaks, EndStep, HandlerStep,
       SendUnits, Finish, CopyRead, CopyWrite, CopyEnds, Return, TunnelInv, TunnelTypeOK
  <2> QED BY <1>1, <2>1, <2>2 DEF TunnelAhead
<1>3. ASSUME NEW w \in Ways,
             SendUnits(w) \/ Finish(w) \/ CopyRead(w) \/ CopyWrite(w)
      PROVE  TunnelAhead' < TunnelAhead
  <2>1. /\ Units[w] \in Nat /\ sent[w] \in Nat /\ read[w] \in Nat /\ written[w] \in Nat
        /\ sent \in [Ways -> Nat] /\ read \in [Ways -> Nat] /\ written \in [Ways -> Nat]
        /\ finished \in [Ways -> BOOLEAN]
        /\ sent'[w] \in Nat /\ read'[w] \in Nat /\ written'[w] \in Nat
    BY UnitsAssumption DEF TunnelInv, TunnelTypeOK
  <2>2. tunnel' = tunnel
    BY <1>3 DEF SendUnits, Finish, CopyRead, CopyWrite
  <2>3. \A v \in Ways : v # w => /\ sent'[v] = sent[v] /\ finished'[v] = finished[v]
                                 /\ read'[v] = read[v] /\ written'[v] = written[v]
    BY <1>3, <2>1 DEF SendUnits, Finish, CopyRead, CopyWrite
  <2>4. \A v \in Ways : v # w => Ahead(v)' = Ahead(v)
    BY <2>3 DEF Ahead
  <2>5. Ahead(w)' \in Int /\ Ahead(w)' < Ahead(w)
    <3>1. CASE SendUnits(w)
      <4>1. /\ sent'[w] = sent[w] + 1 /\ UNCHANGED <<finished, read, written>>
        BY <2>1, <3>1 DEF SendUnits
      <4> QED BY <2>1, <4>1 DEF Ahead
    <3>2. CASE Finish(w)
      <4>1. /\ ~finished[w] /\ finished'[w] /\ UNCHANGED <<sent, read, written>>
        BY <2>1, <3>2 DEF Finish, CanSend
      <4> QED BY <2>1, <4>1 DEF Ahead
    <3>3. CASE CopyRead(w)
      <4>1. /\ read'[w] > read[w] /\ UNCHANGED <<sent, finished, written>>
        BY <2>1, <3>3 DEF CopyRead
      <4> QED BY <2>1, <4>1 DEF Ahead
    <3>4. CASE CopyWrite(w)
      <4>1. /\ written'[w] > written[w] /\ UNCHANGED <<sent, finished, read>>
        BY <2>1, <3>4 DEF CopyWrite
      <4> QED BY <2>1, <4>1 DEF Ahead
    <3> QED BY <1>3, <3>1, <3>2, <3>3, <3>4
  <2>6. CASE w = "up"
    BY <1>1, <2>2, <2>4, <2>5, <2>6 DEF TunnelAhead, Ways
  <2>7. CASE w = "down"
    BY <1>1, <2>2, <2>4, <2>5, <2>7 DEF TunnelAhead, Ways
  <2> QED BY <2>6, <2>7 DEF Ways
<1>4. CASE ConnectUpstream \/ CopyBreaks \/ \E w \in Ways : CopyEnds(w)
  BY <1>2, <1>4 DEF ConnectUpstream, CopyBreaks, CopyEnds, Return
<1> QED BY <1>3, <1>4 DEF TunnelNext, EndStep, HandlerStep

\* A tunnel comes to rest: it has a bounded number of steps ahead, whatever the two
\* ends and the copies do.
THEOREM TunnelRunsDown ==
  TunnelSpec => [](TunnelAhead \in Nat) /\ [][TunnelAhead' < TunnelAhead]_tunnelVars
<1>1. TunnelInv => TunnelAhead \in Nat
  BY AheadTypes
<1>2. TunnelInv /\ TunnelInv' /\ [TunnelNext]_tunnelVars
        => [TunnelAhead' < TunnelAhead]_tunnelVars
  BY TunnelStepsDown
<1>3. TunnelSpec => []TunnelInv
  BY TunnelInvInit, TunnelInvNext, PTL DEF TunnelSpec
<1>4. TunnelSpec => [](TunnelAhead \in Nat)
  BY <1>1, <1>3, PTL
<1>5. TunnelSpec => [][TunnelAhead' < TunnelAhead]_tunnelVars
  BY <1>2, <1>3, PTL DEF TunnelSpec
<1> QED BY <1>4, <1>5

-----------------------------------------------------------------------------
(* The routers, asked about any request. *)

LEMMA RouteKinds ==
  ASSUME NEW r
  PROVE  /\ DirectRoute(r).op \in Operations \ {"nothing"}
         /\ InternalRoute(r).op \in Operations \ {"nothing"}
<1>1. /\ {"config", "lookup", "download", "search", "publish", "400", "404", "405"}
           = Operations \ {"nothing"}
  BY DEF Operations, Refusals
<1>2. \A op, args : Operation(op, args).op = op
  BY DEF Operation
<1>3. \A args : Lookup(args).op = "lookup"
  BY <1>2 DEF Lookup
<1>4. \A code : Refused(code).op = code
  BY <1>2 DEF Refused
<1>5. ASSUME NEW methods, NEW method, NEW o, o.op \in Operations \ {"nothing"}
      PROVE  On(methods, method, o).op \in Operations \ {"nothing"}
  BY <1>1, <1>4, <1>5, Zenon DEF On
<1>6. ASSUME NEW method, NEW o, o.op \in Operations \ {"nothing"}
      PROVE  Get(method, o).op \in Operations \ {"nothing"}
  BY <1>5, <1>6 DEF Get
<1>7. DirectRoute(r).op \in Operations \ {"nothing"}
  <2> DEFINE Known(o) == o.op \in Operations \ {"nothing"}
  <2>1. \A m : Known(Get(m, Operation("config", <<>>)))
    BY <1>1, <1>2, <1>6
  <2>2. \A m, a : Known(Get(m, Lookup(a)))
    BY <1>1, <1>3, <1>6
  <2>3. \A m, a : Known(Get(m, Operation("search", a)))
    BY <1>1, <1>2, <1>6
  <2>4. \A m : Known(On({"PUT"}, m, Operation("publish", <<>>)))
    BY <1>1, <1>2, <1>5
  <2>5. \A m, a : Known(Get(m, Operation("download", a)))
    BY <1>1, <1>2, <1>6
  <2>6. Known(Refused("404"))
    BY <1>1, <1>4
  <2> HIDE DEF Known
  <2>7. Known(DirectRoute(r))
    BY <2>1, <2>2, <2>3, <2>4, <2>5, <2>6, Zenon DEF DirectRoute
  <2> QED BY <2>7 DEF Known
<1>8. InternalGet(r).op \in Operations \ {"nothing"}
  BY <1>1, <1>2, <1>3, <1>4 DEF InternalGet
<1>9. InternalRoute(r).op \in Operations \ {"nothing"}
  BY <1>1, <1>2, <1>4, <1>8 DEF InternalRoute
<1> QED BY <1>7, <1>9

\* They look at nothing but the method, the path and whether there is a query.
LEMMA RouteOfTarget ==
  ASSUME NEW r, NEW t, r.method = t.method, r.path = t.path, r.query = t.query
  PROVE  DirectRoute(r) = DirectRoute(t) /\ InternalRoute(r) = InternalRoute(t)
<1>1. DirectRoute(r) = DirectRoute(t)
  BY DEF DirectRoute
<1>2. EndsInDownload(r) <=> EndsInDownload(t)
  BY DEF EndsInDownload
<1>3. InternalGet(r) = InternalGet(t)
  BY <1>2 DEF InternalGet
<1>4. InternalRoute(r) = InternalRoute(t)
  BY <1>3 DEF InternalRoute
<1> QED BY <1>1, <1>4

-----------------------------------------------------------------------------
(* The connection. *)

ConnectInv ==
  /\ MitmInv /\ TunnelInv
  /\ setup \in Setup /\ host \in Hosts
  /\ route \in {"asked", "upgrading", "handshake", "mitm", "tunnel", "failed"}
  /\ route \in {"handshake", "mitm"} => ShouldIntercept(host)
  /\ route = "tunnel" => ~ShouldIntercept(host)

\* A step of the connection is one of what intercepts it, or of the tunnel.
LEMMA ConnectSteps ==
  ASSUME [ConnectNext]_connectVars
  PROVE  [MitmNext]_mitmVars /\ [TunnelNext]_tunnelVars /\ UNCHANGED fixedVars
<1>1. CASE HandleConnect \/ Upgrade \/ Handshake
  BY <1>1 DEF HandleConnect, Upgrade, Handshake
<1>2. CASE Intercepted(MitmNext)
  BY <1>2 DEF Intercepted
<1>3. CASE Passed(TunnelNext)
  BY <1>3 DEF Passed
<1>4. CASE UNCHANGED connectVars
  BY <1>4 DEF connectVars, fixedVars
<1> QED BY <1>1, <1>2, <1>3, <1>4 DEF ConnectNext, Over

LEMMA ConnectInvStep ==
  ASSUME ConnectInv, [ConnectNext]_connectVars
  PROVE  ConnectInv' /\ UNCHANGED fixedVars
<1>1. [MitmNext]_mitmVars /\ [TunnelNext]_tunnelVars /\ UNCHANGED fixedVars
  BY ConnectSteps
<1>2. MitmInv' /\ TunnelInv'
  BY <1>1, MitmInvNext, TunnelInvNext DEF ConnectInv
<1>3. setup' = setup /\ host' = host
  BY <1>1 DEF fixedVars
<1>4. ShouldIntercept(host)' <=> ShouldIntercept(host)
  BY <1>3 DEF ShouldIntercept
<1>5. \/ route' = route
      \/ route' \in {"upgrading", "failed"}
      \/ route' = "handshake" /\ ShouldIntercept(host)
      \/ route' = "tunnel" /\ ~ShouldIntercept(host)
      \/ route' = "mitm" /\ route = "handshake"
  BY DEF ConnectNext, HandleConnect, Upgrade, Handshake, Intercepted, Passed, Over,
         connectVars
<1> QED BY <1>1, <1>2, <1>3, <1>4, <1>5 DEF ConnectInv

-----------------------------------------------------------------------------
(* The exchange. *)

ExchangeInv ==
  /\ request \in Request /\ host = request.host
  /\ xpc \in {"accepted", "axum", "forward", "connect", "perform", "relay",
              "answered", "gone"}
  /\ xpc = "axum" => Dispatched = "axum"
  /\ \/ doing = Nothing \/ doing = InternalRoute(request)
     \/ doing = Found /\ Dispatched = "axum"
  /\ outcome \in {"none", "done", "absent", "rejected", "failed"}
  /\ status \in {"none", "200", "400", "404", "405", "413", "500", "502",
                 "as answered"}
  /\ xpc = "answered" <=> status # "none"
  /\ status = "404" => doing # Nothing /\ (doing.op = "404" \/ outcome = "absent")
  /\ status = "200" => doing # Nothing /\ outcome = "done"
  /\ passedTo \in Hosts \cup {NoHost}
  /\ xpc \in {"accepted", "axum", "forward", "connect"} => passedTo = NoHost
  /\ passedTo # NoHost => doing.op = "search" \/ ~ShouldIntercept(host)
  /\ setup.proxy /\ request.door # "registry" /\ doing # Nothing =>
       ShouldIntercept(host)

ServerInv == ConnectInv /\ ExchangeInv

LEMMA ServerInvInit ==
  ASSUME ServerInit
  PROVE  ServerInv
<1>1. PICK v \in Visits : setup = v.setup /\ request = v.request /\ host = v.request.host
  BY DEF ServerInit
<1>2. v.setup \in Setup /\ request \in Request /\ request.host \in Hosts
  <2>1. v.setup \in Setups /\ request \in Request
    BY <1>1, VisitAssumption
  <2> QED BY <2>1, SetupAssumption DEF Request
<1>3. ConnectStart
  BY DEF ServerInit
<1>4. MitmInv /\ TunnelInv /\ route = "asked"
  BY <1>3, MitmInvInit, TunnelInvInit DEF ConnectStart
<1>5. ConnectInv
  BY <1>1, <1>2, <1>4 DEF ConnectInv
<1>6. ExchangeInv
  BY <1>1, <1>2 DEF ServerInit, ExchangeInv
<1> QED BY <1>5, <1>6 DEF ServerInv

\* What stays when the exchange goes on.
LEMMA StaysKeeps ==
  ASSUME ServerInv, Stays
  PROVE  /\ ConnectInv' /\ request' = request /\ host' = host /\ setup' = setup
         /\ (ShouldIntercept(host)' <=> ShouldIntercept(host))
         /\ Dispatched' = Dispatched /\ Found' = Found
         /\ InternalRoute(request)' = InternalRoute(request)
<1>1. UNCHANGED <<request, connectVars>>
  BY DEF Stays
<1>2. ConnectInv'
  BY <1>1, ConnectInvStep DEF ServerInv
<1>3. request' = request /\ host' = host /\ setup' = setup
  BY <1>1 DEF connectVars
<1> QED BY <1>2, <1>3 DEF ShouldIntercept, Dispatched, Found

LEMMA DispatchKeeps ==
  ASSUME ServerInv, Dispatch
  PROVE  ServerInv'
<1>1. /\ xpc = "accepted" /\ xpc' = Dispatched /\ Stays
      /\ doing' = doing /\ outcome' = outcome /\ status' = status
      /\ passedTo' = passedTo
  BY DEF Dispatch
<1>2. Dispatched \in {"connect", "forward", "axum"}
  BY DEF Dispatched
<1> QED BY <1>1, <1>2, StaysKeeps DEF ServerInv, ExchangeInv

\* A router's verdict on the request, wherever it is given.
LEMMA PerformKeeps ==
  ASSUME ServerInv, Stays, NEW o, Perform(o), xpc \in {"axum", "forward"},
         o = InternalRoute(request) \/ (o = Found /\ Dispatched = "axum"),
         setup.proxy /\ request.door # "registry" => ShouldIntercept(host)
  PROVE  ServerInv'
<1>1. o.op \in Operations \ {"nothing"}
  BY RouteKinds DEF Found, Refused, Operation, Operations, Refusals
<1>2. o # Nothing
  BY <1>1 DEF Nothing, Operation
<1>3. /\ doing' = o /\ outcome' = outcome /\ passedTo' = passedTo
      /\ \/ o.op \in {"400", "404", "405"} /\ status' = o.op /\ xpc' = "answered"
         \/ xpc' = "perform" /\ status' = status
  BY DEF Perform, Answer, Refusals
<1>4. status = "none" /\ passedTo = NoHost
  BY DEF ServerInv, ExchangeInv
<1> QED BY <1>2, <1>3, <1>4, StaysKeeps DEF ServerInv, ExchangeInv

LEMMA RouteDirectKeeps ==
  ASSUME ServerInv, RouteDirect
  PROVE  ServerInv'
<1>1. xpc = "axum" /\ Stays /\ Dispatched = "axum"
  BY DEF RouteDirect, ServerInv, ExchangeInv
<1>2. CASE /\ status' \in {"400", "413"} /\ xpc' = "answered"
           /\ UNCHANGED <<doing, outcome, passedTo>>
  BY <1>1, <1>2, StaysKeeps DEF ServerInv, ExchangeInv
<1>3. CASE Perform(Found)
  <2>1. request.door \in Doors
    BY DEF ServerInv, ExchangeInv, Request
  <2>2. setup.proxy /\ request.door # "registry" => ShouldIntercept(host)
    BY <1>1, <2>1 DEF Dispatched, Doors
  <2> QED BY <1>1, <1>3, <2>2, PerformKeeps
<1> QED BY <1>2, <1>3 DEF RouteDirect, Answer

LEMMA ForwardKeeps ==
  ASSUME ServerInv, Forward
  PROVE  ServerInv'
<1>1. xpc = "forward" /\ Stays /\ request.host = host /\ host \in Hosts
  BY DEF Forward, ServerInv, ExchangeInv, ConnectInv
<1>2. CASE /\ status' \in {"400", "405"} /\ xpc' = "answered"
           /\ UNCHANGED <<doing, outcome, passedTo>>
  BY <1>1, <1>2, StaysKeeps DEF ServerInv, ExchangeInv
<1>3. CASE ShouldIntercept(host) /\ Perform(InternalRoute(request))
  BY <1>1, <1>3, PerformKeeps
<1>4. CASE /\ ~ShouldIntercept(host) /\ xpc' = "relay" /\ passedTo' = host
           /\ UNCHANGED <<status, doing, outcome>>
  BY <1>1, <1>4, StaysKeeps DEF ServerInv, ExchangeInv
<1> QED BY <1>1, <1>2, <1>3, <1>4 DEF Forward, Answer

LEMMA OperateKeeps ==
  ASSUME ServerInv, Operate
  PROVE  ServerInv'
<1>1. xpc = "perform" /\ Stays /\ doing' = doing /\ passedTo' = passedTo
  BY DEF Operate
<1>2. PICK o \in Outcomes(doing.op) :
        outcome' = o /\ status' = StatusOf(doing.op, o) /\ xpc' = "answered"
  BY DEF Operate, Answer
<1>3. o \in {"done", "absent", "rejected", "failed"} /\ doing.op # "nothing"
  BY DEF Outcomes
<1>4. doing # Nothing
  BY <1>3 DEF Nothing, Operation
<1>5. /\ status' \in {"200", "404", "400", "500", "502"}
      /\ status' = "404" => o = "absent"
      /\ status' = "200" => o = "done"
  BY <1>2 DEF StatusOf
<1> QED BY <1>1, <1>2, <1>3, <1>4, <1>5, StaysKeeps DEF ServerInv, ExchangeInv

LEMMA SearchKeeps ==
  ASSUME ServerInv, Search
  PROVE  ServerInv'
<1>1. /\ xpc = "perform" /\ Stays /\ doing.op = "search" /\ xpc' = "relay"
      /\ passedTo' = HostOf[UpstreamApi(setup.specs)]
      /\ doing' = doing /\ outcome' = outcome /\ status' = status
  BY DEF Search
<1>2. passedTo' \in Hosts \cup {NoHost}
  BY <1>1, SearchedHost DEF ServerInv, ConnectInv
<1> QED BY <1>1, <1>2, StaysKeeps DEF ServerInv, ExchangeInv

LEMMA RelayKeeps ==
  ASSUME ServerInv, Relay
  PROVE  ServerInv'
<1>1. /\ xpc = "relay" /\ Stays /\ xpc' = "answered"
      /\ doing' = doing /\ passedTo' = passedTo
      /\ outcome' \in {"done", "failed"} /\ status' \in {"as answered", "502"}
  BY DEF Relay, Answer
<1> QED BY <1>1, StaysKeeps DEF ServerInv, ExchangeInv

LEMMA ClientLeavesKeeps ==
  ASSUME ServerInv, ClientLeaves
  PROVE  ServerInv'
<1>1. /\ xpc \in {"accepted", "axum", "forward", "perform", "relay"} /\ Stays
      /\ xpc' = "gone" /\ doing' = doing /\ outcome' = outcome
      /\ status' = status /\ passedTo' = passedTo
  BY DEF ClientLeaves
<1> QED BY <1>1, StaysKeeps DEF ServerInv, ExchangeInv

\* An intercepted connection handles what the host it is to is intercepted for.
LEMMA ViaConnectKeeps ==
  ASSUME ServerInv, ViaConnect
  PROVE  ServerInv'
<1>1. /\ xpc = "connect" /\ xpc' = xpc /\ request' = request
      /\ outcome' = outcome /\ status' = status /\ passedTo' = passedTo
      /\ doing' = doing \/ (doing' = InternalRoute(request) /\ handled' # handled)
  BY DEF ViaConnect
<1>2. ConnectInv' /\ setup' = setup /\ host' = host
  BY ConnectInvStep DEF ViaConnect, ServerInv, fixedVars
<1>3. /\ ShouldIntercept(host)' <=> ShouldIntercept(host)
      /\ Dispatched' = Dispatched /\ Found' = Found
  BY <1>1, <1>2 DEF ShouldIntercept, Dispatched, Found
<1>4. handled' # handled => ShouldIntercept(host)
  <2>1. CASE HandleConnect \/ Upgrade \/ Handshake
    BY <2>1 DEF HandleConnect, Upgrade, Handshake, mitmVars, serverVars
  <2>2. CASE Intercepted(MitmNext)
    BY <2>2 DEF Intercepted, ServerInv, ConnectInv
  <2>3. CASE Passed(TunnelNext)
    BY <2>3 DEF Passed, mitmVars, serverVars
  <2>4. CASE UNCHANGED connectVars
    BY <2>4 DEF connectVars, mitmVars, serverVars
  <2> QED BY <2>1, <2>2, <2>3, <2>4 DEF ViaConnect, ConnectNext, Over
<1>5. passedTo = NoHost /\ status = "none"
  BY <1>1 DEF ServerInv, ExchangeInv
<1> QED BY <1>1, <1>2, <1>3, <1>4, <1>5 DEF ServerInv, ExchangeInv

LEMMA ServerInvNext ==
  ASSUME ServerInv, [ServerNext]_serverAll
  PROVE  ServerInv'
<1>1. CASE Dispatch
  BY <1>1, DispatchKeeps
<1>2. CASE RouteDirect
  BY <1>2, RouteDirectKeeps
<1>3. CASE Forward
  BY <1>3, ForwardKeeps
<1>4. CASE Operate
  BY <1>4, OperateKeeps
<1>5. CASE Search
  BY <1>5, SearchKeeps
<1>6. CASE Relay
  BY <1>6, RelayKeeps
<1>7. CASE ClientLeaves
  BY <1>7, ClientLeavesKeeps
<1>8. CASE ViaConnect
  BY <1>8, ViaConnectKeeps
<1>9. CASE UNCHANGED serverAll
  <2>1. Stays /\ UNCHANGED <<xpc, doing, outcome, status, passedTo>>
    BY <1>9 DEF serverAll, exchangeVars, Stays
  <2>2. /\ xpc' = xpc /\ doing' = doing /\ outcome' = outcome /\ status' = status
        /\ passedTo' = passedTo
    BY <2>1
  <2> QED BY <2>1, <2>2, StaysKeeps DEF ServerInv, ExchangeInv
<1> QED BY <1>1, <1>2, <1>3, <1>4, <1>5, <1>6, <1>7, <1>8, <1>9
     DEF ServerNext, ServerFinished

\* Of all the server does only ViaConnect touches the connection.
LEMMA ServerConnects ==
  ASSUME [ServerNext]_serverAll
  PROVE  [ConnectNext]_connectVars
<1>1. CASE ViaConnect
  BY <1>1 DEF ViaConnect
<1>2. CASE Dispatch \/ RouteDirect \/ Forward \/ Operate \/ Search \/ Relay \/ ClientLeaves
  BY <1>2 DEF Dispatch, RouteDirect, Forward, Operate, Search, Relay, ClientLeaves, Stays
<1>3. CASE ServerFinished \/ UNCHANGED serverAll
  BY <1>3 DEF ServerFinished, serverAll
<1> QED BY <1>1, <1>2, <1>3 DEF ServerNext

-----------------------------------------------------------------------------
(* What is left to happen: to the exchange, to its connection, and on this one. *)

ExchangeAhead ==
  CASE xpc = "accepted" -> 4 [] xpc \in {"axum", "forward"} -> 3 [] xpc = "perform" -> 2
    [] xpc = "relay" -> 1 [] OTHER -> 0
RouteAhead ==
  CASE route = "asked" -> 3 [] route = "upgrading" -> 2 [] route = "handshake" -> 1
    [] OTHER -> 0
ServerAhead == ExchangeAhead + RouteAhead + Work + TunnelAhead

PartsCount ==
  /\ ExchangeAhead \in Nat /\ RouteAhead \in Nat /\ Work \in Nat /\ TunnelAhead \in Nat
  /\ WorkCounts

LEMMA InvPartsCount ==
  ASSUME ServerInv
  PROVE  PartsCount
<1>1. ExchangeAhead \in Nat /\ RouteAhead \in Nat
  BY DEF ExchangeAhead, RouteAhead
<1>2. Work \in Nat /\ WorkCounts /\ TunnelAhead \in Nat
  BY WorkNat, WorkParts, AheadTypes DEF ServerInv, ConnectInv
<1> QED BY <1>1, <1>2 DEF PartsCount

\* Of four counts one falls and the others stay.
LEMMA OneFalls ==
  \A a, b, c, d, z \in Nat :
    /\ z < a => z + b + c + d < a + b + c + d
    /\ z < b => a + z + c + d < a + b + c + d
    /\ z < c => a + b + z + d < a + b + c + d
    /\ z < d => a + b + c + z < a + b + c + d
OBVIOUS

LEMMA ServerStepsDown ==
  ASSUME ServerInv, ServerInv', PartsCount, PartsCount', ServerNext,
         ~UNCHANGED serverAll
  PROVE  ServerAhead' < ServerAhead
<1>1. /\ ExchangeAhead \in Nat /\ RouteAhead \in Nat /\ Work \in Nat /\ TunnelAhead \in Nat
      /\ ExchangeAhead' \in Nat /\ RouteAhead' \in Nat /\ Work' \in Nat
      /\ TunnelAhead' \in Nat
  BY DEF PartsCount
<1>2. UNCHANGED mitmVars => Work' = Work
  BY WorkStays
<1>3. UNCHANGED tunnelVars => TunnelAhead' = TunnelAhead
  BY DEF tunnelVars, TunnelAhead, Ahead
<1>4. CASE ViaConnect
  <2>1. ConnectNext /\ ExchangeAhead' = ExchangeAhead
    BY <1>4 DEF ViaConnect, ExchangeAhead
  <2>2. CASE HandleConnect \/ Upgrade \/ Handshake
    <3>1. Work' = Work /\ TunnelAhead' = TunnelAhead
      BY <1>2, <1>3, <2>2 DEF HandleConnect, Upgrade, Handshake
    <3>2. RouteAhead' < RouteAhead
      BY <2>2 DEF HandleConnect, Upgrade, Handshake, RouteAhead
    <3> QED BY <1>1, <2>1, <3>1, <3>2, OneFalls DEF ServerAhead
  <2>3. CASE Intercepted(MitmNext)
    <3>1. MitmNext /\ TunnelAhead' = TunnelAhead /\ RouteAhead' = RouteAhead
      BY <1>3, <2>3 DEF Intercepted, RouteAhead
    <3>2. Work' < Work
      BY <3>1, WorkShrinks DEF PartsCount, ServerInv, ConnectInv
    <3> QED BY <1>1, <2>1, <3>1, <3>2, OneFalls DEF ServerAhead
  <2>4. CASE Passed(TunnelNext)
    <3>1. TunnelNext /\ Work' = Work /\ RouteAhead' = RouteAhead
      BY <1>2, <2>4 DEF Passed, RouteAhead
    <3>2. TunnelAhead' < TunnelAhead
      BY <3>1, TunnelStepsDown DEF ServerInv, ConnectInv
    <3> QED BY <1>1, <2>1, <3>1, <3>2, OneFalls DEF ServerAhead
  <2>5. ~Over
    <3>1. Over => UNCHANGED connectVars
      BY DEF Over
    <3>2. UNCHANGED connectVars => handled' = handled
      BY DEF connectVars, mitmVars, serverVars
    <3> QED BY <1>4, <3>1, <3>2 DEF ViaConnect, serverAll, exchangeVars
  <2> QED BY <2>1, <2>2, <2>3, <2>4, <2>5 DEF ConnectNext
<1>5. CASE Dispatch \/ RouteDirect \/ Forward \/ Operate \/ Search \/ Relay \/ ClientLeaves
  <2>1. /\ Stays
        /\ \/ xpc = "accepted" /\ xpc' \in {"axum", "forward", "connect", "gone"}
           \/ xpc \in {"axum", "forward"} /\ xpc' \in {"perform", "relay", "answered", "gone"}
           \/ xpc = "perform" /\ xpc' \in {"relay", "answered", "gone"}
           \/ xpc = "relay" /\ xpc' \in {"answered", "gone"}
    <3>1. CASE Dispatch
      BY <3>1 DEF Dispatch, Dispatched
    <3>2. CASE RouteDirect
      BY <3>2 DEF RouteDirect, Perform, Answer
    <3>3. CASE Forward
      BY <3>3 DEF Forward, Perform, Answer
    <3>4. CASE Operate
      BY <3>4 DEF Operate, Answer
    <3>5. CASE Search
      BY <3>5 DEF Search
    <3>6. CASE Relay
      <4>1. xpc = "relay" /\ Stays /\ xpc' = "answered"
        BY <3>6 DEF Relay, Answer
      <4> QED BY <4>1
    <3>7. CASE ClientLeaves
      BY <3>7 DEF ClientLeaves
    <3> QED BY <1>5, <3>1, <3>2, <3>3, <3>4, <3>5, <3>6, <3>7
  <2>2. Work' = Work /\ TunnelAhead' = TunnelAhead /\ RouteAhead' = RouteAhead
    BY <1>2, <1>3, <2>1 DEF Stays, connectVars, RouteAhead
  <2>3. ExchangeAhead' < ExchangeAhead
    BY <2>1 DEF ExchangeAhead
  <2> QED BY <1>1, <2>2, <2>3, OneFalls DEF ServerAhead
<1>6. ~ServerFinished
  BY DEF ServerFinished
<1> QED BY <1>4, <1>5, <1>6 DEF ServerNext

-----------------------------------------------------------------------------
(* The theorems. *)

LEMMA InvIsRight ==
  ASSUME ServerInv
  PROVE  RightOperation
<1> SUFFICES ASSUME NEW w \in Wanted, Asks(w), doing # Nothing
             PROVE  doing = w
  BY DEF RightOperation
<1>1. DirectRoute(TargetOf(w)) = w /\ InternalRoute(TargetOf(w)) = w
  BY RoutersAgree
<1>2. /\ request.method = TargetOf(w).method /\ request.path = TargetOf(w).path
      /\ request.query = TargetOf(w).query
  BY DEF Asks, Target
<1>3. DirectRoute(request) = w /\ InternalRoute(request) = w
  BY <1>1, <1>2, RouteOfTarget
<1>4. CASE doing = InternalRoute(request)
  BY <1>3, <1>4
<1>5. CASE doing = Found /\ Dispatched = "axum"
  <2>1. request.door # "connect"
    BY <1>5 DEF Dispatched, Asks
  <2> QED BY <1>3, <1>5, <2>1 DEF Found
<1> QED BY <1>4, <1>5 DEF ServerInv, ExchangeInv

LEMMA InvIsTrueAnswer ==
  ASSUME ServerInv
  PROVE  AnswerIsTrue
<1> SUFFICES ASSUME NEW w \in Wanted, Asks(w)
             PROVE  /\ status = "404" => doing = w /\ outcome = "absent"
                    /\ status = "200" => doing = w /\ outcome = "done"
  BY DEF AnswerIsTrue
<1>1. doing # Nothing => doing = w
  BY InvIsRight DEF RightOperation
<1>2. w.op # "404"
  <2>1. \A op, args : Operation(op, args).op = op
    BY DEF Operation
  <2>2. CASE w \in Lookups
    <3>1. PICK n \in Names : w = Operation("lookup", <<n>>)
      BY <2>2 DEF Lookups, Lookup
    <3>2. w.op = "lookup"
      BY <2>1, <3>1
    <3> QED BY <3>2
  <2>3. CASE w \in Downloads
    <3>1. PICK n \in Names, v \in Versions : w = Operation("download", <<n, v>>)
      BY <2>3 DEF Downloads
    <3>2. w.op = "download"
      BY <2>1, <3>1
    <3> QED BY <3>2
  <2>4. CASE w \in Others
    <3>1. w.op \in {"config", "publish", "search"}
      BY <2>1, <2>4 DEF Others
    <3> QED BY <3>1
  <2> QED BY <2>2, <2>3, <2>4 DEF Wanted
<1> QED BY <1>1, <1>2 DEF ServerInv, ExchangeInv

LEMMA InvStaysIn ==
  ASSUME ServerInv
  PROVE  RegistryTrafficStaysIn
<1> SUFFICES ASSUME IsOrIsBelow(host, RegistryHosts)
             PROVE  /\ route # "tunnel"
                    /\ passedTo # NoHost => doing.op = "search"
  BY DEF RegistryTrafficStaysIn
<1>1. ShouldIntercept(host)
  BY RegistriesAreIntercepted DEF ServerInv, ConnectInv
<1> QED BY <1>1 DEF ServerInv, ConnectInv, ExchangeInv

LEMMA InvActsForRegistries ==
  ASSUME ServerInv
  PROVE  ActsForRegistriesOnly
BY InterceptedAreRegistries DEF ServerInv, ExchangeInv, ActsForRegistriesOnly

LEMMA InvTypes ==
  ASSUME ServerInv
  PROVE  ConnectTypeOK /\ ServerTypeOK
<1>1. ConnectTypeOK
  BY DEF ServerInv, ConnectInv, ConnectTypeOK, MitmInv, StreamInv, TunnelInv
<1>2. doing.op \in Operations
  <2>1. Nothing.op \in Operations /\ Refused("404").op \in Operations
    BY DEF Nothing, Refused, Operation, Operations, Refusals
  <2> QED BY <2>1, RouteKinds DEF ServerInv, ExchangeInv, Found
<1> QED BY <1>1, <1>2 DEF ServerInv, ExchangeInv, ServerTypeOK

\* What holds of the server in every state.
THEOREM ServerInvariant == ServerSpec => []ServerInv
BY ServerInvInit, ServerInvNext, PTL DEF ServerSpec

\* ServerTypeOK: an exchange stays within its states, and is over with an answer,
\* or given up.
THEOREM ServerTypes == ServerSpec => []ServerTypeOK
BY ServerInvariant, InvTypes, PTL

\* ConnectTypeOK: so does a connection, intercepted or passed through.
THEOREM ConnectTypes == ServerSpec => []ConnectTypeOK
BY ServerInvariant, InvTypes, PTL

\* HandledWhole and AnswersMatch on the connections of the server: those that
\* are intercepted are MitmConnections, whatever else is going on.
THEOREM ServerHandles == ServerSpec => [](HandledWhole /\ AnswersMatch)
<1>1. ServerInv => HandledWhole /\ AnswersMatch
  BY MitmInvHandled DEF ServerInv, ConnectInv
<1> QED BY <1>1, ServerInvariant, PTL

\* NeverStuck on the connections of the server: none of them waits for a client
\* that waits for it.
THEOREM ServerNeverStuck == ServerSpec => []NeverStuck
<1>1. ServerInv => NeverStuck
  BY MitmInvStuck DEF ServerInv, ConnectInv
<1> QED BY <1>1, ServerInvariant, PTL

\* RequestsSpec: whatever else a server does, what is handled on a connection it
\* intercepts is handled as Requests promises.
THEOREM ServerImplementsRequests == ServerSpec => RequestsSpec
<1>1. ServerInit => Promise!Init
  BY PromiseInit DEF ServerInit, ConnectStart
<1>2. ServerInv /\ ServerInv' /\ [ServerNext]_serverAll => [Promise!Next]_(Promise!vars)
  <2>1. SUFFICES ASSUME ServerInv, ServerInv', [ServerNext]_serverAll
                 PROVE  [Promise!Next]_(Promise!vars)
    OBVIOUS
  <2>2. MitmInv /\ MitmInv'
    BY <2>1 DEF ServerInv, ConnectInv
  <2>3. [MitmNext]_mitmVars
    BY <2>1, ServerConnects, ConnectSteps
  <2> QED BY <2>2, <2>3, PromiseNext
<1> QED BY <1>1, <1>2, ServerInvariant, PTL DEF ServerSpec, RequestsSpec, Promise!Spec

\* A visit to the server comes to rest, in whichever way it is handled: the steps
\* ahead of the exchange, of its connection and of all that is sent on that are
\* bounded.  With NeverStuck and NoneLeftBehind: what is at rest is settled.
THEOREM ServerRunsDown ==
  ServerSpec => [](ServerAhead \in Nat) /\ [][ServerAhead' < ServerAhead]_serverAll
<1>1. PartsCount => ServerAhead \in Nat
  BY DEF PartsCount, ServerAhead
<1>2. ServerInv /\ ServerInv' /\ PartsCount /\ PartsCount' /\ [ServerNext]_serverAll
        => [ServerAhead' < ServerAhead]_serverAll
  BY ServerStepsDown
<1>3. ServerSpec => []PartsCount
  BY ServerInvariant, InvPartsCount, PTL
<1>4. ServerSpec => [](ServerAhead \in Nat)
  BY <1>1, <1>3, PTL
<1>5. ServerSpec => [][ServerAhead' < ServerAhead]_serverAll
  BY <1>2, <1>3, ServerInvariant, PTL DEF ServerSpec
<1> QED BY <1>4, <1>5

\* NoneLeftBehind on the connections that the server passes through.
THEOREM ServerLeavesNothing == ServerSpec => []NoneLeftBehind
<1>1. ServerInv => NoneLeftBehind
  BY TunnelInvLeaves DEF ServerInv, ConnectInv, TunnelInv
<1> QED BY <1>1, ServerInvariant, PTL

\* RightOperation: whichever way a request of cargo's comes, and whatever crates
\* are named, the operation is the one it asks for (build_registry_router and
\* handle_internal_request).
THEOREM ServerRightOperation == ServerSpec => []RightOperation
BY ServerInvariant, InvIsRight, PTL

\* AnswerIsTrue: 404 to a request of cargo's means that the registries have no
\* such crate or version (the handlers of src/src/endpoints.rs).
THEOREM ServerAnswerIsTrue == ServerSpec => []AnswerIsTrue
BY ServerInvariant, InvIsTrueAnswer, PTL

\* RegistryTrafficStaysIn: of a host named by the arguments no request is passed
\* by the overlay, but searches (build_registry and should_intercept).
THEOREM ServerTrafficStaysIn == ServerSpec => []RegistryTrafficStaysIn
BY ServerInvariant, InvStaysIn, PTL

\* ActsForRegistriesOnly: the server performs no operation of a registry for a
\* host of anybody else (should_intercept, and the hosts build_registry gathers).
THEOREM ServerActsForRegistries == ServerSpec => []ActsForRegistriesOnly
BY ServerInvariant, InvActsForRegistries, PTL

\* SpecsSurvive, of the registries of every server.
THEOREM ServerSpecsSurvive == ServerSpec => []SpecsSurvive
<1>1. ServerInv => SpecsSurvive
  BY SpecRoundTrip, SetupFacts DEF ServerInv, ConnectInv, SpecsSurvive
<1> QED BY <1>1, ServerInvariant, PTL

=============================================================================
