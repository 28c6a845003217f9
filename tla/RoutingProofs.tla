--------------------------- MODULE RoutingProofs ---------------------------
(***************************************************************************)
(* Proofs about Routing, for every set of names and versions: what cargo   *)
(* asks for is what both routers understand.                               *)
(***************************************************************************)
EXTENDS Routing, SequenceTheorems, TLAPS

-----------------------------------------------------------------------------
(* Pieces of short paths. *)

LEMMA FromSecond ==
  ASSUME NEW S, NEW a \in S, NEW b \in S
  PROVE  From(<<a, b>>, 2) = <<b>>
<1> DEFINE t == SubSeq(<<a, b>>, 2, 2)
<1>1. t \in Seq(S) /\ Len(t) = 1 /\ t[1] = b
  BY SubSeqProperties
<1> HIDE DEF t
<1>2. <<b>> \in Seq(S) /\ t = <<b>>
  BY <1>1, SeqEqual
<1> QED BY <1>2 DEF From, t

LEMMA FromThird ==
  ASSUME NEW S, NEW a \in S, NEW b \in S, NEW c \in S
  PROVE  From(<<a, b, c>>, 3) = <<c>>
<1> DEFINE t == SubSeq(<<a, b, c>>, 3, 3)
<1>1. t \in Seq(S) /\ Len(t) = 1 /\ t[1] = c
  BY SubSeqProperties
<1> HIDE DEF t
<1>2. <<c>> \in Seq(S) /\ t = <<c>>
  BY <1>1, SeqEqual
<1> QED BY <1>2 DEF From, t

LEMMA FirstThree ==
  ASSUME NEW S, NEW s \in Seq(S), Len(s) >= 3
  PROVE  SubSeq(s, 1, 3) = <<s[1], s[2], s[3]>>
<1> DEFINE t == SubSeq(s, 1, 3)
<1>1. t \in Seq(S) /\ Len(t) = 3 /\ \A i \in 1..3 : t[i] = s[i]
  BY SubSeqProperties
<1>2. <<s[1], s[2], s[3]>> \in Seq(S)
  OBVIOUS
<1> HIDE DEF t
<1>3. t = <<s[1], s[2], s[3]>>
  BY <1>1, <1>2, SeqEqual
<1> QED BY <1>3 DEF t

-----------------------------------------------------------------------------
(* The lookup of a name, by the width of it. *)

LEMMA ShortPath ==
  ASSUME NEW n \in Words, NEW w \in {"1", "2"},
         NEW r, r.method = "GET", r.path = <<w, n>>, r.query = FALSE
  PROVE  DirectRoute(r) = Lookup(<<n>>) /\ InternalRoute(r) = Lookup(<<n>>)
<1>2. Len(r.path) = 2 /\ r.path[1] = w /\ r.path # <<"config.json">>
  OBVIOUS
<1>3. w \in Words
  BY WordAssumption DEF Fixed
<1>4. From(r.path, 2) = <<n>>
  BY <1>3, FromSecond
<1>5. <<n>> \o <<>> = <<n>>
  BY ConcatEmptySeq
<1>6. DirectRoute(r) = Lookup(<<n>>)
  BY <1>2 DEF DirectRoute, Get, On, Crates
<1>7. Len(r.path) > 1
  BY <1>2
<1>8. Asked(r.query) = <<>>
  BY DEF Asked
<1>9. InternalGet(r) = Lookup(<<n>>)
  BY <1>2, <1>4, <1>5, <1>7, <1>8, Zenon DEF InternalGet
<1> QED BY <1>6, <1>9 DEF InternalRoute

LEMMA ThreePath ==
  ASSUME NEW n \in Words, NEW c \in Words,
         NEW r, r.method = "GET", r.path = <<"3", c, n>>, r.query = FALSE
  PROVE  DirectRoute(r) = Lookup(<<n>>) /\ InternalRoute(r) = Lookup(<<n>>)
<1>2. /\ Len(r.path) = 3 /\ r.path[1] = "3" /\ r.path[3] = n
      /\ r.path # <<"config.json">>
  OBVIOUS
<1>3. r.path # Crates
  BY <1>2 DEF Crates
<1>4. "3" \in Words
  BY WordAssumption DEF Fixed
<1>5. From(r.path, 3) = <<n>>
  BY <1>4, FromThird
<1>6. <<n>> \o <<>> = <<n>>
  BY ConcatEmptySeq
<1>7. DirectRoute(r) = Lookup(<<n>>)
  BY <1>2, <1>3 DEF DirectRoute, Get, On
<1>8. Len(r.path) > 1 /\ Len(r.path) > 2
  BY <1>2
<1>9. /\ ~(r.path = <<"config.json">> /\ ~r.query)
      /\ r.path[1] \notin {"1", "2"}
  BY <1>2
<1>10. Asked(r.query) = <<>>
  BY DEF Asked
<1>11. InternalGet(r) = Lookup(<<n>>)
  BY <1>2, <1>5, <1>6, <1>8, <1>9, <1>10, Zenon DEF InternalGet
<1> QED BY <1>7, <1>11 DEF InternalRoute

LEMMA LongPath ==
  ASSUME NEW n \in Words, NEW a \in Words, NEW b \in Words,
         Width[a] = 2, Width[b] = 2,
         NEW r, r.method = "GET", r.path = <<a, b, n>>, r.query = FALSE
  PROVE  DirectRoute(r) = Lookup(<<n>>) /\ InternalRoute(r) = Lookup(<<n>>)
<1>2. /\ Len(r.path) = 3 /\ r.path[1] = a /\ r.path[2] = b /\ r.path[3] = n
      /\ r.path # <<"config.json">>
  OBVIOUS
<1>3. a \notin {"1", "2", "3", "api"}
  <2>1. \A w \in {"1", "2", "3"} : Width[w] = 1
    BY WordAssumption, Zenon
  <2>2. Width["api"] = 3
    BY WordAssumption
  <2>3. \A w \in {"1", "2", "3", "api"} : Width[w] # 2
    BY <2>1, <2>2
  <2> QED BY <2>3, Zenon
<1>4. r.path # Crates
  BY <1>2, <1>3 DEF Crates
<1>5. From(r.path, 3) = <<n>>
  BY FromThird
<1>6. <<n>> \o <<>> = <<n>>
  BY ConcatEmptySeq
<1>7. DirectRoute(r) = Lookup(<<n>>)
  BY <1>2, <1>4 DEF DirectRoute, Get, On
<1>8. Width[r.path[1]] = 2 /\ Width[r.path[2]] = 2
  BY <1>2, Zenon
<1>9. Len(r.path) > 2
  BY <1>2
<1>10. /\ ~(r.path = <<"config.json">> /\ ~r.query)
       /\ ~(Len(r.path) > 1 /\ r.path[1] \in {"1", "2"})
       /\ ~(Len(r.path) > 1 /\ r.path[1] = "3")
  BY <1>2, <1>3, Zenon
<1>11. Asked(r.query) = <<>>
  BY DEF Asked
<1>12. InternalGet(r) = Lookup(<<n>>)
  BY <1>5, <1>6, <1>8, <1>9, <1>10, <1>11, Zenon DEF InternalGet
<1> QED BY <1>7, <1>12 DEF InternalRoute

\* A name is looked up where its index file is asked for.
LEMMA LookupRouted ==
  ASSUME NEW n \in Names, NEW r, r = TargetOf(Lookup(<<n>>))
  PROVE  DirectRoute(r) = Lookup(<<n>>) /\ InternalRoute(r) = Lookup(<<n>>)
<1>1. r.method = "GET" /\ r.path = IndexPath(n) /\ r.query = FALSE
  BY DEF TargetOf, Lookup, Operation, Target
<1>2. n \in Words /\ Width[n] \in Nat \ {0}
  BY WordAssumption
<1>3. CASE Width[n] = 1
  <2>1. IndexPath(n) = <<"1", n>>
    BY <1>3 DEF IndexPath
  <2> QED BY <1>1, <1>2, <2>1, ShortPath
<1>4. CASE Width[n] = 2
  <2>1. IndexPath(n) = <<"2", n>>
    BY <1>4 DEF IndexPath
  <2> QED BY <1>1, <1>2, <2>1, ShortPath
<1>5. CASE Width[n] = 3
  <2>1. IndexPath(n) = <<"3", First[n], n>>
    BY <1>5 DEF IndexPath
  <2>2. First[n] \in Words
    BY <1>5, WordAssumption
  <2> QED BY <1>1, <1>2, <2>1, <2>2, ThreePath
<1>6. CASE Width[n] > 3
  <2>1. IndexPath(n) = <<FirstTwo[n], NextTwo[n], n>>
    BY <1>2, <1>6 DEF IndexPath
  <2>2. /\ FirstTwo[n] \in Words /\ Width[FirstTwo[n]] = 2
        /\ NextTwo[n] \in Words /\ Width[NextTwo[n]] = 2
    BY <1>6, WordAssumption
  <2>3. r.path = <<FirstTwo[n], NextTwo[n], n>>
    BY <1>1, <2>1
  <2> QED BY <1>1, <1>2, <2>2, <2>3, LongPath, Zenon
<1> QED BY <1>2, <1>3, <1>4, <1>5, <1>6

-----------------------------------------------------------------------------
(* The other requests. *)

LEMMA CratesPath ==
  ASSUME NEW S, {"api", "v1", "crates"} \subseteq S, NEW t \in Seq(S)
  PROVE  /\ Crates \o t \in Seq(S)
         /\ Len(Crates \o t) = 3 + Len(t)
         /\ SubSeq(Crates \o t, 1, 3) = Crates
         /\ (Crates \o t)[1] = "api" /\ (Crates \o t)[2] = "v1"
         /\ \A i \in 1..Len(t) : (Crates \o t)[3 + i] = t[i]
<1>1. /\ Crates \in Seq(S) /\ Len(Crates) = 3
      /\ Crates[1] = "api" /\ Crates[2] = "v1" /\ Crates[3] = "crates"
  BY DEF Crates
<1> DEFINE p == Crates \o t
<1> HIDE DEF p
<1>2. /\ p \in Seq(S) /\ Len(p) = 3 + Len(t)
      /\ p[1] = Crates[1] /\ p[2] = Crates[2] /\ p[3] = Crates[3]
      /\ \A i \in 1..Len(t) : p[3 + i] = t[i]
  <2>1. /\ p \in Seq(S) /\ Len(p) = Len(Crates) + Len(t)
        /\ \A i \in 1..(Len(Crates) + Len(t)) :
             p[i] = IF i <= Len(Crates) THEN Crates[i] ELSE t[i - Len(Crates)]
    BY <1>1, ConcatProperties DEF p
  <2>2. Len(t) \in Nat
    OBVIOUS
  <2>3. p[1] = Crates[1] /\ p[2] = Crates[2] /\ p[3] = Crates[3]
    BY <1>1, <2>1, <2>2
  <2>4. \A i \in 1..Len(t) : p[3 + i] = t[i]
    <3> TAKE i \in 1..Len(t)
    <3>1. 3 + i \in 1..(3 + Len(t)) /\ ~(3 + i <= 3) /\ (3 + i) - 3 = i
      BY <2>2
    <3>2. p[3 + i] = t[(3 + i) - 3]
      BY <1>1, <2>1, <3>1
    <3> QED BY <3>1, <3>2
  <2> QED BY <1>1, <2>1, <2>3, <2>4
<1>3. SubSeq(p, 1, 3) = <<p[1], p[2], p[3]>>
  BY <1>2, FirstThree
<1>4. SubSeq(p, 1, 3) = Crates
  BY <1>1, <1>2, <1>3 DEF Crates
<1> QED BY <1>1, <1>2, <1>4 DEF p

LEMMA ConfigRouted ==
  ASSUME NEW r, r = TargetOf(Operation("config", <<>>))
  PROVE  /\ DirectRoute(r) = Operation("config", <<>>)
         /\ InternalRoute(r) = Operation("config", <<>>)
<1>1. r.method = "GET" /\ r.path = <<"config.json">> /\ r.query = FALSE
  BY DEF TargetOf, Operation, Target
<1>2. DirectRoute(r) = Operation("config", <<>>)
  BY <1>1 DEF DirectRoute, Get, On
<1>3. InternalGet(r) = Operation("config", <<>>)
  BY <1>1, Zenon DEF InternalGet
<1> QED BY <1>1, <1>2, <1>3 DEF InternalRoute

LEMMA PublishRouted ==
  ASSUME NEW r, r = TargetOf(Operation("publish", <<>>))
  PROVE  /\ DirectRoute(r) = Operation("publish", <<>>)
         /\ InternalRoute(r) = Operation("publish", <<>>)
<1>1. r.method = "PUT" /\ r.path = Crates \o <<"new">> /\ r.query = FALSE
  BY DEF TargetOf, Operation, Target
<1>2. <<"new">> \in Seq({"api", "v1", "crates", "new"}) /\ Len(<<"new">>) = 1
  OBVIOUS
<1>3. Len(Crates \o <<"new">>) = 3 + Len(<<"new">>)
  BY <1>2, CratesPath
<1>4. /\ r.path # <<"config.json">> /\ r.path # Crates
      /\ Len(r.path) # 2 /\ Len(r.path) # 3
  <2>1. Len(r.path) = 3 + 1
    BY <1>1, <1>2, <1>3, Zenon
  <2>2. Len(<<"config.json">>) = 1 /\ Len(Crates) = 3
    BY DEF Crates
  <2>3. 3 + 1 # 1 /\ 3 + 1 # 2 /\ 3 + 1 # 3
    OBVIOUS
  <2> QED BY <2>1, <2>2, <2>3, Zenon
<1>5. DirectRoute(r) = Operation("publish", <<>>)
  BY <1>1, <1>4 DEF DirectRoute, Get, On
<1>6. InternalRoute(r) = Operation("publish", <<>>)
  BY <1>1 DEF InternalRoute
<1> QED BY <1>5, <1>6

LEMMA SearchRouted ==
  ASSUME NEW r, r = TargetOf(Operation("search", Asked(TRUE)))
  PROVE  /\ DirectRoute(r) = Operation("search", Asked(TRUE))
         /\ InternalRoute(r) = Operation("search", Asked(TRUE))
<1>1. r.method = "GET" /\ r.path = Crates /\ r.query = TRUE
  BY DEF TargetOf, Operation, Target
<1>2. /\ Len(Crates) = 3 /\ Crates[1] = "api" /\ Crates[2] = "v1"
      /\ Crates # <<"config.json">>
      /\ Crates \in Seq({"api", "v1", "crates"})
  BY DEF Crates
<1>3. DirectRoute(r) = Operation("search", Asked(TRUE))
  BY <1>1, <1>2 DEF DirectRoute, Get, On
<1>4. SubSeq(Crates, 1, 3) = Crates
  <2>1. Len(Crates) >= 3
    BY <1>2
  <2>2. SubSeq(Crates, 1, 3) = <<Crates[1], Crates[2], Crates[3]>>
    BY <1>2, <2>1, FirstThree, Zenon
  <2> QED BY <2>2 DEF Crates
<1>5. From(Crates, 4) \o Asked(TRUE) = Asked(TRUE)
  <2>1. From(Crates, 4) = <<>>
    BY <1>2, SubSeqEmpty DEF From
  <2>2. Asked(TRUE) \in Seq({"?"})
    BY DEF Asked
  <2> QED BY <2>1, <2>2, ConcatEmptySeq
<1>6. /\ ~(r.path = <<"config.json">> /\ ~r.query)
      /\ ~(Len(r.path) > 1 /\ r.path[1] \in {"1", "2"})
      /\ ~(Len(r.path) > 1 /\ r.path[1] = "3")
      /\ Len(r.path) > 2
  <2>1. r.path # <<"config.json">> /\ Len(r.path) = 3 /\ r.path[1] = "api"
    BY <1>1, <1>2, Zenon
  <2>2. 3 > 2 /\ "api" \notin {"1", "2"} /\ "api" # "3"
    OBVIOUS
  <2> QED BY <2>1, <2>2, Zenon
<1>7. ~(Len(r.path) > 2 /\ Width[r.path[1]] = 2 /\ Width[r.path[2]] = 2)
  <2>1. Width["api"] = 3 /\ 3 # 2
    BY WordAssumption
  <2> QED BY <1>1, <1>2, <2>1, Zenon
<1>8. ~BelowCrates(r.path)
  <2>1. Len(r.path) = 3
    BY <1>1, <1>2, Zenon
  <2>2. ~(3 > 3)
    OBVIOUS
  <2> QED BY <2>1, <2>2, Zenon DEF BelowCrates
<1>9. InternalGet(r) = Operation("search", Asked(TRUE))
  BY <1>1, <1>4, <1>5, <1>6, <1>7, <1>8, Zenon DEF InternalGet
<1> QED BY <1>1, <1>3, <1>9 DEF InternalRoute

\* The second router cuts a name and a version out of the path, although it
\* takes off every "/download" there is at the end: no version is "download".
LEMMA DownloadCut ==
  ASSUME NEW n \in Names, NEW v \in Versions
  PROVE  DownloadParts(Crates \o <<n, v, "download">>) = <<n, v>>
<1> DEFINE p == Crates \o <<n, v, "download">>
           Cut(m) == /\ m = 4 \/ p[m] # "download"
                     /\ \A k \in (m + 1)..Len(p) : p[k] = "download"
<1>1. n \in Words /\ v \in Words /\ {"api", "v1", "crates", "download"} \subseteq Words
      /\ v # "download"
  BY WordAssumption DEF Fixed
<1>2. /\ <<n, v, "download">> \in Seq(Words) /\ Len(<<n, v, "download">>) = 3
  BY <1>1
<1>3. /\ p \in Seq(Words) /\ Len(p) = 3 + 3
      /\ \A i \in 1..3 : p[3 + i] = <<n, v, "download">>[i]
  BY <1>1, <1>2, CratesPath
<1> HIDE DEF p
<1>4. Len(p) = 6 /\ p[4] = n /\ p[5] = v /\ p[6] = "download"
  BY <1>3
<1>5. 4..Len(p) = {4, 5, 6}
  BY <1>4
<1>6. Cut(5) /\ \A m \in {4, 5, 6} : Cut(m) => m = 5
  BY <1>1, <1>4
<1>7. DownloadParts(p) = SubSeq(p, 4, CHOOSE m \in 4..Len(p) : Cut(m))
  BY DEF DownloadParts
<1>8. (CHOOSE m \in 4..Len(p) : Cut(m)) = 5
  <2> HIDE DEF Cut
  <2> QED BY <1>5, <1>6
<1> DEFINE t == SubSeq(p, 4, 5)
<1>9. t \in Seq(Words) /\ Len(t) = 2 /\ t[1] = n /\ t[2] = v
  BY <1>1, <1>4, SubSeqProperties
<1> HIDE DEF t
<1>10. <<n, v>> \in Seq(Words) /\ t = <<n, v>>
  BY <1>1, <1>9, SeqEqual
<1> QED BY <1>7, <1>8, <1>10 DEF t, p

LEMMA DownloadRouted ==
  ASSUME NEW n \in Names, NEW v \in Versions,
         NEW r, r = TargetOf(Operation("download", <<n, v>>))
  PROVE  /\ DirectRoute(r) = Operation("download", <<n, v>>)
         /\ InternalRoute(r) = Operation("download", <<n, v>>)
<1>1. /\ r.method = "GET" /\ r.path = Crates \o <<n, v, "download">>
      /\ r.query = FALSE
  BY DEF TargetOf, Operation, Target
<1>2. /\ <<n, v, "download">> \in Seq(Words) /\ Len(<<n, v, "download">>) = 3
      /\ {"api", "v1", "crates"} \subseteq Words
  BY WordAssumption DEF Fixed
<1> DEFINE p == Crates \o <<n, v, "download">>
<1>3. /\ Len(r.path) = 3 + 3 /\ SubSeq(r.path, 1, 3) = Crates
      /\ r.path[1] = "api" /\ r.path[2] = "v1"
      /\ \A i \in 1..3 : r.path[3 + i] = <<n, v, "download">>[i]
  <2>1. /\ Len(p) = 3 + 3 /\ SubSeq(p, 1, 3) = Crates
        /\ p[1] = "api" /\ p[2] = "v1"
        /\ \A i \in 1..3 : p[3 + i] = <<n, v, "download">>[i]
    BY <1>2, CratesPath
  <2>2. r.path = p
    BY <1>1
  <2> HIDE DEF p
  <2> QED BY <2>1, <2>2
<1> HIDE DEF p
<1>4. Len(r.path) = 6 /\ r.path[4] = n /\ r.path[5] = v /\ r.path[6] = "download"
  BY <1>3
<1>5. r.path # <<"config.json">> /\ r.path # Crates /\ r.path # Crates \o <<"new">>
  <2>1. <<"new">> \in Seq({"api", "v1", "crates", "new"}) /\ Len(<<"new">>) = 1
    OBVIOUS
  <2>2. Len(Crates \o <<"new">>) = 3 + Len(<<"new">>)
    BY <2>1, CratesPath
  <2>3. Len(<<"config.json">>) = 1 /\ Len(Crates) = 3 /\ 6 # 1 /\ 6 # 3 /\ 6 # 3 + 1
    BY DEF Crates
  <2> QED BY <1>4, <2>1, <2>2, <2>3, Zenon
<1>6. DirectRoute(r) = Operation("download", <<n, v>>)
  <2>1. Len(r.path) = 6 /\ Len(r.path) # 2 /\ Len(r.path) # 3
    BY <1>4
  <2>2. Get(r.method, Operation("download", <<r.path[4], r.path[5]>>))
          = Operation("download", <<n, v>>)
    BY <1>1, <1>4 DEF Get, On
  <2> QED BY <1>3, <1>4, <1>5, <2>1, <2>2, Zenon DEF DirectRoute
<1>7. /\ r.path[1] \notin {"1", "2"} /\ r.path[1] # "3"
      /\ Len(r.path) > 3
  BY <1>3, <1>4
<1>8. ~(Len(r.path) > 2 /\ Width[r.path[1]] = 2 /\ Width[r.path[2]] = 2)
  <2>1. Width["api"] = 3 /\ 3 # 2
    BY WordAssumption
  <2> QED BY <1>3, <2>1, Zenon
<1>9. BelowCrates(r.path) /\ EndsInDownload(r)
  BY <1>1, <1>3, <1>4, <1>7 DEF BelowCrates, EndsInDownload
<1>10. DownloadParts(r.path) = <<n, v>> /\ Len(<<n, v>>) = 2
  BY <1>1, DownloadCut
<1>11. InternalGet(r) = Operation("download", <<n, v>>)
  BY <1>5, <1>7, <1>8, <1>9, <1>10, Zenon DEF InternalGet
<1> QED BY <1>1, <1>6, <1>11 DEF InternalRoute

\* Both routers take whatever cargo asks a registry for as that: for every set
\* of names and versions, the names of the server's own paths among them.
THEOREM RoutersAgree ==
  \A w \in Wanted :
    DirectRoute(TargetOf(w)) = w /\ InternalRoute(TargetOf(w)) = w
<1> SUFFICES ASSUME NEW w \in Wanted
             PROVE  DirectRoute(TargetOf(w)) = w /\ InternalRoute(TargetOf(w)) = w
  OBVIOUS
<1>1. CASE w \in Others
  <2>1. \/ w = Operation("config", <<>>)
        \/ w = Operation("publish", <<>>)
        \/ w = Operation("search", Asked(TRUE))
    BY <1>1 DEF Others
  <2> QED BY <2>1, ConfigRouted, PublishRouted, SearchRouted, Zenon
<1>2. CASE w \in Lookups
  <2>1. PICK n \in Names : w = Lookup(<<n>>)
    BY <1>2 DEF Lookups
  <2> QED BY <2>1, LookupRouted, Zenon
<1>3. CASE w \in Downloads
  <2>1. PICK n \in Names, v \in Versions : w = Operation("download", <<n, v>>)
    BY <1>3 DEF Downloads
  <2> QED BY <2>1, DownloadRouted, Zenon
<1> QED BY <1>1, <1>2, <1>3 DEF Wanted

=============================================================================
