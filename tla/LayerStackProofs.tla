-------------------------- MODULE LayerStackProofs --------------------------
(***************************************************************************)
(* Proofs about LayerStack: the answer to a publish, the paths of names,   *)
(* and what a session is told and sent, for any stack of registries, any   *)
(* names and any bodies.                                                   *)
(***************************************************************************)
EXTENDS LayerStack, PublishBodyProofs

\* build_registry gives the top layer its flags from the arguments alone.
LEMMA TopLayer ==
  ASSUME options \in Options
  PROVE  /\ Depth \in Nat \ {0} /\ DOMAIN options.specs = 1..Depth
         /\ Top.kind = options.specs[1] /\ Top.kind \in Kinds
         /\ Top.writable = ~options.readOnly
         /\ Top.validate = (options.specs[1] = "local" /\ ~options.permissive)
<1>1. /\ options.specs \in Seq(Kinds) /\ options.specs # <<>>
      /\ options.readOnly \in BOOLEAN
  BY DEF Options
<1>2. Depth \in Nat /\ options.specs \in [1..Depth -> Kinds]
      /\ DOMAIN options.specs = 1..Depth
  BY <1>1, LenProperties DEF Depth
<1>3. Depth # 0
  BY <1>1, EmptySeq DEF Depth
<1>4. 1 \in DOMAIN options.specs
  BY <1>2, <1>3
<1>5. Top = [kind |-> options.specs[1],
             writable |-> ~options.readOnly,
             validate |-> options.specs[1] = "local" /\ ~options.permissive]
  BY <1>4, Zenon DEF Top, Layers
<1> QED BY <1>1, <1>2, <1>3, <1>5

\* A name that validate() accepts can be cut at 1, 2 and 4.
LEMMA AcceptedHasPath ==
  ASSUME NEW name \in Name, NameAccepted(name)
  PROVE  HasIndexPath(name)
<1>1. /\ name \in Seq(NameByte) /\ Len(name) \in Nat /\ Len(name) # 0
      /\ DOMAIN name = 1..Len(name)
      /\ \A i \in 1..Len(name) : name[i] # "rest"
  BY LenProperties, NameAssumption DEF Name, NameAccepted
<1>2. \A i \in 1..Len(name) : CanCut(name, i)
  BY <1>1 DEF CanCut
<1> QED BY <1>1, <1>2 DEF HasIndexPath

\* After a publish a layer has its file, and what it had of other versions.
LEMMA WithHas ==
  ASSUME NEW had, NEW c, NEW x \in With(had, c)
  PROVE  x = c \/ (x \in had /\ ~SameVersion(x, c))
BY DEF With, SameVersion

\* A publish takes no version away from a layer.
LEMMA FilesStay ==
  ASSUME StackTypeOK, NEW k \in 1..Depth, NEW c \in Crate, Stores(k, c)
  PROVE  /\ crates' \in Seq(SUBSET Crate) /\ Len(crates') = Len(crates)
         /\ \A j \in 1..Depth : \A d \in crates[j] :
              \E e \in crates'[j] : SameVersion(e, d)
<1>1. crates \in [1..Depth -> SUBSET Crate]
  BY LenProperties DEF StackTypeOK
<1>2. With(crates[k], c) \in SUBSET Crate
  BY <1>1 DEF With
<1>3. crates' = [crates EXCEPT ![k] = With(crates[k], c)]
  BY DEF Stores
<1>4. crates' \in Seq(SUBSET Crate) /\ Len(crates') = Len(crates)
  BY <1>2, <1>3, ExceptSeq DEF StackTypeOK
<1>5. ASSUME NEW j \in 1..Depth, NEW d \in crates[j]
      PROVE  \E e \in crates'[j] : SameVersion(e, d)
  <2>1. CASE j # k
    BY <1>1, <1>3, <2>1 DEF SameVersion
  <2>2. CASE j = k
    <3>1. crates'[j] = With(crates[k], c)
      BY <1>1, <1>3, <2>2
    <3>2. CASE SameVersion(d, c)
      BY <3>1, <3>2 DEF With, SameVersion
    <3>3. CASE ~SameVersion(d, c)
      BY <2>2, <3>1, <3>3 DEF With, SameVersion
    <3> QED BY <3>2, <3>3
  <2> QED BY <2>1, <2>2
<1> QED BY <1>4, <1>5

\* A layer has a file of the version, whatever its bytes.
Held(k, c) == \E d \in crates[k] : SameVersion(d, c)

\* What a publish may do to the index of layer k beside storing c: nothing, or
\* put in its place all or a part of it with c added.
Relists(k, c) ==
  \E l : /\ l = index[k] \/ l \subseteq With(index[k], c)
         /\ index' = [index EXCEPT ![k] = l]

\* Listing a crate, and leaving the index alone, are such things.
LEMMA RelistsAll ==
  ASSUME StackTypeOK, NEW k \in 1..Depth, NEW c, Lists(k, c) \/ index' = index
  PROVE  Relists(k, c)
<1>1. index \in [1..Depth -> SUBSET Crate]
  BY LenProperties DEF StackTypeOK
<1>2. CASE Lists(k, c)
  BY <1>2 DEF Lists, Relists
<1>3. CASE index' = index
  <2>1. index' = [index EXCEPT ![k] = index[k]]
    BY <1>1, <1>3
  <2> QED BY <2>1 DEF Relists
<1> QED BY <1>2, <1>3

\* What a layer lists after it was: crates it listed, or the one that was added.
LEMMA RelistedAre ==
  ASSUME StackTypeOK, NEW k \in 1..Depth, NEW c \in Crate, Relists(k, c)
  PROVE  /\ index' \in Seq(SUBSET Crate) /\ Len(index') = Len(index)
         /\ \A j \in 1..Depth :
              \/ index'[j] = index[j]
              \/ j = k /\ index'[j] \subseteq With(index[k], c)
<1>1. index \in [1..Depth -> SUBSET Crate]
  BY LenProperties DEF StackTypeOK
<1>2. PICK l : /\ l = index[k] \/ l \subseteq With(index[k], c)
               /\ index' = [index EXCEPT ![k] = l]
  BY DEF Relists
<1>3. With(index[k], c) \in SUBSET Crate
  BY <1>1 DEF With
<1>4. l \in SUBSET Crate
  BY <1>1, <1>2, <1>3
<1>5. index' \in Seq(SUBSET Crate) /\ Len(index') = Len(index)
  BY <1>2, <1>4, ExceptSeq DEF StackTypeOK
<1>6. \A j \in 1..Depth : index'[j] = IF j = k THEN l ELSE index[j]
  BY <1>1, <1>2
<1> QED BY <1>2, <1>5, <1>6

-----------------------------------------------------------------------------
(* The publish. *)

Asked == CrateOf(parsed)

\* What makes the properties of a publish inductive: what it has stored, and what
\* the proxy holds of it, at each of its stages.
PublishInv ==
  /\ \A s \in stored : /\ s.layer = 1
                       /\ SameVersion(s.crate, Asked)
                       /\ s.listed => s.crate = Asked
  /\ stored # {} =>
       /\ ~options.readOnly
       /\ ppc \in {"taken", "200", "500", "dropped"}
  /\ ppc \in {"taken", "200"} => stored = {Stored(Asked, TRUE)}
  /\ ppc \in {"forwarded", "taken"} => options.specs[1] = "remote"
  /\ ppc \in {"publish", "forwarded"} =>
       /\ parsed \in [meta : Metadata, data : Seq(Byte)]
       /\ Len(parsed.data) < Base * Base
  /\ ppc = "forwarded" =>
       /\ forward = Encode(parsed.meta, parsed.data)
       /\ ~options.readOnly
  /\ ppc = "dropped" => options.permissive

\* The steps of a local layer that has come past its early returns.
LocalPublishes == PublishLocal \/ PanicLocal \/ FailStoring \/ FailListing

\* The steps of a session and of other people leave the publish alone.
LEMMA PublishSteps ==
  ASSUME [StackNext]_stackVars
  PROVE  \/ Receive \/ ParseBody \/ Refuse \/ LocalPublishes
         \/ Forward \/ UpstreamTakes \/ UpstreamRefuses \/ UpstreamAnswers
         \/ UNCHANGED <<options, publishVars>>
BY DEF StackNext, stackVars, LocalPublishes, OthersPublish, LookupLayer, MergeLayer,
   AnswerLookup, Choose, DownloadLayer, LayerFails, StackFinished

\* What a request parsed to is a crate, and so is a part of it.
LEMMA CratesAsked ==
  ASSUME NEW p \in [meta : Metadata, data : Seq(Byte)]
  PROVE  /\ CrateOf(p) \in Crate
         /\ \A n \in 0..(Len(p.data) - 1) :
              LET part == [CrateOf(p) EXCEPT !.data = SubSeq(@, 1, n)]
              IN  part \in Crate /\ SameVersion(part, CrateOf(p))
<1>1. CrateOf(p) \in Crate /\ CrateOf(p).data = p.data
  BY WorkloadAssumption DEF CrateOf, Crate
<1>2. ASSUME NEW n \in 0..(Len(p.data) - 1)
      PROVE  SubSeq(p.data, 1, n) \in Seq(Byte)
  BY LenProperties, SubSeqProperties
<1>3. ASSUME NEW n \in 0..(Len(p.data) - 1)
      PROVE  LET part == [CrateOf(p) EXCEPT !.data = SubSeq(@, 1, n)]
             IN  part \in Crate /\ SameVersion(part, CrateOf(p))
  BY <1>1, <1>2 DEF Crate, SameVersion
<1> QED BY <1>1, <1>3

\* Whatever becomes of a local publish, its file is that of the version asked for,
\* and listed only if it is complete.
LEMMA LocalStores ==
  ASSUME StackTypeOK, PublishInv, LocalPublishes
  PROVE  /\ UNCHANGED <<options, body, parsed, forward, sessionVars>>
         /\ AtLocal /\ stored = {} /\ ppc' \in {"200", "500", "dropped"}
         /\ ppc' = "200" => PublishLocal
         /\ \/ UNCHANGED <<crates, index, stored, calm>>
            \/ \E c \in Crate, b \in BOOLEAN :
                 /\ SameVersion(c, Asked) /\ (b => c = Asked)
                 /\ stored' = {Stored(c, b)}
                 /\ Stores(1, c) /\ Relists(1, c)
<1>1. /\ UNCHANGED <<options, body, parsed, forward, sessionVars>>
      /\ AtLocal /\ ppc = "publish"
      /\ ppc' \in {"200", "500", "dropped"} /\ (ppc' = "200" => PublishLocal)
  BY DEF LocalPublishes, PublishLocal, PanicLocal, FailStoring, FailListing, AtLocal
<1>2. /\ stored = {} /\ 1 \in 1..Depth /\ Asked \in Crate /\ SameVersion(Asked, Asked)
      /\ parsed \in [meta : Metadata, data : Seq(Byte)]
  BY <1>1, TopLayer, CratesAsked DEF PublishInv, StackTypeOK, Asked, SameVersion
<1>3. CASE PublishLocal
  BY <1>1, <1>2, <1>3, RelistsAll DEF PublishLocal, Asked
<1>4. CASE PanicLocal
  BY <1>1, <1>2, <1>4, RelistsAll DEF PanicLocal, Asked
<1>5. CASE FailStoring
  <2>1. index' = index
    BY <1>5 DEF FailStoring
  <2>2. CASE UNCHANGED <<crates, stored, calm>>
    BY <1>1, <1>2, <2>1, <2>2
  <2>3. CASE \E n \in 0..(Len(parsed.data) - 1) :
               LET part == [CrateOf(parsed) EXCEPT !.data = SubSeq(@, 1, n)]
               IN  Stores(1, part) /\ stored' = {Stored(part, FALSE)}
    <3>1. PICK part : /\ part \in Crate /\ SameVersion(part, Asked)
                      /\ Stores(1, part) /\ stored' = {Stored(part, FALSE)}
      BY <1>2, <2>3, CratesAsked DEF Asked
    <3>2. Relists(1, part)
      BY <1>2, <2>1, RelistsAll
    <3> QED BY <1>1, <1>2, <3>1, <3>2
  <2> QED BY <1>5, <2>2, <2>3 DEF FailStoring
<1>6. CASE FailListing
  <2>1. Stores(1, Asked)
    BY <1>6 DEF FailListing, Asked
  <2>2. \E b \in BOOLEAN : stored' = {Stored(Asked, b)}
    <3>1. \/ stored' = {Stored(Asked, FALSE)}
          \/ \E l : stored' = {Stored(Asked, Asked \in l)}
      BY <1>6, Zenon DEF FailListing, Asked
    <3>2. CASE stored' = {Stored(Asked, FALSE)}
      BY <3>2, Zenon
    <3>3. ASSUME NEW l, stored' = {Stored(Asked, Asked \in l)}
          PROVE  \E b \in BOOLEAN : stored' = {Stored(Asked, b)}
      <4>1. (Asked \in l) = TRUE \/ (Asked \in l) = FALSE
        OBVIOUS
      <4> QED BY <3>3, <4>1, Zenon
    <3> QED BY <3>1, <3>2, <3>3
  <2>3. Relists(1, Asked)
    <3>1. CASE index' = index
      BY <1>2, <3>1, RelistsAll
    <3>2. CASE \E l \in PartlyListed(Asked) : index' = [index EXCEPT ![1] = l]
      BY <3>2 DEF PartlyListed, Relists
    <3> QED BY <1>6, <3>1, <3>2 DEF FailListing, Asked
  <2> QED BY <1>1, <1>2, <2>1, <2>2, <2>3, Zenon
<1> QED BY <1>3, <1>4, <1>5, <1>6 DEF LocalPublishes

\* Nothing is stored at the start.
LEMMA PublishInit == StackInit => PublishInv
BY DEF StackInit, PublishInv

\* Every step keeps what a publish has stored, and what is known of it.
LEMMA PublishStep ==
  ASSUME StackTypeOK, PublishInv, [StackNext]_stackVars
  PROVE  PublishInv'
<1> USE DEF PublishInv
<1>0. options \in Options /\ body \in Seq(Byte)
  BY DEF StackTypeOK
<1>1. CASE Receive
  BY <1>1 DEF Receive
<1>2. CASE ParseBody
  <2>1. ppc = "parse" /\ stored = {} /\ parsed' = Parse(body)
        /\ UNCHANGED <<options, stored, forward>>
    BY <1>2 DEF ParseBody
  <2>2. CASE Parse(body) = Malformed
    BY <1>2, <2>1, <2>2 DEF ParseBody
  <2>3. CASE Parse(body) # Malformed
    <3>1. ppc' = "publish"
      BY <1>2, <2>3 DEF ParseBody
    <3> QED BY <1>0, <2>1, <2>3, <3>1, ParseReads
  <2> QED BY <2>2, <2>3
<1>3. CASE Refuse
  <2>1. Refusal \in {"500", "400"}
    BY <1>3 DEF Refuse, Refusal
  <2> QED BY <1>3, <2>1 DEF Refuse
<1>4. CASE LocalPublishes
  <2>1. /\ UNCHANGED <<options, parsed, forward>> /\ AtLocal /\ stored = {}
        /\ ppc' \in {"200", "500", "dropped"}
        /\ Asked' = Asked
    BY <1>4, LocalStores DEF CrateOf, Asked
  <2>2. ~options.readOnly /\ (options.permissive \/ Accepts(parsed.meta))
    BY <1>0, <2>1, TopLayer DEF AtLocal, Refusal
  <2>3. ppc' = "dropped" => options.permissive
    <3>1. parsed.meta.name \in Name
      BY <2>1, WorkloadAssumption DEF AtLocal
    <3>2. Accepts(parsed.meta) => HasIndexPath(parsed.meta.name)
      BY <3>1, AcceptedHasPath DEF Accepts
    <3>3. ppc' = "dropped" => ~HasIndexPath(parsed.meta.name)
      BY <1>4 DEF LocalPublishes, PublishLocal, PanicLocal, FailStoring, FailListing
    <3> QED BY <2>2, <3>2, <3>3
  <2>4. \A s \in stored' : /\ s.layer = 1
                           /\ SameVersion(s.crate, Asked)
                           /\ s.listed => s.crate = Asked
    BY <1>4, <2>1, LocalStores DEF Stored
  <2>5. ppc' = "200" => stored' = {Stored(Asked, TRUE)}
    BY <1>4, LocalStores DEF PublishLocal, Asked
  <2>6. (\A s \in stored : /\ s.layer = 1
                           /\ SameVersion(s.crate, Asked)
                           /\ s.listed => s.crate = Asked)'
    BY <2>1, <2>4
  <2>7. /\ (stored # {} => /\ ~options.readOnly
                           /\ ppc \in {"taken", "200", "500", "dropped"})'
        /\ (ppc \in {"taken", "200"} => stored = {Stored(Asked, TRUE)})'
        /\ (ppc \notin {"forwarded", "taken", "publish"})'
        /\ (ppc = "dropped" => options.permissive)'
    BY <2>1, <2>2, <2>3, <2>5
  <2> QED BY <2>6, <2>7
<1>5. CASE Forward
  <2>1. options.specs[1] = "remote" /\ ~options.readOnly
    BY <1>0, <1>5, TopLayer DEF Forward, Refusal
  <2> QED BY <1>5, <2>1 DEF Forward
<1>6. CASE UpstreamTakes
  <2>1. Parse(forward) = [meta |-> parsed.meta, data |-> parsed.data]
    BY <1>6, RoundTrip DEF UpstreamTakes
  <2>2. CrateOf(Parse(forward)) = CrateOf(parsed)
    BY <2>1 DEF CrateOf
  <2> QED BY <1>6, <2>2 DEF UpstreamTakes, Stored, SameVersion, Asked
<1>7. CASE UpstreamRefuses
  BY <1>7 DEF UpstreamRefuses
<1>8. CASE UpstreamAnswers
  BY <1>8 DEF UpstreamAnswers, Asked
<1>9. CASE UNCHANGED <<options, publishVars>>
  BY <1>9 DEF publishVars, CrateOf, Asked
<1> QED BY <1>1, <1>2, <1>3, <1>4, <1>5, <1>6, <1>7, <1>8, <1>9, PublishSteps

-----------------------------------------------------------------------------
(* The session. *)

\* What is listed has a file, complete or not.
ListedHeld == \A k \in 1..Depth : \A c \in index[k] : Held(k, c)

\* What makes "shown is found" inductive: what a session holds is in a layer that
\* it has not passed yet.
SessionInv ==
  /\ Len(heard) <= Depth
  /\ \A j \in 1..Len(heard) : \A c \in heard[j] : c.name = Want /\ Held(j, c)
  /\ spc = "lookup" => Len(heard) = at - 1
  /\ spc = "merge" \/ Merged => Len(heard) = Depth
  /\ \A c \in listing : c.name = Want /\ \E k \in 1..Depth : Held(k, c)
  /\ spc = "download" =>
       pick \in listing /\ \E k \in at..Depth : Held(k, pick)
  /\ spc # "missing"

Publishes ==
  Receive \/ ParseBody \/ Refuse \/ LocalPublishes \/ Forward \/ UpstreamTakes
  \/ UpstreamRefuses \/ UpstreamAnswers \/ \E k \in 1..Depth : OthersPublish(k)

SessionSteps ==
  LookupLayer \/ MergeLayer \/ AnswerLookup \/ Choose \/ DownloadLayer \/ LayerFails

\* Every step is one of a publish or of the session.
LEMMA StackSteps ==
  ASSUME [StackNext]_stackVars
  PROVE  Publishes \/ SessionSteps \/ UNCHANGED stackVars
BY DEF StackNext, Publishes, LocalPublishes, SessionSteps, StackFinished

\* A publish leaves the session alone, and stores one file or none.
LEMMA PublishStores ==
  ASSUME StackTypeOK, PublishInv, Publishes
  PROVE  /\ UNCHANGED <<options, sessionVars>>
         /\ \/ UNCHANGED <<crates, index, calm>>
            \/ \E k \in 1..Depth, c \in Crate : Stores(k, c) /\ Relists(k, c)
<1>1. 1 \in 1..Depth
  BY TopLayer DEF StackTypeOK
<1>3. CASE LocalPublishes
  BY <1>1, <1>3, LocalStores
<1>4. CASE UpstreamTakes
  <2>1. /\ parsed \in [meta : Metadata, data : Seq(Byte)]
        /\ Parse(forward) = [meta |-> parsed.meta, data |-> parsed.data]
    BY <1>4, RoundTrip DEF UpstreamTakes, PublishInv
  <2>2. CrateOf(Parse(forward)) \in Crate
    BY <2>1, CratesAsked DEF CrateOf
  <2> QED BY <1>1, <1>4, <2>2, RelistsAll DEF UpstreamTakes
<1>5. ASSUME NEW k \in 1..Depth, OthersPublish(k)
      PROVE  /\ UNCHANGED <<options, sessionVars>>
             /\ \E c \in Crate : Stores(k, c) /\ Relists(k, c)
  BY <1>5, WorkloadAssumption, RelistsAll DEF OthersPublish
<1> QED BY <1>3, <1>4, <1>5 DEF Publishes, Receive, ParseBody, Refuse, Forward,
        UpstreamRefuses, UpstreamAnswers

\* A publish takes no version from a layer; the session is calm after it only if
\* it changed nothing.
LEMMA PublishKeeps ==
  ASSUME StackTypeOK, PublishInv, Publishes
  PROVE  /\ UNCHANGED <<options, sessionVars>>
         /\ crates' \in Seq(SUBSET Crate) /\ Len(crates') = Len(crates)
         /\ index' \in Seq(SUBSET Crate) /\ Len(index') = Len(index)
         /\ \A j \in 1..Depth : \A c : Held(j, c) => Held(j, c)'
         /\ calm' \in BOOLEAN
         /\ (calm' => calm /\ UNCHANGED <<crates, index>>)
<1>1. UNCHANGED <<options, sessionVars>>
  BY PublishStores
<1>2. CASE UNCHANGED <<crates, index, calm>>
  BY <1>1, <1>2 DEF StackTypeOK, Held
<1>3. ASSUME NEW k \in 1..Depth, NEW c \in Crate, Stores(k, c), Relists(k, c)
      PROVE  /\ crates' \in Seq(SUBSET Crate) /\ Len(crates') = Len(crates)
             /\ index' \in Seq(SUBSET Crate) /\ Len(index') = Len(index)
             /\ \A j \in 1..Depth : \A d : Held(j, d) => Held(j, d)'
             /\ calm' = FALSE
  <2>1. /\ crates' \in Seq(SUBSET Crate) /\ Len(crates') = Len(crates)
        /\ \A j \in 1..Depth : \A d \in crates[j] :
             \E e \in crates'[j] : SameVersion(e, d)
    BY <1>3, FilesStay
  <2>2. \A j \in 1..Depth : \A d : Held(j, d) => Held(j, d)'
    BY <2>1 DEF Held, SameVersion
  <2>3. index' \in Seq(SUBSET Crate) /\ Len(index') = Len(index)
    BY <1>3, RelistedAre
  <2> QED BY <1>3, <2>1, <2>2, <2>3 DEF Stores
<1> QED BY <1>1, <1>2, <1>3, PublishStores

\* At the start every listed crate has its file.
LEMMA ListedInit == StackInit => ListedHeld
<1> SUFFICES ASSUME StackInit PROVE ListedHeld
  OBVIOUS
<1>1. index = crates
  BY DEF StackInit
<1> QED BY <1>1 DEF ListedHeld, Held, SameVersion

\* Files come before entries, and stay.
LEMMA ListedStep ==
  ASSUME StackTypeOK, PublishInv, ListedHeld, [StackNext]_stackVars
  PROVE  ListedHeld'
<1>1. CASE UNCHANGED <<options, crates, index>>
  BY <1>1 DEF ListedHeld, Held, Depth
<1>2. ASSUME NEW k \in 1..Depth, NEW c \in Crate, Stores(k, c), Relists(k, c), Publishes
      PROVE  ListedHeld'
  <2>1. /\ Depth' = Depth
        /\ \A j \in 1..Depth : \A d : Held(j, d) => Held(j, d)'
    BY <1>2, PublishKeeps DEF Depth
  <2>2. Held(k, c)'
    <3>1. crates' = [crates EXCEPT ![k] = With(crates[k], c)]
          /\ crates \in [1..Depth -> SUBSET Crate]
      BY <1>2, LenProperties DEF Stores, StackTypeOK
    <3>2. c \in crates'[k]
      BY <3>1 DEF With
    <3> QED BY <3>2 DEF Held, SameVersion
  <2> SUFFICES ASSUME NEW j \in 1..Depth, NEW d \in index'[j] PROVE Held(j, d)'
    BY <2>1 DEF ListedHeld
  <2>3. d \in index[j] \/ (j = k /\ d = c)
    BY <1>2, RelistedAre, WithHas
  <2> QED BY <2>1, <2>2, <2>3 DEF ListedHeld
<1>3. CASE Publishes
  BY <1>1, <1>2, <1>3, PublishStores
<1>4. CASE SessionSteps
  BY <1>1, <1>4 DEF SessionSteps, LookupLayer, MergeLayer, AnswerLookup, Choose,
     DownloadLayer, LayerFails
<1> QED BY <1>1, <1>3, <1>4, StackSteps DEF stackVars

\* The entries of a layer have their files in it.
LEMMA EntriesHeld ==
  ASSUME StackTypeOK, ListedHeld, NEW k \in 1..Depth
  PROVE  /\ Entries(k) \in SUBSET Crate
         /\ \A c \in Entries(k) : c.name = Want /\ Held(k, c)
<1>1. index \in [1..Depth -> SUBSET Crate]
  BY LenProperties DEF StackTypeOK
<1> QED BY <1>1 DEF Entries, ListedHeld

\* A lookup that has come to a layer, and what it knows after it.
LEMMA OneMore ==
  ASSUME StackTypeOK, NEW c \in SUBSET Crate
  PROVE  /\ Append(heard, c) \in Seq(SUBSET Crate)
         /\ Len(heard) \in Nat
         /\ Len(Append(heard, c)) = Len(heard) + 1
         /\ \A j \in 1..Len(heard) : Append(heard, c)[j] = heard[j]
         /\ Append(heard, c)[Len(heard) + 1] = c
<1>1. heard \in Seq(SUBSET Crate)
  BY DEF StackTypeOK
<1> QED BY <1>1, AppendProperties, LenProperties

\* The session holds nothing at the start.
LEMMA SessionInit == StackInit => SessionInv
<1> SUFFICES ASSUME StackInit PROVE SessionInv
  OBVIOUS
<1>1. Depth \in Nat \ {0}
  BY TopLayer, WorkloadAssumption DEF StackInit
<1> QED BY <1>1 DEF StackInit, SessionInv, Merged

\* No step takes from the layers what the session holds.
LEMMA SessionStep ==
  ASSUME StackTypeOK, PublishInv, ListedHeld, SessionInv, [StackNext]_stackVars
  PROVE  SessionInv'
<1>1. /\ Depth \in Nat \ {0} /\ at \in 1..Depth /\ Len(heard) \in Nat
      /\ heard \in Seq(SUBSET Crate) /\ listing \in SUBSET Crate
  BY TopLayer, LenProperties DEF StackTypeOK
<1>2. CASE Publishes
  <2>1. /\ UNCHANGED <<options, sessionVars>> /\ Depth' = Depth
        /\ \A j \in 1..Depth : \A c : Held(j, c) => Held(j, c)'
    BY <1>2, PublishKeeps DEF Depth
  <2>2. \A j \in 1..Len(heard) : j \in 1..Depth
    BY <1>1 DEF SessionInv
  <2>3. \A j \in at..Depth : j \in 1..Depth
    BY <1>1
  <2> QED BY <2>1, <2>2, <2>3 DEF SessionInv, Merged, sessionVars
<1>3. CASE UNCHANGED stackVars
  BY <1>3 DEF stackVars, sessionVars, SessionInv, Merged, Held, Depth
<1>4. CASE LookupLayer
  <2>1. /\ UNCHANGED <<options, crates, index, pick>> /\ Depth' = Depth
        /\ heard' = Append(heard, Entries(at)) /\ spc = "lookup"
        /\ Len(heard) = at - 1
    BY <1>4 DEF LookupLayer, Depth, SessionInv
  <2>2. /\ Entries(at) \in SUBSET Crate
        /\ \A c \in Entries(at) : c.name = Want /\ Held(at, c)
    BY <1>1, EntriesHeld
  <2>3. /\ Len(heard') = at
        /\ \A j \in 1..(at - 1) : heard'[j] = heard[j]
        /\ heard'[at] = Entries(at)
    BY <1>1, <2>1, <2>2, OneMore
  <2>4. \A j \in 1..at : \A c \in heard'[j] : c.name = Want /\ Held(j, c)'
    <3>1. \A j \in 1..Depth : \A c : Held(j, c)' <=> Held(j, c)
      BY <2>1 DEF Held
    <3> QED BY <1>1, <2>1, <2>2, <2>3, <3>1 DEF SessionInv, Merged
  <2>5. CASE at < Depth
    <3>1. at' = at + 1 /\ spc' = "lookup" /\ listing' = listing
      BY <1>4, <2>5 DEF LookupLayer
    <3> QED BY <1>1, <2>1, <2>3, <2>4, <3>1 DEF SessionInv, Merged, Held
  <2>6. CASE ~(at < Depth)
    <3>1. at' = at /\ at = Depth /\ spc' = "merge" /\ listing' = Entries(at)
      BY <1>1, <1>4, <2>6 DEF LookupLayer
    <3> QED BY <1>1, <2>1, <2>2, <2>3, <2>4, <3>1 DEF SessionInv, Merged, Held
  <2> QED BY <2>5, <2>6
<1>5. CASE MergeLayer
  <2>1. /\ UNCHANGED <<options, crates, spc, heard, pick>> /\ Depth' = Depth
        /\ spc = "merge" /\ Len(heard) = Depth /\ at - 1 \in 1..Depth
        /\ listing' = MergeTwo(heard[at - 1], listing)
    BY <1>1, <1>5 DEF MergeLayer, Depth, SessionInv
  <2>2. \A c \in listing' : c \in listing \/ c \in heard[at - 1]
    BY <2>1 DEF MergeTwo
  <2>3. \A c \in listing' : c.name = Want /\ \E k \in 1..Depth : Held(k, c)
    BY <2>1, <2>2 DEF SessionInv
  <2> QED BY <2>1, <2>3 DEF SessionInv, Merged, Held
<1>6. CASE AnswerLookup
  BY <1>6 DEF AnswerLookup, SessionInv, Merged, Held, Depth
<1>7. CASE Choose
  BY <1>7 DEF Choose, SessionInv, Merged, Held, Depth
<1>8. CASE DownloadLayer
  <2>1. /\ UNCHANGED <<options, crates, heard, listing, pick>> /\ Depth' = Depth
        /\ spc = "download"
    BY <1>8 DEF DownloadLayer, Depth
  <2>2. PICK k \in at..Depth : Held(k, pick)
    BY <2>1 DEF SessionInv
  <2>3. CASE Files(at) # {}
    BY <1>8, <2>1, <2>3 DEF DownloadLayer, SessionInv, Merged, Held
  <2>4. CASE Files(at) = {}
    <3>1. k # at
      BY <2>2, <2>4 DEF Held, Files
    <3>2. k \in (at + 1)..Depth /\ at < Depth
      BY <1>1, <3>1
    <3>3. at' = at + 1 /\ spc' = spc
      BY <1>8, <2>4, <3>2 DEF DownloadLayer
    <3> QED BY <2>1, <2>2, <3>2, <3>3 DEF SessionInv, Merged, Held
  <2> QED BY <2>3, <2>4
<1>9. CASE LayerFails
  BY <1>9 DEF LayerFails, SessionInv, Merged, Held, Depth
<1> QED BY <1>2, <1>3, <1>4, <1>5, <1>6, <1>7, <1>8, <1>9, StackSteps DEF SessionSteps

-----------------------------------------------------------------------------
(* Types. *)

\* The types hold of every workload.
LEMMA StackTypeInit == StackInit => StackTypeOK
<1> SUFFICES ASSUME StackInit PROVE StackTypeOK
  OBVIOUS
<1>1. PICK w \in Workloads :
        options = w.options /\ crates = w.had /\ index = w.had /\ body \in w.bodies
  BY DEF StackInit
<1>2. /\ options \in Options /\ crates \in Seq(SUBSET Crate) /\ index = crates
      /\ Len(crates) = Depth /\ body \in Seq(Byte)
  BY <1>1, WorkloadAssumption DEF Depth
<1>3. Depth \in Nat \ {0}
  BY <1>2, TopLayer
<1> QED BY <1>2, <1>3 DEF StackInit, StackTypeOK

\* Every step keeps the types, given what the publish and the session hold.
LEMMA StackTypeStep ==
  ASSUME StackTypeOK, PublishInv, ListedHeld, SessionInv, [StackNext]_stackVars
  PROVE  StackTypeOK'
<1>1. /\ Depth \in Nat \ {0} /\ at \in 1..Depth /\ Len(heard) \in Nat
      /\ heard \in Seq(SUBSET Crate) /\ listing \in SUBSET Crate
  BY TopLayer, LenProperties DEF StackTypeOK
<1>2. CASE Publishes
  <2>1. /\ UNCHANGED <<options, sessionVars>> /\ Depth' = Depth
        /\ crates' \in Seq(SUBSET Crate) /\ Len(crates') = Depth
        /\ index' \in Seq(SUBSET Crate) /\ Len(index') = Depth
        /\ calm' \in BOOLEAN
    BY <1>2, PublishKeeps DEF Depth, StackTypeOK
  <2>2. /\ body' = body
        /\ ppc' \in {"idle", "parse", "publish", "forwarded", "taken",
                     "200", "400", "500", "dropped"}
    <3>1. CASE LocalPublishes
      BY <3>1, LocalStores
    <3>2. CASE ~LocalPublishes
      BY <1>2, <3>2 DEF Publishes, Receive, ParseBody, Refuse, Refusal, Forward,
         UpstreamTakes, UpstreamRefuses, UpstreamAnswers, OthersPublish, publishVars,
         StackTypeOK
    <3> QED BY <3>1, <3>2
  <2>3. parsed' = Malformed \/ parsed' \in [meta : Metadata, data : Seq(Byte)]
    <3>1. CASE ParseBody
      BY <3>1, ParseReads DEF ParseBody, StackTypeOK
    <3>2. CASE LocalPublishes
      BY <3>2, LocalStores DEF StackTypeOK
    <3>3. CASE ~ParseBody /\ ~LocalPublishes
      BY <1>2, <3>3 DEF Publishes, Receive, Refuse, Forward, UpstreamTakes,
         UpstreamRefuses, UpstreamAnswers, OthersPublish, publishVars, StackTypeOK
    <3> QED BY <3>1, <3>2, <3>3
  <2>4. forward' \in Seq(Byte)
    <3>1. CASE Forward
      <4>1. parsed.meta \in Metadata /\ parsed.data \in Seq(Byte)
            /\ Len(parsed.data) < Base * Base
        BY <3>1 DEF Forward, PublishInv
      <4> QED BY <3>1, <4>1, RoundTrip DEF Forward
    <3>2. CASE LocalPublishes
      BY <3>2, LocalStores DEF StackTypeOK
    <3>3. CASE ~Forward /\ ~LocalPublishes
      BY <1>2, <3>3 DEF Publishes, Receive, ParseBody, Refuse, UpstreamTakes,
         UpstreamRefuses, UpstreamAnswers, OthersPublish, publishVars, StackTypeOK
    <3> QED BY <3>1, <3>2, <3>3
  <2>5. stored' \subseteq [layer : 1..Depth, crate : Crate, listed : BOOLEAN]
    <3>1. ASSUME NEW c \in Crate, NEW b \in BOOLEAN
          PROVE  {Stored(c, b)} \subseteq [layer : 1..Depth, crate : Crate, listed : BOOLEAN]
      BY <1>1 DEF Stored
    <3>2. CASE LocalPublishes
      BY <3>1, <3>2, LocalStores DEF StackTypeOK
    <3>3. CASE UpstreamTakes
      <4>1. /\ parsed \in [meta : Metadata, data : Seq(Byte)]
            /\ Parse(forward) = [meta |-> parsed.meta, data |-> parsed.data]
        BY <3>3, RoundTrip DEF UpstreamTakes, PublishInv
      <4>2. CrateOf(Parse(forward)) \in Crate
        BY <4>1, CratesAsked DEF CrateOf
      <4> QED BY <3>1, <3>3, <4>2 DEF UpstreamTakes
    <3>4. CASE ~LocalPublishes /\ ~UpstreamTakes
      BY <1>2, <3>4 DEF Publishes, Receive, ParseBody, Refuse, Forward,
         UpstreamRefuses, UpstreamAnswers, OthersPublish, publishVars, StackTypeOK
    <3> QED BY <3>2, <3>3, <3>4
  <2> QED BY <2>1, <2>2, <2>3, <2>4, <2>5 DEF StackTypeOK, sessionVars
<1>3. CASE UNCHANGED stackVars
  BY <1>3 DEF stackVars, sessionVars, publishVars, StackTypeOK, Depth
<1>4. CASE SessionSteps
  <2>1. UNCHANGED <<options, crates, index, publishVars, calm>> /\ Depth' = Depth
    BY <1>4 DEF SessionSteps, LookupLayer, MergeLayer, AnswerLookup, Choose,
       DownloadLayer, LayerFails, Depth
  <2>2. spc' \in {"lookup", "merge", "404", "listed", "download", "served",
                  "missing", "502"} /\ at' \in 1..Depth
    BY <1>1, <1>4 DEF SessionSteps, LookupLayer, MergeLayer, AnswerLookup, Choose,
       DownloadLayer, LayerFails, StackTypeOK
  <2>3. heard' \in Seq(SUBSET Crate)
    <3>1. CASE LookupLayer
      BY <1>1, <3>1, EntriesHeld, OneMore DEF LookupLayer
    <3>2. CASE ~LookupLayer
      BY <1>1, <1>4, <3>2 DEF SessionSteps, MergeLayer, AnswerLookup, Choose,
         DownloadLayer, LayerFails
    <3> QED BY <3>1, <3>2
  <2>4. listing' \subseteq Crate
    <3>1. CASE LookupLayer
      BY <1>1, <3>1, EntriesHeld DEF LookupLayer
    <3>2. CASE MergeLayer
      <4>1. heard[at - 1] \in SUBSET Crate
        BY <1>1, <3>2, LenProperties DEF MergeLayer, SessionInv
      <4> QED BY <1>1, <3>2, <4>1 DEF MergeLayer, MergeTwo
    <3>3. CASE ~LookupLayer /\ ~MergeLayer
      BY <1>1, <1>4, <3>3 DEF SessionSteps, AnswerLookup, Choose, DownloadLayer,
         LayerFails
    <3> QED BY <3>1, <3>2, <3>3
  <2>5. pick' \in Crate \cup {NoCrate} /\ got' \in Crate \cup {NoCrate}
    <3>1. CASE DownloadLayer
      <4>1. crates[at] \in SUBSET Crate
        BY <1>1, LenProperties DEF StackTypeOK
      <4> QED BY <3>1, <4>1 DEF DownloadLayer, Files, StackTypeOK
    <3>2. CASE Choose
      BY <1>1, <3>2 DEF Choose, StackTypeOK
    <3>3. CASE ~DownloadLayer /\ ~Choose
      BY <1>4, <3>3 DEF SessionSteps, LookupLayer, MergeLayer, AnswerLookup,
         LayerFails, StackTypeOK
    <3> QED BY <3>1, <3>2, <3>3
  <2>6. Len(heard') <= Depth
    BY <1>4, <2>1, SessionStep DEF SessionInv, StackNext, SessionSteps
  <2> QED BY <2>1, <2>2, <2>3, <2>4, <2>5, <2>6 DEF StackTypeOK, publishVars
<1> QED BY <1>2, <1>3, <1>4, StackSteps

-----------------------------------------------------------------------------
(* What a lookup is told, layer by layer, and the answer it makes of it. *)

\* A listing with one entry of a version.
OneEach(l) == \A c, d \in l : c.vers = d.vers => c = d

\* A merge step takes in one layer more.
LEMMA MergeOne ==
  ASSUME NEW s, Len(s) \in Nat, NEW i \in Nat, i >= 1, i < Len(s)
  PROVE  MergeTwo(s[i], FirstOf(s, i + 1)) = FirstOf(s, i)
<1>1. ASSUME NEW c \in MergeTwo(s[i], FirstOf(s, i + 1))
      PROVE  c \in FirstOf(s, i)
  <2>1. CASE c \in s[i]
    BY <2>1 DEF FirstOf
  <2>2. CASE c \in FirstOf(s, i + 1) /\ \A d \in s[i] : d.vers # c.vers
    <3>1. PICK k \in (i + 1)..Len(s) :
            /\ c \in s[k]
            /\ \A j \in (i + 1)..(k - 1) : \A d \in s[j] : d.vers # c.vers
      BY <2>2 DEF FirstOf
    <3>2. \A j \in i..(k - 1) : j = i \/ j \in (i + 1)..(k - 1)
      OBVIOUS
    <3>3. \A j \in i..(k - 1) : \A d \in s[j] : d.vers # c.vers
      BY <2>2, <3>1, <3>2
    <3>4. k \in i..Len(s)
      OBVIOUS
    <3> QED BY <3>1, <3>3, <3>4 DEF FirstOf
  <2> QED BY <1>1, <2>1, <2>2 DEF MergeTwo
<1>2. ASSUME NEW c \in FirstOf(s, i)
      PROVE  c \in MergeTwo(s[i], FirstOf(s, i + 1))
  <2>1. PICK k \in i..Len(s) :
          /\ c \in s[k]
          /\ \A j \in i..(k - 1) : \A d \in s[j] : d.vers # c.vers
    BY <1>2 DEF FirstOf
  <2>2. CASE k = i
    BY <2>1, <2>2 DEF MergeTwo
  <2>3. CASE k # i
    <3>1. k \in (i + 1)..Len(s) /\ i \in i..(k - 1)
      BY <2>3
    <3>2. \A j \in (i + 1)..(k - 1) : j \in i..(k - 1)
      OBVIOUS
    <3>3. c \in FirstOf(s, i + 1)
      BY <2>1, <3>1, <3>2 DEF FirstOf
    <3> QED BY <2>1, <3>1, <3>3 DEF MergeTwo
  <2> QED BY <2>2, <2>3
<1> QED BY <1>1, <1>2

\* Of the last layer, all entries win.
LEMMA LastAlone ==
  ASSUME NEW s, Len(s) \in Nat
  PROVE  FirstOf(s, Len(s)) = s[Len(s)]
<1>1. Len(s)..Len(s) = {Len(s)} /\ Len(s)..(Len(s) - 1) = {}
  OBVIOUS
<1> QED BY <1>1 DEF FirstOf

\* Listings with one entry of a version merge to one.
LEMMA MergedOnce ==
  ASSUME NEW s, Len(s) \in Nat, \A k \in 1..Len(s) : OneEach(s[k])
  PROVE  OneEach(FirstOf(s, 1))
<1> SUFFICES ASSUME NEW c \in FirstOf(s, 1), NEW d \in FirstOf(s, 1), c.vers = d.vers
             PROVE  c = d
  BY DEF OneEach
<1>1. PICK k \in 1..Len(s) :
        c \in s[k] /\ \A j \in 1..(k - 1) : \A e \in s[j] : e.vers # c.vers
  BY DEF FirstOf
<1>2. PICK l \in 1..Len(s) :
        d \in s[l] /\ \A j \in 1..(l - 1) : \A e \in s[j] : e.vers # d.vers
  BY DEF FirstOf
<1>3. ~(k < l) /\ ~(l < k)
  BY <1>1, <1>2
<1>4. k = l
  BY <1>3
<1> QED BY <1>1, <1>2, <1>4 DEF OneEach

\* A layer has one file, and one entry, of a version.
OneFile ==
  \A k \in 1..Depth :
    /\ \A c, d \in crates[k] : SameVersion(c, d) => c = d
    /\ \A c, d \in index[k] : SameVersion(c, d) => c = d

\* The registries have one file of a version at the start.
LEMMA OneFileInit == StackInit => OneFile
<1> SUFFICES ASSUME StackInit PROVE OneFile
  OBVIOUS
<1>1. PICK w \in Workloads : options = w.options /\ crates = w.had /\ index = w.had
  BY DEF StackInit
<1>2. DOMAIN w.had = 1..Depth
  BY <1>1, WorkloadAssumption, LenProperties DEF Depth
<1> QED BY <1>1, <1>2, WorkloadAssumption DEF OneFile

\* Where a version was once, it is once after another crate replaced its own.
LEMMA OnceWith ==
  ASSUME NEW had, NEW c, \A d, e \in had : SameVersion(d, e) => d = e,
         NEW d \in With(had, c), NEW e \in With(had, c), SameVersion(d, e)
  PROVE  d = e
BY WithHas DEF SameVersion

\* A publish replaces the file and the entry of its version.
LEMMA OneFileStep ==
  ASSUME StackTypeOK, PublishInv, OneFile, [StackNext]_stackVars
  PROVE  OneFile'
<1>1. ASSUME NEW k \in 1..Depth, NEW c \in Crate, Stores(k, c), Relists(k, c),
             options' = options
      PROVE  OneFile'
  <2>1. /\ crates \in [1..Depth -> SUBSET Crate] /\ Depth' = Depth
        /\ crates' = [crates EXCEPT ![k] = With(crates[k], c)]
    BY <1>1, LenProperties DEF StackTypeOK, Stores, Depth
  <2>2. ASSUME NEW j \in 1..Depth, NEW d \in crates'[j], NEW e \in crates'[j],
               SameVersion(d, e)
        PROVE  d = e
    <3>1. CASE j # k
      BY <2>1, <2>2, <3>1 DEF OneFile
    <3>2. CASE j = k
      <4>1. crates'[j] = With(crates[k], c)
        BY <2>1, <3>2
      <4> QED BY <2>2, <4>1, OnceWith DEF OneFile
    <3> QED BY <3>1, <3>2
  <2>3. ASSUME NEW j \in 1..Depth, NEW d \in index'[j], NEW e \in index'[j],
               SameVersion(d, e)
        PROVE  d = e
    <3>1. index'[j] = index[j] \/ (j = k /\ index'[j] \subseteq With(index[k], c))
      BY <1>1, RelistedAre
    <3>2. CASE index'[j] = index[j]
      BY <2>3, <3>2 DEF OneFile
    <3>3. CASE j = k /\ index'[j] \subseteq With(index[k], c)
      BY <2>3, <3>3, OnceWith DEF OneFile
    <3> QED BY <3>1, <3>2, <3>3
  <2> QED BY <2>1, <2>2, <2>3 DEF OneFile, SameVersion
<1>2. CASE UNCHANGED <<options, crates, index>>
  BY <1>2 DEF OneFile, Depth
<1>3. CASE Publishes
  BY <1>1, <1>2, <1>3, PublishStores
<1>4. CASE SessionSteps
  BY <1>2, <1>4 DEF SessionSteps, LookupLayer, MergeLayer, AnswerLookup, Choose,
     DownloadLayer, LayerFails
<1> QED BY <1>2, <1>3, <1>4, StackSteps DEF stackVars

\* What an acknowledged publish stored and listed is still there, for other people
\* publish no version that an upstream has.
TopInv ==
  ppc \in {"taken", "200"} => Asked \in crates[1] /\ Asked \in index[1]

\* Nothing is acknowledged at the start.
LEMMA TopInit == StackInit => TopInv
BY DEF StackInit, TopInv

\* A file and its entry, once stored and listed in a layer, are in it.
LEMMA StoredIsThere ==
  ASSUME StackTypeOK, NEW k \in 1..Depth, NEW c, Stores(k, c), Lists(k, c)
  PROVE  /\ crates'[k] = With(crates[k], c) /\ index'[k] = With(index[k], c)
         /\ \A j \in 1..Depth : j # k => crates'[j] = crates[j] /\ index'[j] = index[j]
         /\ c \in crates'[k] /\ c \in index'[k]
<1>1. crates \in [1..Depth -> SUBSET Crate] /\ index \in [1..Depth -> SUBSET Crate]
  BY LenProperties DEF StackTypeOK
<1> QED BY <1>1 DEF Stores, Lists, With

\* An acknowledged publish keeps its place.
LEMMA TopStep ==
  ASSUME StackTypeOK, PublishInv, TopInv, [StackNext]_stackVars
  PROVE  TopInv'
<1>0. 1 \in 1..Depth
  BY TopLayer DEF StackTypeOK
<1>1. CASE LocalPublishes
  <2>1. Asked' = Asked /\ ppc' \in {"200", "500", "dropped"}
        /\ (ppc' = "200" => PublishLocal)
    BY <1>1, LocalStores DEF Asked, CrateOf
  <2>2. PublishLocal => Asked \in crates'[1] /\ Asked \in index'[1]
    BY <1>0, StoredIsThere DEF PublishLocal, Asked
  <2> QED BY <2>1, <2>2 DEF TopInv
<1>2. CASE UpstreamTakes
  <2>1. /\ CrateOf(Parse(forward)) = Asked /\ Asked' = Asked
        /\ Stores(1, CrateOf(Parse(forward))) /\ Lists(1, CrateOf(Parse(forward)))
    BY <1>2, RoundTrip DEF UpstreamTakes, PublishInv, Asked, CrateOf
  <2> QED BY <1>0, <2>1, StoredIsThere DEF TopInv
<1>3. CASE UpstreamAnswers
  BY <1>3 DEF UpstreamAnswers, TopInv, Asked, CrateOf
<1>4. ASSUME NEW k \in 1..Depth, OthersPublish(k) PROVE TopInv'
  <2>1. PICK c : /\ \A d \in crates[k] : ~SameVersion(c, d)
                 /\ Stores(k, c) /\ Lists(k, c)
    BY <1>4 DEF OthersPublish
  <2>2. ppc' = ppc /\ Asked' = Asked
    BY <1>4 DEF OthersPublish, publishVars, Asked, CrateOf
  <2>3. ppc \in {"taken", "200"} => Asked \in crates'[1] /\ Asked \in index'[1]
    BY <1>0, <2>1, StoredIsThere DEF TopInv, With, SameVersion
  <2> QED BY <2>2, <2>3 DEF TopInv
<1>5. CASE Receive \/ ParseBody \/ Refuse \/ Forward \/ UpstreamRefuses
  BY <1>5 DEF Receive, ParseBody, Refuse, Refusal, Forward, UpstreamRefuses, TopInv
<1>6. CASE SessionSteps
  BY <1>6 DEF SessionSteps, LookupLayer, MergeLayer, AnswerLookup, Choose,
     DownloadLayer, LayerFails, publishVars, TopInv, Asked, CrateOf
<1>7. CASE UNCHANGED stackVars
  BY <1>7 DEF stackVars, publishVars, TopInv, Asked, CrateOf
<1> QED BY <1>1, <1>2, <1>3, <1>4, <1>5, <1>6, <1>7, StackSteps DEF Publishes

-----------------------------------------------------------------------------
\* What makes MergedAsHeard inductive: a layer lists a version once, and what is
\* merged so far is what the layers asked from there down make.
HeardInv ==
  /\ \A j \in 1..Len(heard) : OneEach(heard[j])
  /\ spc = "merge" => listing = FirstOf(heard, at)
  /\ Merged => listing = FirstOf(heard, 1)

\* Nothing is heard at the start.
LEMMA HeardInit == StackInit => HeardInv
BY DEF StackInit, HeardInv, Merged

\* Every step of a session keeps to what it heard, whatever is published.
LEMMA HeardStep ==
  ASSUME StackTypeOK, PublishInv, ListedHeld, SessionInv, OneFile, HeardInv,
         [StackNext]_stackVars
  PROVE  HeardInv'
<1>1. /\ Depth \in Nat \ {0} /\ at \in 1..Depth /\ Len(heard) \in Nat
      /\ heard \in Seq(SUBSET Crate)
  BY TopLayer, LenProperties DEF StackTypeOK
<1>2. CASE UNCHANGED sessionVars
  BY <1>2 DEF HeardInv, Merged, sessionVars
<1>3. CASE Publishes
  BY <1>2, <1>3, PublishKeeps
<1>4. CASE LookupLayer
  <2>1. /\ heard' = Append(heard, Entries(at)) /\ spc = "lookup"
        /\ Len(heard) = at - 1
    BY <1>4 DEF LookupLayer, SessionInv
  <2>2. Entries(at) \in SUBSET Crate
    BY <1>1, EntriesHeld
  <2>3. /\ Len(heard') = at
        /\ \A j \in 1..(at - 1) : heard'[j] = heard[j]
        /\ heard'[at] = Entries(at)
    BY <1>1, <2>1, <2>2, OneMore
  <2>4. OneEach(Entries(at))
    BY <1>1 DEF OneFile, OneEach, Entries, SameVersion
  <2>5. \A j \in 1..Len(heard') : OneEach(heard'[j])
    <3>1. \A j \in 1..at : j = at \/ j \in 1..(at - 1)
      BY <1>1
    <3> QED BY <2>1, <2>3, <2>4, <3>1 DEF HeardInv
  <2>6. CASE at < Depth
    <3>1. spc' = "lookup"
      BY <1>4, <2>1, <2>6 DEF LookupLayer
    <3> QED BY <2>5, <3>1 DEF HeardInv, Merged, OneEach
  <2>7. CASE ~(at < Depth)
    <3>1. at' = at /\ spc' = "merge" /\ listing' = Entries(at)
      BY <1>4, <2>7 DEF LookupLayer
    <3>2. FirstOf(heard', at) = Entries(at)
      BY <1>1, <2>3, LastAlone
    <3>3. FirstOf(heard', at') = listing'
      BY <3>1, <3>2
    <3>4. ~Merged'
      BY <3>1 DEF Merged
    <3> QED BY <2>5, <3>3, <3>4 DEF HeardInv, OneEach, FirstOf
  <2> QED BY <2>6, <2>7
<1>5. CASE MergeLayer
  <2>1. /\ UNCHANGED <<spc, heard>> /\ spc = "merge" /\ Len(heard) = Depth
        /\ at' = at - 1 /\ at - 1 \in Nat /\ at - 1 >= 1 /\ at - 1 < Len(heard)
        /\ listing' = MergeTwo(heard[at - 1], listing)
    BY <1>1, <1>5 DEF MergeLayer, SessionInv
  <2>2. listing = FirstOf(heard, (at - 1) + 1)
    BY <1>1, <2>1 DEF HeardInv
  <2>3. listing' = FirstOf(heard, at - 1)
    BY <1>1, <2>1, <2>2, MergeOne
  <2> QED BY <2>1, <2>3 DEF HeardInv, Merged
<1>6. CASE AnswerLookup
  BY <1>6 DEF AnswerLookup, HeardInv, Merged
<1>7. CASE Choose
  BY <1>7 DEF Choose, HeardInv, Merged
<1>8. CASE DownloadLayer
  BY <1>8 DEF DownloadLayer, HeardInv, Merged
<1>9. CASE LayerFails
  BY <1>9 DEF LayerFails, HeardInv, Merged
<1> QED BY <1>2, <1>3, <1>4, <1>5, <1>6, <1>7, <1>8, <1>9, StackSteps
        DEF SessionSteps, stackVars

-----------------------------------------------------------------------------
(* A session that nothing was published in. *)

\* What makes "shown is sent" inductive: what the session heard is still what the
\* layers have, and it has passed only layers without the file.
CalmInv ==
  calm =>
    /\ index = crates
    /\ \A j \in 1..Len(heard) : heard[j] = Entries(j)
    /\ spc = "download" => \A j \in 1..(at - 1) : Files(j) = {}
    /\ spc = "served" => got = pick

\* Nothing is asked at the start.
LEMMA CalmInit == StackInit => CalmInv
BY DEF StackInit, CalmInv

\* A calm session's step leaves it with what the layers still have.
LEMMA CalmStep ==
  ASSUME StackTypeOK, PublishInv, ListedHeld, SessionInv, OneFile, HeardInv, CalmInv,
         [StackNext]_stackVars
  PROVE  CalmInv'
<1> SUFFICES ASSUME calm'
             PROVE  CalmInv'
  BY DEF CalmInv
<1>1. /\ Depth \in Nat \ {0} /\ at \in 1..Depth /\ Len(heard) \in Nat
      /\ heard \in Seq(SUBSET Crate)
  BY TopLayer, LenProperties DEF StackTypeOK
<1>2. UNCHANGED <<options, crates, index>> /\ calm
  <2>1. CASE Publishes
    BY <2>1, PublishKeeps
  <2>2. CASE SessionSteps
    BY <2>2 DEF SessionSteps, LookupLayer, MergeLayer, AnswerLookup, Choose,
       DownloadLayer, LayerFails
  <2> QED BY <2>1, <2>2, StackSteps DEF stackVars
<1>3. \A k : Entries(k)' = Entries(k)
  BY <1>2 DEF Entries
<1>4. CASE UNCHANGED sessionVars
  BY <1>2, <1>3, <1>4 DEF CalmInv, sessionVars, Files
<1>5. CASE Publishes
  BY <1>4, <1>5, PublishKeeps
<1>6. CASE LookupLayer
  <2>1. /\ heard' = Append(heard, Entries(at)) /\ spc = "lookup"
        /\ Len(heard) = at - 1
    BY <1>6 DEF LookupLayer, SessionInv
  <2>2. Entries(at) \in SUBSET Crate
    BY <1>1, EntriesHeld
  <2>3. /\ Len(heard') = at
        /\ \A j \in 1..(at - 1) : heard'[j] = heard[j]
        /\ heard'[at] = Entries(at)
    BY <1>1, <2>1, <2>2, OneMore
  <2>4. \A j \in 1..Len(heard') : heard'[j] = Entries(j)'
    BY <1>1, <1>2, <1>3, <2>1, <2>3 DEF CalmInv
  <2>5. spc' \in {"lookup", "merge"}
    BY <1>6, <2>1 DEF LookupLayer
  <2> QED BY <1>2, <2>4, <2>5 DEF CalmInv
<1>7. CASE MergeLayer
  BY <1>2, <1>3, <1>7 DEF MergeLayer, CalmInv
<1>8. CASE AnswerLookup
  BY <1>2, <1>3, <1>8 DEF AnswerLookup, CalmInv
<1>9. CASE Choose
  BY <1>2, <1>3, <1>9 DEF Choose, CalmInv
<1>10. CASE DownloadLayer
  <2>1. /\ UNCHANGED <<heard, listing, pick>> /\ spc = "download"
        /\ listing = FirstOf(heard, 1) /\ pick \in listing /\ Len(heard) = Depth
        /\ \A j \in 1..Depth : heard[j] = Entries(j)
        /\ index = crates
        /\ \A j \in 1..(at - 1) : Files(j) = {}
    BY <1>2, <1>10 DEF DownloadLayer, CalmInv, SessionInv, HeardInv, Merged
  <2>2. CASE Files(at) # {}
    <3>1. /\ spc' = "served" /\ got' \in crates[at] /\ SameVersion(got', pick)
      BY <1>10, <2>2 DEF DownloadLayer, Files
    <3>2. PICK k \in 1..Depth :
            /\ pick \in Entries(k)
            /\ \A j \in 1..(k - 1) : \A d \in Entries(j) : d.vers # pick.vers
      <4>1. PICK k \in 1..Depth :
              /\ pick \in heard[k]
              /\ \A j \in 1..(k - 1) : \A d \in heard[j] : d.vers # pick.vers
        BY <2>1 DEF FirstOf
      <4>2. \A j \in 1..(k - 1) : j \in 1..Depth
        BY <1>1
      <4> QED BY <2>1, <4>1, <4>2
    <3>3. pick \in crates[k] /\ pick.name = Want /\ pick \in Files(k)
      BY <2>1, <3>2 DEF Entries, Files, SameVersion
    <3>4. ~(k < at)
      BY <1>1, <2>1, <3>3
    <3>5. got' \in Entries(at) /\ got'.vers = pick.vers
      BY <2>1, <3>1, <3>3 DEF Entries, SameVersion
    <3>6. ~(at < k)
      BY <1>1, <3>2, <3>5
    <3>7. k = at
      BY <1>1, <3>4, <3>6
    <3>8. got' = pick
      BY <3>1, <3>3, <3>7 DEF OneFile
    <3> QED BY <1>2, <1>3, <2>1, <3>1, <3>8 DEF CalmInv
  <2>3. CASE Files(at) = {}
    <3>1. \/ spc' = "missing"
          \/ spc' = "download" /\ at' = at + 1
      BY <1>10, <2>1, <2>3 DEF DownloadLayer
    <3>2. \A j \in 1..((at + 1) - 1) : Files(j) = {}
      BY <1>1, <2>1, <2>3
    <3>3. \A j : Files(j)' = Files(j)
      BY <1>2, <2>1 DEF Files
    <3> QED BY <1>2, <1>3, <2>1, <3>1, <3>2, <3>3 DEF CalmInv
  <2> QED BY <2>2, <2>3
<1>11. CASE LayerFails
  BY <1>2, <1>3, <1>11 DEF LayerFails, CalmInv
<1> QED BY <1>4, <1>5, <1>6, <1>7, <1>8, <1>9, <1>10, <1>11, StackSteps
        DEF SessionSteps, stackVars

-----------------------------------------------------------------------------
(* The theorems. *)

StackInv ==
  /\ StackTypeOK /\ PublishInv /\ ListedHeld /\ SessionInv
  /\ OneFile /\ TopInv /\ HeardInv /\ CalmInv

\* The inductive invariant.
LEMMA StackInvariant == StackSpec => []StackInv
<1>1. StackInit => StackInv
  BY StackTypeInit, PublishInit, ListedInit, SessionInit, OneFileInit, TopInit,
     HeardInit, CalmInit
  DEF StackInv
<1>2. StackInv /\ [StackNext]_stackVars => StackInv'
  BY StackTypeStep, PublishStep, ListedStep, SessionStep, OneFileStep, TopStep,
     HeardStep, CalmStep
  DEF StackInv
<1> QED BY <1>1, <1>2, PTL DEF StackSpec

\* The variables keep their types, and the session stays within the stack.
THEOREM StackTypeCorrect == StackSpec => []StackTypeOK
<1>1. StackInv => StackTypeOK
  BY DEF StackInv
<1> QED BY <1>1, StackInvariant, PTL

\* parse_publish_body reads a body as the format says.
THEOREM BodiesParsed == StackSpec => []BodyParsedAsFramed
<1>1. StackInv => BodyParsedAsFramed
  BY ParsesFrames DEF StackInv, StackTypeOK, BodyParsedAsFramed
<1> QED BY <1>1, StackInvariant, PTL

\* The answer to a publish tells what became of it (endpoints.rs, local.rs,
\* remote.rs), file operations that fail half way included: for any body, any stack
\* and any rules of the upstream.
THEOREM AnswersTrue == StackSpec => []AnswerTellsTruth
<1>1. StackInv => AnswerTellsTruth
  BY DEF StackInv, PublishInv, TopInv, AnswerTellsTruth, Asked
<1> QED BY <1>1, StackInvariant, PTL

\* validate() (types.rs) lets no name through that index_path (local.rs) cannot cut.
THEOREM PathsExist == StackSpec => []ValidatedHasPath
<1>1. StackInv => ValidatedHasPath
  BY DEF StackInv, PublishInv, ValidatedHasPath
<1> QED BY <1>1, StackInvariant, PTL

\* MergedAsHeard: nested overlays (overlay.rs, spec.rs) merge what the layers say
\* as one overlay of all of them would, however many there are and whatever is
\* published while they are asked; a version is listed once.
THEOREM MergesWhatIsHeard == StackSpec => []MergedAsHeard
<1>1. StackInv => MergedAsHeard
  <2> SUFFICES ASSUME StackInv, Merged
               PROVE  /\ Len(heard) = Depth /\ listing = FirstOf(heard, 1)
                      /\ OneEach(listing)
    BY DEF MergedAsHeard, OneEach
  <2>1. Len(heard) = Depth /\ listing = FirstOf(heard, 1) /\ Len(heard) \in Nat
    BY TopLayer DEF StackInv, SessionInv, HeardInv, StackTypeOK
  <2> QED BY <2>1, MergedOnce DEF StackInv, HeardInv
<1> QED BY <1>1, StackInvariant, PTL

\* FirstLayerWins: and if nothing is published meanwhile, the answer is what the
\* layers have.
THEOREM FirstWins == StackSpec => []FirstLayerWins
<1>1. StackInv => FirstLayerWins
  <2> SUFFICES ASSUME StackInv, calm, Merged
               PROVE  listing = {c \in UNION {Entries(k) : k \in 1..Depth} : FirstLayer(c)}
    BY DEF FirstLayerWins
  <2>1. /\ Len(heard) = Depth /\ Depth \in Nat /\ listing = FirstOf(heard, 1)
        /\ \A j \in 1..Depth : heard[j] = Entries(j)
    BY TopLayer DEF StackInv, SessionInv, HeardInv, CalmInv, StackTypeOK
  <2>2. \A k \in 1..Depth : \A j \in 1..(k - 1) : j \in 1..Depth
    BY <2>1
  <2> QED BY <2>1, <2>2 DEF FirstOf, FirstLayer
<1> QED BY <1>1, StackInvariant, PTL

\* The overlays serve the file of the entry they showed.
THEOREM SentAsShown == StackSpec => []ShownIsSent
<1>1. StackInv => ShownIsSent
  BY DEF StackInv, CalmInv, ShownIsSent
<1> QED BY <1>1, StackInvariant, PTL

\* A version that was shown is found in some layer, whatever is published.
THEOREM FoundIfShown == StackSpec => []ShownIsFound
<1>1. StackInv => ShownIsFound
  BY DEF StackInv, SessionInv, ShownIsFound
<1> QED BY <1>1, StackInvariant, PTL

=============================================================================
