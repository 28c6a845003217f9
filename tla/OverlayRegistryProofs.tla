----------------------- MODULE OverlayRegistryProofs -----------------------
(***************************************************************************)
(* Proofs about OverlayRegistry: the invariants of the top layer hold under *)
(* the overlay, and with them that what is listed is served.               *)
(***************************************************************************)
EXTENDS OverlayRegistry, LocalRegistryProofs

\* The steps of the overlay leave the top layer alone or are its own.
LEMMA OverlaySteps ==
  ASSUME [OverlayNext]_overlayVars
  PROVE  [Next]_vars
BY DEF OverlayNext, overlayVars, OverlayFinished, PublishStep, ReaderStep, Next,
   LookupTop, LookupBottom, Choose, DownloadTop, DownloadBottom, UpstreamFails

\* A merge has entries of the two listings only.
LEMMA MergeEntries ==
  ASSUME NEW upper, NEW lower, NEW m \in Merges(upper, lower)
  PROVE  m \subseteq upper \cup lower
<1>1. PICK won \in {w \in SUBSET upper :
                      /\ \A f \in upper : \E e \in w : e.vers = f.vers
                      /\ \A e, f \in w : e.vers = f.vers => e = f} :
        m = won \cup {e \in lower : \A f \in upper : f.vers # e.vers}
  BY DEF Merges
<1> QED BY <1>1

-----------------------------------------------------------------------------
\* What makes the properties of a session inductive: it holds entries that have
\* their file or are the upstream's, and it asks the upstream only for what the
\* top layer did not list.
SessionInv ==
  \A r \in Readers :
    /\ \A e \in top[r] : HasFile(e)
    /\ ans[r] \subseteq top[r] \cup UpstreamIndex[KeyOf[want[r]]]
    /\ rpc[r] = "start" => ans[r] = {}
    /\ rpc[r] \in {"downloadTop", "downloadBottom"} => pick[r] \in ans[r]
    /\ rpc[r] = "downloadBottom" => pick[r] \notin top[r]
    /\ rpc[r] # "missing"

LEMMA OverlayTypeInit == OverlayInit => OverlayTypeOK
BY TypeOKInit DEF OverlayInit, OverlayTypeOK, ReaderStates, Content

LEMMA OverlayTypeStep ==
  ASSUME OverlayTypeOK, SessionInv, [OverlayNext]_overlayVars
  PROVE  OverlayTypeOK'
<1>1. TypeOK'
  BY OverlaySteps, TypeOKStep DEF OverlayTypeOK
<1>2. ASSUME UNCHANGED readerVars PROVE OverlayTypeOK'
  BY <1>1, <1>2 DEF readerVars, OverlayTypeOK
<1>3. ASSUME NEW t \in Tasks, PublishStep(t) PROVE OverlayTypeOK'
  <2>1. calm' \in [Readers -> BOOLEAN]
    <3>1. \A r \in Readers : (calm[r] /\ Settled(KeyOf[want[r]])') \in BOOLEAN
      BY DEF OverlayTypeOK, Settled
    <3> QED BY <1>3, <3>1, Zenon DEF PublishStep
  <2> QED BY <1>1, <1>3, <2>1 DEF PublishStep, OverlayTypeOK
<1>4. ASSUME NEW r \in Readers, ReaderStep(r) PROVE OverlayTypeOK'
  <2> USE <1>1 DEF OverlayTypeOK, Proceed, ReaderStates
  <2>1. KeyOf[want[r]] \in Keys
    BY KeyAssumption
  <2>2. CASE LookupTop(r)
    <3>1. LookupLocal(KeyOf[want[r]]) \in SUBSET Entry
      BY <2>1 DEF LookupLocal, TypeOK, Line
    <3>2. Settled(KeyOf[want[r]]) \in BOOLEAN
      BY DEF Settled
    <3>3. calm' \in [Readers -> BOOLEAN]
      BY <2>2, <3>2, Zenon DEF LookupTop
    <3> QED BY <2>2, <3>1, <3>3 DEF LookupTop
  <2>3. CASE LookupBottom(r)
    <3>1. PICK m \in Merges(top[r], UpstreamIndex[KeyOf[want[r]]]) :
            /\ ans' = [ans EXCEPT ![r] = m]
            /\ Proceed(r, LookupStatus(m))
      BY <2>3 DEF LookupBottom
    <3>2. m \in SUBSET Entry
      BY <2>1, <3>1, MergeEntries, UpstreamAssumption
    <3> QED BY <2>3, <3>1, <3>2 DEF LookupBottom, LookupStatus
  <2>4. CASE Choose(r)
    BY <2>4 DEF Choose
  <2>5. CASE DownloadTop(r)
    <3>1. pick[r] \in Entry
      BY <2>5 DEF DownloadTop, SessionInv
    <3>2. DownloadLocal(pick[r].name, pick[r].vers) \in Content
      BY <3>1 DEF DownloadLocal, TypeOK, Entry
    <3> QED BY <2>5, <3>2 DEF DownloadTop
  <2>6. CASE DownloadBottom(r)
    <3>1. pick[r] \in Entry
      BY <2>6 DEF DownloadBottom, SessionInv
    <3>2. UpstreamBlob[<<pick[r].name, pick[r].vers>>] \in Content
      BY <3>1, UpstreamAssumption DEF Content, Entry
    <3> QED BY <2>6, <3>2 DEF DownloadBottom, DownloadStatus
  <2>7. CASE UpstreamFails(r)
    BY <2>7 DEF UpstreamFails
  <2> QED BY <1>4, <2>2, <2>3, <2>4, <2>5, <2>6, <2>7 DEF ReaderStep
<1> QED BY <1>2, <1>3, <1>4 DEF OverlayNext, OverlayFinished, overlayVars

LEMMA SessionInit == OverlayInit => SessionInv
BY DEF OverlayInit, SessionInv

LEMMA SessionStep ==
  ASSUME OverlayTypeOK, StoredInv, SessionInv, [OverlayNext]_overlayVars
  PROVE  SessionInv'
<1> USE DEF OverlayTypeOK
<1>1. \A e \in Entry : HasFile(e) => HasFile(e)'
  <2> SUFFICES ASSUME NEW e \in Entry, HasFile(e) PROVE HasFile(e)'
    OBVIOUS
  <2>1. <<e.name, e.vers>> \in Names \X Versions
    BY DEF Entry
  <2>2. CASE blob' = blob
    BY <2>2 DEF HasFile
  <2>3. ASSUME NEW t \in Tasks, Works(t) PROVE HasFile(e)'
    BY <2>1, <2>3, FilesStay DEF HasFile
  <2> QED BY <2>2, <2>3, OverlaySteps, WorksOrRests DEF files
<1>2. ASSUME UNCHANGED <<rpc, want, top, ans, pick>> PROVE SessionInv'
  BY <1>1, <1>2 DEF SessionInv
<1>3. ASSUME NEW r \in Readers, ReaderStep(r) PROVE SessionInv'
  <2> SUFFICES ASSUME NEW q \in Readers PROVE
        /\ \A e \in top'[q] : HasFile(e)'
        /\ ans'[q] \subseteq top'[q] \cup UpstreamIndex[KeyOf[want'[q]]]
        /\ rpc'[q] = "start" => ans'[q] = {}
        /\ rpc'[q] \in {"downloadTop", "downloadBottom"} => pick'[q] \in ans'[q]
        /\ rpc'[q] = "downloadBottom" => pick'[q] \notin top'[q]
        /\ rpc'[q] # "missing"
    BY DEF SessionInv
  <2>1. /\ \A e \in top[q] : HasFile(e)'
        /\ ans[q] \subseteq top[q] \cup UpstreamIndex[KeyOf[want[q]]]
        /\ rpc[q] = "start" => ans[q] = {}
        /\ rpc[q] \in {"downloadTop", "downloadBottom"} => pick[q] \in ans[q]
        /\ rpc[q] = "downloadBottom" => pick[q] \notin top[q]
        /\ rpc[q] # "missing"
    BY <1>1 DEF SessionInv
  <2>2. blob' = blob /\ want' = want
    BY <1>3 DEF ReaderStep, LookupTop, LookupBottom, Choose, DownloadTop,
       DownloadBottom, UpstreamFails, vars
  <2>3. CASE q # r
    BY <1>3, <2>1, <2>2, <2>3 DEF ReaderStep, LookupTop, LookupBottom, Choose,
       DownloadTop, DownloadBottom, UpstreamFails, Proceed
  <2>4. CASE q = r /\ LookupTop(r)
    <3>1. KeyOf[want[r]] \in Keys
      BY KeyAssumption
    <3>2. \A e \in LookupLocal(KeyOf[want[r]]) : HasFile(e)'
      BY <3>1, <1>1 DEF LookupLocal, StoredInv, StoredBeforeIndexed, TypeOK, Line
    <3>3. ans[r] = {}
      BY <2>4 DEF LookupTop, SessionInv
    <3> QED BY <3>2, <3>3, <2>1, <2>2, <2>4 DEF LookupTop, Proceed
  <2>5. CASE q = r /\ LookupBottom(r)
    <3>1. PICK m \in Merges(top[r], UpstreamIndex[KeyOf[want[r]]]) :
            /\ ans' = [ans EXCEPT ![r] = m]
            /\ Proceed(r, LookupStatus(m))
      BY <2>5 DEF LookupBottom
    <3>2. m \subseteq top[r] \cup UpstreamIndex[KeyOf[want[r]]]
      BY <3>1, MergeEntries
    <3> QED BY <3>1, <3>2, <2>1, <2>2, <2>5 DEF LookupBottom, Proceed, LookupStatus
  <2>6. CASE q = r /\ Choose(r)
    BY <2>6, <2>1, <2>2 DEF Choose, Proceed
  <2>7. CASE q = r /\ DownloadTop(r)
    <3>1. pick[r] \in ans[r]
      BY <2>7 DEF DownloadTop, SessionInv
    <3>2. HasFile(pick[r]) => rpc'[r] = "served"
      BY <2>7 DEF DownloadTop, Proceed, HasFile, DownloadLocal
    <3>3. rpc'[r] \in {"downloadBottom", "served"}
      BY <2>7 DEF DownloadTop, Proceed
    <3>4. rpc'[r] = "downloadBottom" => pick[r] \notin top[r]
      BY <3>2 DEF SessionInv
    <3> QED BY <3>1, <3>3, <3>4, <2>1, <2>2, <2>7 DEF DownloadTop
  <2>8. CASE q = r /\ DownloadBottom(r)
    <3>1. pick[r] \in UpstreamIndex[KeyOf[want[r]]]
      BY <2>8 DEF DownloadBottom, SessionInv
    <3>2. UpstreamBlob[<<pick[r].name, pick[r].vers>>] \in Data
      BY <3>1, KeyAssumption, UpstreamAssumption
    <3>3. rpc'[r] = "served"
      BY <3>2, <2>8, MarkAssumption DEF DownloadBottom, DownloadStatus, Proceed
    <3> QED BY <3>3, <2>1, <2>2, <2>8 DEF DownloadBottom
  <2>9. CASE q = r /\ UpstreamFails(r)
    BY <2>9, <2>1, <2>2 DEF UpstreamFails, Proceed
  <2> QED BY <1>3, <2>3, <2>4, <2>5, <2>6, <2>7, <2>8, <2>9 DEF ReaderStep
<1> QED BY <1>2, <1>3 DEF OverlayNext, OverlayFinished, PublishStep, overlayVars,
           readerVars

LEMMA SessionHolds == OverlaySpec => [](OverlayTypeOK /\ StoredInv /\ SessionInv)
<1>1. OverlayInit => OverlayTypeOK /\ StoredInv /\ SessionInv
  BY OverlayTypeInit, StoredInit, SessionInit DEF OverlayInit
<1>2. OverlayTypeOK /\ StoredInv /\ SessionInv /\ [OverlayNext]_overlayVars
        => (OverlayTypeOK /\ StoredInv /\ SessionInv)'
  BY OverlayTypeStep, OverlaySteps, StoredStep, SessionStep DEF OverlayTypeOK
<1> QED BY <1>1, <1>2, PTL DEF OverlaySpec

\* Every variable of the overlay keeps its kind of value.
THEOREM OverlayTypeCorrect == OverlaySpec => []OverlayTypeOK
<1> QED BY SessionHolds, PTL

\* A version shown to a client is served, however publishes overlap or fail.
THEOREM ListedVersionsAreServed == OverlaySpec => []ListedIsServed
<1>1. SessionInv => ListedIsServed
  BY DEF SessionInv, ListedIsServed
<1> QED BY <1>1, SessionHolds, PTL

\* A version the top layer listed is never asked of the upstream.
THEOREM LocalVersionsNeedNoUpstream == OverlaySpec => []LocalNeedsNoUpstream
<1>1. SessionInv => LocalNeedsNoUpstream
  BY DEF SessionInv, LocalNeedsNoUpstream
<1> QED BY <1>1, SessionHolds, PTL

-----------------------------------------------------------------------------
(* Sessions that no publish disturbs. *)

\* The directory under the overlay is a LocalRegistry, whatever is read from it:
\* what holds of one holds here.
THEOREM OverlayImplementsLocal == OverlaySpec => Spec
<1>1. OverlayInit => Init
  BY DEF OverlayInit
<1>2. [OverlayNext]_overlayVars => [Next]_vars
  BY OverlaySteps
<1> QED BY <1>1, <1>2, PTL DEF OverlaySpec, Spec

\* In a merge the upper listing wins.
LEMMA MergeUpper ==
  ASSUME NEW upper, NEW lower, NEW m \in Merges(upper, lower), NEW f \in upper
  PROVE  /\ \E e \in m : e.vers = f.vers
         /\ \A e \in m : e.vers = f.vers =>
              e \in upper /\ \A g \in m : g.vers = e.vers => g = e
<1>1. PICK won \in {w \in SUBSET upper :
                      /\ \A g \in upper : \E e \in w : e.vers = g.vers
                      /\ \A e, g \in w : e.vers = g.vers => e = g} :
        m = won \cup {e \in lower : \A g \in upper : g.vers # e.vers}
  BY DEF Merges
<1> QED BY <1>1

\* Every .crate file is of a request that was worked on.
FilesHaveSources ==
  \A f \in Names \X Versions : blob[f] # NoFile =>
    \E t \in Tasks : File(t) = f /\ pc[t] \notin {"idle", "refused", "createCrate"}

LEMMA FilesHaveSourcesStep ==
  ASSUME TypeOK, FilesHaveSources, [Next]_vars
  PROVE  FilesHaveSources'
<1>1. ASSUME UNCHANGED files PROVE FilesHaveSources'
  BY <1>1 DEF files, FilesHaveSources, File
<1>2. ASSUME NEW t \in Tasks, Works(t) PROVE FilesHaveSources'
  <2> SUFFICES ASSUME NEW f \in Names \X Versions, blob'[f] # NoFile
               PROVE  \E u \in Tasks :
                        /\ File(u)' = f
                        /\ pc'[u] \notin {"idle", "refused", "createCrate"}
    BY DEF FilesHaveSources
  <2>1. \A u \in Tasks : File(u)' = File(u)
    BY <1>2, StepFrame DEF File
  <2>2. pc[t] \notin {"idle", "refused", "createCrate"} =>
          pc'[t] \notin {"idle", "refused", "createCrate"}
    BY <1>2 DEF Works, Begin, Refuse, CreateCrate, WriteCrate, ReadIndex, CreateIndex,
       WriteIndex, Abandon, TearCrate, TearIndex, Goto, GoOn, TypeOK
  <2>3. CASE blob[f] # NoFile
    <3>1. PICK u \in Tasks :
            File(u) = f /\ pc[u] \notin {"idle", "refused", "createCrate"}
      BY <2>3 DEF FilesHaveSources
    <3>2. pc'[u] \notin {"idle", "refused", "createCrate"}
      BY <1>2, <2>2, <3>1, StepFrame
    <3> QED BY <2>1, <3>1, <3>2
  <2>4. CASE blob[f] = NoFile
    <3>1. /\ pc[t] \in {"createCrate", "writeCrate"} /\ f = File(t)
          /\ pc'[t] \in {"writeCrate", "readIndex", "abandoned"}
      BY <1>2, <2>4 DEF Works, Begin, Refuse, CreateCrate, WriteCrate, ReadIndex,
         CreateIndex, WriteIndex, Abandon, TearCrate, TearIndex, Goto, GoOn, TypeOK
    <3> QED BY <2>1, <3>1
  <2> QED BY <2>3, <2>4
<1> QED BY <1>1, <1>2, WorksOrRests

LEMMA FilesHold == Spec => [](TypeOK /\ FilesHaveSources)
<1>1. Init => FilesHaveSources
  BY DEF Init, FilesHaveSources
<1>2. TypeOK /\ FilesHaveSources /\ [Next]_vars => FilesHaveSources'
  BY FilesHaveSourcesStep
<1> QED BY <1>1, <1>2, TypeCorrect, PTL DEF Spec

\* While a crate is settled its listing stays.
LEMMA ListingStays ==
  ASSUME TypeOK, NEW t \in Tasks, Step(t), NEW k \in Keys, Settled(k), Settled(k)'
  PROVE  index'[k] = index[k]
<1>1. CASE Works(t) /\ Key(t) = k
  <2>1. Key(t)' = k
    BY <1>1, StepFrame DEF Key
  <2>2. pc[t] \in {"idle", "ok", "refused"} /\ pc'[t] \in {"idle", "ok", "refused"}
    BY <1>1, <2>1 DEF Settled
  <2> QED BY <1>1, <2>2 DEF Works, Begin, Refuse, CreateCrate, WriteCrate, ReadIndex,
             CreateIndex, WriteIndex, Abandon, TearCrate, TearIndex
<1>2. CASE Works(t) /\ Key(t) # k
  BY <1>2 DEF Works, Begin, Refuse, CreateCrate, WriteCrate, ReadIndex,
     CreateIndex, WriteIndex, Abandon, TearCrate, TearIndex, TypeOK
<1>3. CASE UNCHANGED files
  BY <1>3 DEF files
<1> QED BY <1>1, <1>2, <1>3, StepWorks

\* What the lemmas of LocalRegistryProofs say of a settled crate: an entry that is
\* listed verifies, an acknowledged version is listed, and a .crate file is of a
\* version that is listed.
LEMMA SettledListing ==
  ASSUME Isolated, TypeOK, Provenance, ListedVerifies, AckedListed, FilesHaveSources,
         NEW k \in Keys, Settled(k)
  PROVE  /\ \A e \in LookupLocal(k) : Verifies(e)
         /\ \A t \in Tasks : pc[t] = "ok" /\ Key(t) = k => Lists(k, req[t].vers)
         /\ \A n \in Names, v \in Versions :
              KeyOf[n] = k /\ blob[<<n, v>>] # NoFile => Lists(k, v)
<1>1. \A e \in LookupLocal(k) : Verifies(e)
  <2> SUFFICES ASSUME NEW e \in LookupLocal(k) PROVE Verifies(e)
    OBVIOUS
  <2>1. PICK t \in Tasks : e = EntryOf(req[t]) /\ k = Key(t)
    BY DEF Provenance
  <2>2. KeyOf[e.name] = k
    BY <2>1 DEF EntryOf, Key
  <2>3. ~Unsettled(e)
    <3>1. \A u \in Tasks : File(u) = <<e.name, e.vers>> => Key(u) = k
      BY <2>2 DEF File, Key
    <3> QED BY <3>1 DEF Unsettled, Settled, InFlight, InFlightStates
  <2> QED BY <2>3 DEF ListedVerifies, Contested
<1>2. \A t \in Tasks : pc[t] = "ok" /\ Key(t) = k => Lists(k, req[t].vers)
  BY DEF AckedListed, Settled, InFlight, InFlightStates
<1>3. ASSUME NEW n \in Names, NEW v \in Versions, KeyOf[n] = k, blob[<<n, v>>] # NoFile
      PROVE  Lists(k, v)
  <2>1. PICK t \in Tasks :
          File(t) = <<n, v>> /\ pc[t] \notin {"idle", "refused", "createCrate"}
    BY <1>3 DEF FilesHaveSources
  <2>2. Key(t) = k /\ req[t].vers = v
    BY <1>3, <2>1 DEF File, Key
  <2>3. pc[t] = "ok"
    BY <2>1, <2>2 DEF Settled
  <2> QED BY <1>2, <2>2, <2>3
<1> QED BY <1>1, <1>2, <1>3

\* What makes the two properties inductive: in what a session was told the top layer
\* wins, and as long as it is calm the top layer lists what it did, all that was
\* acknowledged among it.
UpperWins(r) ==
  \A f \in top[r] :
    /\ ans[r] # {} => \E e \in ans[r] : e.vers = f.vers
    /\ \A e \in ans[r] : e.vers = f.vers =>
         e \in top[r] /\ \A g \in ans[r] : g.vers = e.vers => g = e

Heard(r) ==
  /\ Settled(KeyOf[want[r]])
  /\ top[r] = LookupLocal(KeyOf[want[r]])
  /\ \A t \in before[r] : \E e \in top[r] : e.vers = req[t].vers

Matches(r) ==
  rpc[r] = "served" => \E d \in Data : got[r] = d /\ pick[r].cksum = Sha256(d)

CalmOf(r) ==
  /\ UpperWins(r)
  /\ rpc[r] \in {"downloadTop", "downloadBottom"} => pick[r].name = want[r]
  /\ calm[r] => Heard(r) /\ Matches(r)

CalmSessions == \A r \in Readers : CalmOf(r)

LEMMA HeardFrame ==
  ASSUME NEW r, Heard(r), UNCHANGED <<vars, want>>, top'[r] = top[r],
         before'[r] = before[r]
  PROVE  Heard(r)'
<1>1. LookupLocal(KeyOf[want[r]])' = LookupLocal(KeyOf[want[r]])
  BY DEF vars, LookupLocal
<1>2. Settled(KeyOf[want[r]])'
  BY DEF vars, Heard, Settled, Key
<1>3. (top[r] = LookupLocal(KeyOf[want[r]]))'
  BY <1>1 DEF Heard
<1>4. (\A t \in before[r] : \E e \in top[r] : e.vers = req[t].vers)'
  BY DEF vars, Heard
<1> QED BY <1>2, <1>3, <1>4 DEF Heard

\* What else a step of a session may rely on.
Grounds ==
  /\ OverlayTypeOK /\ SessionInv
  /\ Provenance /\ ListedVerifies /\ AckedListed /\ FilesHaveSources

LEMMA CalmPublish ==
  ASSUME Grounds, CalmSessions, NEW t \in Tasks, PublishStep(t)
  PROVE  CalmSessions'
<1> SUFFICES ASSUME NEW r \in Readers PROVE CalmOf(r)'
  BY DEF CalmSessions
<1> DEFINE k == KeyOf[want[r]]
<1>1. /\ TypeOK /\ Step(t)
      /\ UNCHANGED <<rpc, want, top, ans, pick, got, before>>
  BY DEF Grounds, OverlayTypeOK, PublishStep
<1>2. k \in Keys
  BY KeyAssumption DEF Grounds, OverlayTypeOK
<1>3. calm'[r] = (calm[r] /\ Settled(k)')
  BY DEF PublishStep
<1>4. req' = req
  BY <1>1, StepFrame, StepWorks DEF files
<1>5. CalmOf(r)
  BY DEF CalmSessions
<1>6. UpperWins(r)'
  BY <1>1, <1>5 DEF CalmOf, UpperWins
<1>7. (rpc[r] \in {"downloadTop", "downloadBottom"} => pick[r].name = want[r])'
  BY <1>1, <1>5 DEF CalmOf
<1>8. ASSUME calm'[r] PROVE Heard(r)'
  <2>1. Settled(k) /\ Settled(k)' /\ Heard(r)
    BY <1>3, <1>5, <1>8 DEF CalmOf, Heard
  <2>2. index'[k] = index[k]
    <3>1. PICK c \in Keys : c = k
      BY <1>2
    <3>2. Settled(c) /\ Settled(c)'
      BY <1>1, <2>1, <3>1 DEF Settled
    <3> QED BY <1>1, <3>1, <3>2, ListingStays
  <2>3. (top[r] = LookupLocal(KeyOf[want[r]]))'
    BY <1>1, <2>1, <2>2 DEF Heard, LookupLocal
  <2>4. (\A u \in before[r] : \E e \in top[r] : e.vers = req[u].vers)'
    BY <1>1, <1>4, <2>1 DEF Heard
  <2>5. Settled(KeyOf[want[r]])'
    BY <1>1, <2>1
  <2> QED BY <2>3, <2>4, <2>5 DEF Heard
<1>9. ASSUME calm'[r] PROVE Matches(r)'
  BY <1>1, <1>3, <1>5, <1>9 DEF CalmOf, Matches
<1> QED BY <1>6, <1>7, <1>8, <1>9 DEF CalmOf

\* The download of a calm session: the file of a version that the top layer listed
\* verifies; of one it did not list, it has no file.
LEMMA CalmBytes ==
  ASSUME Isolated, Grounds, CalmSessions, NEW r \in Readers, calm[r],
         rpc[r] = "downloadTop",
         DownloadLocal(pick[r].name, pick[r].vers) # NoFile
  PROVE  \E d \in Data : /\ DownloadLocal(pick[r].name, pick[r].vers) = d
                        /\ pick[r].cksum = Sha256(d)
<1> DEFINE k == KeyOf[want[r]]
<1>1. k \in Keys /\ pick[r] \in ans[r] /\ pick[r] \in Entry /\ pick[r].name = want[r]
  BY KeyAssumption DEF Grounds, OverlayTypeOK, SessionInv, CalmSessions, CalmOf
<1>2. Settled(k) /\ top[r] = LookupLocal(k) /\ UpperWins(r)
  BY DEF CalmSessions, CalmOf, Heard
<1>3. pick[r].name \in Names /\ pick[r].vers \in Versions
  BY <1>1 DEF Entry
<1> HIDE DEF k
<1>4. Lists(k, pick[r].vers)
  BY <1>1, <1>2, <1>3, SettledListing DEF Grounds, OverlayTypeOK, DownloadLocal, k
<1>5. PICK f \in top[r] : f.vers = pick[r].vers
  BY <1>2, <1>4 DEF Lists
<1>6. pick[r] \in top[r]
  BY <1>1, <1>2, <1>5 DEF UpperWins
<1>7. Verifies(pick[r])
  BY <1>1, <1>2, <1>6, SettledListing DEF Grounds, OverlayTypeOK
<1> QED BY <1>7 DEF Verifies

LEMMA CalmReader ==
  ASSUME Isolated, Grounds, CalmSessions, NEW r \in Readers, ReaderStep(r)
  PROVE  CalmSessions'
<1> SUFFICES ASSUME NEW q \in Readers PROVE CalmOf(q)'
  BY DEF CalmSessions
<1> DEFINE k == KeyOf[want[q]]
<1>1. /\ UNCHANGED <<vars, want>> /\ CalmOf(q) /\ k \in Keys
      /\ rpc \in [Readers -> ReaderStates] /\ top \in [Readers -> SUBSET Entry]
      /\ ans \in [Readers -> SUBSET Entry] /\ pick \in [Readers -> Entry \cup {NoEntry}]
      /\ got \in [Readers -> Content] /\ before \in [Readers -> SUBSET Tasks]
      /\ calm \in [Readers -> BOOLEAN]
  BY KeyAssumption DEF ReaderStep, LookupTop, LookupBottom, Choose, DownloadTop,
     DownloadBottom, UpstreamFails, CalmSessions, Grounds, OverlayTypeOK
<1>2. ASSUME top'[q] = top[q], before'[q] = before[q], calm'[q] = calm[q]
      PROVE  calm'[q] => Heard(q)'
  BY <1>1, <1>2, HeardFrame DEF CalmOf
<1>3. ASSUME top'[q] = top[q], ans'[q] = ans[q] PROVE UpperWins(q)'
  BY <1>1, <1>3 DEF CalmOf, UpperWins
<1> HIDE DEF k
<1>4. CASE q # r
  <2>1. /\ top'[q] = top[q] /\ ans'[q] = ans[q] /\ pick'[q] = pick[q] /\ got'[q] = got[q]
        /\ before'[q] = before[q] /\ calm'[q] = calm[q] /\ rpc'[q] = rpc[q]
    BY <1>1, <1>4 DEF ReaderStep, LookupTop, LookupBottom, Choose, DownloadTop,
       DownloadBottom, UpstreamFails, Proceed
  <2> QED BY <1>1, <1>2, <1>3, <2>1 DEF CalmOf, Matches
<1>5. CASE q = r /\ LookupTop(r)
  <2>1. /\ top'[q] = LookupLocal(k) /\ ans'[q] = {} /\ rpc'[q] = "lookupBottom"
        /\ before'[q] = {t \in Tasks : pc[t] = "ok" /\ Key(t) = k}
        /\ calm'[q] = Settled(k)
    BY <1>1, <1>5 DEF LookupTop, Proceed, Grounds, SessionInv, k
  <2>2. Settled(k) => \A t \in before'[q] : \E e \in top'[q] : e.vers = req[t].vers
    BY <1>1, <2>1, SettledListing DEF Grounds, OverlayTypeOK, Lists
  <2>3. calm'[q] => Heard(q)'
    <3>1. Settled(k) => Settled(KeyOf[want[q]])'
      BY <1>1 DEF vars, Settled, Key, k
    <3>2. (top[q] = LookupLocal(KeyOf[want[q]]))'
      BY <1>1, <2>1 DEF vars, LookupLocal, k
    <3>3. req' = req
      BY <1>1 DEF vars
    <3> QED BY <2>1, <2>2, <3>1, <3>2, <3>3 DEF Heard
  <2> QED BY <2>1, <2>3 DEF CalmOf, UpperWins, Matches
<1>6. CASE q = r /\ LookupBottom(r)
  <2>1. PICK m \in Merges(top[r], UpstreamIndex[KeyOf[want[r]]]) :
          ans' = [ans EXCEPT ![r] = m] /\ Proceed(r, LookupStatus(m))
    BY <1>6 DEF LookupBottom
  <2>2. /\ ans'[q] \in Merges(top[q], UpstreamIndex[KeyOf[want[q]]])
        /\ rpc'[q] \in {"listed", "absent"}
        /\ UNCHANGED <<top, pick, got, before, calm>>
    BY <1>1, <1>6, <2>1 DEF LookupBottom, Proceed, LookupStatus
  <2>3. UpperWins(q)'
    BY <2>2, MergeUpper DEF UpperWins
  <2> QED BY <1>2, <2>2, <2>3 DEF CalmOf, Matches
<1>7. CASE q = r /\ Choose(r)
  <2>1. /\ UNCHANGED <<top, ans, got, before, calm>> /\ rpc'[q] = "downloadTop"
        /\ pick'[q].name = want[q]
    BY <1>1, <1>7 DEF Choose, Proceed
  <2> QED BY <1>1, <1>2, <1>3, <2>1 DEF CalmOf, Matches
<1>8. CASE q = r /\ DownloadTop(r)
  <2>1. /\ UNCHANGED <<top, ans, pick, before, calm>> /\ rpc[q] = "downloadTop"
        /\ got'[q] = DownloadLocal(pick[q].name, pick[q].vers)
        /\ rpc'[q] = IF got'[q] = NoFile THEN "downloadBottom" ELSE "served"
    BY <1>1, <1>8 DEF DownloadTop, Proceed
  <2>2. calm[q] /\ rpc'[q] = "served" =>
          \E d \in Data : got'[q] = d /\ pick[q].cksum = Sha256(d)
    BY <2>1, CalmBytes
  <2> QED BY <1>1, <1>2, <1>3, <2>1, <2>2 DEF CalmOf, Matches
<1>9. CASE q = r /\ DownloadBottom(r)
  <2>1. /\ UNCHANGED <<top, ans, pick, before, calm>> /\ rpc[q] = "downloadBottom"
        /\ got'[q] = UpstreamBlob[<<pick[q].name, pick[q].vers>>]
        /\ rpc'[q] \in {"served", "missing"}
    BY <1>1, <1>9 DEF DownloadBottom, DownloadStatus, Proceed
  <2>2. pick[q] \in UpstreamIndex[k]
    BY <2>1 DEF Grounds, SessionInv, k
  <2>3. got'[q] \in {d \in Data : Sha256(d) = pick[q].cksum}
    BY <1>1, <2>1, <2>2, UpstreamAssumption
  <2> QED BY <1>1, <1>2, <1>3, <2>1, <2>3 DEF CalmOf, Matches
<1>10. CASE q = r /\ UpstreamFails(r)
  <2>1. UNCHANGED <<top, ans, pick, got, before, calm>> /\ rpc'[q] = "failed"
    BY <1>1, <1>10 DEF UpstreamFails, Proceed
  <2> QED BY <1>1, <1>2, <1>3, <2>1 DEF CalmOf, Matches
<1> QED BY <1>4, <1>5, <1>6, <1>7, <1>8, <1>9, <1>10 DEF ReaderStep

LEMMA CalmStep ==
  ASSUME Isolated, Grounds, CalmSessions, [OverlayNext]_overlayVars
  PROVE  CalmSessions'
<1>1. ASSUME UNCHANGED overlayVars PROVE CalmSessions'
  <2> SUFFICES ASSUME NEW r \in Readers PROVE CalmOf(r)'
    BY DEF CalmSessions
  <2>1. /\ UNCHANGED <<rpc, want, top, ans, pick, got, before, calm>>
        /\ UNCHANGED vars /\ CalmOf(r)
    BY <1>1 DEF overlayVars, readerVars, CalmSessions
  <2> QED BY <2>1, HeardFrame DEF CalmOf, UpperWins, Matches
<1> QED BY <1>1, CalmPublish, CalmReader DEF OverlayNext, OverlayFinished

LEMMA GroundsHold ==
  ASSUME Isolated
  PROVE  OverlaySpec => []Grounds
<1>1. OverlaySpec => []AckedListed
  BY OverlayImplementsLocal, AcknowledgedAreListed, PTL
<1> QED BY <1>1, SessionHolds, OverlayImplementsLocal, EntriesHaveSources,
           ListedVersionsVerify, FilesHold, PTL DEF Grounds

LEMMA CalmHolds ==
  ASSUME Isolated
  PROVE  OverlaySpec => []CalmSessions
<1>1. OverlayInit => CalmSessions
  BY DEF OverlayInit, CalmSessions, CalmOf, UpperWins
<1>2. Grounds /\ CalmSessions /\ [OverlayNext]_overlayVars => CalmSessions'
  BY CalmStep
<1> QED BY <1>1, <1>2, GroundsHold, PTL DEF OverlaySpec

\* CalmDownloadVerifies: if publishes to one index file are kept apart, the bytes
\* sent to a client that no publish disturbs match the checksum it was shown
\* (OverlayRegistry::download).
THEOREM CalmDownloadsVerify ==
  ASSUME Isolated
  PROVE  OverlaySpec => []CalmDownloadVerifies
<1>1. CalmSessions => CalmDownloadVerifies
  BY DEF CalmSessions, CalmOf, Matches, CalmDownloadVerifies
<1> QED BY <1>1, CalmHolds, PTL

\* CalmLookupTopWins: and of every version acknowledged before its lookup it is
\* shown the entry of the top layer and no other (OverlayRegistry::lookup).
THEOREM CalmLookupsTopWins ==
  ASSUME Isolated
  PROVE  OverlaySpec => []CalmLookupTopWins
<1>1. CalmSessions => CalmLookupTopWins
  <2> SUFFICES ASSUME CalmSessions, NEW r \in Readers, Answered(r), calm[r],
                      NEW t \in before[r]
               PROVE  /\ \E e \in ans[r] : e.vers = req[t].vers
                      /\ \A e \in ans[r] : e.vers = req[t].vers =>
                           e \in top[r] /\ \A f \in ans[r] : f.vers = e.vers => f = e
    BY DEF CalmLookupTopWins, TopWins
  <2>1. UpperWins(r) /\ ans[r] # {}
    BY DEF CalmSessions, CalmOf, Answered
  <2>2. PICK g \in top[r] : g.vers = req[t].vers
    BY DEF CalmSessions, CalmOf, Heard
  <2> QED BY <2>1, <2>2 DEF UpperWins
<1> QED BY <1>1, CalmHolds, PTL

-----------------------------------------------------------------------------
(* What a lookup reads of the top layer, and what it makes of it. *)

\* A merge has one entry of a version, whatever the upper listing holds of it.
LEMMA MergeOnce ==
  ASSUME NEW upper, NEW lower, NEW m \in Merges(upper, lower),
         \A e, f \in lower : e.vers = f.vers => e = f
  PROVE  \A e, f \in m : e.vers = f.vers => e = f
<1>1. PICK won \in {w \in SUBSET upper :
                      /\ \A f \in upper : \E e \in w : e.vers = f.vers
                      /\ \A e, f \in w : e.vers = f.vers => e = f} :
        m = won \cup {e \in lower : \A f \in upper : f.vers # e.vers}
  BY DEF Merges
<1> QED BY <1>1

\* A client is shown one entry of a version, although publishes that overlap
\* may leave two in the top layer's index file.
AnswersOnce == \A r \in Readers : \A e, f \in ans[r] : e.vers = f.vers => e = f

\* AnswersOnce: OverlayRegistry::lookup merges by version, so what it answers is
\* free of the duplicates that unordered publishes leave; no assumption is made
\* on these.
THEOREM AnswersListOnce == OverlaySpec => []AnswersOnce
<1>1. OverlayInit => AnswersOnce
  BY DEF OverlayInit, AnswersOnce
<1>2. OverlayTypeOK /\ AnswersOnce /\ [OverlayNext]_overlayVars => AnswersOnce'
  <2> SUFFICES ASSUME OverlayTypeOK, AnswersOnce, [OverlayNext]_overlayVars,
                      NEW s \in Readers
               PROVE  \A e, f \in ans'[s] : e.vers = f.vers => e = f
    BY DEF AnswersOnce
  <2>1. CASE UNCHANGED ans
    BY <2>1 DEF AnswersOnce
  <2>2. ASSUME NEW r \in Readers, LookupBottom(r)
        PROVE  \A e, f \in ans'[s] : e.vers = f.vers => e = f
    <3>1. PICK m \in Merges(top[r], UpstreamIndex[KeyOf[want[r]]]) :
            ans' = [ans EXCEPT ![r] = m]
      BY <2>2 DEF LookupBottom
    <3>2. KeyOf[want[r]] \in Keys
      BY KeyAssumption DEF OverlayTypeOK
    <3>3. \A e, f \in m : e.vers = f.vers => e = f
      BY <3>1, <3>2, UpstreamAssumption, MergeOnce
    <3> QED BY <3>1, <3>3 DEF AnswersOnce, OverlayTypeOK
  <2> QED BY <2>1, <2>2 DEF OverlayNext, ReaderStep, OverlayFinished, overlayVars,
          readerVars, PublishStep, LookupTop, Choose, DownloadTop, DownloadBottom,
          UpstreamFails
<1> QED BY <1>1, <1>2, OverlayTypeCorrect, PTL DEF OverlaySpec

\* What a lookup reads of the top layer is the catalogue's listing of the crate;
\* or nothing, and then a publish has the file in hand.
ReadsCatalog ==
  \A r \in Readers :
    LookupTop(r) =>
      \/ top'[r] = Effective(KeyOf[want[r]])
      \/ top'[r] = {} /\ Rewriting(KeyOf[want[r]]) # {}

\* CatalogSpec, ReadsCatalog: if publishes to one index file are kept apart, the
\* writes that dropped handlers leave running included, the directory under the
\* overlay is the catalogue of atomic publishes, and a lookup reads that catalogue
\* as it stands: never a listing half written, although it may find the file cut
\* (OverlayRegistry::lookup over LocalRegistry::publish).
THEOREM LookupsReadCatalog ==
  ASSUME Isolated
  PROVE  OverlaySpec => CatalogSpec /\ [][ReadsCatalog]_overlayVars
<1>1. TypeOK /\ IsolationInv /\ OverlayTypeOK => ReadsCatalog
  <2> SUFFICES ASSUME TypeOK, IsolationInv, OverlayTypeOK,
                      NEW r \in Readers, LookupTop(r)
               PROVE  \/ top'[r] = Effective(KeyOf[want[r]])
                      \/ top'[r] = {} /\ Rewriting(KeyOf[want[r]]) # {}
    BY DEF ReadsCatalog
  <2>1. KeyOf[want[r]] \in Keys
    BY KeyAssumption DEF OverlayTypeOK
  <2>2. top'[r] = index[KeyOf[want[r]]] \ {Junk}
    BY DEF LookupTop, LookupLocal, OverlayTypeOK
  <2>3. CASE Rewriting(KeyOf[want[r]]) = {}
    BY <2>1, <2>2, <2>3, EffectiveValue
  <2>4. CASE Rewriting(KeyOf[want[r]]) # {}
    BY <2>2, <2>4 DEF Rewriting, IsolationInv
  <2> QED BY <2>3, <2>4
<1>2. OverlaySpec => [](TypeOK /\ IsolationInv)
  BY OverlayImplementsLocal, IsolationHolds, PTL
<1>3. OverlaySpec => CatalogSpec
  BY OverlayImplementsLocal, FilesImplementCatalog, PTL
<1>4. OverlaySpec => [][ReadsCatalog]_overlayVars
  BY <1>1, <1>2, OverlayTypeCorrect, PTL
<1> QED BY <1>3, <1>4, PTL

=============================================================================
