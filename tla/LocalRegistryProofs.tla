------------------------ MODULE LocalRegistryProofs ------------------------
(***************************************************************************)
(* Proofs about LocalRegistry: for any number of requests, names, versions *)
(* and contents.                                                           *)
(***************************************************************************)
EXTENDS LocalRegistry, TLAPS

-----------------------------------------------------------------------------
(* What the helpers return. *)

LEMMA RequestTypes ==
  ASSUME TypeOK, NEW t \in Tasks
  PROVE  /\ req[t] \in Request
         /\ req[t].name \in Names /\ req[t].vers \in Versions /\ req[t].data \in Data
         /\ Key(t) \in Keys
         /\ File(t) \in Names \X Versions
         /\ EntryOf(req[t]) \in Entry
         /\ EntryOf(req[t]) # Junk
BY KeyAssumption, MarkAssumption
DEF TypeOK, Request, Key, File, EntryOf, Entry

\* A write at offset zero leaves all of the new lines, and else only old ones
\* and lines that do not parse; over an empty file it leaves the new lines.
LEMMA LandedLines ==
  ASSUME NEW old \in SUBSET Line, NEW new \in SUBSET Line,
         NEW c \in Landed(old, new)
  PROVE  /\ c \in SUBSET Line
         /\ new \subseteq c
         /\ c \subseteq new \cup old \cup {Junk}
         /\ old = {} => c = new
BY DEF Landed, Line

LEMMA TornLinesKinds ==
  ASSUME NEW old \in SUBSET Line, NEW new \in SUBSET Line,
         NEW c \in TornLines(old, new)
  PROVE  /\ c \in SUBSET Line
         /\ c \subseteq new \cup old \cup {Junk}
BY DEF TornLines, Line

LEMMA ReplacedLines ==
  ASSUME TypeOK, NEW t \in Tasks, NEW lines \in SUBSET Line
  PROVE  /\ Replaced(lines, req[t]) \in SUBSET Line
         /\ Replaced(lines, req[t]) \subseteq lines \cup {EntryOf(req[t])}
         /\ EntryOf(req[t]) \in Replaced(lines, req[t])
BY RequestTypes DEF Replaced, Line

LEMMA LandedCrateContent ==
  ASSUME NEW old \in Content, NEW d \in Data, NEW c \in LandedCrate(old, d)
  PROVE  c \in Content /\ c # NoFile
BY MarkAssumption DEF LandedCrate, Content

-----------------------------------------------------------------------------
(* Type correctness. *)

LEMMA TypeOKInit == Init => TypeOK
BY DEF Init, TypeOK, Content, States

LEMMA TypeOKStep == TypeOK /\ [Next]_vars => TypeOK'
<1> SUFFICES ASSUME TypeOK, [Next]_vars PROVE TypeOK'
  OBVIOUS
<1>1. ASSUME UNCHANGED vars PROVE TypeOK'
  BY <1>1 DEF vars, TypeOK
<1>2. ASSUME NEW t \in Tasks, Step(t) PROVE TypeOK'
  <2> USE DEF TypeOK, States, InFlightStates, Goto, GoOn
  <2>1. CASE Begin(t)
    BY <2>1 DEF Begin
  <2>2. CASE Refuse(t)
    BY <2>2 DEF Refuse
  <2>3. CASE CreateCrate(t)
    BY <2>3 DEF CreateCrate, Content
  <2>4. CASE WriteCrate(t)
    <3>1. blob[File(t)] \in Content /\ req[t].data \in Data
      BY RequestTypes
    <3>2. PICK c \in LandedCrate(blob[File(t)], req[t].data) :
            blob' = [blob EXCEPT ![File(t)] = c]
      BY <2>4 DEF WriteCrate
    <3>3. c \in Content
      BY <3>1, LandedCrateContent
    <3> QED BY <2>4, <3>2, <3>3 DEF WriteCrate
  <2>5. CASE ReadIndex(t)
    BY <2>5, RequestTypes DEF ReadIndex
  <2>6. CASE CreateIndex(t)
    BY <2>6 DEF CreateIndex
  <2>7. CASE WriteIndex(t)
    <3>1. index[Key(t)] \in SUBSET Line /\ Replaced(buf[t], req[t]) \in SUBSET Line
      BY RequestTypes, ReplacedLines
    <3>2. PICK c \in Landed(index[Key(t)], Replaced(buf[t], req[t])) :
            index' = [index EXCEPT ![Key(t)] = c]
      BY <2>7 DEF WriteIndex
    <3>3. c \in SUBSET Line
      BY <3>1, LandedLines
    <3> QED BY <2>7, <3>2, <3>3 DEF WriteIndex
  <2>8. CASE Abandon(t)
    BY <2>8 DEF Abandon
  <2>9. CASE TearCrate(t)
    BY <2>9 DEF TearCrate, Content
  <2>10. CASE TearIndex(t)
    <3>1. index[Key(t)] \in SUBSET Line /\ Replaced(buf[t], req[t]) \in SUBSET Line
      BY RequestTypes, ReplacedLines
    <3>2. PICK c \in TornLines(index[Key(t)], Replaced(buf[t], req[t])) :
            index' = [index EXCEPT ![Key(t)] = c]
      BY <2>10 DEF TearIndex
    <3>3. c \in SUBSET Line
      BY <3>1, TornLinesKinds
    <3> QED BY <2>10, <3>2, <3>3 DEF TearIndex
  <2>11. CASE DropHandler(t)
    BY <2>11 DEF DropHandler
  <2> QED BY <1>2, <2>1, <2>2, <2>3, <2>4, <2>5, <2>6, <2>7, <2>8, <2>9, <2>10,
             <2>11
          DEF Step
<1> QED BY <1>1, <1>2 DEF Next, Finished

\* Every variable keeps its kind of value.
THEOREM TypeCorrect == Spec => []TypeOK
<1> QED BY TypeOKInit, TypeOKStep, PTL DEF Spec

-----------------------------------------------------------------------------
(* Steps that do something. *)

files == <<blob, index, pc, req, buf>>

\* The steps of a publish, without that of losing its handler, which tells only
\* in what comes after the write that is under way.
Works(t) ==
  \/ Begin(t) \/ Refuse(t)
  \/ CreateCrate(t) \/ WriteCrate(t)
  \/ ReadIndex(t) \/ CreateIndex(t) \/ WriteIndex(t)
  \/ Abandon(t) \/ TearCrate(t) \/ TearIndex(t)

LEMMA StepWorks ==
  ASSUME NEW t \in Tasks, Step(t)
  PROVE  UNCHANGED files \/ Works(t)
BY DEF Step, Works, DropHandler, files

LEMMA WorksOrRests ==
  ASSUME [Next]_vars
  PROVE  UNCHANGED files \/ \E t \in Tasks : Works(t)
BY StepWorks DEF Next, Finished, vars, files

\* Handlers are dropped only if publishes may stop half way.
GoneInv == gone # {} => MayAbandon

LEMMA GoneHolds == Spec => []GoneInv
<1>1. Init => GoneInv
  BY DEF Init, GoneInv
<1>2. GoneInv /\ [Next]_vars => GoneInv'
  BY DEF Next, Finished, Step, Begin, Refuse, CreateCrate, WriteCrate, ReadIndex,
     CreateIndex, WriteIndex, DropHandler, Abandon, TearCrate, TearIndex, vars,
     GoneInv
<1> QED BY <1>1, <1>2, PTL DEF Spec

-----------------------------------------------------------------------------
(* A version is stored before it is listed. *)

\* What makes StoredBeforeIndexed inductive: a task past CreateCrate has its
\* .crate file.
CrateCreated ==
  \A t \in Tasks :
    pc[t] \in {"writeCrate", "readIndex", "createIndex", "writeIndex"} =>
      blob[File(t)] # NoFile

StoredInv == CrateCreated /\ StoredBeforeIndexed

\* No step removes a .crate file.
LEMMA FilesStay ==
  ASSUME TypeOK, NEW t \in Tasks, Works(t), NEW f \in Names \X Versions,
         blob[f] # NoFile
  PROVE  blob'[f] # NoFile
<1>1. CASE CreateCrate(t)
  BY <1>1, MarkAssumption DEF CreateCrate, TypeOK
<1>2. CASE WriteCrate(t)
  <2>1. blob[File(t)] \in Content /\ req[t].data \in Data
    BY RequestTypes DEF TypeOK
  <2>2. PICK c \in LandedCrate(blob[File(t)], req[t].data) :
          blob' = [blob EXCEPT ![File(t)] = c]
    BY <1>2 DEF WriteCrate
  <2>3. c # NoFile
    BY <2>1, LandedCrateContent
  <2> QED BY <2>2, <2>3 DEF TypeOK
<1>3. CASE TearCrate(t)
  BY <1>3, MarkAssumption DEF TearCrate, TypeOK
<1>4. CASE UNCHANGED blob
  BY <1>4
<1> QED BY <1>1, <1>2, <1>3, <1>4
  DEF Works, Begin, Refuse, ReadIndex, CreateIndex, WriteIndex, Abandon, TearIndex

LEMMA StoredInit == Init => StoredInv
BY DEF Init, StoredInv, CrateCreated, StoredBeforeIndexed

LEMMA StoredStep == TypeOK /\ StoredInv /\ [Next]_vars => StoredInv'
<1> SUFFICES ASSUME TypeOK, StoredInv, [Next]_vars PROVE StoredInv'
  OBVIOUS
<1>1. ASSUME UNCHANGED files PROVE StoredInv'
  BY <1>1 DEF files, StoredInv, CrateCreated, StoredBeforeIndexed, HasFile, File
<1>2. ASSUME NEW t \in Tasks, Works(t) PROVE StoredInv'
  <2>1. req' = req
    BY <1>2 DEF Works, Begin, Refuse, CreateCrate, WriteCrate, ReadIndex,
       CreateIndex, WriteIndex, Abandon, TearCrate, TearIndex
  <2>2. \A e \in Entry : HasFile(e) => HasFile(e)'
    <3> SUFFICES ASSUME NEW e \in Entry, HasFile(e) PROVE HasFile(e)'
      OBVIOUS
    <3>1. <<e.name, e.vers>> \in Names \X Versions
      BY DEF Entry
    <3> QED BY <3>1, <1>2, FilesStay DEF HasFile
  <2>3. CrateCreated'
    <3> SUFFICES ASSUME NEW u \in Tasks,
                        pc'[u] \in {"writeCrate", "readIndex", "createIndex", "writeIndex"}
                 PROVE  blob'[File(u)] # NoFile
      BY <2>1 DEF CrateCreated, File
    <3>1. File(u) \in Names \X Versions
      BY RequestTypes
    <3>2. CASE blob[File(u)] # NoFile
      BY <3>1, <3>2, <1>2, FilesStay
    <3>3. CASE u = t /\ CreateCrate(t)
      BY <3>1, <3>3, MarkAssumption DEF CreateCrate, TypeOK
    <3>4. CASE pc'[u] = pc[u]
      BY <3>4, <3>2 DEF StoredInv, CrateCreated
    <3>5. pc' = [pc EXCEPT ![t] = pc'[t]]
      BY <1>2 DEF Works, Begin, Refuse, CreateCrate, WriteCrate, ReadIndex,
         CreateIndex, WriteIndex, Abandon, TearCrate, TearIndex, Goto, GoOn, TypeOK
    <3>6. u # t => pc'[u] = pc[u]
      BY <3>5 DEF TypeOK
    <3>7. CASE u = t /\ ~CreateCrate(t)
      <4>1. pc[t] \in {"writeCrate", "readIndex", "createIndex", "writeIndex"}
        BY <1>2, <3>7 DEF Works, Begin, Refuse, WriteCrate, ReadIndex,
           CreateIndex, WriteIndex, Abandon, TearCrate, TearIndex, Goto, GoOn, TypeOK
      <4> QED BY <4>1, <3>7, <3>2 DEF StoredInv, CrateCreated
    <3> QED BY <3>3, <3>4, <3>6, <3>7
  <2>4. HasFile(EntryOf(req[t])) <=> blob[File(t)] # NoFile
    BY DEF HasFile, EntryOf, File
  <2>5. \A k \in Keys : \A e \in index'[k] \ {Junk} : e \in Entry /\ HasFile(e)
    <3>1. CASE WriteIndex(t) \/ TearIndex(t)
      <4>1. /\ index[Key(t)] \in SUBSET Line
            /\ Replaced(buf[t], req[t]) \in SUBSET Line
            /\ Replaced(buf[t], req[t]) \subseteq buf[t] \cup {EntryOf(req[t])}
        BY RequestTypes, ReplacedLines DEF TypeOK
      <4>2. PICK c : /\ c \in Landed(index[Key(t)], Replaced(buf[t], req[t]))
                         \/ c \in TornLines(index[Key(t)], Replaced(buf[t], req[t]))
                     /\ index' = [index EXCEPT ![Key(t)] = c]
        BY <3>1 DEF WriteIndex, TearIndex
      <4>3. c \subseteq buf[t] \cup {EntryOf(req[t])} \cup index[Key(t)] \cup {Junk}
        BY <4>1, <4>2, LandedLines, TornLinesKinds
      <4>4. HasFile(EntryOf(req[t]))
        BY <2>4, <3>1 DEF StoredInv, CrateCreated, WriteIndex, TearIndex
      <4>5. \A e \in c \ {Junk} : e \in Entry /\ HasFile(e)
        BY <4>3, <4>4, RequestTypes DEF StoredInv, StoredBeforeIndexed, TypeOK, Line
      <4>6. \A k \in Keys : index'[k] = c \/ index'[k] = index[k]
        BY <4>2 DEF TypeOK
      <4> QED BY <4>5, <4>6 DEF StoredInv, StoredBeforeIndexed, TypeOK, Line
    <3>2. CASE ~(WriteIndex(t) \/ TearIndex(t))
      <4>1. \A k \in Keys : index'[k] = {} \/ index'[k] = index[k]
        BY <1>2, <3>2 DEF Works, Begin, Refuse, CreateCrate, WriteCrate,
           ReadIndex, CreateIndex, Abandon, TearCrate, TypeOK
      <4> QED BY <4>1 DEF StoredInv, StoredBeforeIndexed, TypeOK, Line
    <3> QED BY <3>1, <3>2
  <2>6. \A u \in Tasks : \A e \in buf'[u] \ {Junk} : e \in Entry /\ HasFile(e)
    <3>1. \A u \in Tasks : \/ buf'[u] = {} \/ buf'[u] = buf[u]
                           \/ buf'[u] = index[Key(t)]
      BY <1>2 DEF Works, Begin, Refuse, CreateCrate, WriteCrate, ReadIndex,
         CreateIndex, WriteIndex, Abandon, TearCrate, TearIndex, TypeOK
    <3> QED BY <3>1, RequestTypes DEF StoredInv, StoredBeforeIndexed, TypeOK, Line
  <2>7. StoredBeforeIndexed'
    BY <2>2, <2>5, <2>6 DEF StoredBeforeIndexed
  <2> QED BY <2>3, <2>7 DEF StoredInv
<1> QED BY <1>1, <1>2, WorksOrRests

\* A listed version has its .crate file, however publishes overlap and fail.
THEOREM ListedAreStored == Spec => []StoredBeforeIndexed
<1>1. StoredInv => StoredBeforeIndexed
  BY DEF StoredInv
<1> QED BY <1>1, StoredInit, StoredStep, TypeCorrect, PTL DEF Spec

-----------------------------------------------------------------------------
(* Where entries come from. *)

\* e is the entry of a request for the index file k that was worked on.
Sourced(k, e) ==
  \E u \in Tasks : /\ e = EntryOf(req[u])
                  /\ k = Key(u)
                  /\ Admissible(req[u])
                  /\ pc[u] \in {"ok", "abandoned"}

\* What makes Provenance inductive: what a task has read is sourced as well,
\* and a task at work passed the checks.
ProvenanceInv ==
  /\ \A k \in Keys : \A e \in index[k] \ {Junk} : Sourced(k, e)
  /\ \A t \in Tasks : \A e \in buf[t] \ {Junk} : Sourced(Key(t), e)
  /\ \A t \in Tasks : InFlight(t) => Admissible(req[t])

LEMMA ProvenanceInit == Init => ProvenanceInv
BY DEF Init, ProvenanceInv, InFlight, InFlightStates

\* Requests never change, only t moves, and it moves from a state in flight or
\* from "idle".
LEMMA StepFrame ==
  ASSUME TypeOK, NEW t \in Tasks, Works(t)
  PROVE  /\ req' = req
         /\ \A u \in Tasks : u # t => pc'[u] = pc[u]
         /\ pc[t] \notin {"ok", "refused", "abandoned"}
         /\ pc'[t] \in InFlightStates => Admissible(req[t]) \/ InFlight(t)
         /\ pc'[t] # pc[t]
BY DEF Works, Begin, Refuse, CreateCrate, WriteCrate, ReadIndex, CreateIndex,
   WriteIndex, Abandon, TearCrate, TearIndex, Goto, GoOn, TypeOK, InFlight, InFlightStates

LEMMA ProvenanceStep == TypeOK /\ ProvenanceInv /\ [Next]_vars => ProvenanceInv'
<1> SUFFICES ASSUME TypeOK, ProvenanceInv, [Next]_vars PROVE ProvenanceInv'
  OBVIOUS
<1>1. ASSUME UNCHANGED files PROVE ProvenanceInv'
  BY <1>1 DEF files, ProvenanceInv, Sourced, Key, InFlight
<1>2. ASSUME NEW t \in Tasks, Works(t) PROVE ProvenanceInv'
  <2>1. \A k, e : Sourced(k, e) => Sourced(k, e)'
    BY <1>2, StepFrame DEF Sourced, Key
  <2>2. \A u \in Tasks : Key(u)' = Key(u)
    BY <1>2, StepFrame DEF Key
  <2>3. \A k \in Keys : \A e \in index'[k] \ {Junk} : Sourced(k, e)'
    <3>1. CASE WriteIndex(t) \/ TearIndex(t)
      <4>1. /\ index[Key(t)] \in SUBSET Line
            /\ Replaced(buf[t], req[t]) \in SUBSET Line
            /\ Replaced(buf[t], req[t]) \subseteq buf[t] \cup {EntryOf(req[t])}
        BY RequestTypes, ReplacedLines DEF TypeOK
      <4>2. PICK c : /\ c \in Landed(index[Key(t)], Replaced(buf[t], req[t]))
                         \/ c \in TornLines(index[Key(t)], Replaced(buf[t], req[t]))
                     /\ index' = [index EXCEPT ![Key(t)] = c]
        BY <3>1 DEF WriteIndex, TearIndex
      <4>3. c \subseteq buf[t] \cup {EntryOf(req[t])} \cup index[Key(t)] \cup {Junk}
        BY <4>1, <4>2, LandedLines, TornLinesKinds
      <4>4. Sourced(Key(t), EntryOf(req[t]))'
        BY <3>1, <1>2, StepFrame
        DEF ProvenanceInv, Sourced, Key, WriteIndex, TearIndex, Goto, GoOn, InFlight,
            InFlightStates, TypeOK
      <4>5. \A e \in c \ {Junk} : Sourced(Key(t), e)'
        <5> SUFFICES ASSUME NEW e \in c \ {Junk} PROVE Sourced(Key(t), e)'
          OBVIOUS
        <5>1. CASE e = EntryOf(req[t])
          BY <5>1, <4>4, <1>2, StepFrame
        <5>2. CASE e \in index[Key(t)] \cup buf[t]
          <6>1. Sourced(Key(t), e)
            BY <5>2, RequestTypes DEF ProvenanceInv
          <6> QED BY <6>1, <2>1, <2>2
        <5> QED BY <4>3, <5>1, <5>2
      <4>6. \A k \in Keys : (k = Key(t) /\ index'[k] = c) \/ index'[k] = index[k]
        BY <4>2 DEF TypeOK
      <4> QED BY <4>5, <4>6, <2>1, <2>2 DEF ProvenanceInv
    <3>2. CASE ~(WriteIndex(t) \/ TearIndex(t))
      <4>1. \A k \in Keys : index'[k] = {} \/ index'[k] = index[k]
        BY <1>2, <3>2 DEF Works, Begin, Refuse, CreateCrate, WriteCrate,
           ReadIndex, CreateIndex, Abandon, TearCrate, TypeOK
      <4> QED BY <4>1, <2>1 DEF ProvenanceInv
    <3> QED BY <3>1, <3>2
  <2>4. \A u \in Tasks : \A e \in buf'[u] \ {Junk} : Sourced(Key(u), e)'
    <3>1. \A u \in Tasks : \/ buf'[u] = {} \/ buf'[u] = buf[u]
                           \/ u = t /\ buf'[u] = index[Key(t)]
      BY <1>2 DEF Works, Begin, Refuse, CreateCrate, WriteCrate, ReadIndex,
         CreateIndex, WriteIndex, Abandon, TearCrate, TearIndex, TypeOK
    <3> QED BY <3>1, <2>1, <2>2, RequestTypes DEF ProvenanceInv
  <2>5. \A u \in Tasks : InFlight(u)' => Admissible(req[u])'
    BY <1>2, StepFrame DEF ProvenanceInv, InFlight
  <2> QED BY <2>2, <2>3, <2>4, <2>5 DEF ProvenanceInv
<1> QED BY <1>1, <1>2, WorksOrRests

\* An index file holds no entry that an admissible request did not ask for.
THEOREM EntriesHaveSources == Spec => []Provenance
<1>1. ProvenanceInv => Provenance
  BY DEF ProvenanceInv, Provenance, Sourced, LookupLocal
<1> QED BY <1>1, ProvenanceInit, ProvenanceStep, TypeCorrect, PTL DEF Spec

-----------------------------------------------------------------------------
(* Publishes that are kept apart. *)

\* With Isolated: the tasks in flight are at different index files; what a task
\* has read is what the file holds, until it cuts the file to rewrite it; and
\* tasks that are not between reading and writing hold nothing.
IsolationInv ==
  /\ \A t, u \in Tasks : t # u /\ InFlight(t) /\ InFlight(u) => Key(t) # Key(u)
  /\ \A t \in Tasks : pc[t] = "createIndex" => buf[t] = index[Key(t)]
  /\ \A t \in Tasks : pc[t] = "writeIndex" => index[Key(t)] = {}
  /\ \A t \in Tasks : pc[t] \notin {"createIndex", "writeIndex"} => buf[t] = {}

LEMMA IsolationInit == Init => IsolationInv
BY DEF Init, IsolationInv, InFlight, InFlightStates

LEMMA IsolationStep ==
  ASSUME Isolated, TypeOK, IsolationInv, [Next]_vars
  PROVE  IsolationInv'
<1>1. ASSUME UNCHANGED files PROVE IsolationInv'
  BY <1>1 DEF files, IsolationInv, InFlight, Key
<1>2. ASSUME NEW t \in Tasks, Works(t) PROVE IsolationInv'
  <2>1. \A u \in Tasks : Key(u)' = Key(u) /\ Key(u) \in Keys
    BY <1>2, StepFrame, RequestTypes DEF Key
  <2>2. (\A u, w \in Tasks : u # w /\ InFlight(u) /\ InFlight(w) => Key(u) # Key(w))'
    <3> SUFFICES ASSUME NEW u \in Tasks, NEW w \in Tasks, u # w,
                        InFlight(u)', InFlight(w)'
                 PROVE  Key(u) # Key(w)
      BY <2>1
    <3>1. CASE InFlight(u) /\ InFlight(w)
      BY <3>1 DEF IsolationInv
    <3>2. CASE Begin(t)
      BY <3>2, <1>2, StepFrame DEF Begin, Conflict, IsolationInv, InFlight
    <3>3. CASE ~Begin(t)
      <4>1. InFlight(t)' => InFlight(t)
        BY <1>2, <3>3 DEF Works, Refuse, CreateCrate, WriteCrate, ReadIndex,
           CreateIndex, WriteIndex, Abandon, TearCrate, TearIndex, Goto, GoOn,
           InFlight, InFlightStates, TypeOK
      <4> QED BY <4>1, <3>1, <1>2, StepFrame DEF InFlight
    <3> QED BY <3>2, <3>3
  <2>3. (\A u \in Tasks : pc[u] = "createIndex" => buf[u] = index[Key(u)])'
    <3> SUFFICES ASSUME NEW u \in Tasks, pc'[u] = "createIndex"
                 PROVE  buf'[u] = index'[Key(u)]
      BY <2>1
    <3>1. CASE u = t
      BY <3>1, <1>2, <2>1 DEF Works, Begin, Refuse, CreateCrate, WriteCrate,
         ReadIndex, CreateIndex, WriteIndex, Abandon, TearCrate, TearIndex,
         Goto, GoOn, TypeOK, States, InFlightStates
    <3>2. CASE u # t
      <4>1. pc[u] = "createIndex" /\ buf[u] = index[Key(u)]
        BY <3>2, <1>2, StepFrame DEF IsolationInv
      <4>2. InFlight(t) => Key(t) # Key(u)
        BY <4>1, <3>2 DEF IsolationInv, InFlight, InFlightStates
      <4> QED BY <4>1, <4>2, <3>2, <1>2, <2>1
          DEF Works, Begin, Refuse, CreateCrate, WriteCrate, ReadIndex,
              CreateIndex, WriteIndex, Abandon, TearCrate, TearIndex, TypeOK,
              InFlight, InFlightStates
    <3> QED BY <3>1, <3>2
  <2>4. (\A u \in Tasks : pc[u] = "writeIndex" => index[Key(u)] = {})'
    <3> SUFFICES ASSUME NEW u \in Tasks, pc'[u] = "writeIndex"
                 PROVE  index'[Key(u)] = {}
      BY <2>1
    <3>1. CASE u = t
      BY <3>1, <1>2, <2>1 DEF Works, Begin, Refuse, CreateCrate, WriteCrate,
         ReadIndex, CreateIndex, WriteIndex, Abandon, TearCrate, TearIndex,
         Goto, GoOn, TypeOK, States, InFlightStates
    <3>2. CASE u # t
      <4>1. pc[u] = "writeIndex" /\ index[Key(u)] = {}
        BY <3>2, <1>2, StepFrame DEF IsolationInv
      <4>2. InFlight(t) => Key(t) # Key(u)
        BY <4>1, <3>2 DEF IsolationInv, InFlight, InFlightStates
      <4> QED BY <4>1, <4>2, <3>2, <1>2, <2>1
          DEF Works, Begin, Refuse, CreateCrate, WriteCrate, ReadIndex,
              CreateIndex, WriteIndex, Abandon, TearCrate, TearIndex, TypeOK,
              InFlight, InFlightStates
    <3> QED BY <3>1, <3>2
  <2>5. (\A u \in Tasks : pc[u] \notin {"createIndex", "writeIndex"} => buf[u] = {})'
    <3> SUFFICES ASSUME NEW u \in Tasks, pc'[u] \notin {"createIndex", "writeIndex"}
                 PROVE  buf'[u] = {}
      OBVIOUS
    <3>1. CASE u = t
      BY <3>1, <1>2 DEF Works, Begin, Refuse, CreateCrate, WriteCrate,
         ReadIndex, CreateIndex, WriteIndex, Abandon, TearCrate, TearIndex,
         Goto, GoOn, TypeOK, IsolationInv
    <3>2. CASE u # t
      <4>1. buf'[u] = buf[u]
        BY <3>2, <1>2 DEF Works, Begin, Refuse, CreateCrate, WriteCrate,
           ReadIndex, CreateIndex, WriteIndex, Abandon, TearCrate, TearIndex, TypeOK
      <4> QED BY <4>1, <3>2, <1>2, StepFrame DEF IsolationInv
    <3> QED BY <3>1, <3>2
  <2> QED BY <2>2, <2>3, <2>4, <2>5 DEF IsolationInv
<1> QED BY <1>1, <1>2, WorksOrRests

-----------------------------------------------------------------------------
(* Listed versions verify. *)

Apart == Isolated => IsolationInv

Good(e) == Verifies(e) \/ Unsettled(e) \/ Contested(<<e.name, e.vers>>)

\* What makes ListedVerifies inductive: a task finds the .crate file as it left
\* it, and the entries that will be written back verify like the listed ones.
VerifyInv ==
  /\ \A t \in Tasks : pc[t] = "writeCrate" =>
                        blob[File(t)] = Empty \/ Contested(File(t))
  /\ \A t \in Tasks : pc[t] \in {"readIndex", "createIndex", "writeIndex"} =>
                        blob[File(t)] = req[t].data \/ Contested(File(t))
  /\ \A k \in Keys : \A e \in index[k] \ {Junk} : Good(e)
  /\ \A t \in Tasks : \A e \in buf[t] \ {Junk} : Good(e)

LEMMA VerifyInit == Init => VerifyInv /\ Apart
BY IsolationInit DEF Init, VerifyInv, Apart

\* Two tasks in flight write different .crate files, or contested ones.
LEMMA ApartFiles ==
  ASSUME Apart, NEW t \in Tasks, NEW u \in Tasks, t # u, InFlight(t), InFlight(u),
         ~Contested(File(u))
  PROVE  File(t) # File(u)
BY DEF Apart, Contested, IsolationInv, File, Key

\* Every step but the last of a publish keeps good entries good.
LEMMA GoodStays ==
  ASSUME TypeOK, NEW t \in Tasks, Works(t), ~WriteIndex(t),
         NEW e \in Entry, Good(e)
  PROVE  Good(e)'
<1>1. req' = req /\ \A u \in Tasks : u # t => pc'[u] = pc[u]
  BY StepFrame
<1>5. CASE Contested(<<e.name, e.vers>>)
  BY <1>1, <1>5 DEF Good, Contested, File
<1>2. CASE File(t) = <<e.name, e.vers>> /\ pc'[t] \in
                    {"writeCrate", "readIndex", "createIndex", "writeIndex", "abandoned"}
  BY <1>1, <1>2 DEF Good, Unsettled, File, InFlight, InFlightStates
<1>3. CASE File(t) = <<e.name, e.vers>> /\ pc'[t] \notin
                    {"writeCrate", "readIndex", "createIndex", "writeIndex", "abandoned"}
  <2>1. (Begin(t) \/ Refuse(t)) /\ blob' = blob /\ pc[t] = "idle"
    BY <1>3 DEF Works, Begin, Refuse, CreateCrate, WriteCrate, ReadIndex,
       CreateIndex, Abandon, TearCrate, TearIndex, Goto, GoOn, TypeOK
  <2>2. CASE Verifies(e)
    BY <2>1, <2>2 DEF Good, Verifies, DownloadLocal
  <2>3. CASE Unsettled(e)
    <3>1. PICK u \in Tasks : /\ File(u) = <<e.name, e.vers>>
                             /\ \/ InFlight(u) /\ pc[u] # "createCrate"
                                \/ pc[u] = "abandoned"
      BY <2>3 DEF Unsettled
    <3>2. u # t
      BY <3>1, <2>1 DEF InFlight, InFlightStates
    <3> QED BY <3>1, <3>2, <1>1 DEF Good, Unsettled, InFlight, File
  <2> QED BY <2>2, <2>3, <1>5 DEF Good
<1>4. CASE File(t) # <<e.name, e.vers>>
  <2>1. <<e.name, e.vers>> \in Names \X Versions
    BY DEF Entry
  <2>2. blob'[<<e.name, e.vers>>] = blob[<<e.name, e.vers>>]
    BY <1>4, <2>1 DEF Works, Begin, Refuse, CreateCrate, WriteCrate, ReadIndex,
       CreateIndex, Abandon, TearCrate, TearIndex, TypeOK
  <2>3. Verifies(e) => Verifies(e)'
    BY <2>2 DEF Verifies, DownloadLocal
  <2>4. Unsettled(e) => Unsettled(e)'
    BY <1>1, <1>4 DEF Unsettled, InFlight, File
  <2> QED BY <2>3, <2>4, <1>5 DEF Good
<1> QED BY <1>2, <1>3, <1>4

\* The last step of a publish: entries of other versions are as good as they
\* were, and the only entry of this version left anywhere is the new one.
LEMMA GoodAfterWrite ==
  ASSUME TypeOK, ProvenanceInv', Apart, VerifyInv, NEW t \in Tasks, WriteIndex(t),
         NEW e \in Entry,
         (\E k \in Keys : e \in index'[k]) \/ (\E u \in Tasks : e \in buf'[u])
  PROVE  Good(e)'
<1>1. Works(t) /\ pc'[t] \in {"ok", "abandoned"} /\ pc[t] = "writeIndex"
      /\ req' = req /\ blob' = blob
      /\ \A u \in Tasks : u # t => pc'[u] = pc[u]
  BY StepFrame DEF Works, WriteIndex, Goto, GoOn, TypeOK
<1>2. PICK c \in Landed(index[Key(t)], Replaced(buf[t], req[t])) :
        index' = [index EXCEPT ![Key(t)] = c]
  BY DEF WriteIndex
<1>3. /\ index[Key(t)] \in SUBSET Line
      /\ Replaced(buf[t], req[t]) \in SUBSET Line
      /\ Replaced(buf[t], req[t]) \subseteq buf[t] \cup {EntryOf(req[t])}
  BY RequestTypes, ReplacedLines DEF TypeOK
<1>4. c \subseteq buf[t] \cup {EntryOf(req[t])} \cup index[Key(t)] \cup {Junk}
      /\ (index[Key(t)] = {} => c = Replaced(buf[t], req[t]))
  BY <1>3, LandedLines
<1>5. e # Junk
  BY MarkAssumption
<1>9. CASE Contested(<<e.name, e.vers>>)
  BY <1>1, <1>9 DEF Good, Contested, File
<1>6. CASE e = EntryOf(req[t])
  <2>0. <<e.name, e.vers>> = File(t)
    BY <1>6 DEF EntryOf, File
  <2>1. blob[File(t)] = req[t].data \/ Contested(File(t))
    BY <1>1 DEF VerifyInv
  <2>2. CASE blob[File(t)] = req[t].data
    <3>1. Verifies(e)'
      BY <2>2, <1>1, <1>6, RequestTypes DEF Verifies, DownloadLocal, EntryOf, File
    <3> QED BY <3>1 DEF Good
  <2> QED BY <2>0, <2>1, <2>2, <1>9
<1>7. CASE <<e.name, e.vers>> # File(t)
  <2>1. Good(e)
    <3>1. e # EntryOf(req[t])
      BY <1>7 DEF File, EntryOf
    <3>2. \A k \in Keys : e \in index'[k] => e \in index[k] \/ e \in buf[t]
      BY <1>2, <1>4, <1>5, <3>1, RequestTypes DEF TypeOK
    <3>3. \A u \in Tasks : e \in buf'[u] => e \in buf[u]
      BY DEF WriteIndex, TypeOK
    <3> QED BY <3>2, <3>3, <1>5 DEF VerifyInv
  <2>2. Verifies(e) => Verifies(e)'
    BY <1>1 DEF Verifies, DownloadLocal
  <2>3. Unsettled(e) => Unsettled(e)'
    BY <1>1, <1>7 DEF Unsettled, InFlight, File
  <2> QED BY <2>1, <2>2, <2>3, <1>9 DEF Good
<1>8. CASE <<e.name, e.vers>> = File(t)
  <2>1. CASE ~Isolated
    <3>1. PICK u \in Tasks : e = EntryOf(req[u])
      BY <1>1, <1>5 DEF ProvenanceInv, Sourced
    <3>2. File(u) = File(t)
      BY <3>1, <1>8 DEF EntryOf, File
    <3>3. u = t \/ Contested(<<e.name, e.vers>>)
      BY <3>2, <2>1, <1>8 DEF Contested
    <3> QED BY <3>1, <3>3, <1>6, <1>9
  <2>2. CASE Isolated
    <3>1. IsolationInv
      BY <2>2 DEF Apart
    <3>2. \A k \in Keys : e \in index'[k] => k = Key(t)
      BY <1>1, <1>5, <1>8 DEF ProvenanceInv, Sourced, EntryOf, File, Key
    <3>3. \A u \in Tasks : e \notin buf'[u]
      <4> SUFFICES ASSUME NEW u \in Tasks, e \in buf'[u] PROVE FALSE
        OBVIOUS
      <4>1. Key(u) = Key(t)
        BY <1>1, <1>5, <1>8 DEF ProvenanceInv, Sourced, EntryOf, File, Key
      <4>2. u # t /\ e \in buf[u]
        BY DEF WriteIndex, TypeOK
      <4>3. InFlight(u) /\ InFlight(t)
        BY <4>2, <3>1, <1>1 DEF IsolationInv, InFlight, InFlightStates
      <4> QED BY <4>1, <4>2, <4>3, <3>1 DEF IsolationInv
    <3>4. e \in Replaced(buf[t], req[t])
      BY <3>1, <3>2, <3>3, <1>1, <1>2, <1>4, RequestTypes DEF IsolationInv, TypeOK
    <3>5. e = EntryOf(req[t])
      BY <3>4, <1>5, <1>8 DEF Replaced, File
    <3> QED BY <3>5, <1>6
  <2> QED BY <2>1, <2>2
<1> QED BY <1>7, <1>8

LEMMA ApartStep ==
  ASSUME TypeOK, Apart, [Next]_vars
  PROVE  Apart'
BY IsolationStep DEF Apart

LEMMA VerifyStep ==
  ASSUME TypeOK, TypeOK', ProvenanceInv', Apart, VerifyInv, [Next]_vars
  PROVE  VerifyInv'
<1>1. ASSUME UNCHANGED files PROVE VerifyInv'
  BY <1>1 DEF files, VerifyInv, Good, Verifies, Unsettled, Contested, DownloadLocal,
              InFlight, File
<1>2. ASSUME NEW t \in Tasks, Works(t) PROVE VerifyInv'
  <2>1. req' = req /\ \A u \in Tasks : u # t => pc'[u] = pc[u]
    BY <1>2, StepFrame
  <2>2. \A u \in Tasks : File(u)' = File(u) /\ File(u) \in Names \X Versions
    BY <2>1, RequestTypes DEF File
  <2>0. \A u \in Tasks : Contested(File(u))' <=> Contested(File(u))
    BY <2>2 DEF Contested
  <2>3. \A u \in Tasks : u # t /\ InFlight(u) /\ ~Contested(File(u))
                            => blob'[File(u)] = blob[File(u)]
    <3> SUFFICES ASSUME NEW u \in Tasks, u # t, InFlight(u), ~Contested(File(u))
                 PROVE  blob'[File(u)] = blob[File(u)]
      OBVIOUS
    <3>1. InFlight(t) => File(t) # File(u)
      BY ApartFiles
    <3> QED BY <3>1, <1>2, <2>2
        DEF Works, Begin, Refuse, CreateCrate, WriteCrate, ReadIndex, CreateIndex,
            WriteIndex, Abandon, TearCrate, TearIndex, TypeOK, InFlight, InFlightStates
  <2>4. (\A u \in Tasks : pc[u] = "writeCrate" =>
                            blob[File(u)] = Empty \/ Contested(File(u)))'
    <3> SUFFICES ASSUME NEW u \in Tasks, pc'[u] = "writeCrate", ~Contested(File(u))
                 PROVE  blob'[File(u)] = Empty
      BY <2>0, <2>2
    <3>1. CASE u = t
      BY <3>1, <1>2, <2>2 DEF Works, Begin, Refuse, CreateCrate, WriteCrate,
         ReadIndex, CreateIndex, WriteIndex, Abandon, TearCrate, TearIndex, Goto, GoOn, TypeOK
    <3>2. CASE u # t
      BY <3>2, <2>1, <2>3 DEF VerifyInv, InFlight, InFlightStates
    <3> QED BY <3>1, <3>2
  <2>5. (\A u \in Tasks : pc[u] \in {"readIndex", "createIndex", "writeIndex"} =>
                            blob[File(u)] = req[u].data \/ Contested(File(u)))'
    <3> SUFFICES ASSUME NEW u \in Tasks, ~Contested(File(u)),
                        pc'[u] \in {"readIndex", "createIndex", "writeIndex"}
                 PROVE  blob'[File(u)] = req[u].data
      BY <2>0, <2>1, <2>2
    <3>1. CASE u # t
      BY <3>1, <2>1, <2>3 DEF VerifyInv, InFlight, InFlightStates
    <3>2. CASE u = t /\ WriteCrate(t)
      <4>1. blob[File(t)] = Empty
        BY <3>2 DEF WriteCrate, VerifyInv
      <4>2. LandedCrate(blob[File(t)], req[t].data) = {req[t].data}
        BY <4>1 DEF LandedCrate
      <4> QED BY <4>2, <3>2, <2>2 DEF WriteCrate, TypeOK
    <3>3. CASE u = t /\ ~WriteCrate(t)
      BY <3>3, <1>2 DEF Works, Begin, Refuse, CreateCrate, ReadIndex, CreateIndex,
         WriteIndex, Abandon, TearCrate, TearIndex, Goto, GoOn, TypeOK, VerifyInv
    <3> QED BY <3>1, <3>2, <3>3
  <2>6. \A e \in Entry : (\E k \in Keys : e \in index'[k]) \/ (\E u \in Tasks : e \in buf'[u])
                           => Good(e)'
    <3> SUFFICES ASSUME NEW e \in Entry,
                        (\E k \in Keys : e \in index'[k]) \/ (\E u \in Tasks : e \in buf'[u])
                 PROVE  Good(e)'
      OBVIOUS
    <3>1. CASE WriteIndex(t)
      BY <3>1, GoodAfterWrite
    <3>2. CASE ~WriteIndex(t) /\ Good(e)
      BY <3>2, <1>2, GoodStays
    <3>3. CASE ~WriteIndex(t) /\ ~Good(e)
      <4>1. e # Junk
        BY MarkAssumption
      <4>2. /\ \A k \in Keys : e \notin index[k]
            /\ \A u \in Tasks : e \notin buf[u]
        BY <3>3, <4>1 DEF VerifyInv
      <4>3. TearIndex(t)
        <5>1. \A u \in Tasks : \/ buf'[u] = {} \/ buf'[u] = buf[u]
                               \/ buf'[u] = index[Key(t)]
          BY <1>2 DEF Works, Begin, Refuse, CreateCrate, WriteCrate, ReadIndex,
             CreateIndex, WriteIndex, Abandon, TearCrate, TearIndex, TypeOK
        <5>2. PICK k \in Keys : e \in index'[k]
          BY <5>1, <4>2, RequestTypes
        <5> QED BY <5>2, <4>2, <3>3, <1>2 DEF Works, Begin, Refuse, CreateCrate,
               WriteCrate, ReadIndex, CreateIndex, Abandon, TearCrate, TypeOK
      <4>4. \A u \in Tasks : e \notin buf'[u]
        BY <4>2, <4>3 DEF TearIndex, TypeOK
      <4>5. e = EntryOf(req[t])
        <5>1. PICK c \in TornLines(index[Key(t)], Replaced(buf[t], req[t])) :
                index' = [index EXCEPT ![Key(t)] = c]
          BY <4>3 DEF TearIndex
        <5>2. c \subseteq buf[t] \cup {EntryOf(req[t])} \cup index[Key(t)] \cup {Junk}
          <6>1. /\ index[Key(t)] \in SUBSET Line
                /\ Replaced(buf[t], req[t]) \in SUBSET Line
                /\ Replaced(buf[t], req[t]) \subseteq buf[t] \cup {EntryOf(req[t])}
            BY RequestTypes, ReplacedLines DEF TypeOK
          <6> QED BY <6>1, <5>1, TornLinesKinds
        <5>3. PICK k \in Keys : e \in index'[k]
          BY <4>4
        <5> QED BY <5>1, <5>2, <5>3, <4>1, <4>2, RequestTypes DEF TypeOK
      <4> QED BY <4>3, <4>5, <2>1 DEF Good, Unsettled, TearIndex, Goto, GoOn, TypeOK,
                 EntryOf, File
    <3> QED BY <3>1, <3>2, <3>3
  <2>7. (\A k \in Keys : \A e \in index[k] \ {Junk} : Good(e))'
    BY <2>6 DEF TypeOK, Line
  <2>8. (\A u \in Tasks : \A e \in buf[u] \ {Junk} : Good(e))'
    BY <2>6 DEF TypeOK, Line
  <2> QED BY <2>4, <2>5, <2>7, <2>8 DEF VerifyInv
<1> QED BY <1>1, <1>2, WorksOrRests

\* A listed version verifies, unless a publish of it is under way or was
\* abandoned, or the version is published twice and the publishes, with the
\* writes that dropped handlers leave running, are not kept apart.
THEOREM ListedVersionsVerify == Spec => []ListedVerifies
<1>1. VerifyInv => ListedVerifies
  BY DEF VerifyInv, ListedVerifies, Good, LookupLocal
<1>2. Spec => []ProvenanceInv
  BY ProvenanceInit, ProvenanceStep, TypeCorrect, PTL DEF Spec
<1>3. Spec => [](VerifyInv /\ Apart)
  <2>1. Init => VerifyInv /\ Apart
    BY VerifyInit
  <2>2. TypeOK /\ TypeOK' /\ ProvenanceInv' /\ (VerifyInv /\ Apart) /\ [Next]_vars
          => (VerifyInv /\ Apart)'
    BY VerifyStep, ApartStep
  <2> QED BY <2>1, <2>2, <1>2, TypeCorrect, PTL DEF Spec
<1> QED BY <1>1, <1>3, PTL

-----------------------------------------------------------------------------
(* The refinement of Catalog, and that what is acknowledged is listed. *)

\* The one task that may be rewriting an index file is the one in flight at it.
LEMMA EffectiveValue ==
  ASSUME TypeOK, IsolationInv, NEW k \in Keys
  PROVE  /\ \A t \in Tasks : pc[t] = "writeIndex" /\ Key(t) = k =>
                               Effective(k) = buf[t] \ {Junk}
         /\ Rewriting(k) = {} => Effective(k) = index[k] \ {Junk}
<1>1. \A l : l \in Line \ {Junk} <=> l \in Entry
  BY MarkAssumption DEF Line
<1>2. ASSUME NEW t \in Tasks, pc[t] = "writeIndex", Key(t) = k
      PROVE  Effective(k) = buf[t] \ {Junk}
  <2>1. Rewriting(k) = {t}
    BY <1>2 DEF Rewriting, IsolationInv, InFlight, InFlightStates
  <2> QED BY <2>1, <1>1 DEF Effective, TypeOK
<1>3. ASSUME Rewriting(k) = {} PROVE Effective(k) = index[k] \ {Junk}
  BY <1>3, <1>1 DEF Effective, TypeOK
<1> QED BY <1>2, <1>3

\* A step changes the listing of its own crate only.
LEMMA OtherListings ==
  ASSUME TypeOK, TypeOK', IsolationInv, IsolationInv', NEW t \in Tasks, Works(t),
         NEW k \in Keys, k # Key(t)
  PROVE  Effective(k)' = Effective(k)
<1>1. \A u \in Tasks : Key(u)' = Key(u) /\ Key(u) \in Keys
  BY StepFrame, RequestTypes DEF Key
<1>2. index'[k] = index[k]
  BY <1>1 DEF Works, Begin, Refuse, CreateCrate, WriteCrate, ReadIndex,
     CreateIndex, WriteIndex, Abandon, TearCrate, TearIndex, TypeOK
<1>3. \A u \in Tasks : u # t => buf'[u] = buf[u] /\ pc'[u] = pc[u]
  BY StepFrame DEF Works, Begin, Refuse, CreateCrate, WriteCrate, ReadIndex,
     CreateIndex, WriteIndex, Abandon, TearCrate, TearIndex, TypeOK
<1>4. Rewriting(k)' = Rewriting(k) /\ t \notin Rewriting(k)
  BY <1>1, <1>3 DEF Rewriting
<1>5. \A u \in Rewriting(k) : buf'[u] = buf[u]
  BY <1>3, <1>4 DEF Rewriting
<1> QED BY <1>2, <1>4, <1>5 DEF Effective

\* While a publish is at work its crate's listing stays as it is; its last step
\* replaces the entry of its version; a failure changes nothing, or leaves a part
\* of what that step would have made of it.
LEMMA OwnListing ==
  ASSUME TypeOK, TypeOK', IsolationInv, IsolationInv', NEW t \in Tasks, Works(t)
  PROVE  LET k == Key(t)
             new == EntryOf(req[t])
         IN  /\ WriteIndex(t) =>
                  Effective(k)' = {e \in Effective(k) : e.vers # new.vers} \cup {new}
             /\ Abandon(t) \/ TearIndex(t) =>
                  \/ Effective(k)' = Effective(k)
                  \/ Effective(k)' \subseteq
                       {e \in Effective(k) : e.vers # new.vers} \cup {new}
             /\ ~(WriteIndex(t) \/ Abandon(t) \/ TearIndex(t)) =>
                  Effective(k)' = Effective(k)
<1> DEFINE k == Key(t)
           new == EntryOf(req[t])
           after == {e \in Effective(k) : e.vers # new.vers} \cup {new}
<1>1. /\ \A u \in Tasks : Key(u)' = Key(u) /\ Key(u) \in Keys
      /\ k' = k /\ new' = new /\ new \in Entry /\ new # Junk
      /\ \A u \in Tasks : u # t => pc'[u] = pc[u]
  BY StepFrame, RequestTypes DEF Key
<1>2. InFlight(t) => \A u \in Tasks : u # t /\ Key(u) = k => ~InFlight(u)
  BY DEF IsolationInv
<1>3. pc'[t] # "writeIndex" /\ InFlight(t) => Rewriting(k)' = {}
  BY <1>1, <1>2 DEF Rewriting, InFlight, InFlightStates
<1>4. pc[t] # "writeIndex" /\ InFlight(t) => Rewriting(k) = {}
  BY <1>1, <1>2 DEF Rewriting, InFlight, InFlightStates
<1>5. ASSUME WriteIndex(t)
      PROVE  Effective(k)' = {e \in Effective(k) : e.vers # new.vers} \cup {new}
  <2>1. Effective(k) = buf[t] \ {Junk}
    BY <1>1, <1>5, EffectiveValue DEF WriteIndex
  <2>2. Rewriting(k)' = {}
    BY <1>3, <1>5 DEF WriteIndex, Goto, GoOn, TypeOK, InFlight, InFlightStates
  <2>3. Effective(k)' = index'[k] \ {Junk}
    BY <2>2, <1>1, MarkAssumption DEF Effective, TypeOK, Line
  <2>4. index[k] = {}
    BY <1>5 DEF WriteIndex, IsolationInv
  <2>5. PICK c \in Landed(index[k], Replaced(buf[t], req[t])) :
          index' = [index EXCEPT ![k] = c]
    BY <1>5 DEF WriteIndex
  <2>6. c = Replaced(buf[t], req[t])
    <3>1. index[k] \in SUBSET Line /\ Replaced(buf[t], req[t]) \in SUBSET Line
      BY <1>1, ReplacedLines DEF TypeOK
    <3> QED BY <3>1, <2>4, <2>5, LandedLines
  <2>7. index'[k] = Replaced(buf[t], req[t])
    BY <2>5, <2>6, <1>1 DEF TypeOK
  <2>8. new.vers = req[t].vers
    BY DEF EntryOf
  <2> QED BY <2>1, <2>3, <2>7, <2>8, <1>1 DEF Replaced
<1>6. ASSUME Abandon(t) \/ TearIndex(t)
      PROVE  Effective(k)' = Effective(k) \/ Effective(k)' \subseteq after
  <2>1. InFlight(t) /\ pc'[t] = "abandoned"
    BY <1>6 DEF Abandon, TearIndex, Goto, GoOn, TypeOK, InFlight, InFlightStates
  <2>2. Effective(k)' = index'[k] \ {Junk}
    BY <2>1, <1>3, <1>1, MarkAssumption DEF Effective, TypeOK, Line
  <2>3. CASE pc[t] # "writeIndex"
    <3>1. Effective(k) = index[k] \ {Junk}
      BY <2>1, <2>3, <1>4, <1>1, EffectiveValue
    <3>2. index' = index
      BY <1>6, <2>3 DEF Abandon, TearIndex
    <3> QED BY <3>1, <3>2, <2>2
  <2>4. CASE pc[t] = "writeIndex"
    <3>1. Effective(k) = buf[t] \ {Junk} /\ index[k] = {}
      BY <2>4, <1>1, EffectiveValue DEF IsolationInv
    <3>2. CASE Abandon(t)
      BY <3>1, <3>2, <2>2 DEF Abandon
    <3>3. CASE TearIndex(t)
      <4>1. PICK c \in TornLines(index[k], Replaced(buf[t], req[t])) :
              index' = [index EXCEPT ![k] = c]
        BY <3>3 DEF TearIndex
      <4>2. Replaced(buf[t], req[t]) \in SUBSET Line /\ index[k] \in SUBSET Line
        BY <1>1, ReplacedLines DEF TypeOK
      <4>3. c \subseteq Replaced(buf[t], req[t]) \cup {Junk}
        BY <4>1, <4>2, <3>1, TornLinesKinds
      <4>4. Replaced(buf[t], req[t]) \ {Junk} \subseteq after
        BY <3>1 DEF Replaced, EntryOf
      <4>5. Effective(k)' = c \ {Junk}
        BY <4>1, <2>2, <1>1 DEF TypeOK
      <4> QED BY <4>3, <4>4, <4>5
    <3> QED BY <1>6, <3>2, <3>3
  <2> QED BY <2>3, <2>4
<1>7. ASSUME ~(WriteIndex(t) \/ Abandon(t) \/ TearIndex(t))
      PROVE  Effective(k)' = Effective(k)
  <2>1. CASE CreateIndex(t)
    <3>1. Effective(k) = index[k] \ {Junk} /\ buf[t] = index[k]
      BY <2>1, <1>1, <1>4, EffectiveValue
      DEF CreateIndex, IsolationInv, InFlight, InFlightStates
    <3>2. pc'[t] = "writeIndex" /\ buf'[t] = buf[t]
      BY <2>1 DEF CreateIndex, Goto, GoOn, TypeOK
    <3>3. Rewriting(k)' = {t}
      BY <3>2, <1>1, <1>2, <2>1 DEF Rewriting, CreateIndex, InFlight, InFlightStates
    <3>4. Effective(k)' = buf'[t] \ {Junk}
      BY <3>3, MarkAssumption DEF Effective, TypeOK, Line
    <3> QED BY <3>1, <3>2, <3>4
  <2>2. CASE ~CreateIndex(t)
    <3>1. index' = index /\ pc[t] # "writeIndex" /\ pc'[t] # "writeIndex"
      BY <1>7, <2>2 DEF Works, Begin, Refuse, CreateCrate, WriteCrate, ReadIndex,
         TearCrate, Goto, GoOn, TypeOK
    <3>2. Rewriting(k)' = Rewriting(k) /\ t \notin Rewriting(k)
      BY <3>1, <1>1 DEF Rewriting
    <3>3. \A u \in Tasks : u # t => buf'[u] = buf[u]
      BY <1>7, <2>2 DEF Works, Begin, Refuse, CreateCrate, WriteCrate, ReadIndex,
         TearCrate, TypeOK
    <3>4. \A u \in Rewriting(k) : buf'[u] = buf[u]
      BY <3>2, <3>3 DEF Rewriting
    <3> QED BY <3>1, <3>2, <3>4, <1>1 DEF Effective
  <2> QED BY <2>1, <2>2
<1> QED BY <1>5, <1>6, <1>7

\* What makes AckedListed inductive: the version of an acknowledged publish is
\* in the listing of its crate, also while the file is being rewritten.
AckedInv ==
  \A t \in Tasks :
    /\ pc[t] = "ok"
    /\ \A u \in Tasks : Key(u) = Key(t) => pc[u] # "abandoned"
    => \E e \in Effective(Key(t)) : e.vers = req[t].vers

LEMMA AckedStep ==
  ASSUME TypeOK, TypeOK', IsolationInv, IsolationInv', AckedInv, [Next]_vars
  PROVE  AckedInv'
<1>1. ASSUME UNCHANGED files PROVE AckedInv'
  BY <1>1 DEF files, AckedInv, Effective, Rewriting, Key
<1>2. ASSUME NEW t \in Tasks, Works(t) PROVE AckedInv'
  <2>1. /\ req' = req
        /\ \A u \in Tasks : Key(u)' = Key(u) /\ Key(u) \in Keys
        /\ \A u \in Tasks : u # t => pc'[u] = pc[u]
        /\ pc[t] \notin {"ok", "refused", "abandoned"}
    BY <1>2, StepFrame, RequestTypes DEF Key
  <2> SUFFICES ASSUME NEW w \in Tasks, pc'[w] = "ok",
                      \A u \in Tasks : Key(u) = Key(w) => pc'[u] # "abandoned"
               PROVE  \E e \in Effective(Key(w))' : e.vers = req[w].vers
    BY <2>1 DEF AckedInv
  <2>2. \A u \in Tasks : Key(u) = Key(w) => pc[u] # "abandoned"
    BY <2>1
  <2>3. w # t => \E e \in Effective(Key(w)) : e.vers = req[w].vers
    BY <2>1, <2>2 DEF AckedInv
  <2>4. CASE Key(w) # Key(t)
    BY <2>1, <2>3, <2>4, <1>2, OtherListings
  <2>5. CASE Key(w) = Key(t) /\ WriteIndex(t)
    <3>1. Effective(Key(t))' = {e \in Effective(Key(t)) : e.vers # req[t].vers}
                                 \cup {EntryOf(req[t])}
      BY <2>5, <1>2, OwnListing DEF EntryOf
    <3>2. EntryOf(req[t]).vers = req[t].vers
      BY DEF EntryOf
    <3>3. CASE req[w].vers = req[t].vers
      BY <3>1, <3>2, <3>3, <2>1, <2>5
    <3>4. CASE req[w].vers # req[t].vers
      <4>1. PICK e \in Effective(Key(w)) : e.vers = req[w].vers
        BY <3>4, <2>3
      <4>2. e \in Effective(Key(t))'
        BY <4>1, <3>1, <3>4, <2>5
      <4> QED BY <4>1, <4>2, <2>1, <2>5
    <3> QED BY <3>3, <3>4
  <2>6. CASE Key(w) = Key(t) /\ ~WriteIndex(t)
    <3>1. w # t
      BY <2>1, <2>6, <1>2 DEF Works, Begin, Refuse, CreateCrate, WriteCrate,
         ReadIndex, CreateIndex, Abandon, TearCrate, TearIndex, Goto, GoOn, TypeOK
    <3>2. ~Abandon(t) /\ ~TearIndex(t)
      BY <2>6 DEF Abandon, TearIndex, Goto, GoOn, TypeOK
    <3>3. Effective(Key(t))' = Effective(Key(t))
      BY <3>2, <2>6, <1>2, OwnListing
    <3> QED BY <3>1, <3>3, <2>1, <2>3, <2>6
  <2> QED BY <2>4, <2>5, <2>6
<1> QED BY <1>1, <1>2, WorksOrRests

LEMMA IsolationHolds ==
  ASSUME Isolated
  PROVE  Spec => [](TypeOK /\ IsolationInv)
<1>1. TypeOK /\ IsolationInv /\ [Next]_vars => IsolationInv'
  BY IsolationStep
<1> QED BY <1>1, IsolationInit, TypeCorrect, PTL DEF Spec

\* If publishes to one index file are kept apart, an acknowledged version stays
\* listed once no publish is at work on its index file, unless one was
\* abandoned.
THEOREM AcknowledgedAreListed ==
  ASSUME Isolated
  PROVE  Spec => []AckedListed
<1>1. Init => AckedInv
  BY DEF Init, AckedInv
<1>2. (TypeOK /\ IsolationInv) /\ (TypeOK /\ IsolationInv)' /\ AckedInv /\ [Next]_vars
        => AckedInv'
  BY AckedStep
<1>3. TypeOK /\ IsolationInv /\ AckedInv => AckedListed
  <2> SUFFICES ASSUME TypeOK, IsolationInv, AckedInv, NEW t \in Tasks, pc[t] = "ok",
                      \A u \in Tasks : Key(u) = Key(t) =>
                         ~InFlight(u) /\ pc[u] # "abandoned"
               PROVE  Lists(Key(t), req[t].vers)
    BY DEF AckedListed
  <2>1. Rewriting(Key(t)) = {}
    BY DEF Rewriting, InFlight, InFlightStates
  <2>2. Effective(Key(t)) = LookupLocal(Key(t))
    BY <2>1, RequestTypes, EffectiveValue DEF LookupLocal
  <2> QED BY <2>2 DEF AckedInv, Lists
<1> QED BY <1>1, <1>2, <1>3, IsolationHolds, PTL DEF Spec

\* What makes ListedOnce inductive: it holds of the listing also while the file
\* is cut, when it is in the hands of the task that rewrites it.
OnceInv ==
  \A k \in Keys : \A e, f \in Effective(k) : e.vers = f.vers => e = f

LEMMA OnceStep ==
  ASSUME TypeOK, TypeOK', IsolationInv, IsolationInv', OnceInv, [Next]_vars
  PROVE  OnceInv'
<1>1. ASSUME UNCHANGED files PROVE OnceInv'
  BY <1>1 DEF files, OnceInv, Effective, Rewriting, Key
<1>2. ASSUME NEW t \in Tasks, Works(t) PROVE OnceInv'
  <2> SUFFICES ASSUME NEW k \in Keys
               PROVE  \A e, f \in Effective(k)' : e.vers = f.vers => e = f
    BY DEF OnceInv
  <2>1. CASE k # Key(t)
    BY <1>2, <2>1, OtherListings DEF OnceInv
  <2>2. CASE k = Key(t)
    <3>1. \/ Effective(k)' = Effective(k)
          \/ Effective(k)' \subseteq {e \in Effective(k) : e.vers # EntryOf(req[t]).vers}
                                    \cup {EntryOf(req[t])}
      <4>1. Key(t)' = Key(t)
        BY <1>2, StepFrame DEF Key
      <4> QED BY <1>2, <2>2, <4>1, OwnListing
    <3> QED BY <3>1 DEF OnceInv
  <2> QED BY <2>1, <2>2
<1> QED BY <1>1, <1>2, WorksOrRests

\* If publishes to one index file are kept apart, the writes that dropped handlers
\* leave running included, no version is listed with two entries, also when a
\* publish was abandoned half way.
THEOREM VersionsAreListedOnce ==
  ASSUME Isolated
  PROVE  Spec => []ListedOnce
<1>1. Init => OnceInv
  BY DEF Init, OnceInv, Effective, Rewriting
<1>2. (TypeOK /\ IsolationInv) /\ (TypeOK /\ IsolationInv)' /\ OnceInv /\ [Next]_vars
        => OnceInv'
  BY OnceStep
<1>3. TypeOK /\ IsolationInv /\ OnceInv => ListedOnce
  <2> SUFFICES ASSUME TypeOK, IsolationInv, OnceInv, NEW k \in Keys
               PROVE  LookupLocal(k) \subseteq Effective(k)
    BY DEF ListedOnce, OnceInv
  <2>1. CASE Rewriting(k) = {}
    BY <2>1, EffectiveValue DEF LookupLocal
  <2>2. CASE Rewriting(k) # {}
    BY <2>2 DEF Rewriting, IsolationInv, LookupLocal
  <2> QED BY <2>1, <2>2
<1> QED BY <1>1, <1>2, <1>3, IsolationHolds, PTL DEF Spec

\* The map from file operations to the atomic updates of Catalog.
LEMMA RefinementInit == Init => Promise!Init
<1> SUFFICES ASSUME Init PROVE Promise!Init
  OBVIOUS
<1>1. TypeOK
  BY TypeOKInit
<1>2. \A k \in Keys : Effective(k) = {}
  BY DEF Init, Effective, Rewriting
<1>3. \A t \in Tasks : OutcomeOf(pc[t]) = "none"
  BY DEF Init, OutcomeOf
<1> QED BY <1>1, <1>2, <1>3, RequestTypes DEF Promise!Init

LEMMA RefinementStep ==
  ASSUME TypeOK, TypeOK', IsolationInv, IsolationInv', GoneInv, [Next]_vars
  PROVE  [Promise!Next]_(Promise!vars)
<1>1. ASSUME UNCHANGED files PROVE UNCHANGED Promise!vars
  BY <1>1 DEF files, Promise!vars, Effective, Rewriting, Key
<1>2. ASSUME NEW t \in Tasks, Works(t) PROVE [Promise!Next]_(Promise!vars)
  <2> DEFINE listing == [k \in Keys |-> Effective(k)]
             outcome == [u \in Tasks |-> OutcomeOf(pc[u])]
             request == [u \in Tasks |-> [key |-> Key(u), entry |-> EntryOf(req[u])]]
             new == EntryOf(req[t])
  <2>1. /\ \A u \in Tasks : Key(u)' = Key(u) /\ Key(u) \in Keys
        /\ \A u \in Tasks : u # t => pc'[u] = pc[u]
        /\ pc[t] \notin {"ok", "refused", "abandoned"}
        /\ req' = req
    BY <1>2, StepFrame, RequestTypes DEF Key
  <2>2. request' = request
    BY <2>1
  <2>3. outcome[t] = "none" /\ outcome' = [outcome EXCEPT ![t] = OutcomeOf(pc[t])']
    BY <2>1 DEF OutcomeOf
  <2>4. listing' = [listing EXCEPT ![Key(t)] = Effective(Key(t))']
    <3>1. \A k \in Keys : k # Key(t) => Effective(k)' = Effective(k)
      BY <1>2, OtherListings
    <3> QED BY <3>1, <2>1
  <2>5. /\ request[t].key = Key(t) /\ request[t].entry = new
        /\ listing[Key(t)] = Effective(Key(t))
    BY <2>1
  <2>6. CASE WriteIndex(t)
    <3>1. pc'[t] = IF t \in gone THEN "abandoned" ELSE "ok"
      BY <2>6 DEF WriteIndex, Goto, GoOn, TypeOK
    <3>2. Effective(Key(t))' = {e \in listing[Key(t)] : e.vers # new.vers} \cup {new}
      BY <2>6, <2>5, <1>2, OwnListing
    <3>3. CASE t \notin gone
      <4>1. Promise!Publish(t)
        BY <3>1, <3>2, <3>3, <2>2, <2>3, <2>4, <2>5
        DEF Promise!Publish, Promise!After, OutcomeOf
      <4> QED BY <4>1 DEF Promise!Next
    <3>4. CASE t \in gone
      <4>1. MayAbandon /\ pc'[t] = "abandoned"
        BY <3>1, <3>4 DEF GoneInv
      <4>2. Effective(Key(t))' \in SUBSET Promise!After(t)
        BY <3>2, <2>5 DEF Promise!After
      <4>3. Promise!Fail(t)
        BY <4>1, <4>2, <2>2, <2>3, <2>4, <2>5 DEF Promise!Fail, OutcomeOf
      <4> QED BY <4>3 DEF Promise!Next
    <3> QED BY <3>3, <3>4
  <2>7. CASE Abandon(t) \/ TearIndex(t)
    <3>1. MayAbandon /\ pc'[t] = "abandoned"
      BY <2>7 DEF Abandon, TearIndex, Goto, GoOn, TypeOK
    <3>2. Effective(Key(t))' \in {listing[Key(t)]} \cup SUBSET Promise!After(t)
      BY <2>7, <2>5, <1>2, OwnListing DEF Promise!After
    <3>3. Promise!Fail(t)
      BY <3>1, <3>2, <2>2, <2>3, <2>4, <2>5 DEF Promise!Fail, OutcomeOf
    <3> QED BY <3>3 DEF Promise!Next
  <2>8. CASE ~(WriteIndex(t) \/ Abandon(t) \/ TearIndex(t))
    <3>1. listing' = listing
      BY <2>8, <2>4, <1>2, OwnListing
    <3>2. CASE Refuse(t)
      <4>1. pc'[t] = "refused"
        BY <3>2 DEF Refuse, Goto, GoOn, TypeOK
      <4>2. Promise!Refuse(t)
        BY <4>1, <3>1, <2>2, <2>3 DEF Promise!Refuse, OutcomeOf
      <4> QED BY <4>2 DEF Promise!Next
    <3>3. CASE TearCrate(t) \/ (WriteCrate(t) /\ t \in gone)
      <4>1. MayAbandon /\ pc'[t] = "abandoned"
        BY <3>3 DEF TearCrate, WriteCrate, Goto, GoOn, GoneInv, TypeOK
      <4>2. Effective(Key(t))' = listing[Key(t)]
        BY <2>8, <2>5, <1>2, OwnListing
      <4>3. Promise!Fail(t)
        BY <4>1, <4>2, <2>2, <2>3, <2>4, <2>5 DEF Promise!Fail, OutcomeOf
      <4> QED BY <4>3 DEF Promise!Next
    <3>4. CASE ~Refuse(t) /\ ~TearCrate(t) /\ ~(WriteCrate(t) /\ t \in gone)
      <4>1. pc'[t] \in InFlightStates
        BY <1>2, <2>8, <3>4 DEF Works, Begin, CreateCrate, WriteCrate, ReadIndex,
           CreateIndex, Goto, GoOn, TypeOK, InFlightStates
      <4>2. outcome' = outcome
        BY <4>1, <2>3 DEF OutcomeOf, InFlightStates
      <4> QED BY <3>1, <4>2, <2>2 DEF Promise!vars
    <3> QED BY <3>2, <3>3, <3>4
  <2> QED BY <2>6, <2>7, <2>8
<1> QED BY <1>1, <1>2, WorksOrRests

\* If publishes to one index file are kept apart, the writes that dropped handlers
\* leave running included, the files implement the catalogue of atomic publishes.
\* A publish whose handler is gone fails when its last write is done.
THEOREM FilesImplementCatalog ==
  ASSUME Isolated
  PROVE  Spec => CatalogSpec
<1>1. Init => Promise!Init
  BY RefinementInit
<1>2. (TypeOK /\ IsolationInv) /\ (TypeOK /\ IsolationInv)' /\ GoneInv /\ [Next]_vars
        => [Promise!Next]_(Promise!vars)
  BY RefinementStep
<1> QED BY <1>1, <1>2, IsolationHolds, GoneHolds, PTL
    DEF Spec, CatalogSpec, Promise!Spec

=============================================================================
