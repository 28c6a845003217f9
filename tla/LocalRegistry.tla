--------------------------- MODULE LocalRegistry ---------------------------
(***************************************************************************)
(* A registry kept in a directory of files (src/src/registry/local.rs):    *)
(* one .crate file per published version and one index file per crate.     *)
(* Publish requests are handled by async tasks that share nothing but the  *)
(* directory and take no lock: each await of a file operation is a point   *)
(* where other tasks run, so each file operation is an action here.        *)
(*                                                                         *)
(* tokio::fs::write is two operations of the file system: it opens the     *)
(* file and cuts it to length zero, and then writes at offset zero.        *)
(* Assumption: a file is read in one step, and written in one step once it *)
(* is open, unless the write fails half way (TearCrate, TearIndex).        *)
(* It is also a job of its own on tokio's blocking pool: a handler that is *)
(* dropped while it awaits one leaves it running (DropHandler).            *)
(***************************************************************************)
CONSTANTS
  Tasks,            \* publish requests; each is handled once
  Names,            \* crate names, as spelled by the client
  Versions,
  Data,             \* contents of a .crate file
  Keys,             \* lower-cased crate names: one index file each
  KeyOf,            \* the lower-casing of names, [Names -> Keys]
  Valid,            \* the requests whose metadata validate() accepts
  ReadOnly,         \* LocalRegistry.read_only
  ValidateMetadata, \* LocalRegistry.validate_metadata
  Isolated,         \* are publishes to one index file kept apart? see Conflict
  MayAbandon,       \* may a publish stop half way?
  NoFile, Empty, Torn,  \* what a .crate file may hold besides Data
  Junk              \* an index line that does not parse

Request == [name : Names, vers : Versions, data : Data]

\* Checksums are assumed to be free of collisions.
Sha256(d) == <<"sha256", d>>

Entry == [name : Names, vers : Versions, cksum : {Sha256(d) : d \in Data}]
Line == Entry \cup {Junk}
Content == Data \cup {NoFile, Empty, Torn}

ASSUME KeyAssumption == KeyOf \in [Names -> Keys]
ASSUME ModeAssumption ==
  /\ Valid \subseteq Request
  /\ ReadOnly \in BOOLEAN
  /\ ValidateMetadata \in BOOLEAN
  /\ MayAbandon \in BOOLEAN
  /\ Isolated \in BOOLEAN
ASSUME MarkAssumption ==
  /\ Junk \notin Entry
  /\ {NoFile, Empty, Torn} \cap Data = {}
  /\ NoFile # Empty /\ NoFile # Torn /\ Empty # Torn

VARIABLES
  blob,    \* the .crate file of each name and version
  index,   \* the set of lines of each index file; {} if missing or empty
  pc,      \* where the task of each request stands
  req,     \* the request of each task; fixed when the behaviour starts
  buf,     \* the index lines a task has read and not yet written back
  gone     \* the tasks whose handler was dropped while a write was under way

vars == <<blob, index, pc, req, buf, gone>>

InFlightStates ==
  {"createCrate", "writeCrate", "readIndex", "createIndex", "writeIndex"}
States == InFlightStates \cup {"idle", "ok", "refused", "abandoned"}

InFlight(t) == pc[t] \in InFlightStates
FileFolded(t) == <<KeyOf[req[t].name], req[t].vers>>   \* slip: lower-cased

File(t) == <<req[t].name, req[t].vers>>
Key(t) == KeyOf[req[t].name]

\* Nothing in the server keeps two publishes apart.  Clients that publish one
\* crate after another do, as long as they wait for the answers; a client that
\* hangs up cannot know when the write it leaves behind has ended.  Isolated
\* assumes that no publish begins meanwhile: such writes are in flight, too.
Conflict(t, u) == Isolated /\ Key(t) = Key(u)

Init ==
  /\ blob = [f \in Names \X Versions |-> NoFile]
  /\ index = [k \in Keys |-> {}]
  /\ pc = [t \in Tasks |-> "idle"]
  /\ req \in [Tasks -> Request]
  /\ buf = [t \in Tasks |-> {}]
  /\ gone = {}

-----------------------------------------------------------------------------
EntryOfNothing(r) ==                            \* slip: checksum of no data
  [name |-> r.name, vers |-> r.vers, cksum |-> Sha256(Empty)]

\* What the index line of a request says.
EntryOf(r) == [name |-> r.name, vers |-> r.vers, cksum |-> Sha256(r.data)]

ReplacedAppend(lines, r) == lines \cup {EntryOf(r)}    \* slip: no filter
ReplacedOnlyNew(lines, r) == {EntryOf(r)}              \* slip: overwrite
ReplacedByName(lines, r) ==                            \* slip: wrong field
  {l \in lines : l = Junk \/ l.name # r.name} \cup {EntryOf(r)}

\* The lines of an index after a publish: those of the version are dropped,
\* those that do not parse are kept, the new one is added.
Replaced(lines, r) ==
  {l \in lines : l = Junk \/ l.vers # r.vers} \cup {EntryOf(r)}

\* The contents a file of lines may have once `new` is written at offset zero
\* over `old`: what lies beyond the new text stays, possibly cut inside a line.
\* (Which lines lie beyond depends on lengths and order, left open here.)
Landed(old, new) ==
  {c \in SUBSET (old \cup new \cup {Junk}) :
     new \subseteq c /\ (old = {} => c = new)}

\* The same when only a part of `new` reaches the file.
TornLines(old, new) == SUBSET (old \cup new \cup {Junk})

\* What a .crate file may hold once d is written at offset zero over `old`.
LandedCrate(old, d) == IF old \in {Empty, d} THEN {d} ELSE {d, Torn}

-----------------------------------------------------------------------------
Admissible(r) == ~ReadOnly /\ (ValidateMetadata => r \in Valid)

Goto(t, s) == pc' = [pc EXCEPT ![t] = s]

\* The end of a write: publish() goes on, if its handler is still there.
GoOn(t, s) == Goto(t, IF t \in gone THEN "abandoned" ELSE s)

BeginUnchecked(t) ==                                   \* slip: no checks
  /\ pc[t] = "idle"
  /\ Goto(t, "createCrate")
  /\ UNCHANGED <<blob, index, req, buf, gone>>
BeginIndexFirst(t) ==                                  \* slip: swapped order
  /\ pc[t] = "idle"
  /\ Admissible(req[t])
  /\ Goto(t, "readIndex")
  /\ UNCHANGED <<blob, index, req, buf, gone>>

\* A request that passes the early returns of publish().
Begin(t) ==
  /\ pc[t] = "idle"
  /\ Admissible(req[t])
  /\ \A u \in Tasks : InFlight(u) => ~Conflict(t, u)
  /\ Goto(t, "createCrate")
  /\ UNCHANGED <<blob, index, req, buf, gone>>

Refuse(t) ==
  /\ pc[t] = "idle"
  /\ ~Admissible(req[t])
  /\ Goto(t, "refused")
  /\ UNCHANGED <<blob, index, req, buf, gone>>

\* fs::write of the .crate file: open and truncate, then write.
CreateCrate(t) ==
  /\ pc[t] = "createCrate"
  /\ blob' = [blob EXCEPT ![File(t)] = Empty]
  /\ Goto(t, "writeCrate")
  /\ UNCHANGED <<index, req, buf, gone>>

WriteCrate(t) ==
  /\ pc[t] = "writeCrate"
  /\ \E c \in LandedCrate(blob[File(t)], req[t].data) :
       blob' = [blob EXCEPT ![File(t)] = c]
  /\ GoOn(t, "readIndex")
  /\ UNCHANGED <<index, req, buf, gone>>

\* The existing index, empty when there is no file.
ReadIndex(t) ==
  /\ pc[t] = "readIndex"
  /\ buf' = [buf EXCEPT ![t] = index[Key(t)]]
  /\ Goto(t, "createIndex")
  /\ UNCHANGED <<blob, index, req, gone>>

\* fs::write of the index file: open and truncate, then write.
CreateIndex(t) ==
  /\ pc[t] = "createIndex"
  /\ index' = [index EXCEPT ![Key(t)] = {}]
  /\ Goto(t, "writeIndex")
  /\ UNCHANGED <<blob, req, buf, gone>>

\* The last step of publish(): the client gets its checksum, if it waits for it.
WriteIndex(t) ==
  /\ pc[t] = "writeIndex"
  /\ \E c \in Landed(index[Key(t)], Replaced(buf[t], req[t])) :
       index' = [index EXCEPT ![Key(t)] = c]
  /\ buf' = [buf EXCEPT ![t] = {}]
  /\ GoOn(t, "ok")
  /\ UNCHANGED <<blob, req, gone>>

\* The client's connection closes while the handler awaits a write: the handler
\* is dropped, and the write, which nothing cancels, will still be done.
DropHandler(t) ==
  /\ MayAbandon
  /\ pc[t] \in {"createCrate", "writeCrate", "createIndex", "writeIndex"}
  /\ t \notin gone
  /\ gone' = gone \cup {t}
  /\ UNCHANGED <<blob, index, pc, req, buf>>

\* A publish that stops where it is: a file operation returns an error (`?`),
\* the handler is dropped while no write is under way, or the process exits,
\* which also ends what dropped handlers left running.
Abandon(t) ==
  /\ MayAbandon
  /\ InFlight(t)
  /\ buf' = [buf EXCEPT ![t] = {}]
  /\ Goto(t, "abandoned")
  /\ UNCHANGED <<blob, index, req, gone>>

\* The write of a file stops half way.
TearCrate(t) ==
  /\ MayAbandon
  /\ pc[t] = "writeCrate"
  /\ blob' = [blob EXCEPT ![File(t)] = Torn]
  /\ Goto(t, "abandoned")
  /\ UNCHANGED <<index, req, buf, gone>>

TearIndex(t) ==
  /\ MayAbandon
  /\ pc[t] = "writeIndex"
  /\ \E c \in TornLines(index[Key(t)], Replaced(buf[t], req[t])) :
       index' = [index EXCEPT ![Key(t)] = c]
  /\ buf' = [buf EXCEPT ![t] = {}]
  /\ Goto(t, "abandoned")
  /\ UNCHANGED <<blob, req, gone>>

Step(t) ==
  \/ Begin(t) \/ Refuse(t)
  \/ CreateCrate(t) \/ WriteCrate(t)
  \/ ReadIndex(t) \/ CreateIndex(t) \/ WriteIndex(t)
  \/ DropHandler(t) \/ Abandon(t) \/ TearCrate(t) \/ TearIndex(t)

\* Every request has been answered or abandoned.
Finished ==
  /\ \A t \in Tasks : pc[t] \in {"ok", "refused", "abandoned"}
  /\ UNCHANGED vars

Next == (\E t \in Tasks : Step(t)) \/ Finished

Spec == Init /\ [][Next]_vars

-----------------------------------------------------------------------------
LookupRaw(k) == index[k]                               \* slip: no parsing
DownloadFolded(n, v) == blob[<<KeyOf[n], v>>]          \* slip: lower-cased

\* lookup(): the lines that parse.  download(): the bytes, or NoFile.
LookupLocal(k) == index[k] \ {Junk}
DownloadLocal(n, v) == blob[<<n, v>>]

-----------------------------------------------------------------------------
\* Every variable holds a value of its kind.
TypeOK ==
  /\ blob \in [Names \X Versions -> Content]
  /\ index \in [Keys -> SUBSET Line]
  /\ pc \in [Tasks -> States]
  /\ req \in [Tasks -> Request]
  /\ buf \in [Tasks -> SUBSET Line]
  /\ gone \in SUBSET Tasks

HasFile(e) == blob[<<e.name, e.vers>>] # NoFile

\* A version is never listed before its .crate file exists, whatever overlaps
\* or fails: publish() writes the file first and no code removes one.  The
\* lines a task holds count, as it will write them back.
StoredBeforeIndexed ==
  /\ \A k \in Keys : \A e \in index[k] \ {Junk} : HasFile(e)
  /\ \A t \in Tasks : \A e \in buf[t] \ {Junk} : HasFile(e)

\* Whatever overlaps or fails, an entry of an index file is the entry of a
\* request that passed the checks of publish(), was worked on to the end or
\* abandoned, and belongs in that file: no mixture, no refused request.
Provenance ==
  \A k \in Keys : \A e \in LookupLocal(k) :
    \E t \in Tasks : /\ e = EntryOf(req[t])
                    /\ k = Key(t)
                    /\ Admissible(req[t])
                    /\ pc[t] \in {"ok", "abandoned"}

Verifies(e) ==
  \E d \in Data : /\ e.cksum = Sha256(d)
                 /\ DownloadLocal(e.name, e.vers) = d

\* The .crate file of e is being replaced, or was when its publish stopped.
Unsettled(e) ==
  \E t \in Tasks : /\ File(t) = <<e.name, e.vers>>
                  /\ \/ InFlight(t) /\ pc[t] # "createCrate"
                     \/ pc[t] = "abandoned"

\* Two requests carry this name and version, and nothing keeps them apart.
Contested(f) ==
  ~Isolated /\ \E t, u \in Tasks : t # u /\ File(t) = f /\ File(u) = f

\* cargo refuses a crate whose bytes do not match the checksum in the index.
\* A listed version verifies, unless a publish of that version is under way or
\* was abandoned, or unless the version is published twice and publishes are not
\* kept apart: that an old write ends before the version is published again is
\* part of keeping them apart.
ListedVerifies ==
  \A k \in Keys : \A e \in LookupLocal(k) :
    Verifies(e) \/ Unsettled(e) \/ Contested(<<e.name, e.vers>>)

\* Does the index of a crate list a version of it?
Lists(k, v) == \E e \in LookupLocal(k) : e.vers = v

\* A publish that was answered with a checksum stays listed, as long as no
\* publish to the same index file is under way or was abandoned: the
\* read-modify-write of the file loses nothing.  Holds if publishes are kept
\* apart.
AckedListed ==
  \A t \in Tasks :
    /\ pc[t] = "ok"
    /\ \A u \in Tasks : Key(u) = Key(t) =>
         ~InFlight(u) /\ pc[u] # "abandoned"
    => Lists(Key(t), req[t].vers)

\* No version is listed with two different entries, so that a client knows which
\* file to expect, whatever was republished, dropped or cut short.  Holds if
\* publishes are kept apart, the writes that dropped handlers leave running
\* included: two that overlap may leave an old line beside a new one.
ListedOnce ==
  \A k \in Keys : \A e, f \in LookupLocal(k) : e.vers = f.vers => e = f

\* What the comments say of publish(): "store crate file and update index"
\* (src/src/registry/mod.rs:87), "Read existing, filter out same version,
\* append new" (src/src/registry/local.rs:170).  So a publish that returned Ok
\* is listed, whatever other publishes did meanwhile or since.
PublishUpdatesIndex ==
  \A t \in Tasks :
    /\ pc[t] = "ok"
    /\ \A u \in Tasks : Key(u) = Key(t) => ~InFlight(u)
    => Lists(Key(t), req[t].vers)

-----------------------------------------------------------------------------
\* The refinement of Catalog.  A listing is what the index file holds, except
\* while the file is cut to be rewritten: then it is what the writer has read.
\* A publish takes effect when its index is written (WriteIndex), and so does
\* one whose handler is gone: it has failed only then.
Rewriting(k) == {t \in Tasks : pc[t] = "writeIndex" /\ Key(t) = k}

Effective(k) ==
  {l \in Entry : IF Rewriting(k) = {} THEN l \in index[k]
                                     ELSE \E t \in Rewriting(k) : l \in buf[t]}

OutcomeOf(s) ==
  CASE s = "ok" -> "ok"
    [] s = "refused" -> "refused"
    [] s = "abandoned" -> "failed"
    [] OTHER -> "none"

Promise == INSTANCE Catalog WITH
  listing <- [k \in Keys |-> Effective(k)],
  outcome <- [t \in Tasks |-> OutcomeOf(pc[t])],
  request <- [t \in Tasks |-> [key |-> Key(t), entry |-> EntryOf(req[t])]],
  MayFail <- MayAbandon

\* If publishes to one index file are kept apart, the three file operations on
\* the index are one atomic update, and a publish that fails changes nothing or
\* leaves all or a part of what it would have written: it can lose entries of
\* its own crate but not change or invent any, and it does so once and for all.
CatalogSpec == Promise!Spec

=============================================================================
