------------------------------ MODULE LayerStack ------------------------------
(***************************************************************************)
(* A server started with a list of registries (src/src/registry/spec.rs):  *)
(* overlays nested so that the first registry is on top of the second, and *)
(* so on.  A publish goes from the bytes of its body to the top layer, and *)
(* from there to an upstream if that layer is a remote registry; a client  *)
(* session asks every layer for its entries of a crate, and later the      *)
(* layers for a file until one has it.                                     *)
(* A publish is one step of a local layer here, or a failure that leaves   *)
(* what its file operations had done: how they interleave with those of    *)
(* other requests is the business of LocalRegistry.                        *)
(***************************************************************************)
EXTENDS PublishBody, CrateName

CONSTANTS
  Workloads,  \* servers and the requests they meet: see Workload
  Want,       \* the name the session asks for
  Others,     \* the crates other people may publish to an upstream
  Versions,
  MayFail,    \* may a layer fail to answer?
  NoCrate

Kinds == {"local", "remote"}
Crate == [name : Name, vers : Versions, data : Seq(Byte)]

\* The arguments of the server: the registries, the top one first.
Options == [specs : Seq(Kinds) \ {<<>>}, readOnly : BOOLEAN, permissive : BOOLEAN]

\* The crates the registries have at the start, and the publish requests of which
\* one is made.
Workload ==
  [options : Options, had : Seq(SUBSET Crate), bodies : SUBSET Seq(Byte)]

SameVersion(c, d) == c.name = d.name /\ c.vers = d.vers

\* A registry has one file of a version.
ASSUME WorkloadAssumption ==
  /\ MayFail \in BOOLEAN
  /\ \A m \in Metadata : /\ m.name \in Name /\ m.vers \in Versions
                         /\ m.flawless \in BOOLEAN
  /\ \A w \in Workloads :
       /\ w.options \in Options
       /\ w.had \in Seq(SUBSET Crate) /\ Len(w.had) = Len(w.options.specs)
       /\ \A k \in DOMAIN w.had : \A c, d \in w.had[k] : SameVersion(c, d) => c = d
       /\ \A b \in w.bodies : b \in Seq(Byte)
  /\ Want \in Name /\ HasIndexPath(Want)
  /\ \A c \in Others : c \in Crate

VARIABLES
  options,  \* the arguments; fixed when the behaviour starts
  crates,   \* the .crate files of each layer
  index,    \* what each layer lists; the data of an entry stands for its checksum
  ppc,      \* where the publish stands
  body,     \* its body; fixed when the behaviour starts
  parsed,   \* its body parsed
  forward,  \* the body sent on to the upstream
  stored,   \* history: what the publish stored, and in which layer
  spc,      \* where the session stands
  at,       \* the layer it has come to
  heard,    \* the entries of each layer it has asked
  listing,  \* what is merged of them, in the end the answer to its lookup
  pick,     \* the entry the client chose
  got,      \* the file it was sent
  calm      \* history: no crate was published since the session began

publishVars == <<ppc, body, parsed, forward, stored>>
sessionVars == <<spc, at, heard, listing, pick, got>>
stackVars == <<options, crates, index, publishVars, sessionVars, calm>>

-----------------------------------------------------------------------------
\* build_registry: only the topmost registry takes publishes.
Layers(o) ==
  [k \in DOMAIN o.specs |->
     [kind |-> o.specs[k],
      writable |-> k = 1 /\ ~o.readOnly,
      validate |-> k = 1 /\ o.specs[k] = "local" /\ ~o.permissive]]

Depth == Len(options.specs)
Top == Layers(options)[1]

StackInit ==
  /\ \E w \in Workloads :
       options = w.options /\ crates = w.had /\ index = w.had /\ body \in w.bodies
  /\ ppc = "idle" /\ parsed = Malformed /\ forward = <<>>
  /\ stored = {}
  /\ spc = "lookup" /\ at = 1 /\ heard = <<>> /\ listing = {}
  /\ pick = NoCrate /\ got = NoCrate
  /\ calm = TRUE

\* A registry has one file, and one entry, of a version: a publish replaces it.
With(had, c) == {d \in had : ~SameVersion(c, d)} \cup {c}

\* A file is written; its version is listed.
Stores(k, c) ==
  /\ crates' = [crates EXCEPT ![k] = With(@, c)]
  /\ calm' = FALSE

Lists(k, c) == index' = [index EXCEPT ![k] = With(@, c)]

CrateOf(p) == [name |-> p.meta.name, vers |-> p.meta.vers, data |-> p.data]

\* What a publish did to the top layer: the file it wrote, and whether it listed it.
Stored(c, listed) == [layer |-> 1, crate |-> c, listed |-> listed]

-----------------------------------------------------------------------------
(* A publish request: handle_api_publish and internal_handle_publish. *)

Receive ==
  /\ ppc = "idle"
  /\ ppc' = "parse"
  /\ UNCHANGED <<options, crates, index, body, parsed, forward, stored, sessionVars, calm>>

ParseBody ==
  /\ ppc = "parse"
  /\ parsed' = Parse(body)
  /\ ppc' = IF Parse(body) = Malformed THEN "400" ELSE "publish"
  /\ UNCHANGED <<options, crates, index, body, forward, stored, sessionVars, calm>>

\* validate(): the rules on other fields than the name are one flag.
Accepts(m) == m.flawless /\ NameAccepted(m.name)

\* The early returns of publish().
Refusal ==
  CASE ~Top.writable -> "500"
    [] Top.writable /\ Top.validate /\ ~Accepts(parsed.meta) -> "400"
    [] OTHER -> "none"

Refuse ==
  /\ ppc = "publish"
  /\ Refusal # "none"
  /\ ppc' = Refusal
  /\ UNCHANGED <<options, crates, index, body, parsed, forward, stored, sessionVars, calm>>

PublishLocalUnchecked ==                         \* slip: checked afterwards
  /\ ppc = "publish" /\ Top.kind = "local" /\ Top.writable
  /\ HasIndexPath(parsed.meta.name)
  /\ Stores(1, CrateOf(parsed)) /\ Lists(1, CrateOf(parsed))
  /\ stored' = {Stored(CrateOf(parsed), TRUE)}
  /\ ppc' = IF Refusal # "none" THEN Refusal ELSE "200"
  /\ UNCHANGED <<options, body, parsed, forward, sessionVars>>

\* publish() of a local layer has come past its early returns.
AtLocal == ppc = "publish" /\ Top.kind = "local" /\ Refusal = "none"

PublishLocal ==
  /\ AtLocal
  /\ HasIndexPath(parsed.meta.name)
  /\ Stores(1, CrateOf(parsed)) /\ Lists(1, CrateOf(parsed))
  /\ stored' = {Stored(CrateOf(parsed), TRUE)}
  /\ ppc' = "200"
  /\ UNCHANGED <<options, body, parsed, forward, sessionVars>>

\* The file is written before the path of the index is made: a name that has
\* none panics the task of the request, which leaves the file and no answer.
PanicLocal ==
  /\ AtLocal
  /\ ~HasIndexPath(parsed.meta.name)
  /\ Stores(1, CrateOf(parsed))
  /\ stored' = {Stored(CrateOf(parsed), FALSE)}
  /\ ppc' = "dropped"
  /\ UNCHANGED <<options, index, body, parsed, forward, sessionVars>>

\* A file operation fails (`?`), which is answered 500: before the .crate file is
\* opened, or while it is written, so that only a part of the data is in it.
FailStoring ==
  /\ MayFail /\ AtLocal
  /\ \/ UNCHANGED <<crates, stored, calm>>
     \/ \E n \in 0..(Len(parsed.data) - 1) :
          LET part == [CrateOf(parsed) EXCEPT !.data = SubSeq(@, 1, n)]
          IN  Stores(1, part) /\ stored' = {Stored(part, FALSE)}
  /\ ppc' = "500"
  /\ UNCHANGED <<options, index, body, parsed, forward, sessionVars>>

\* Or later: the .crate file is complete, and the index as it was, or written in
\* part, which costs entries of the crate.
PartlyListed(c) ==
  {l \in SUBSET With(index[1], c) : {d \in index[1] : d.name # c.name} \subseteq l}

FailListing ==
  /\ MayFail /\ AtLocal
  /\ HasIndexPath(parsed.meta.name)
  /\ LET c == CrateOf(parsed)
     IN  /\ Stores(1, c)
         /\ \/ UNCHANGED index /\ stored' = {Stored(c, FALSE)}
            \/ \E l \in PartlyListed(c) :
                 /\ index' = [index EXCEPT ![1] = l]
                 /\ stored' = {Stored(c, c \in l)}
  /\ ppc' = "500"
  /\ UNCHANGED <<options, body, parsed, forward, sessionVars>>

\* A remote layer sends the request on, encoded anew.
Forward ==
  /\ ppc = "publish" /\ Top.kind = "remote"
  /\ Refusal = "none"
  /\ forward' = Encode(parsed.meta, parsed.data)
  /\ ppc' = "forwarded"
  /\ UNCHANGED <<options, crates, index, body, parsed, stored, sessionVars, calm>>

\* The upstream, a registry with rules of its own, takes the request or not.
UpstreamTakes ==
  /\ ppc = "forwarded"
  /\ Parse(forward) # Malformed
  /\ Stores(1, CrateOf(Parse(forward))) /\ Lists(1, CrateOf(Parse(forward)))
  /\ stored' = {Stored(CrateOf(Parse(forward)), TRUE)}
  /\ ppc' = "taken"
  /\ UNCHANGED <<options, body, parsed, forward, sessionVars>>

UpstreamRefuses ==
  /\ ppc = "forwarded"
  /\ ppc' = "500"
  /\ UNCHANGED <<options, crates, index, body, parsed, forward, stored, sessionVars, calm>>

\* Its answer arrives, or the connection fails before.
UpstreamAnswers ==
  /\ ppc = "taken"
  /\ \/ ppc' = "200"
     \/ MayFail /\ ppc' = "500"
  /\ UNCHANGED <<options, crates, index, body, parsed, forward, stored, sessionVars, calm>>

\* Other people publish to an upstream: a version it does not have yet.
OthersPublish(k) ==
  /\ options.specs[k] = "remote"
  /\ \E c \in Others :
       /\ \A d \in crates[k] : ~SameVersion(c, d)
       /\ Stores(k, c) /\ Lists(k, c)
  /\ UNCHANGED <<options, publishVars, sessionVars>>

-----------------------------------------------------------------------------
(* A session: a lookup, which asks every layer from the top down, and then a *)
(* download of a version it was shown.                                       *)

Entries(k) == {c \in index[k] : c.name = Want}

MergeKeeps(upper, lower) ==                      \* slip: wrong way round
  lower \cup {c \in upper : \A d \in lower : d.vers # c.vers}

\* OverlayRegistry::lookup, of two layers: an entry of the upper one replaces
\* what the lower one has of the version.
MergeTwo(upper, lower) ==
  upper \cup {c \in lower : \A d \in upper : d.vers # c.vers}

LookupPast ==                                    \* slip: one layer too many
  /\ spc = "lookup"
  /\ heard' = Append(heard, Entries(at))
  /\ at' = at + 1
  /\ UNCHANGED <<options, crates, index, publishVars, spc, listing, pick, got, calm>>

\* lookup() of the overlays, from the outermost to the innermost.
LookupLayer ==
  /\ spc = "lookup"
  /\ heard' = Append(heard, Entries(at))
  /\ IF at < Depth
       THEN at' = at + 1 /\ UNCHANGED <<spc, listing>>
       ELSE listing' = Entries(at) /\ spc' = "merge" /\ UNCHANGED at
  /\ UNCHANGED <<options, crates, index, publishVars, pick, got, calm>>

\* They return from the innermost to the outermost, each with what it merged.
MergeLayer ==
  /\ spc = "merge" /\ at > 1
  /\ listing' = MergeTwo(heard[at - 1], listing)
  /\ at' = at - 1
  /\ UNCHANGED <<options, crates, index, publishVars, spc, heard, pick, got, calm>>

AnswerLookup ==
  /\ spc = "merge" /\ at = 1
  /\ spc' = IF listing = {} THEN "404" ELSE "listed"
  /\ UNCHANGED <<options, crates, index, publishVars, at, heard, listing, pick, got, calm>>

Choose ==
  /\ spc = "listed"
  /\ pick' \in listing
  /\ at' = 1
  /\ spc' = "download"
  /\ UNCHANGED <<options, crates, index, publishVars, heard, listing, got, calm>>

Files(k) == {c \in crates[k] : SameVersion(c, pick)}

DownloadShort ==                                 \* slip: one layer too few
  /\ spc = "download"
  /\ IF Files(at) # {}
       THEN got' \in Files(at) /\ spc' = "served" /\ UNCHANGED at
       ELSE /\ IF at + 1 < Depth
                 THEN at' = at + 1 /\ UNCHANGED spc
                 ELSE spc' = "missing" /\ UNCHANGED at
            /\ UNCHANGED got
  /\ UNCHANGED <<options, crates, index, publishVars, heard, listing, pick, calm>>

\* OverlayRegistry::download: the next layer only if this one has no such file.
DownloadLayer ==
  /\ spc = "download"
  /\ IF Files(at) # {}
       THEN got' \in Files(at) /\ spc' = "served" /\ UNCHANGED at
       ELSE /\ IF at < Depth
                 THEN at' = at + 1 /\ UNCHANGED spc
                 ELSE spc' = "missing" /\ UNCHANGED at
            /\ UNCHANGED got
  /\ UNCHANGED <<options, crates, index, publishVars, heard, listing, pick, calm>>

LayerFailsOver ==                                \* slip: asks the next layer
  /\ MayFail
  /\ spc \in {"lookup", "download"}
  /\ IF spc = "download" /\ at < Depth
       THEN at' = at + 1 /\ UNCHANGED spc
       ELSE spc' = "502" /\ UNCHANGED at
  /\ UNCHANGED <<options, crates, index, publishVars, heard, listing, pick, got, calm>>

\* A layer answers with an error other than "not found", and that is the
\* answer to the client: no layer below is asked in its place.
LayerFails ==
  /\ MayFail
  /\ spc \in {"lookup", "download"}
  /\ spc' = "502"
  /\ UNCHANGED <<options, crates, index, publishVars, at, heard, listing, pick, got, calm>>

StackFinished ==
  /\ ppc \in {"200", "400", "500", "dropped"}
  /\ spc \in {"404", "502", "served", "missing"}
  /\ UNCHANGED stackVars

StackNext ==
  \/ Receive \/ ParseBody \/ Refuse
  \/ PublishLocal \/ PanicLocal \/ FailStoring \/ FailListing
  \/ Forward \/ UpstreamTakes \/ UpstreamRefuses \/ UpstreamAnswers
  \/ \E k \in 1..Depth : OthersPublish(k)
  \/ LookupLayer \/ MergeLayer \/ AnswerLookup \/ Choose \/ DownloadLayer \/ LayerFails
  \/ StackFinished

StackSpec == StackInit /\ [][StackNext]_stackVars

-----------------------------------------------------------------------------
StackTypeOK ==
  /\ options \in Options
  /\ crates \in Seq(SUBSET Crate) /\ Len(crates) = Depth
  /\ index \in Seq(SUBSET Crate) /\ Len(index) = Depth
  /\ ppc \in {"idle", "parse", "publish", "forwarded", "taken",
              "200", "400", "500", "dropped"}
  /\ body \in Seq(Byte) /\ forward \in Seq(Byte)
  /\ parsed = Malformed \/ parsed \in [meta : Metadata, data : Seq(Byte)]
  /\ stored \subseteq [layer : 1..Depth, crate : Crate, listed : BOOLEAN]
  /\ spc \in {"lookup", "merge", "404", "listed", "download", "served", "missing", "502"}
  /\ at \in 1..Depth
  /\ heard \in Seq(SUBSET Crate) /\ Len(heard) <= Depth
  /\ listing \subseteq Crate
  /\ pick \in Crate \cup {NoCrate} /\ got \in Crate \cup {NoCrate}
  /\ calm \in BOOLEAN

\* What a publish request means is decided by its bytes alone, in the way the
\* format says, whatever its length fields claim (parse_publish_body).
BodyParsedAsFramed == ppc = "parse" => ParsedAsFramed(body)

\* The answer to a publish tells what became of it.  With 200 the top layer has
\* the file that the body said (an upstream, that of what the proxy encoded anew)
\* and lists it; with 400 nothing was stored.  500 may be a publish that failed
\* half way: it can have stored the file or a part of it, but it has listed the
\* version only if the file is complete.  Nothing is ever stored below the top
\* layer, for another version, or at all if the server is read-only.
AnswerTellsTruth ==
  LET asked == CrateOf(parsed)
  IN  /\ ppc = "200" => /\ stored = {Stored(asked, TRUE)}
                        /\ asked \in crates[1] \cap index[1]
      /\ ppc = "400" => stored = {}
      /\ stored # {} => ~options.readOnly
      /\ \A s \in stored : /\ s.layer = 1
                           /\ SameVersion(s.crate, asked)
                           /\ s.listed => s.crate = asked

\* A name that validate() accepts has an index path: a publish that is validated
\* never panics half way (types.rs and index_path, written apart, agree).
ValidatedHasPath == ppc = "dropped" => options.permissive

\* A lookup answers with the entry of the first layer that has a version, for
\* every version that any layer has; not with what is left when one failed.
\* (If nothing was published since it began.)
FirstLayer(c) ==
  \E k \in 1..Depth :
    /\ c \in Entries(k)
    /\ \A j \in 1..(k - 1) : \A d \in Entries(j) : d.vers # c.vers

Merged == spc \in {"listed", "404", "download", "served"}

FirstLayerWins ==
  calm /\ Merged =>
    listing = {c \in UNION {Entries(k) : k \in 1..Depth} : FirstLayer(c)}

\* Of the listings s[i], s[i + 1] and so on: the entries whose version no earlier
\* one of these has.
FirstOf(s, i) ==
  {c \in UNION {s[k] : k \in i..Len(s)} :
     \E k \in i..Len(s) :
       c \in s[k] /\ \A j \in i..(k - 1) : \A d \in s[j] : d.vers # c.vers}

\* Whatever is published while a lookup goes from layer to layer, its answer is
\* made of what each layer said when it was asked: of every version that one of
\* them listed, the entry of the first, and one entry only.
MergedAsHeard ==
  Merged => /\ Len(heard) = Depth /\ listing = FirstOf(heard, 1)
            /\ \A c, d \in listing : c.vers = d.vers => c = d

\* The file a client is sent is the one of the entry it was shown, if nothing
\* was published in between: no failure makes a layer below answer instead.
ShownIsSent == calm /\ spc = "served" => got = pick

\* A version that was shown is never answered 404, whatever is published.
ShownIsFound == spc # "missing"

=============================================================================
