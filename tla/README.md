# A verification of cargo-overlay-registry

`cargo-overlay-registry` is a registry server for cargo. It keeps crates in a
directory, shows them on top of other registries such as crates.io, and lets
cargo reach it as a registry, as an HTTP proxy, or as the proxy of a command it
starts. This directory holds TLA+ modules translated from its source
(`src/src/*.rs`), TLC configurations that check them on small instances, and
proofs that TLAPS checks.

`PROJECT.json` has the exact correspondence: for every definition that models
code, the lines it stands for; for every run, its properties; for every
property, a plausible slip of the code that breaks it; and the hazards of this
code, each with the properties that watch it.

## 1. The system

| Component | State | Operations | Used by |
|---|---|---|---|
| Local registry, `registry/local.rs` | a directory: a `.crate` file per name and version, an index file per lower-cased name | `publish`, `lookup`, `download` | overlays, endpoints |
| Overlay, `registry/overlay.rs` | two registries | `lookup` merges, `download` falls through, `publish` goes to the top | endpoints, other overlays |
| Remote registry, `registry/remote.rs` | URLs of an upstream | `lookup`, `download`, `publish` (forwarded) over HTTP | overlays |
| Registry specifications and layer building, `registry/spec.rs` | none: options in, overlays and hosts to intercept out | `FromStr`, `Display`, `build_registry` | `main` |
| Metadata, `types.rs` | none | `validate` | local registry |
| Endpoints, `endpoints.rs`, `lib.rs` | none | two routers and two copies of the handlers: axum's, and one for what the proxy intercepts; `parse_publish_body` | the three ways in |
| Proxy, `http_proxy.rs` | a connection | `CONNECT` with interception or tunnel; requests for absolute URLs, answered or passed on | `main` |
| Launcher, `main.rs` | a process, a port, a certificate file, a command | export, bind, poll, run, exit | the user |
| Certificates, state, `tls.rs`, `state.rs` | keys, handles | generation | `main`, proxy |

How they interact: a connection is accepted by `run_server` in a task of its
own. A request comes to a registry in one of three ways. Sent to the server as a
registry, it goes through axum to a handler. Sent to it as a proxy for a URL, it
goes to `handle_internal_request` if the host is one of an upstream, and else to
that host. After a `CONNECT` to the host of an upstream, the connection is
intercepted and its requests go to `handle_internal_request` too; after one to
another host it is a tunnel. The handlers call one registry, a nest of overlays,
and every `await` in them lets other requests run. **Nothing is locked**: what
requests share is the directory.

What makes the system hard to get right:

* *Interleaving and atomicity.* A publish is five file operations with an await
  between any two; it reads the index and later rewrites it. Its writes are jobs
  on tokio's pool of blocking threads, which a client that hangs up does not stop.
* *Crashes and partial failure.* With a command to execute, the process exits
  the moment the command ends; a write may fail half way; a panic ends a task.
  What is left is the directory.
* *Stale state.* cargo resolves with one request and downloads with another.
* *Ordering.* Pipelined requests on an intercepted connection; two copies of a
  tunnel under `select!`; five parties at start-up.
* *Numbers.* Length fields in the body of a publish; slices of a name by bytes.
* *Things written twice.* Two routers decide what a path means, one by patterns
  and one by conditions on strings that are tried in order; two copies of each
  handler choose a status; a registry is printed by one function and parsed by
  another. A host too few in the list of those to intercept, and cargo talks past
  the overlay without a sign of it.

What makes each component correct, in one line each:

* Local registry: what an index lists is stored, and is what was published;
  what was acknowledged stays listed; as a whole, an atomic catalogue.
* Overlay and stack: the first layer that has a version wins; what was shown is
  served; a failure is reported and not papered over by another layer; a
  publish touches the top layer only, and its answer says what happened.
* Intercepted connection: a request is handled once, with its own body, and
  answered in order; nobody waits forever.
* Tunnel: the answer arrives, unless the client closed its side or a connection
  failed.
* Endpoints: a request means the same whichever way it comes, and 404 says that
  a crate does not exist, never that a registry failed.
* Proxy: what goes to a registry stays in the overlay, and the overlay performs
  no operation of its own for anybody else's host.
* Specifications: a registry is the same after it was printed and parsed.
* Launcher: a command takes no other overlay for its own unless it was told to
  share everything with it, and its status is reported.

## 2. Modules

| Module | What it is |
|---|---|
| `Catalog` | abstract specification: publishes are atomic |
| `LocalRegistry` | `registry/local.rs`, one action per file operation |
| `LocalRegistryProofs` | its theorems |
| `OverlayRegistry` | `LocalRegistry` as the top layer over an upstream, with client sessions |
| `OverlayRegistryProofs` | its theorems |
| `PublishBody` | `parse_publish_body` and the encoding with which a publish is forwarded |
| `PublishBodyProofs` | its theorems |
| `CrateName` | the rules on names, and the slices of `index_path` |
| `LayerStack` | any number of registries, a publish from its bytes on, a session; composes the two above |
| `LayerStackProofs` | its theorems |
| `Requests` | abstract specification: the requests of a connection are handled one at a time |
| `MitmConnection` | the loop that serves an intercepted connection, and its client |
| `Tunnel` | the two copies of a tunnel, and the two ends |
| `MitmProofs` | theorems of `MitmConnection` |
| `ServerSetup` | what the arguments of a server mean: registries, hosts to intercept |
| `Connect` | `handle_connect`: composes `MitmConnection` and `Tunnel` for a server of `ServerSetup` |
| `Routing` | the two routers, and what cargo asks for |
| `RoutingProofs` | its theorem |
| `Server` | an accepted connection: its first request, by any of the three ways in; composes `Connect` and `Routing` |
| `ServerProofs` | theorems of `Tunnel`, `ServerSetup`, `Connect` and `Server` |
| `Launcher` | the processes on one machine, from start to exit |
| `LauncherProofs` | its theorems |
| `MC...` | values of the constants for TLC |

Conventions. Actions have the names of what the code does. A definition whose
comment says *slip* is no part of a specification: it is a wrong form, such as
one may write by mistake, of the definition after it, and each property is
shown to fail when the slip is put in place of the right form.

### LocalRegistry

`blob` and `index` are the directory; `pc`, `req` and `buf` are the tasks of
publish requests, `gone` those whose handler was dropped. `Begin` and `Refuse` are
the early returns; `CreateCrate`, `WriteCrate`, `ReadIndex`, `CreateIndex`,
`WriteIndex` the file operations. `tokio::fs::write` is two operations, for it
opens and truncates the file before it writes: that window is where a reader finds
an empty index. `Abandon`, `TearCrate` and `TearIndex` are a publish that stops:
exit of the process, a panic, an error of a file operation, a handler that is
dropped where no write is under way. Where one is, the client that hangs up leaves
it running (`DropHandler`): the task counts as in flight until its write has
landed, whenever that is, and ends there (`GoOn`). Writes land at offset zero, so
that two overlapping ones may leave a mixture (`Landed`, `LandedCrate`): a line
may be cut in two, and lines that do not parse are kept by the next publish (the
filter of `publish` keeps them) and skipped by `lookup`.

An entry is name, version and checksum: the other fields are copied and take
part in no decision. Index lines are a set: their order matters only to which of
two equal versions wins, and `Merges` leaves that open.

Two constants describe the surroundings. `MayAbandon` says that publishes may
stop and handlers be dropped. `Isolated` says that no publish to an index file
begins while another, or a write that one left behind, is under way. The server
does nothing for it. Clients that publish one after another ensure it as long as
they wait for their answers; after a hang-up they cannot, for nothing tells when
the write has ended, and `Isolated` is then an assumption on timing.

Assumptions: a file is read in one step, and written in one step once open;
sha256 has no collisions; the file name `{name}-{version}.crate` is injective (it
is for versions that are semantic versions); a missing index file is an empty
one; index files are valid UTF-8.

### OverlayRegistry

Adds an upstream, fixed and sound but possibly failing, and sessions that ask
the top layer, then the upstream, merge, choose, and download. `calm` and
`before` are history: whether a publish disturbed the session, and which
publishes had been acknowledged before it.

### LayerStack, PublishBody, CrateName

`OverlayRegistry` has two layers and all the detail of the files; `LayerStack`
has any number of layers, and what the other leaves out: `build_registry`, the
bytes of a request, validation, forwarding, the status codes, layers that fail,
other people who publish to an upstream. A publish to a local layer is one step
(`PublishLocal`), or a failure with what its file operations had done by then:
the file or a part of it (`FailStoring`), and beyond that a part of the index
(`FailListing`), both answered 500, or the file and a panic (`PanicLocal`).
`crates` are the files of a layer, `index` what it lists.
`PublishBody` keeps the little-endian arithmetic with narrower numbers (a byte
has `Base` values, a length two bytes); what a JSON text means is a constant
function. `ParsedAsFramed` is an independent definition of what a body says.
`CrateName` keeps of a byte the kind of character it is, or is a part of, which is
what the rules and the slices tell apart; names are the byte sequences that are
valid UTF-8.
A lookup goes down the overlays (`LookupLayer`) and comes back up (`MergeLayer`),
one layer at a time, and a publish may come in between any two steps.
What it answers then was never the content of the stack at one moment;
`MergedAsHeard` says what it is nevertheless: what each layer had when it was
asked, the first one winning.
Assumptions: metadata serialises to a text a length field can express, and
parses back; a character is as wide in lower case (the few that are not are
refused by validation as any other character outside of ASCII).

### MitmConnection, Tunnel, Connect

The stream is a queue of lines and body units. The client follows a script of
requests it may pipeline, waits for `100 Continue` or loses patience, and may
hang up between two tokens or in the middle of a line. The loop is the code's:
request line, headers, `100 Continue`, body, handling, answer. What the end of
the stream does in each place (`ReadEnd`) is the delicate part: within headers
it counts as their end.
`Requests` is what the loop promises, whatever is under way on the wire: requests
are handled one at a time and in order, each with its own body, and the next one
when the one before was answered. `RequestsSpec` says that the loop implements it;
its `answered` are the answers written, read or not.
`Tunnel` counts units sent, read and written per direction; `CopyEnds` is one
copy finishing, which drops the other where it stands. That a copy ends only when
it has written what it read is tokio's doing, and assumed.
Assumptions: the client declares a body with `content-length`, and its header
lines are UTF-8, as cargo's are (`http_proxy.rs:201` takes a line that is not, or a
reset, for the end of the headers); handling a request ends, and not in a panic
(`local.rs:58`, on a permissive server).

### ServerSetup, Routing, Server

`ServerSetup` has `RegistrySpec` with its two conversions, and the part of
`build_registry` that gathers hosts (the nesting of the overlays is in
`LayerStack`). A host has one spelling: `CONNECT` compares hosts with their case
(`http_proxy.rs:63-77`) to those of the registries, which are in lower case, and
so are the ones cargo sends. A text is the sequence of its pieces between commas,
for the comma is what `FromStr` cuts at: an API never has one, an index may.

`Routing` keeps of a path the sequence of its segments, and of a segment how wide
it is, for the second router tells a path of the index by where its slashes are.
`DirectRoute` follows axum's rules of precedence, `InternalGet` the conditions of
`handle_internal_request` in their order, the query included, which is part of the
string it looks at. `TargetOf` is the request that cargo, or a `RemoteRegistry`,
makes for an operation. Assumptions (`WordAssumption` and the comment before it):
no segment is empty, none but `crates` begins with "crates", paths are ASCII, and
"download" is not a version.

`Server` begins with the first bytes of a connection: `Dispatch` is `serve_stream`
with `is_proxy_request` and `handle_proxy_request`, `RouteDirect` and `Forward`
are the two ways to a handler, `Operate`, `Search` and `Relay` the handlers,
`ViaConnect` a step of `Connect`. The request is chosen at the start and comes in
one of the three ways (`door`). What a registry does with an operation is one of
four outcomes, `done`, `absent`, `rejected` and `failed`, and `StatusOf` is how
both copies of the handlers answer them; the registries themselves are
`LayerStack`. A client that hangs up on an exchange has its handler dropped where
it stands (`ClientLeaves`, hyper's doing): what that leaves of a publish is
`DropHandler` and `Abandon` in `LocalRegistry`. The handler of an intercepted
connection is in a task of its own and is not dropped.

### Launcher

The main task and the server task of each process, the port, the certificate
file and the command. Processes share ports and files as their arguments say
(`Port`, `CaCertOut`, and `CaFile`, which is the default without the option).
`MisledOnlyBySharing` says what sharing costs: the certificate is what stands
between two processes on one port, and only one that shares the file as well is
taken for a command's own.
The main task blocks in `Command::status`; that the server still runs is due to
the workers of the multi-threaded runtime, and `Exits` depends on it.
Assumption: the certificate file is written in one step.

## 3. Runs

| Run | Expected | Shows |
|---|---|---|
| `local_any` | pass | three publishes of any kind, overlapping and failing: what is listed is stored (`StoredBeforeIndexed`), comes from an accepted request for that index (`Provenance`), and verifies unless its own version is contested or unsettled (`ListedVerifies`) |
| `local_isolated` | pass | with publishes kept apart, and the writes that dropped handlers leave running: refinement of `Catalog` (`CatalogSpec`), in which a publish that fails leaves the listing as it was, or a part of what it would have made of it; a version has one line (`ListedOnce`); `AckedListed`, `ListedVerifies` |
| `local_lost` | violation | two overlapping publishes: one acknowledged version is not listed |
| `local_wiped` | violation | a publish that stops after truncating: acknowledged versions are not listed |
| `overlay_any` | pass | what was shown is served, and local versions need no upstream, in any interleaving |
| `overlay_isolated` | pass | an undisturbed session sees the top layer win and gets matching bytes |
| `overlay_shadow` | violation | a lookup within the truncation window shows the upstream's entry |
| `layers` | pass | parsing, answers to publishes that succeed, are refused or fail half way (`AnswerTellsTruth`), validation and paths, layer order, failures that are not masked, and what a lookup answers while others publish (`MergedAsHeard`) |
| `connect` | pass | servers from their arguments on: both routers take a request of cargo's for what cargo wants (`RightOperation`), 404 and 200 are true (`AnswerIsTrue`), registry traffic stays in (`RegistryTrafficStaysIn`) and nothing is done for the hosts of others (`ActsForRegistriesOnly`), registries survive printing (`SpecsSurvive`); framing and order on intercepted connections, one request at a time (`RequestsSpec`), and no two who wait for each other (`NeverStuck`); tunnels; every request is answered and every tunnel delivers (`AllAnswered`, `AnswerArrives`) |
| `tunnel_cut` | violation | a half-closed tunnel loses the answer |
| `launcher` | pass | what a shared port or file can lead a command to (`MisledOnlyBySharing`), readiness, exit status, and that every process exits |
| `launcher_taken` | violation | a foreign listener passes for the server |

The two properties of `local_any` and `local_isolated` differ in strength:
with `Isolated` the exception for contested versions is empty. The runs of local
registries and overlays use the symmetry of tasks: none is named anywhere, and
their requests are chosen freely.

### Findings

1. **Overlapping publishes lose an acknowledged version** (`local.rs:171`,
   `local_lost`). Two publishes of one crate read the index before either writes
   it. They need not be of the same version, nor of two clients: a publish may
   overlap the write that an earlier one left behind when its client hung up.
2. **A publish that stops wipes the index** (`local.rs:190`, `local_wiped`). It is
   truncated in place. `main.rs:211` makes stopping likely: the process exits
   when the command does.
3. **A lookup during a publish shows the upstream's entry** (`local.rs:190`,
   `overlay_shadow`), against "top layers win conflicts".
4. **A half-closed tunnel loses the answer** (`http_proxy.rs:298`, `tunnel_cut`).
5. **The readiness poll believes any listener** (`main.rs:194`,
   `launcher_taken`).

A rename of a temporary file into place would close 2 and 3, a lock per index
file 1.

### Observations

Met while reading, and no findings, since nothing in the repository claims
otherwise or no property here is about them:

* `tokio::fs::write` goes on when the handler that awaits it is dropped
  (`local.rs:123`, `190`). A client that hangs up and publishes again may see its
  old write land after the new publish was acknowledged: an old line of another
  version comes back beside that version's new file, or two lines of one version
  stay in the index. `local_any` reaches such states; `Isolated` assumes them away.
* An I/O error after the `.crate` file was written (`local.rs:165-190`) is
  answered 500 (`endpoints.rs:290-297`) and leaves the file, which a download then
  gets in place of the upstream's.
* A forwarded request that is nobody's registry's is answered 405 by the proxy
  itself if its method is `PATCH`, `OPTIONS` or another (`http_proxy.rs:401-406`),
  and loses its body with `GET`, `DELETE` and `HEAD` (`396-400`): not quite
  "passes through unmodified" (`src/README.md:183`). Of this sentence only the
  tunnel is a finding here.
* A permissive server panics on a name that `index_path` cannot cut, after the
  `.crate` file was written (`ValidatedHasPath` shows that validation excludes it).
* `endpoints.rs:457` counts characters and then cuts bytes: a path that is not
  ASCII may end the task of an intercepted connection.
* The base URL is `https://crates.io` by default (`cli.rs:21`), so the
  `config.json` of a server without the proxy points cargo there, although the
  comment at `endpoints.rs:128` says that it points to the proxy.
* `HEAD` is answered by axum and is 404 on the way through the proxy; a publish of
  more than 2 MB is 413 for axum and is taken on the way through the proxy.
* A search goes to crates.io when no remote registry is configured.
* The files of crates.io are intercepted for any host whose name contains
  `crates.io`, so for a mirror that calls itself that, too.
* With `--tls-cert`, the command is told to trust that file and no other
  (`main.rs:111`), while the certificates of intercepted hosts are signed by the
  proxy's own CA.
* `reqwest` is used without a timeout: a registry that does not answer holds
  its request up for as long as it likes. The liveness properties are about
  connections, and take the handling of a request as something that ends.

### Bounds, and why they are enough

* *Local runs*: three publishes; two or three names, of which two are spellings
  of one crate; two versions; two contents. Lost updates need two writers, a
  resurrected entry needs a third; two spellings share an index file but not
  their `.crate` files; two contents suffice to tell a match from a mismatch.
* *Overlay runs*: two publishes and one session, since sessions do not
  write and so do not see each other.
* *Layers*: one to three registries of both kinds (three is the least at which
  nesting order matters), each with one of three contents; for one registry, all
  names of up to two bytes of five kinds, those of three that pass the other rules
  and some of four and five, whole, and several hundred bodies that are cut, too
  long or claim wrong lengths. One publish and one session. `NameLimit` is 4 for
  64: the longest name may be cut at 2 and at 4 as any longer one.
* *Connect*: four servers (the default registries; a local one over two remote
  ones, an index of which has a comma and no host; crates.io's API with another
  index; no proxy) and seven hosts, some below others. What cargo
  asks for is asked of every server, at every host, by every way in, for crates
  named `1`, `v1`, `new`, `crates` and `download`: the words of the server's own
  paths, and one of each length that `index_path` tells apart, are the names that
  routers may confuse. Nine requests that cargo does not make are added.
  One intercepted client is followed through all scripts of two requests of up to
  two body units with any of the three headers that matter, both under way at
  once: corrupting one request by another needs two. Two units each way in a
  tunnel.
* *Launcher*: three processes, the second on the port of the first, the third with
  its certificate file, so that each pair shares one thing or nothing. `MaxPolls`
  is 1 for 50: a poll differs from the next only in when it is made, which is
  open. `MaxAsks` is 1: the request may be made at any time.

### Fairness

The registry modules assume none: publishes may be abandoned, and nothing in
them must happen. `Connect` assumes that the runtime polls a task whose stream is
ready, that `select!` polls both copies, and that the ends send what they have and
read what they are sent. It does *not* assume that a client loses patience, hangs
up, or that an end closes. `Launcher` assumes that tasks run (the runtime has
workers besides the blocked main thread), that connections are answered and
that a command that need not wait ends. It does not assume that a command makes
any request, or that a server without a command is stopped.

## 4. Proofs

All theorems hold for every value of the constants that satisfies the named
`ASSUME`s, that is for any number of tasks, names, versions and contents.

"Runs down" below means that every step takes something from a count that is a
natural number (`[][Work' < Work]_vars` and `[](Work \in Nat)`): whatever happens,
and in whichever order, it is over after that many steps. With a theorem that
says what holds where nothing more can happen, this is all of a liveness property
but the fairness: that a step which stays possible is taken.

`LocalRegistryProofs`:

* `TypeCorrect`.
* `ListedAreStored`, i.e. `[]StoredBeforeIndexed`. Not inductive alone: a task may
  hold an entry in `buf`, or be about to add one, whose file must exist already.
  `StoredInv` adds that (`CrateCreated` for tasks past `CreateCrate`), and that no
  file ever disappears makes it stable.
* `EntriesHaveSources`, i.e. `[]Provenance`: `ProvenanceInv` says of buffers what
  the property says of index files, and that a task in flight is admissible.
* `ListedVersionsVerify`, i.e. `[]ListedVerifies`. The interesting one: under
  `Isolated`, `Apart` (no two conflicting publishes are in flight) makes a buffer
  equal to its index; without, a version that only one request publishes has only
  one content. A dropped handler's write keeps its task in flight, so that the
  argument takes it in without more. `Good` is what survives of an entry while its
  own publish is at work.
* `AcknowledgedAreListed`, i.e. `[]AckedListed`, and `FilesImplementCatalog`, the
  refinement: `Effective` tells which publishes the catalogue has performed; the
  catalogue's publish is `WriteIndex`, every other action a stutter or an
  abandonment. A publish whose handler is gone fails when its write lands
  (`GoneInv`: there is none unless publishes may stop), and not when it was dropped.
* `VersionsAreListedOnce`, i.e. `[]ListedOnce`. Not inductive: while the file is
  cut, the listing is in the buffer of the task that rewrites it. `OnceInv` says it
  of `Effective`, which is one or the other, so that it survives the truncation, a
  torn write, a late one, and a publish that is abandoned between the two.

`OverlayRegistryProofs`:

* `OverlayTypeCorrect`, `ListedVersionsAreServed`, `LocalVersionsNeedNoUpstream`.
  `SessionInv` relates what a session has chosen to the layer that listed it, and
  uses `StoredInv` of the layer below.
* `OverlayImplementsLocal`, `OverlaySpec => Spec`: each step of the overlay is a
  step or a stutter of `LocalRegistry`, so that its theorems hold below an
  overlay.
* `CalmDownloadsVerify` and `CalmLookupsTopWins`, both under `Isolated`. The
  argument is that a crate with no publish in flight is settled: its entries
  verify, its acknowledged versions are listed, and so is every version that has a
  file (`SettledListing`, from the theorems on `LocalRegistry` and
  `FilesHaveSources`). `CalmSessions` says of a session that nothing disturbed
  that what it heard from the top layer is still what the crate has.
* `AnswersListOnce`, without `Isolated`: overlapping publishes may leave two lines
  of a version in the index file (`overlay_any` reaches such states), and the merge
  shows the client one of them.
* `LookupsReadCatalog`, under `Isolated`: the directory below the overlay is the
  catalogue, and a lookup reads the catalogue's listing as it is at that instant,
  or a file that a publish has cut, and nothing in between. `overlay_shadow` is
  what the second case does.

`PublishBodyProofs`, from `TextAssumption` alone:

* `RoundTrip`: `Parse` after `Encode` is the identity for files of less than
  `Base * Base` bytes. Two parts: a number of two digits is written in full
  (`FieldValue`), and each of the four pieces of a body is where the lengths of
  the others put it (`FourPieces`).
* `ParsesFrames`: `ParsedAsFramed(b)` for every body `b`. The delicate case is a
  length too great for its field, which the field cuts off; what it then holds is
  less (`FieldHolds`), so that a frame read with it is still inside of the body.

`LayerStackProofs`: all properties of `LayerStack`, for stacks of any height. The
inductive invariant `StackInv` has these parts:

* `StackTypeOK`.
* `PublishInv`: what is stored and what the proxy holds at each stage of a
  publish, failed ones included: what is stored is of the version asked for, in
  the top layer, and listed only if it is whole. What `Parse` reads can be encoded
  again (`ParseReads`), hence by `RoundTrip` the upstream gets what the client
  sent. With `TopInv`, that what was acknowledged is still there: `AnswersTrue`.
  That `NameAccepted` implies `HasIndexPath` (`AcceptedHasPath`) gives
  `PathsExist`.
* `ListedHeld`: of a version that a layer lists it has a file, if not the one
  listed.
* `SessionInv`: what the session heard, merged or chose is held by a layer that
  the download has not passed yet. Publishes replace files and remove none
  (`FilesStay`), hence `FoundIfShown`.
* `OneFile`: a layer has one file, and one entry, of a version.
* `HeardInv`, for `MergesWhatIsHeard`: a layer lists a version once, and what is
  merged so far is what the first of the layers from `at` down said (`FirstOf`; a
  merge takes in one more, `MergeOne`), whatever was published since.
* `CalmInv`: while nothing was published, a layer lists what it has, and what the
  session heard is what the layers have. With `HeardInv` and `OneFile`, the first
  layer that has the file is the one of the entry: `FirstWins`, `SentAsShown`.

`RoutingProofs`, from `WordAssumption`: `RoutersAgree`, that both routers send
`TargetOf(w)` to `w`, for all names and versions, among them those that are words
of the server's paths. Each condition of the second router must be false of the
requests of the later ones; the lengths of paths and the widths of the first two
segments decide that, except below `/api/v1/crates`.

`MitmProofs`: `MitmHandledWhole` and `MitmAnswersMatch`, for scripts, bodies and
buffers of any length. What makes this hard is that a loop in the middle of a
request and a client in the middle of a later one are related only by the bytes
between them. `FollowsStream` says that the wire is a *way* through the script:
a sequence of positions, the first where the loop reads, the last where the
client sends, each token linking two neighbours (`Way`, `Link`). A send makes the
way longer, a read shorter, and a client that leaves makes it end in a cut
(`CutIsLast`). `HandledInOrder` and `AnswersFollow` say that what was handled and
answered are prefixes of the script, and `Reads` that what the loop has in hand
is what the client had sent of that request. These are `StreamInv`. From it:

* `MitmNeverStuck`. `NeverStuck` needs to know why a side waits, so `MitmInv` adds
  three facts: the loop is never ahead of the client (`SentUpTo`); where it reads
  a body it has told the client to send it, if the client asked (`ContinueTold`);
  and when it is over while the client is there, it has answered a request that
  asked to close, and all before (`ClosedForCause`). A wait for each other then
  contradicts where the loop stands on the way.
* `MitmImplementsRequests`, the refinement of `Requests`. The two steps to map are
  `Handle` and `Respond`. The former needs that all before were answered
  (`AnswersFollow`) and had their whole bodies: one handled without its body is
  the last, since its client left in the middle of it.
* `MitmRunsDown`. `Work` counts the tokens not sent, those on the wire, what the
  loop may do without another one, the replies not read, and a client that may
  leave, each with a weight that pays for what it causes.

`ServerProofs`:

* `SpecRoundTrip`: for every specification that the parser returns.
* `TunnelLeavesNothing`: where nothing is left to be sent, read or written, the
  answer has arrived, unless the client closed its side or a connection failed
  (`TunnelInv`, on the counts of what was sent, read and written).
  `TunnelRunsDown`: and a tunnel gets there.
* The rest for any `Visits`, that is any arguments and any requests:
  `ServerTypes`, `ServerHandles`, `ServerLeavesNothing`, `ServerRightOperation`,
  `ServerAnswerIsTrue`, `ServerTrafficStaysIn`, `ServerActsForRegistries`,
  `ServerSpecsSurvive`, and `ConnectTypes`, `ServerNeverStuck`,
  `ServerImplementsRequests` of the connections it has. `ServerInv` is
  `ConnectInv`, which takes in `MitmInv` and `TunnelInv` and ties the route of a
  connection to its host, and `ExchangeInv`, which says what the operation, the
  outcome and the status are at each place of an exchange; what an operation is
  comes from `RoutersAgree`. That a server does to a connection only what
  `Connect` does (`ServerConnects`), and to an intercepted one only what
  `MitmConnection` does (`ConnectSteps`), is what lets the refinement of
  `Requests` be used again.
* `ServerRunsDown`: a visit, by any way in, runs down.

`LauncherProofs`: `LauncherSharingTells`, `LauncherReady` and `LauncherSuccess`, for
any number of processes, ports, files and polls. `LauncherInv` adds that whoever
holds a port has bound it (`HoldersListen`), that whoever is asked had the port
(`AskedAtPort`) and that a file has the certificate of one whose file it is
(`FileKept`), whatever the order in which processes write and bind, that a port of
its own stays a process's own (`PortKept`), and what has happened by
the time a command runs (`CommandsRun`). `LauncherRunsDown`: each process runs
down, by what its main task, its server, its command and the command's requests
(`MaxAsks`, any number) have left to do. `LauncherNeverBlocked`: a process with a
command never comes to a place where all of it can only wait.

So every invariant that a passing run checks is also a theorem, and so are both
refinements. **Only model-checked** are the three liveness properties
(`AllAnswered`, `AnswerArrives`, `Exits`), since the prover has no rule for
fairness or `ENABLED`. Of `AllAnswered` the theorems have the rest: a connection
runs down (`MitmRunsDown`), and a loop and a client that both wait have every
request settled (`MitmNeverStuck`). Of `AnswerArrives` likewise, by
`TunnelRunsDown` and `TunnelLeavesNothing`, and of `Exits`, by `LauncherRunsDown`
and `LauncherNeverBlocked`.

## 5. Not modelled

* Certificates and the shared state (`tls.rs`, `state.rs`): keys are made by a
  library, and the state does not change after the start. Whether a client takes a
  certificate is a choice of `Handshake`.
* TLS, HTTP parsing and framing by hyper, axum and reqwest, which headers are
  copied to a forwarded request, the texts of answers and of `config.json`.
* `CARGO_*` variables apart from where they point, and temporary directories
  (`process::exit` skips their removal).
* Dependencies, features and other fields of entries; the rules on these in
  `validate` are one flag.
* Bodies without `content-length` on intercepted connections (cargo sends none):
  the loop would read such a body as the next request. An answer
  there is one message, whatever its length: that one to `HEAD` must have no body
  is beyond the model.

## 6. Plan

Written in this order: the local registry and its catalogue; the overlay; the
connection; the launcher; the stack; the routers, the arguments and the server
that puts them in front of connections; proofs of every invariant; the
refinements, and the halves of the liveness properties that are not about
fairness. What is left worth doing:

1. Publishes of `LayerStack` as those of `Catalog`: the link from the stack, where
   one is a step, to `LocalRegistry`, where it is many.
2. That publishes and sessions run down as connections do, whatever is abandoned.
3. Several sessions of one proxied connection over a stack: a publish retried on a
   new connection after the first was lost.
