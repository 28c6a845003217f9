-------------------------- MODULE OverlayRegistry --------------------------
(***************************************************************************)
(* A LocalRegistry on top of an upstream registry                          *)
(* (src/src/registry/overlay.rs over local.rs and remote.rs), used by      *)
(* clients that publish (the tasks of LocalRegistry) and by clients that   *)
(* resolve and then download, as cargo does: one request for the index of  *)
(* a crate, and later one for the .crate file of a version it lists.       *)
(* Every await in the overlay is a point where other tasks run, so a       *)
(* request is a step per layer.                                            *)
(***************************************************************************)
EXTENDS LocalRegistry

CONSTANTS
  Readers,          \* client sessions that resolve and download, once each
  UpstreamIndex,    \* the upstream's entries, [Keys -> SUBSET Entry]
  UpstreamBlob,     \* its files, [Names \X Versions -> Data \cup {NoFile}]
  UpstreamMayFail,  \* may a request to the upstream fail?
  NoEntry

\* The upstream is not part of the repository: assumed fixed and sound.
ASSUME UpstreamAssumption ==
  /\ UpstreamIndex \in [Keys -> SUBSET Entry]
  /\ UpstreamBlob \in [Names \X Versions -> Data \cup {NoFile}]
  /\ \A k \in Keys : \A e, f \in UpstreamIndex[k] : e.vers = f.vers => e = f
  /\ \A k \in Keys : \A e \in UpstreamIndex[k] :
       UpstreamBlob[<<e.name, e.vers>>] \in {d \in Data : Sha256(d) = e.cksum}
  /\ UpstreamMayFail \in BOOLEAN
  /\ NoEntry \notin Entry

VARIABLES
  rpc,     \* where a session stands
  want,    \* the crate name it resolves; fixed when the behaviour starts
  top,     \* what lookup() of the top layer returned
  ans,     \* the merged listing, as sent to the client
  pick,    \* the entry the client chose
  got,     \* the bytes it was sent for it
  before,  \* history: the publishes acknowledged when the lookup began
  calm     \* history: no publish was at work on the crate, or abandoned, since

readerVars == <<rpc, want, top, ans, pick, got, before, calm>>
overlayVars == <<vars, readerVars>>

ReaderStates == {"start", "lookupBottom", "listed", "absent", "downloadTop",
                 "downloadBottom", "served", "missing", "failed"}

\* No publish to the index file is at work, and none was abandoned.
Settled(k) == \A t \in Tasks : Key(t) = k => pc[t] \in {"idle", "ok", "refused"}

OverlayInit ==
  /\ Init
  /\ rpc = [r \in Readers |-> "start"]
  /\ want \in [Readers -> Names]
  /\ top = [r \in Readers |-> {}]
  /\ ans = [r \in Readers |-> {}]
  /\ pick = [r \in Readers |-> NoEntry]
  /\ got = [r \in Readers |-> NoFile]
  /\ before = [r \in Readers |-> {}]
  /\ calm = [r \in Readers |-> FALSE]

-----------------------------------------------------------------------------
\* A step of publish() of the top layer; the bottom one gets no publish.
PublishStep(t) ==
  /\ Step(t)
  /\ UNCHANGED <<rpc, want, top, ans, pick, got, before>>
  /\ calm' = [r \in Readers |-> calm[r] /\ Settled(KeyOf[want[r]])']

MergesBottomWins(upper, lower) ==                      \* slip: wrong way round
  {lower \cup {e \in upper : \A f \in lower : f.vers # e.vers}}
MergesBoth(upper, lower) == {upper \cup lower}         \* slip: no replacing

\* The merge of two listings, entry by entry of the top one: it replaces what
\* the listing has of the same version.  Of two top entries of one version the
\* later stays (which one that is depends on their order, left open here).
Merges(upper, lower) ==
  {won \cup {e \in lower : \A f \in upper : f.vers # e.vers} :
     won \in {w \in SUBSET upper :
                /\ \A f \in upper : \E e \in w : e.vers = f.vers
                /\ \A e, f \in w : e.vers = f.vers => e = f}}

\* What the handlers answer: 404 for an empty listing or a crate no layer has.
LookupStatus(m) == IF m = {} THEN "absent" ELSE "listed"
DownloadStatus(c) == IF c = NoFile THEN "missing" ELSE "served"

Proceed(r, s) == rpc' = [rpc EXCEPT ![r] = s]

\* lookup(): first the top layer ...
LookupTop(r) ==
  /\ rpc[r] = "start"
  /\ top' = [top EXCEPT ![r] = LookupLocal(KeyOf[want[r]])]
  /\ before' = [before EXCEPT ![r] =
                  {t \in Tasks : pc[t] = "ok" /\ Key(t) = KeyOf[want[r]]}]
  /\ calm' = [calm EXCEPT ![r] = Settled(KeyOf[want[r]])]
  /\ Proceed(r, "lookupBottom")
  /\ UNCHANGED <<vars, want, ans, pick, got>>

\* ... then the upstream, and the merge of the two is the answer.
LookupBottom(r) ==
  /\ rpc[r] = "lookupBottom"
  /\ \E m \in Merges(top[r], UpstreamIndex[KeyOf[want[r]]]) :
       /\ ans' = [ans EXCEPT ![r] = m]
       /\ Proceed(r, LookupStatus(m))
  /\ UNCHANGED <<vars, want, top, pick, got, before, calm>>

\* The client chooses a version of the crate under the name it asked for.
Choose(r) ==
  /\ rpc[r] = "listed"
  /\ \E e \in ans[r] : e.name = want[r] /\ pick' = [pick EXCEPT ![r] = e]
  /\ Proceed(r, "downloadTop")
  /\ UNCHANGED <<vars, want, top, ans, got, before, calm>>

\* download(): the top layer, and only if it has no such file the upstream.
DownloadTop(r) ==
  /\ rpc[r] = "downloadTop"
  /\ LET c == DownloadLocal(pick[r].name, pick[r].vers)
     IN  /\ got' = [got EXCEPT ![r] = c]
         /\ Proceed(r, IF c = NoFile THEN "downloadBottom" ELSE "served")
  /\ UNCHANGED <<vars, want, top, ans, pick, before, calm>>

DownloadBottom(r) ==
  /\ rpc[r] = "downloadBottom"
  /\ LET c == UpstreamBlob[<<pick[r].name, pick[r].vers>>]
     IN  /\ got' = [got EXCEPT ![r] = c]
         /\ Proceed(r, DownloadStatus(c))
  /\ UNCHANGED <<vars, want, top, ans, pick, before, calm>>

\* A request to the upstream fails, and the answer is 502.
UpstreamFails(r) ==
  /\ UpstreamMayFail
  /\ rpc[r] \in {"lookupBottom", "downloadBottom"}
  /\ Proceed(r, "failed")
  /\ UNCHANGED <<vars, want, top, ans, pick, got, before, calm>>

ReaderStep(r) ==
  \/ LookupTop(r) \/ LookupBottom(r) \/ Choose(r)
  \/ DownloadTop(r) \/ DownloadBottom(r) \/ UpstreamFails(r)

\* Every request is answered; a client may find no entry under its spelling.
OverlayFinished ==
  /\ \A t \in Tasks : pc[t] \in {"ok", "refused", "abandoned"}
  /\ \A r \in Readers : rpc[r] \in {"listed", "absent", "served", "missing", "failed"}
  /\ UNCHANGED overlayVars

OverlayNext ==
  \/ \E t \in Tasks : PublishStep(t)
  \/ \E r \in Readers : ReaderStep(r)
  \/ OverlayFinished

OverlaySpec == OverlayInit /\ [][OverlayNext]_overlayVars

-----------------------------------------------------------------------------
OverlayTypeOK ==
  /\ TypeOK
  /\ rpc \in [Readers -> ReaderStates]
  /\ want \in [Readers -> Names]
  /\ top \in [Readers -> SUBSET Entry]
  /\ ans \in [Readers -> SUBSET Entry]
  /\ pick \in [Readers -> Entry \cup {NoEntry}]
  /\ got \in [Readers -> Content]
  /\ before \in [Readers -> SUBSET Tasks]
  /\ calm \in [Readers -> BOOLEAN]

\* A version that a client was shown can be downloaded, whatever publishes
\* overlapped or were abandoned between its two requests: no download of a
\* listed version is answered 404 (handle_api_download).
ListedIsServed == \A r \in Readers : rpc[r] # "missing"

\* A version listed by the top layer is downloaded from the top layer: the
\* download does not depend on the upstream being up.
LocalNeedsNoUpstream ==
  \A r \in Readers :
    rpc[r] \in {"downloadBottom", "missing"} => pick[r] \notin top[r]

\* The bytes sent to a client match the checksum it was shown, if no publish
\* of the crate was at work during its session and none was ever abandoned.
\* Holds if publishes are kept apart.
CalmDownloadVerifies ==
  \A r \in Readers :
    rpc[r] = "served" /\ calm[r] =>
      \E d \in Data : got[r] = d /\ pick[r].cksum = Sha256(d)

\* The listing has one entry for a version acknowledged before the lookup
\* began, and it is one a publish wrote, not the upstream's.
TopWins(r) ==
  \A t \in before[r] :
    /\ \E e \in ans[r] : e.vers = req[t].vers
    /\ \A e \in ans[r] : e.vers = req[t].vers =>
         e \in top[r] /\ \A f \in ans[r] : f.vers = e.vers => f = e

Answered(r) == ans[r] # {}

\* "top layers win conflicts" (src/README.md:30), for a client whose lookup ran
\* while no publish of the crate was at work.  Holds if publishes are kept apart.
CalmLookupTopWins ==
  \A r \in Readers : Answered(r) /\ calm[r] => TopWins(r)

\* "Indexes from all layers are merged from top to bottom; top layers win
\* conflicts" (src/README.md:30), for every lookup.
TopLayersWin == \A r \in Readers : Answered(r) => TopWins(r)

=============================================================================
