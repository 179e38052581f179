--------------------------- MODULE SpriteManifests ---------------------------
(***************************************************************************)
(* Sprites of album thumbnails: internal/infra/image/sprite/service.go and *)
(* its use by usecase/show_album.go.                                       *)
(*                                                                         *)
(* The images of an album page determine a manifest key.  The manifest, a  *)
(* row of the persistent cache, says in which chunks (image files in a     *)
(* blob store) the thumbnails are, and which albums own it.  A page whose  *)
(* manifest is missing starts a build in the background; a page that finds *)
(* its manifest adds the album to the owners (TrackAlbum) and labels the   *)
(* claim.  When an album changes, the claims it labels are retired         *)
(* (Delete): the owner is removed, and a manifest without owners is        *)
(* checked again after a delay and then deleted with its chunks.           *)
(*                                                                         *)
(* TrackAlbum, Delete and the delayed check each read the manifest and     *)
(* write or delete it in a later statement.  No lock keeps them, or a      *)
(* build, apart: whatever they read may have changed meanwhile.            *)
(*                                                                         *)
(* Abstracted.  Contents of images and chunks; a key, being a hash of the  *)
(* images, stands for them, and Chunks gives the chunks they need.         *)
(***************************************************************************)
EXTENDS Naturals, FiniteSets

CONSTANTS
  Albums,      \* album pages, the possible owners
  Keys,        \* manifest keys
  Chunks,      \* [Keys -> set of chunk keys], two manifests may share a chunk
  Together,    \* sets of owners that one album change retires together (a shared sub-album)
  Requests,    \* page requests at the same time
  Workers,     \* handlers that invalidate at the same time
  Checks,      \* bound: goroutines that wait to check a manifest, or delete it
  MaxChanges,  \* bound: album changes
  MaxCrashes,  \* bound: restarts
  MaxFaults,   \* bound: failing builds and writes
  MaxSweeps,   \* bound: runs of the cache's janitor that find manifests
  MaxTroubles  \* bound: restarts, faults and janitor runs together

ASSUME SpriteAssumption ==
  /\ Albums # {} /\ Keys # {}
  /\ DOMAIN Chunks = Keys
  /\ Together \subseteq SUBSET Albums
  /\ MaxChanges \in Nat /\ MaxCrashes \in Nat /\ MaxFaults \in Nat /\ MaxSweeps \in Nat
  /\ MaxTroubles \in Nat

VARIABLES
  want,       \* [Albums -> Keys], key of the images the page has now
  manifest,   \* table record: keys |-> owners (Manifest.Albums)
  blobs,      \* chunks in the blob store
  claims,     \* cache_label of "sprite-retire": set of <<key, album>>
  req,        \* [Requests -> page request]
  build,      \* keys being built |-> chunks still to ensure
  work,       \* [Workers -> invalidation]
  check,      \* [Checks -> goroutine of scheduleRetirement]
  retired,    \* history: keys whose delayed check is due in this process
  unlabelled, \* history: claims whose label an error or a crash prevented
  damaged,    \* history: keys whose deletion an error or a crash cut short
  crossed,    \* history: keys that were deleted while somebody built or was to write them
  revived,    \* history: claims that a request made, or a write brought back, as they retired
  budget      \* how many of each bounded event are left

vars == <<want, manifest, blobs, claims, req, build, work, check, retired,
          unlabelled, damaged, crossed, revived, budget>>
history == <<unlabelled, damaged, crossed, revived>>

AllChunks == UNION {Chunks[k] : k \in Keys}
AnyKey == CHOOSE k \in Keys : TRUE
AnyAlbum == CHOOSE a \in Albums : TRUE

NoRequest == [pc |-> "idle", album |-> AnyAlbum, key |-> AnyKey, owners |-> {}]
NoWork == [pc |-> "idle", hit |-> {}, todo |-> {}, key |-> AnyKey, album |-> AnyAlbum, owners |-> {}]
NoCheck == [pc |-> "none", key |-> AnyKey, chunks |-> {}]

Bounds == [change |-> MaxChanges, crash |-> MaxCrashes, fault |-> MaxFaults, sweep |-> MaxSweeps]

Troubles == (MaxCrashes - budget["crash"]) + (MaxFaults - budget["fault"]) + (MaxSweeps - budget["sweep"])

Spend(what) ==
  /\ budget[what] > 0
  /\ what # "change" => Troubles < MaxTroubles
  /\ budget' = [budget EXCEPT ![what] = @ - 1]

Exists(k) == k \in DOMAIN manifest
Put(k, owners) == [x \in DOMAIN manifest \cup {k} |-> IF x = k THEN owners ELSE manifest[x]]
Without(f, k) == [x \in DOMAIN f \ {k} |-> f[x]]

Owners(k) == IF Exists(k) THEN manifest[k] ELSE {}

\* Somebody has read the manifest and will write it back.
Writing(k) ==
  \/ \E r \in Requests : req[r].pc = "write" /\ req[r].key = k
  \/ \E w \in Workers : work[w].pc = "write" /\ work[w].key = k

Deleting(k) == \E d \in Checks : check[d].pc = "delete" /\ check[d].key = k

\* The claim is being retired, or made.
Retiring(k, a) ==
  \E w \in Workers : work[w].pc \in {"write", "labels"} /\ work[w].key = k /\ work[w].album = a
Claiming(k, a) == \E r \in Requests : req[r].pc # "idle" /\ req[r].key = k /\ req[r].album = a

\* What the histories note: k is read to be written while it is deleted; a claim is made
\* while it is retired; a write brings back owners that are gone.
NoteRead(k) == crossed' = IF Deleting(k) THEN crossed \cup {k} ELSE crossed
MetBy(k, a) == IF Retiring(k, a) THEN {<<k, a>>} ELSE {}
BroughtBack(k, owners) == {k} \X (owners \ Owners(k))
-----------------------------------------------------------------------------
(* A page request *)

\* Ready and TrackAlbum's read: the album owns the manifest already.
ViewOwned(r, a) ==
  /\ req[r].pc = "idle"
  /\ Exists(want[a]) /\ a \in manifest[want[a]]
  /\ req' = [req EXCEPT ![r] = [pc |-> "reset", album |-> a, key |-> want[a], owners |-> {}]]
  /\ revived' = revived \cup MetBy(want[a], a)
  /\ UNCHANGED <<want, manifest, blobs, claims, build, work, check, retired, budget,
                 unlabelled, damaged, crossed>>

\* Ready and TrackAlbum's read: the album is to become an owner.
View(r, a) ==
  /\ req[r].pc = "idle"
  /\ Exists(want[a]) /\ a \notin manifest[want[a]]
  /\ req' = [req EXCEPT ![r] = [pc |-> "write", album |-> a, key |-> want[a],
                                owners |-> manifest[want[a]]]]
  /\ revived' = revived \cup MetBy(want[a], a)
  /\ NoteRead(want[a])
  /\ UNCHANGED <<want, manifest, blobs, claims, build, work, check, retired, budget,
                 unlabelled, damaged>>

\* TrackAlbum writes what it read with the album added.
TrackAlbum(r) ==
  /\ req[r].pc = "write"
  /\ manifest' = Put(req[r].key, req[r].owners \cup {req[r].album})
  /\ revived' = revived \cup BroughtBack(req[r].key, req[r].owners)
  /\ req' = [req EXCEPT ![r].pc = "reset", ![r].owners = {}]
  /\ UNCHANGED <<want, blobs, claims, build, work, check, retired, budget,
                 unlabelled, damaged, crossed>>

\* TrackAlbum's write fails: logged, the page is served with the sprites.
TrackFails(r) ==
  /\ req[r].pc = "write"
  /\ Spend("fault")
  /\ req' = [req EXCEPT ![r] = NoRequest]
  /\ UNCHANGED <<want, manifest, blobs, claims, build, work, check, retired, history>>

\* ResetKey of the claim.
ResetClaim(r) ==
  /\ req[r].pc = "reset"
  /\ claims' = claims \ {<<req[r].key, req[r].album>>}
  /\ req' = [req EXCEPT ![r].pc = "label"]
  /\ UNCHANGED <<want, manifest, blobs, build, work, check, retired, budget, history>>

\* Mutant: the claim is not labelled.
LabelForgotten(r) ==
  /\ req[r].pc = "label"
  /\ req' = [req EXCEPT ![r] = NoRequest]
  /\ UNCHANGED <<want, manifest, blobs, claims, build, work, check, retired, budget, history>>

\* Mutant: the arguments of AlbumDependency are swapped.
LabelSwapped(r) ==
  /\ req[r].pc = "label"
  /\ claims' = claims \cup {<<req[r].album, req[r].key>>}
  /\ req' = [req EXCEPT ![r] = NoRequest]
  /\ UNCHANGED <<want, manifest, blobs, build, work, check, retired, budget, history>>

\* AlbumDependency for the claim.
LabelClaim(r) ==
  LET c == <<req[r].key, req[r].album>> IN
  /\ req[r].pc = "label"
  /\ claims' = claims \cup {c}
  /\ unlabelled' = unlabelled \ {c}
  /\ revived' = IF Retiring(c[1], c[2]) THEN revived ELSE revived \ {c}
  /\ req' = [req EXCEPT ![r] = NoRequest]
  /\ UNCHANGED <<want, manifest, blobs, build, work, check, retired, budget, damaged, crossed>>

\* The statement fails: the page is served, the claim has no label.
LabelFails(r) ==
  /\ req[r].pc \in {"reset", "label"}
  /\ Spend("fault")
  /\ unlabelled' = unlabelled \cup {<<req[r].key, req[r].album>>}
  /\ req' = [req EXCEPT ![r] = NoRequest]
  /\ UNCHANGED <<want, manifest, blobs, claims, build, work, check, retired, damaged, crossed, revived>>

\* Ready finds no manifest: ensureBuild, one build per key.
StartBuild(a) ==
  /\ ~Exists(want[a]) /\ want[a] \notin DOMAIN build
  /\ build' = [k \in DOMAIN build \cup {want[a]} |->
                 IF k = want[a] THEN Chunks[k] ELSE build[k]]
  /\ crossed' = IF Deleting(want[a]) THEN crossed \cup {want[a]}
                ELSE IF Writing(want[a]) THEN crossed ELSE crossed \ {want[a]}
  /\ UNCHANGED <<want, manifest, blobs, claims, req, work, check, retired, budget,
                 unlabelled, damaged, revived>>

\* ensureChunk: a chunk that is in the store is taken as it is.
EnsureChunk(k, c) ==
  /\ k \in DOMAIN build /\ c \in build[k]
  /\ blobs' = blobs \cup {c}
  /\ build' = [build EXCEPT ![k] = @ \ {c}]
  /\ UNCHANGED <<want, manifest, claims, req, work, check, retired, budget, history>>

\* A thumbnail or the blob store fails: no manifest, the chunks so far stay.
BuildFails(k) ==
  /\ k \in DOMAIN build
  /\ Spend("fault")
  /\ build' = Without(build, k)
  /\ UNCHANGED <<want, manifest, blobs, claims, req, work, check, retired, history>>

\* Mutant: the manifest is stored before the last chunk.
StoreEarly(k) ==
  /\ k \in DOMAIN build /\ Cardinality(build[k]) <= 1
  /\ manifest' = Put(k, {})
  /\ build' = Without(build, k)
  /\ retired' = retired \ {k}
  /\ damaged' = damaged \ {k}
  /\ UNCHANGED <<want, blobs, claims, req, work, check, budget, unlabelled, crossed, revived>>

\* All chunks are there: the manifest is stored, without owners.
StoreManifest(k) ==
  /\ k \in DOMAIN build /\ build[k] = {}
  /\ manifest' = Put(k, {})
  /\ build' = Without(build, k)
  /\ retired' = retired \ {k}
  /\ damaged' = damaged \ {k}
  /\ UNCHANGED <<want, blobs, claims, req, work, check, budget, unlabelled, crossed, revived>>
-----------------------------------------------------------------------------
(* An album changes *)

\* Some albums have other images on their pages now; their claims will be retired.
Change(w, O) ==
  /\ work[w].pc = "idle"
  /\ Spend("change")
  /\ \E f \in [O -> Keys] : want' = [a \in Albums |-> IF a \in O THEN f[a] ELSE want[a]]
  /\ work' = [work EXCEPT ![w] = [NoWork EXCEPT !.pc = "select", !.hit = O]]
  /\ UNCHANGED <<manifest, blobs, claims, req, build, check, retired, history>>

\* InvalidateByLabels: SELECT the claims.
Select(w) ==
  /\ work[w].pc = "select"
  /\ work' = [work EXCEPT ![w].pc = "next", ![w].hit = {},
                          ![w].todo = {c \in claims : c[2] \in work[w].hit}]
  /\ UNCHANGED <<want, manifest, blobs, claims, req, build, check, retired, budget, history>>

\* Delete reads the manifest of the next claim; there may be nothing to do.
RetireRead(w, c) ==
  /\ work[w].pc = "next" /\ c \in work[w].todo
  /\ work' = [work EXCEPT
       ![w].todo = @ \ {c}, ![w].key = c[1], ![w].album = c[2],
       ![w].pc = IF c[2] \in Owners(c[1]) THEN "write" ELSE "labels",
       ![w].owners = Owners(c[1]) \ {c[2]}]
  /\ IF c[2] \in Owners(c[1]) THEN NoteRead(c[1]) ELSE UNCHANGED crossed
  /\ revived' = IF Claiming(c[1], c[2]) THEN revived \cup {c} ELSE revived
  /\ UNCHANGED <<want, manifest, blobs, claims, req, build, check, retired, budget,
                 unlabelled, damaged>>

\* Mutant: the last owner is removed and no check is scheduled.
RetireUnscheduled(w) ==
  /\ work[w].pc = "write"
  /\ manifest' = Put(work[w].key, work[w].owners)
  /\ revived' = revived \cup BroughtBack(work[w].key, work[w].owners)
  /\ retired' = IF work[w].owners = {} THEN retired \cup {work[w].key} ELSE retired
  /\ work' = [work EXCEPT ![w].pc = "labels", ![w].owners = {}]
  /\ UNCHANGED <<want, blobs, claims, req, build, check, budget, unlabelled, damaged, crossed>>

\* Delete writes the owners without the album; after the last one a check is scheduled.
RetireWrite(w) ==
  /\ work[w].pc = "write"
  /\ manifest' = Put(work[w].key, work[w].owners)
  /\ revived' = revived \cup BroughtBack(work[w].key, work[w].owners)
  /\ IF work[w].owners = {}
     THEN /\ \E d \in Checks :
               /\ check[d] = NoCheck
               /\ check' = [check EXCEPT ![d] = [pc |-> "asleep", key |-> work[w].key, chunks |-> {}]]
          /\ retired' = retired \cup {work[w].key}
     ELSE UNCHANGED <<check, retired>>
  /\ work' = [work EXCEPT ![w].pc = "labels", ![w].owners = {}]
  /\ UNCHANGED <<want, blobs, claims, req, build, budget, unlabelled, damaged, crossed>>

\* A statement fails: InvalidateByLabels returns the error, the claims that are left keep
\* their labels.
RetireFails(w) ==
  /\ work[w].pc # "idle"
  /\ Spend("fault")
  /\ work' = [work EXCEPT ![w] = NoWork]
  /\ UNCHANGED <<want, manifest, blobs, claims, req, build, check, retired, history>>

\* The label of the claim is deleted.
RetireLabel(w) ==
  /\ work[w].pc = "labels"
  /\ claims' = claims \ {<<work[w].key, work[w].album>>}
  /\ work' = [work EXCEPT ![w] = [NoWork EXCEPT !.pc = "next", !.todo = work[w].todo]]
  /\ UNCHANGED <<want, manifest, blobs, req, build, check, retired, budget, history>>

Finish(w) ==
  /\ work[w].pc = "next" /\ work[w].todo = {}
  /\ work' = [work EXCEPT ![w] = NoWork]
  /\ UNCHANGED <<want, manifest, blobs, claims, req, build, check, retired, budget, history>>
-----------------------------------------------------------------------------
(* The delayed check *)

\* deleteIfOwnerless after the delay: the manifest is gone or has owners again.
Keep(d) ==
  /\ check[d].pc = "asleep"
  /\ Exists(check[d].key) => Owners(check[d].key) # {}
  /\ check' = [check EXCEPT ![d] = NoCheck]
  /\ UNCHANGED <<want, manifest, blobs, claims, req, build, work, retired, budget, history>>

\* deleteIfOwnerless after the delay: nobody owns the manifest, it is to go.
Check(d) ==
  LET k == check[d].key IN
  /\ check[d].pc = "asleep"
  /\ Exists(k) /\ manifest[k] = {}
  /\ check' = [check EXCEPT ![d] = [pc |-> "delete", key |-> k, chunks |-> Chunks[k]]]
  /\ crossed' = IF Writing(k) \/ k \in DOMAIN build THEN crossed \cup {k} ELSE crossed
  /\ UNCHANGED <<want, manifest, blobs, claims, req, build, work, retired, budget,
                 unlabelled, damaged, revived>>

\* deleteManifest: its chunks first, whoever else refers to them.
DeleteChunk(d, c) ==
  /\ check[d].pc = "delete" /\ c \in check[d].chunks
  /\ blobs' = blobs \ {c}
  /\ check' = [check EXCEPT ![d].chunks = @ \ {c}]
  /\ UNCHANGED <<want, manifest, claims, req, build, work, retired, budget, history>>

\* Then the manifest, whoever owns it by now.
DeleteManifest(d) ==
  LET k == check[d].key IN
  /\ check[d].pc = "delete" /\ check[d].chunks = {}
  /\ manifest' = Without(manifest, k)
  /\ check' = [check EXCEPT ![d] = NoCheck]
  /\ retired' = retired \ {k}
  /\ damaged' = damaged \ {k}
  /\ UNCHANGED <<want, blobs, claims, req, build, work, budget, unlabelled, crossed, revived>>

\* A chunk cannot be deleted: the manifest stays, without the chunks deleted so far.
DeleteFails(d) ==
  /\ check[d].pc = "delete"
  /\ Spend("fault")
  /\ check' = [check EXCEPT ![d] = NoCheck]
  /\ damaged' = damaged \cup {check[d].key}
  /\ UNCHANGED <<want, manifest, blobs, claims, req, build, work, retired, unlabelled, crossed, revived>>

\* deleteExpired of the table: expire_at is 0 for an unlimited time to live, and that is
\* before any time.
Sweep ==
  /\ Spend("sweep")
  /\ DOMAIN manifest # {}
  /\ manifest' = << >>
  /\ retired' = {}
  /\ UNCHANGED <<want, blobs, claims, req, build, work, check, history>>

\* The process dies and is started again: rows and blobs stay, sleeping checks are gone.
Crash ==
  /\ Spend("crash")
  /\ req' = [r \in Requests |-> NoRequest]
  /\ build' = << >>
  /\ work' = [w \in Workers |-> NoWork]
  /\ check' = [d \in Checks |-> NoCheck]
  /\ unlabelled' = unlabelled \cup
       {<<req[r].key, req[r].album>> : r \in {x \in Requests : req[x].pc \in {"reset", "label"}}}
  /\ damaged' = damaged \cup {check[d].key : d \in {x \in Checks : check[x].pc = "delete"}}
  /\ retired' = {}
  /\ UNCHANGED <<want, manifest, blobs, claims, crossed, revived>>
-----------------------------------------------------------------------------
Init ==
  /\ want \in [Albums -> Keys]
  /\ manifest = << >>
  /\ blobs = {}
  /\ claims = {}
  /\ req = [r \in Requests |-> NoRequest]
  /\ build = << >>
  /\ work = [w \in Workers |-> NoWork]
  /\ check = [d \in Checks |-> NoCheck]
  /\ retired = {} /\ unlabelled = {} /\ damaged = {} /\ crossed = {} /\ revived = {}
  /\ budget = Bounds

RequestStep(r) == TrackAlbum(r) \/ ResetClaim(r) \/ LabelClaim(r)
BuildStep(k) == StoreManifest(k) \/ \E c \in AllChunks : EnsureChunk(k, c)
WorkStep(w) ==
  \/ Select(w) \/ RetireWrite(w) \/ RetireLabel(w) \/ Finish(w)
  \/ \E c \in work[w].todo : RetireRead(w, c)
CheckStep(d) == Keep(d) \/ Check(d) \/ DeleteManifest(d) \/ \E c \in AllChunks : DeleteChunk(d, c)

Next ==
  \/ \E r \in Requests : \/ \E a \in Albums : ViewOwned(r, a) \/ View(r, a)
                         \/ RequestStep(r) \/ TrackFails(r) \/ LabelFails(r)
  \/ \E a \in Albums : StartBuild(a)
  \/ \E k \in Keys : BuildStep(k) \/ BuildFails(k)
  \/ \E w \in Workers : \/ \E O \in Together : Change(w, O)
                        \/ WorkStep(w) \/ RetireFails(w)
  \/ \E d \in Checks : CheckStep(d) \/ DeleteFails(d)
  \/ Sweep
  \/ Crash

Spec == Init /\ [][Next]_vars

\* Goroutines keep running and sleeping ones wake up.  No page need be requested.
Fairness ==
  /\ \A r \in Requests : WF_vars(RequestStep(r))
  /\ \A k \in Keys : WF_vars(BuildStep(k))
  /\ \A w \in Workers : WF_vars(WorkStep(w))
  /\ \A d \in Checks : WF_vars(CheckStep(d))

FairSpec == Spec /\ Fairness
-----------------------------------------------------------------------------
(* Properties *)

TypeInvariant ==
  /\ want \in [Albums -> Keys]
  /\ DOMAIN manifest \subseteq Keys /\ \A k \in DOMAIN manifest : manifest[k] \subseteq Albums
  /\ blobs \subseteq AllChunks
  /\ claims \subseteq Keys \X Albums
  /\ req \in [Requests -> [pc : {"idle", "write", "reset", "label"}, album : Albums, key : Keys,
                           owners : SUBSET Albums]]
  /\ DOMAIN build \subseteq Keys /\ \A k \in DOMAIN build : build[k] \subseteq Chunks[k]
  /\ work \in [Workers -> [pc : {"idle", "select", "next", "write", "labels"},
                           hit : SUBSET Albums, todo : SUBSET (Keys \X Albums),
                           key : Keys, album : Albums, owners : SUBSET Albums]]
  /\ check \in [Checks -> [pc : {"none", "asleep", "delete"}, key : Keys, chunks : SUBSET AllChunks]]
  /\ \A d \in Checks : check[d].chunks \subseteq Chunks[check[d].key]
  /\ retired \subseteq Keys /\ damaged \subseteq Keys /\ crossed \subseteq Keys
  /\ unlabelled \subseteq Keys \X Albums /\ revived \subseteq Keys \X Albums

\* Its deletion is under way, was cut short, or met somebody who built or wrote the manifest.
MayLack(k) == Deleting(k) \/ k \in damaged \cup crossed

\* A page that finds its manifest finds the chunks (Ready does not look for them).
ReadyHasChunks == \A k \in DOMAIN manifest : MayLack(k) \/ Chunks[k] \subseteq blobs

\* The chunks that no other manifest names.
OwnChunks(k) == {c \in Chunks[k] : \A l \in Keys : c \in Chunks[l] => l = k}

\* Whatever builds, claims, retirements and deletions of any manifests overlap: a manifest that
\* can be found has the chunks that are its own, unless somebody had read it, or built it, while
\* it was deleted, or the deletion was cut short.
OwnChunksStay == \A k \in DOMAIN manifest : MayLack(k) \/ OwnChunks(k) \subseteq blobs

\* "a delayed re-check deletes the manifest and referenced sprite chunks only if it is still
\* ownerless" (dep/README.md).
OwnedManifestStays ==
  [][\A k \in DOMAIN manifest : manifest[k] # {} => k \in DOMAIN manifest']_vars

Labelled(k, a) == <<k, a>> \in claims

\* The request that made the claim is about to label it.
Held(k, a) == \E r \in Requests : req[r].pc \in {"reset", "label"} /\ req[r].key = k /\ req[r].album = a

\* An album that owns a manifest gives it up when it changes: the claim is labelled, or about to
\* be.  The only reasons why not are an error, a crash, an owner that a write brought back which
\* had been read before, and a request that made the claim while it was being retired.
OwnerCanBeRetired ==
  \A k \in DOMAIN manifest : \A a \in manifest[k] :
    Labelled(k, a) \/ Held(k, a) \/ <<k, a>> \in unlabelled \cup revived

\* "if no owners remain, the manifest stays ownerless for a short grace period; a delayed
\* re-check deletes" it (dep/README.md), unless an error cuts the deletion short.
RetiredIsDeleted ==
  \A k \in Keys : k \in retired /\ Exists(k) /\ manifest[k] = {} ~>
                  k \notin retired \/ manifest[k] # {} \/ k \in damaged

=============================================================================
