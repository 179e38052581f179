------------------------ MODULE SpriteManifests_proofs ------------------------
(***************************************************************************)
(* Proofs about SpriteManifests: for any albums, keys, chunks, requests    *)
(* and handlers, and any number of changes, restarts, faults and janitor   *)
(* runs.                                                                   *)
(***************************************************************************)
EXTENDS SpriteManifests, TLAPS

Requested == [pc : {"idle", "write", "reset", "label"}, album : Albums, key : Keys,
              owners : SUBSET Albums]
Retirement == [pc : {"idle", "select", "next", "write", "labels"}, hit : SUBSET Albums,
               todo : SUBSET (Keys \X Albums), key : Keys, album : Albums, owners : SUBSET Albums]
Delayed == [pc : {"none", "asleep", "delete"}, key : Keys, chunks : SUBSET AllChunks]

Typed == TypeInvariant /\ budget \in [change : Nat, crash : Nat, fault : Nat, sweep : Nat]

\* k's own chunks are there, or there is a reason why not.
Backed(k) == k \in damaged \cup crossed \/ OwnChunks(k) \subseteq blobs

\* Who builds or writes a manifest while it is deleted is marked; what will be written back, and
\* what is built, has its own chunks, as a manifest has.
Kept ==
  /\ OwnChunksStay
  /\ \A k \in Keys : Deleting(k) /\ (Writing(k) \/ k \in DOMAIN build) => k \in crossed
  /\ \A k \in Keys : Writing(k) => Backed(k)
  /\ \A k \in DOMAIN build : k \in crossed \/ OwnChunks(k) \ build[k] \subseteq blobs

\* A claim has its label, or there is a reason why not.
Covered(k, a) == <<k, a>> \in claims \cup unlabelled \cup revived

\* OwnerCanBeRetired, and: who is claimed while it is retired is marked; an owner that is retired
\* is not written back by the handler itself, and is one again only for a reason.
Owned ==
  /\ \A k \in DOMAIN manifest : \A a \in manifest[k] : Covered(k, a) \/ Held(k, a)
  /\ \A k \in Keys, a \in Albums : Claiming(k, a) /\ Retiring(k, a) => <<k, a>> \in revived
  /\ \A w \in Workers :
       /\ work[w].pc = "write" => work[w].album \notin work[w].owners
       /\ work[w].pc = "labels" /\ work[w].album \in Owners(work[w].key) =>
            <<work[w].key, work[w].album>> \in unlabelled \cup revived

-----------------------------------------------------------------------------
(* Types *)

LEMMA IdleTyped == NoRequest \in Requested /\ NoWork \in Retirement /\ NoCheck \in Delayed
<1>1. AnyKey \in Keys /\ AnyAlbum \in Albums
  BY SpriteAssumption DEF AnyKey, AnyAlbum
<1> QED BY <1>1 DEF NoRequest, NoWork, NoCheck, Requested, Retirement, Delayed

LEMMA TypeInit == Init => Typed
<1>1. Init => TypeInvariant
  BY IdleTyped DEF Init, TypeInvariant, Requested, Retirement, Delayed, NoCheck
<1>2. Init => budget \in [change : Nat, crash : Nat, fault : Nat, sweep : Nat]
  BY SpriteAssumption DEF Init, Bounds
<1> QED BY <1>1, <1>2 DEF Typed

LEMMA SpendTyped ==
  ASSUME budget \in [change : Nat, crash : Nat, fault : Nat, sweep : Nat],
         NEW what \in {"change", "crash", "fault", "sweep"}, Spend(what)
  PROVE  budget' \in [change : Nat, crash : Nat, fault : Nat, sweep : Nat]
BY DEF Spend

\* The histories take keys and claims.
LEMMA NotesTyped ==
  ASSUME TypeInvariant, NEW k \in Keys, NEW a \in Albums, NEW owners \in SUBSET Albums
  PROVE  /\ MetBy(k, a) \subseteq Keys \X Albums
         /\ BroughtBack(k, owners) \subseteq Keys \X Albums
         /\ NoteRead(k) => crossed' \subseteq Keys
         /\ Owners(k) \in SUBSET Albums
BY DEF TypeInvariant, MetBy, BroughtBack, NoteRead, Owners, Exists

LEMMA RequestTyped ==
  ASSUME Typed, NEW r \in Requests,
         \/ \E a \in Albums : ViewOwned(r, a) \/ View(r, a)
         \/ RequestStep(r) \/ TrackFails(r) \/ LabelFails(r)
  PROVE  Typed'
<1>t. req[r] \in Requested
  BY DEF Typed, TypeInvariant, Requested
<1>1. ASSUME NEW a \in Albums, ViewOwned(r, a) PROVE Typed'
  <2>1. MetBy(want[a], a) \subseteq Keys \X Albums
    BY NotesTyped DEF Typed, TypeInvariant
  <2> QED BY <1>1, <2>1 DEF Typed, TypeInvariant, ViewOwned
<1>2. ASSUME NEW a \in Albums, View(r, a) PROVE Typed'
  <2>1. MetBy(want[a], a) \subseteq Keys \X Albums /\ crossed' \subseteq Keys
    BY <1>2, NotesTyped DEF Typed, TypeInvariant, View
  <2> QED BY <1>2, <2>1 DEF Typed, TypeInvariant, View, Exists
<1>3. CASE TrackAlbum(r)
  <2>1. revived' \subseteq Keys \X Albums
    BY <1>3, <1>t, NotesTyped DEF Typed, TypeInvariant, TrackAlbum, Requested
  <2>2. req' \in [Requests -> Requested]
    BY <1>3, <1>t DEF Typed, TypeInvariant, TrackAlbum, Requested
  <2> QED BY <1>3, <1>t, <2>1, <2>2 DEF Typed, TypeInvariant, TrackAlbum, Put, Requested
<1>4. CASE TrackFails(r)
  BY <1>4, IdleTyped, SpendTyped DEF Typed, TypeInvariant, TrackFails, Requested, history
<1>5. CASE ResetClaim(r)
  <2>1. claims' \subseteq claims
    BY <1>5 DEF ResetClaim
  <2>2. req' \in [Requests -> Requested]
    BY <1>5, <1>t DEF Typed, TypeInvariant, ResetClaim, Requested
  <2> QED BY <1>5, <2>1, <2>2 DEF Typed, TypeInvariant, ResetClaim, Requested, history
<1>6. CASE LabelClaim(r)
  BY <1>6, <1>t, IdleTyped DEF Typed, TypeInvariant, LabelClaim, Requested
<1>7. CASE LabelFails(r)
  BY <1>7, <1>t, IdleTyped, SpendTyped DEF Typed, TypeInvariant, LabelFails, Requested
<1> QED BY <1>1, <1>2, <1>3, <1>4, <1>5, <1>6, <1>7 DEF RequestStep

LEMMA BuildTyped ==
  ASSUME Typed, NEW k \in Keys, BuildStep(k) \/ BuildFails(k)
  PROVE  Typed'
<1>1. ASSUME NEW c, EnsureChunk(k, c) PROVE Typed'
  BY <1>1, SpriteAssumption DEF Typed, TypeInvariant, EnsureChunk, AllChunks, history
<1>2. CASE BuildFails(k)
  BY <1>2, SpendTyped DEF Typed, TypeInvariant, BuildFails, Without, history
<1>3. CASE StoreManifest(k)
  BY <1>3 DEF Typed, TypeInvariant, StoreManifest, Put, Without
<1> QED BY <1>1, <1>2, <1>3 DEF BuildStep

LEMMA CheckTyped ==
  ASSUME Typed, NEW d \in Checks, CheckStep(d) \/ DeleteFails(d)
  PROVE  Typed'
<1> DEFINE CheckType == /\ check \in [Checks -> Delayed]
                        /\ \A e \in Checks : check[e].chunks \subseteq Chunks[check[e].key]
<1>t. CheckType /\ check[d].key \in Keys
  BY DEF Typed, TypeInvariant, Delayed
<1>e. NoCheck \in Delayed /\ NoCheck.chunks = {}
  BY IdleTyped DEF NoCheck
<1>1. CASE Keep(d)
  <2>1. CheckType'
    BY <1>1, <1>t, <1>e DEF Keep
  <2> QED BY <1>1, <2>1 DEF Typed, TypeInvariant, Keep, Delayed, history
<1>2. CASE Check(d)
  <2>1. Chunks[check[d].key] \subseteq AllChunks
    BY <1>t DEF AllChunks
  <2>2. CheckType'
    BY <1>2, <2>1, <1>t DEF Check, Delayed
  <2> QED BY <1>2, <1>t, <2>2 DEF Typed, TypeInvariant, Check, Delayed
<1>3. ASSUME NEW c, DeleteChunk(d, c) PROVE Typed'
  <2>1. CheckType'
    BY <1>3, <1>t DEF DeleteChunk, Delayed
  <2> QED BY <1>3, <2>1 DEF Typed, TypeInvariant, DeleteChunk, Delayed, history
<1>4. CASE DeleteManifest(d)
  <2>1. CheckType'
    BY <1>4, <1>t, <1>e DEF DeleteManifest
  <2> QED BY <1>4, <2>1 DEF Typed, TypeInvariant, DeleteManifest, Without, Delayed
<1>5. CASE DeleteFails(d)
  <2>1. CheckType'
    BY <1>5, <1>t, <1>e DEF DeleteFails
  <2> QED BY <1>5, <1>t, <2>1, SpendTyped DEF Typed, TypeInvariant, DeleteFails, Delayed
<1> QED BY <1>1, <1>2, <1>3, <1>4, <1>5 DEF CheckStep

LEMMA WorkTyped ==
  ASSUME Typed, NEW w \in Workers,
         (\E O \in Together : Change(w, O)) \/ WorkStep(w) \/ RetireFails(w)
  PROVE  Typed'
<1>1. ASSUME NEW O \in Together, Change(w, O) PROVE Typed'
  <2>1. O \in SUBSET Albums
    BY SpriteAssumption
  <2>2. work' \in [Workers -> Retirement]
    BY <1>1, <2>1, IdleTyped DEF Typed, TypeInvariant, Change, Retirement
  <2>3. want' \in [Albums -> Keys]
    BY <1>1, <2>1 DEF Typed, TypeInvariant, Change
  <2> QED BY <1>1, <2>2, <2>3, SpendTyped DEF Typed, TypeInvariant, Change, Retirement, history
<1>t. work \in [Workers -> Retirement] /\ work[w] \in Retirement
  BY DEF Typed, TypeInvariant, Retirement
<1>2. CASE Select(w)
  <2> DEFINE found == {c \in claims : c[2] \in work[w].hit}
  <2>1. found \in SUBSET (Keys \X Albums)
    BY DEF Typed, TypeInvariant
  <2>2. work' = [work EXCEPT ![w].pc = "next", ![w].hit = {}, ![w].todo = found]
    BY <1>2 DEF Select
  <2> HIDE DEF found
  <2>3. work' \in [Workers -> Retirement]
    BY <1>t, <2>1, <2>2 DEF Retirement
  <2> QED BY <1>2, <2>3 DEF Typed, TypeInvariant, Select, Retirement, history
<1>3. ASSUME NEW c \in work[w].todo, RetireRead(w, c) PROVE Typed'
  <2>1. c \in Keys \X Albums /\ work[w].todo \ {c} \in SUBSET (Keys \X Albums)
    BY <1>t DEF Retirement
  <2>2. c[1] \in Keys /\ c[2] \in Albums /\ Owners(c[1]) \ {c[2]} \in SUBSET Albums
    BY <2>1, NotesTyped DEF Typed
  <2>3. work' \in [Workers -> Retirement]
    <3> DEFINE pc == IF c[2] \in Owners(c[1]) THEN "write" ELSE "labels"
               owners == Owners(c[1]) \ {c[2]}
    <3>1. pc \in {"write", "labels"} /\ owners \in SUBSET Albums
      BY <2>2
    <3>2. work' = [work EXCEPT ![w].todo = @ \ {c}, ![w].key = c[1], ![w].album = c[2],
                               ![w].pc = pc, ![w].owners = owners]
      BY <1>3 DEF RetireRead
    <3> HIDE DEF pc, owners
    <3> QED BY <1>t, <2>1, <2>2, <3>1, <3>2 DEF Retirement
  <2>4. crossed' \subseteq Keys
    BY <1>3, <2>2, NotesTyped DEF Typed, TypeInvariant, RetireRead
  <2>5. revived' \subseteq Keys \X Albums
    BY <1>3, <2>1 DEF Typed, TypeInvariant, RetireRead
  <2> QED BY <1>3, <2>3, <2>4, <2>5 DEF Typed, TypeInvariant, RetireRead, Retirement
<1>4. CASE RetireWrite(w)
  <2>1. work' \in [Workers -> Retirement]
    BY <1>4, <1>t DEF RetireWrite, Retirement
  <2>2. work[w].key \in Keys /\ work[w].owners \in SUBSET Albums
    BY <1>t DEF Retirement
  <2>3. DOMAIN manifest' \subseteq Keys /\ \A k \in DOMAIN manifest' : manifest'[k] \subseteq Albums
    BY <1>4, <2>2 DEF Typed, TypeInvariant, RetireWrite, Put
  <2>4. retired' \subseteq Keys
    BY <1>4, <2>2 DEF Typed, TypeInvariant, RetireWrite
  <2> DEFINE CheckType == /\ check \in [Checks -> Delayed]
                          /\ \A e \in Checks : check[e].chunks \subseteq Chunks[check[e].key]
  <2>5. CheckType'
    <3>1. CheckType
      BY DEF Typed, TypeInvariant, Delayed
    <3>2. CASE check' = check
      BY <3>1, <3>2
    <3>3. ASSUME NEW d \in Checks,
                 check' = [check EXCEPT ![d] = [pc |-> "asleep", key |-> work[w].key, chunks |-> {}]]
          PROVE  CheckType'
      BY <2>2, <3>1, <3>3 DEF Delayed
    <3> QED BY <1>4, <3>2, <3>3 DEF RetireWrite
  <2>6. revived' \subseteq Keys \X Albums
    <3>1. BroughtBack(work[w].key, work[w].owners) \subseteq Keys \X Albums
      BY <2>2, NotesTyped, SpriteAssumption DEF Typed
    <3> QED BY <1>4, <3>1 DEF Typed, TypeInvariant, RetireWrite
  <2> QED BY <1>4, <2>1, <2>3, <2>4, <2>5, <2>6 DEF Typed, TypeInvariant, RetireWrite, Retirement, Delayed
<1>5. CASE RetireFails(w)
  BY <1>5, IdleTyped, SpendTyped DEF Typed, TypeInvariant, RetireFails, Retirement, history
<1>6. CASE RetireLabel(w)
  <2>1. work' \in [Workers -> Retirement]
    BY <1>6, <1>t, IdleTyped DEF RetireLabel, Retirement
  <2>2. claims' \subseteq claims
    BY <1>6 DEF RetireLabel
  <2> QED BY <1>6, <2>1, <2>2 DEF Typed, TypeInvariant, RetireLabel, Retirement, history
<1>7. CASE Finish(w)
  BY <1>7, IdleTyped DEF Typed, TypeInvariant, Finish, Retirement, history
<1> QED BY <1>1, <1>2, <1>3, <1>4, <1>5, <1>6, <1>7 DEF WorkStep

LEMMA TypeStep == Typed /\ [Next]_vars => Typed'
<1> SUFFICES ASSUME Typed, [Next]_vars PROVE Typed'
  OBVIOUS
<1>1. ASSUME NEW a \in Albums, StartBuild(a) PROVE Typed'
  <2>1. crossed' \subseteq Keys
    BY <1>1 DEF Typed, TypeInvariant, StartBuild
  <2> QED BY <1>1, <2>1 DEF Typed, TypeInvariant, StartBuild
<1>2. CASE Sweep
  BY <1>2, SpendTyped DEF Typed, TypeInvariant, Sweep, history
<1>3. CASE Crash
  <2>1. req' \in [Requests -> Requested] /\ work' \in [Workers -> Retirement]
    BY <1>3, IdleTyped DEF Crash
  <2>2. check' \in [Checks -> Delayed] /\ \A d \in Checks : check'[d].chunks = {}
    BY <1>3, IdleTyped DEF Crash, NoCheck
  <2>3. unlabelled' \subseteq Keys \X Albums /\ damaged' \subseteq Keys
    BY <1>3 DEF Typed, TypeInvariant, Crash
  <2>4. budget' \in [change : Nat, crash : Nat, fault : Nat, sweep : Nat]
    BY <1>3, SpendTyped DEF Typed, Crash
  <2> QED BY <1>3, <2>1, <2>2, <2>3, <2>4 DEF Typed, TypeInvariant, Crash, Requested, Retirement, Delayed
<1>4. CASE UNCHANGED vars
  BY <1>4 DEF Typed, TypeInvariant, vars
<1> QED BY <1>1, <1>2, <1>3, <1>4, RequestTyped, BuildTyped, CheckTyped, WorkTyped DEF Next

\* Every variable keeps its type.
THEOREM TypeCorrect == Spec => []TypeInvariant
<1>1. Typed => TypeInvariant
  BY DEF Typed
<1> QED BY <1>1, TypeInit, TypeStep, PTL DEF Spec

-----------------------------------------------------------------------------
(* Chunks *)

\* Nothing is taken from the blob store, and nobody begins to build, to write or to delete.
LEMMA NothingTaken ==
  ASSUME Kept, blobs \subseteq blobs', damaged \subseteq damaged', crossed \subseteq crossed',
         DOMAIN manifest' \subseteq DOMAIN manifest,
         \A k : Deleting(k)' => Deleting(k),
         \A k : Deleting(k) => Deleting(k)' \/ k \in damaged',
         \A k : Writing(k)' => Writing(k),
         \A k \in DOMAIN build' : k \in DOMAIN build /\ build'[k] = build[k]
  PROVE  Kept'
<1>1. OwnChunksStay'
  BY DEF Kept, OwnChunksStay, MayLack
<1> QED BY <1>1 DEF Kept, Backed

\* Somebody who has read k will write it.
LEMMA ReadsBacked ==
  ASSUME Kept, NEW k \in Keys, Exists(k), NoteRead(k),
         \A l : Writing(l)' => Writing(l) \/ l = k,
         \A l : Deleting(l)' <=> Deleting(l),
         UNCHANGED <<manifest, blobs, damaged, build>>
  PROVE  Kept'
<1>1. crossed \subseteq crossed' /\ (Deleting(k) => k \in crossed')
  BY DEF NoteRead
<1>2. Backed(k)'
  BY <1>1 DEF Kept, OwnChunksStay, MayLack, Backed, Exists
<1>3. OwnChunksStay'
  BY <1>1 DEF Kept, OwnChunksStay, MayLack
<1> QED BY <1>1, <1>2, <1>3 DEF Kept, Backed

\* k is stored with its own chunks; no step but this one's actor ends.
LEMMA StoresBacked ==
  ASSUME Kept, NEW k \in Keys, Backed(k) \/ OwnChunks(k) \subseteq blobs,
         damaged' = damaged \/ (damaged' = damaged \ {k} /\ (k \in crossed \/ OwnChunks(k) \subseteq blobs)),
         DOMAIN manifest' = DOMAIN manifest \cup {k},
         \A l : Writing(l)' => Writing(l),
         \A l : Deleting(l)' <=> Deleting(l),
         \A l \in DOMAIN build' : l \in DOMAIN build /\ build'[l] = build[l],
         UNCHANGED <<blobs, crossed>>
  PROVE  Kept'
<1>1. \A l \in Keys : Backed(l) => Backed(l)'
  BY DEF Backed
<1>2. Backed(k)'
  BY DEF Backed
<1>3. OwnChunksStay'
  BY <1>2 DEF Kept, OwnChunksStay, MayLack, Backed
<1> QED BY <1>1, <1>3 DEF Kept

LEMMA KeptStep == Typed /\ Kept /\ [Next]_vars => Kept'
<1> SUFFICES ASSUME Typed, Kept, [Next]_vars PROVE Kept'
  OBVIOUS
<1>t. /\ req \in [Requests -> Requested] /\ work \in [Workers -> Retirement]
      /\ check \in [Checks -> Delayed] /\ want \in [Albums -> Keys]
      /\ DOMAIN build \subseteq Keys /\ DOMAIN manifest \subseteq Keys
      /\ \A d \in Checks : check[d].chunks \subseteq Chunks[check[d].key]
  BY DEF Typed, TypeInvariant, Requested, Retirement, Delayed
<1>w. req' = req /\ work' = work => \A k : Writing(k)' <=> Writing(k)
  BY DEF Writing
<1>d. check' = check => \A k : Deleting(k)' <=> Deleting(k)
  BY DEF Deleting
<1>1. ASSUME NEW r \in Requests, NEW a \in Albums, ViewOwned(r, a) PROVE Kept'
  <2>1. \A k : Writing(k)' => Writing(k)
    BY <1>1, <1>t DEF ViewOwned, Writing
  <2> QED BY <1>1, <2>1, <1>d, NothingTaken DEF ViewOwned
<1>2. ASSUME NEW r \in Requests, NEW a \in Albums, View(r, a) PROVE Kept'
  <2>1. \A k : Writing(k)' => Writing(k) \/ k = want[a]
    BY <1>2, <1>t DEF View, Writing
  <2> QED BY <1>2, <1>t, <2>1, <1>d, ReadsBacked DEF View
<1>3. ASSUME NEW r \in Requests, TrackAlbum(r) PROVE Kept'
  <2>1. req[r].key \in Keys /\ Writing(req[r].key)
    BY <1>3, <1>t DEF TrackAlbum, Writing, Requested
  <2>2. \A k : Writing(k)' => Writing(k)
    BY <1>3, <1>t DEF TrackAlbum, Writing
  <2>3. Backed(req[r].key) /\ DOMAIN manifest' = DOMAIN manifest \cup {req[r].key}
    BY <1>3, <2>1 DEF Kept, TrackAlbum, Put
  <2> QED BY <1>3, <2>1, <2>2, <2>3, <1>d, StoresBacked DEF TrackAlbum
<1>4. ASSUME NEW r \in Requests, ResetClaim(r) \/ LabelClaim(r) \/ TrackFails(r) \/ LabelFails(r)
      PROVE  Kept'
  <2>1. \A k : Writing(k)' => Writing(k)
    <3>1. CASE ResetClaim(r)
      BY <3>1, <1>t DEF ResetClaim, Writing
    <3>2. CASE LabelClaim(r) \/ TrackFails(r) \/ LabelFails(r)
      BY <3>2, <1>t DEF LabelClaim, TrackFails, LabelFails, NoRequest, Writing
    <3> QED BY <1>4, <3>1, <3>2
  <2>2. UNCHANGED <<manifest, blobs, damaged, crossed, check, build>>
    BY <1>4 DEF ResetClaim, LabelClaim, TrackFails, LabelFails, history
  <2> QED BY <2>1, <2>2, <1>d, NothingTaken
<1>5. ASSUME NEW a \in Albums, StartBuild(a) PROVE Kept'
  <2> DEFINE k == want[a]
  <2>1. /\ k \notin DOMAIN manifest /\ k \notin DOMAIN build
        /\ DOMAIN build' = DOMAIN build \cup {k} /\ build'[k] = Chunks[k]
        /\ \A l \in DOMAIN build : build'[l] = build[l]
        /\ UNCHANGED <<manifest, blobs, damaged>>
        /\ Deleting(k) => k \in crossed'
        /\ \A l : l # k \/ Deleting(k) \/ Writing(k) => (l \in crossed => l \in crossed')
        /\ crossed' \subseteq crossed \cup {k}
    BY <1>5 DEF StartBuild, Exists
  <2>2. /\ \A l : Writing(l)' <=> Writing(l)
        /\ \A l : Deleting(l)' <=> Deleting(l)
    BY <1>5, <1>w, <1>d DEF StartBuild
  <2>3. OwnChunks(k) \subseteq Chunks[k]
    BY DEF OwnChunks
  <2> HIDE DEF k
  <2>4. OwnChunksStay'
    BY <2>1, <2>2 DEF Kept, OwnChunksStay, MayLack
  <2>5. \A l \in Keys : Deleting(l)' /\ (Writing(l)' \/ l \in DOMAIN build') => l \in crossed'
    BY <2>1, <2>2 DEF Kept
  <2>6. \A l \in Keys : Writing(l)' => Backed(l)'
    BY <2>1, <2>2 DEF Kept, Backed
  <2>7. \A l \in DOMAIN build' : l \in crossed' \/ OwnChunks(l) \ build'[l] \subseteq blobs'
    BY <2>1, <2>3 DEF Kept
  <2> QED BY <2>4, <2>5, <2>6, <2>7 DEF Kept
<1>6. ASSUME NEW k \in Keys, NEW c, EnsureChunk(k, c) PROVE Kept'
  <2>1. /\ DOMAIN build' = DOMAIN build
        /\ \A l \in DOMAIN build : build'[l] = IF l = k THEN build[k] \ {c} ELSE build[l]
        /\ blobs' = blobs \cup {c} /\ UNCHANGED <<manifest, damaged, crossed>>
    BY <1>6 DEF EnsureChunk, history
  <2>2. /\ \A l : Writing(l)' <=> Writing(l)
        /\ \A l : Deleting(l)' <=> Deleting(l)
    BY <1>6, <1>w, <1>d DEF EnsureChunk
  <2>3. \A l \in DOMAIN build' : l \in crossed' \/ OwnChunks(l) \ build'[l] \subseteq blobs'
    BY <2>1 DEF Kept
  <2>4. OwnChunksStay'
    BY <2>1, <2>2 DEF Kept, OwnChunksStay, MayLack
  <2> QED BY <2>1, <2>2, <2>3, <2>4 DEF Kept, Backed
<1>7. ASSUME NEW k \in Keys, StoreManifest(k) PROVE Kept'
  <2>1. /\ k \in DOMAIN build /\ build[k] = {} /\ DOMAIN manifest' = DOMAIN manifest \cup {k}
        /\ DOMAIN build' = DOMAIN build \ {k} /\ \A l \in DOMAIN build' : build'[l] = build[l]
        /\ damaged' = damaged \ {k} /\ UNCHANGED <<blobs, crossed, req, work, check>>
    BY <1>7 DEF StoreManifest, Put, Without
  <2>2. k \in crossed \/ OwnChunks(k) \subseteq blobs
    BY <2>1 DEF Kept
  <2>3. Backed(k) \/ OwnChunks(k) \subseteq blobs
    BY <2>2 DEF Backed
  <2> QED BY <2>1, <2>2, <2>3, <1>w, <1>d, StoresBacked
<1>8. ASSUME NEW k \in Keys, BuildFails(k) PROVE Kept'
  BY <1>8, <1>w, <1>d, NothingTaken DEF BuildFails, Without, history
<1>9. ASSUME NEW d \in Checks, Keep(d) PROVE Kept'
  <2>1. \A k : Deleting(k)' <=> Deleting(k)
    BY <1>9, <1>t DEF Keep, Deleting, NoCheck
  <2> QED BY <1>9, <2>1, <1>w, NothingTaken DEF Keep, history
<1>10. ASSUME NEW d \in Checks, Check(d) PROVE Kept'
  <2> DEFINE k == check[d].key
  <2>1. /\ \A l : Deleting(l) => Deleting(l)'
        /\ \A l : Deleting(l)' => Deleting(l) \/ l = k
    BY <1>10, <1>t DEF Check, Deleting
  <2>2. /\ crossed \subseteq crossed' /\ (Writing(k) \/ k \in DOMAIN build => k \in crossed')
        /\ UNCHANGED <<manifest, blobs, damaged, build, req, work>>
    BY <1>10 DEF Check
  <2> HIDE DEF k
  <2>3. \A l \in Keys : Deleting(l)' /\ (Writing(l)' \/ l \in DOMAIN build') => l \in crossed'
    BY <2>1, <2>2, <1>w DEF Kept
  <2>4. OwnChunksStay'
    BY <2>1, <2>2 DEF Kept, OwnChunksStay, MayLack
  <2> QED BY <2>2, <2>3, <2>4, <1>w DEF Kept, Backed
<1>11. ASSUME NEW d \in Checks, NEW c, DeleteChunk(d, c) PROVE Kept'
  <2> DEFINE k == check[d].key
  <2>1. /\ Deleting(k) /\ k \in Keys /\ c \in Chunks[k] /\ blobs' = blobs \ {c}
        /\ UNCHANGED <<manifest, damaged, crossed, build, req, work>>
    BY <1>11, <1>t DEF DeleteChunk, Deleting, Delayed, history
  <2>2. \A l : Deleting(l)' <=> Deleting(l)
    BY <1>11, <1>t DEF DeleteChunk, Deleting
  <2>3. \A l \in Keys \ {k} : OwnChunks(l) \subseteq blobs => OwnChunks(l) \subseteq blobs'
    BY <2>1 DEF OwnChunks
  <2>4. \A l \in Keys \ {k} : OwnChunks(l) \ build[l] \subseteq blobs => OwnChunks(l) \ build[l] \subseteq blobs'
    BY <2>1 DEF OwnChunks
  <2> HIDE DEF k
  <2>5. Writing(k) \/ k \in DOMAIN build => k \in crossed
    BY <2>1 DEF Kept
  <2>6. OwnChunksStay'
    BY <2>1, <2>2, <2>3, <1>t DEF Kept, OwnChunksStay, MayLack
  <2>7. \A l \in Keys : Writing(l)' => Backed(l)'
    BY <2>1, <2>3, <2>5, <1>w DEF Kept, Backed
  <2>8. \A l \in DOMAIN build' : l \in crossed' \/ OwnChunks(l) \ build'[l] \subseteq blobs'
    BY <2>1, <2>4, <2>5, <1>t DEF Kept
  <2> QED BY <2>1, <2>2, <2>6, <2>7, <2>8, <1>w DEF Kept
<1>12. ASSUME NEW d \in Checks, DeleteManifest(d) PROVE Kept'
  <2> DEFINE k == check[d].key
  <2>1. /\ Deleting(k) /\ k \in Keys /\ DOMAIN manifest' = DOMAIN manifest \ {k}
        /\ damaged' = damaged \ {k} /\ UNCHANGED <<blobs, crossed, build, req, work>>
    BY <1>12, <1>t DEF DeleteManifest, Without, Deleting, Delayed
  <2>2. /\ \A l : Deleting(l)' => Deleting(l)
        /\ \A l : Deleting(l) => Deleting(l)' \/ l = k
    BY <1>12, <1>t DEF DeleteManifest, Deleting, NoCheck
  <2> HIDE DEF k
  <2>3. Writing(k) \/ k \in DOMAIN build => k \in crossed
    BY <2>1 DEF Kept
  <2>4. OwnChunksStay'
    BY <2>1, <2>2 DEF Kept, OwnChunksStay, MayLack
  <2> QED BY <2>1, <2>2, <2>3, <2>4, <1>w DEF Kept, Backed
<1>13. ASSUME NEW d \in Checks, DeleteFails(d) PROVE Kept'
  <2>1. /\ \A k : Deleting(k)' => Deleting(k)
        /\ \A k : Deleting(k) => Deleting(k)' \/ k = check[d].key
    BY <1>13, <1>t DEF DeleteFails, Deleting, NoCheck
  <2> QED BY <1>13, <2>1, <1>w, NothingTaken DEF DeleteFails
<1>14. ASSUME NEW w \in Workers, NEW c \in work[w].todo, RetireRead(w, c) PROVE Kept'
  <2>1. c[1] \in Keys /\ UNCHANGED <<manifest, blobs, damaged, build, req, check>>
    BY <1>14, <1>t DEF RetireRead, Retirement
  <2>2. CASE c[2] \in Owners(c[1])
    <3>1. Exists(c[1]) /\ NoteRead(c[1])
      BY <1>14, <2>2 DEF RetireRead, Owners
    <3>2. \A k : Writing(k)' => Writing(k) \/ k = c[1]
      BY <1>14, <1>t, <2>1 DEF RetireRead, Writing, Retirement
    <3> QED BY <2>1, <3>1, <3>2, <1>d, ReadsBacked
  <2>3. CASE c[2] \notin Owners(c[1])
    <3>1. \A k : Writing(k)' => Writing(k)
      BY <1>14, <1>t, <2>1, <2>3 DEF RetireRead, Writing, Retirement
    <3>2. crossed' = crossed
      BY <1>14, <2>3 DEF RetireRead
    <3> QED BY <2>1, <3>1, <3>2, <1>d, NothingTaken
  <2> QED BY <2>2, <2>3
<1>15. ASSUME NEW w \in Workers, RetireWrite(w) PROVE Kept'
  <2>1. work[w].key \in Keys /\ Writing(work[w].key)
    BY <1>15, <1>t DEF RetireWrite, Writing, Retirement
  <2>2. \A k : Writing(k)' => Writing(k)
    BY <1>15, <1>t DEF RetireWrite, Writing
  <2>3. Backed(work[w].key) /\ DOMAIN manifest' = DOMAIN manifest \cup {work[w].key}
    BY <1>15, <2>1 DEF Kept, RetireWrite, Put
  <2>4. \A k : Deleting(k)' <=> Deleting(k)
    <3>1. ASSUME NEW d \in Checks, check[d] = NoCheck,
                 check' = [check EXCEPT ![d] = [pc |-> "asleep", key |-> work[w].key, chunks |-> {}]]
          PROVE  \A k : Deleting(k)' <=> Deleting(k)
      BY <3>1, <1>t DEF Deleting, NoCheck
    <3> QED BY <1>15, <3>1, <1>d DEF RetireWrite
  <2> QED BY <1>15, <2>1, <2>2, <2>3, <2>4, StoresBacked DEF RetireWrite
<1>16. ASSUME NEW w \in Workers,
              (\E O \in Together : Change(w, O)) \/ Select(w) \/ RetireLabel(w) \/ Finish(w)
              \/ RetireFails(w)
       PROVE  Kept'
  <2>1. \A k : Writing(k)' => Writing(k)
    <3>1. ASSUME work' = [work EXCEPT ![w] = work'[w]], work'[w].pc # "write", req' = req
          PROVE  \A k : Writing(k)' => Writing(k)
      BY <3>1, <1>t DEF Writing
    <3>2. CASE Select(w)
      BY <3>1, <3>2, <1>t DEF Select, Retirement
    <3>3. CASE RetireLabel(w)
      BY <3>1, <3>3, <1>t DEF RetireLabel, NoWork, Retirement
    <3>4. CASE Finish(w) \/ RetireFails(w)
      BY <3>1, <3>4, <1>t DEF Finish, RetireFails, NoWork
    <3>5. ASSUME NEW O \in Together, Change(w, O) PROVE \A k : Writing(k)' => Writing(k)
      BY <3>1, <3>5, <1>t DEF Change, NoWork
    <3> QED BY <1>16, <3>2, <3>3, <3>4, <3>5
  <2>2. UNCHANGED <<manifest, blobs, damaged, crossed, build, check>>
    BY <1>16 DEF Change, Select, RetireLabel, Finish, RetireFails, history
  <2> QED BY <2>1, <2>2, <1>d, NothingTaken
<1>17. CASE Sweep
  <2>1. DOMAIN manifest' \subseteq DOMAIN manifest
        /\ UNCHANGED <<blobs, damaged, crossed, req, work, build, check>>
    BY <1>17 DEF Sweep, history
  <2> QED BY <2>1, <1>w, <1>d, NothingTaken
<1>18. CASE Crash
  <2>1. /\ \A k : ~Writing(k)' /\ ~Deleting(k)'
        /\ \A k : Deleting(k) => k \in damaged'
    BY <1>18 DEF Crash, Writing, Deleting, NoRequest, NoWork, NoCheck
  <2> QED BY <1>18, <2>1, NothingTaken DEF Crash
<1>19. CASE UNCHANGED vars
  BY <1>19, <1>w, <1>d, NothingTaken DEF vars
<1> QED BY <1>1, <1>2, <1>3, <1>4, <1>5, <1>6, <1>7, <1>8, <1>9, <1>10, <1>11, <1>12, <1>13, <1>14,
           <1>15, <1>16, <1>17, <1>18, <1>19 DEF Next, RequestStep, BuildStep, CheckStep, WorkStep

-----------------------------------------------------------------------------
(* Owners *)

\* No owner comes, nobody begins to claim or to retire, no reason why a claim is covered goes.
LEMMA NoneComes ==
  ASSUME Owned,
         \A k \in DOMAIN manifest' : k \in DOMAIN manifest /\ manifest'[k] = manifest[k],
         unlabelled \subseteq unlabelled', revived \subseteq revived',
         \A k, a : Covered(k, a) => Covered(k, a)',
         \A k, a : Held(k, a) => Held(k, a)' \/ Covered(k, a)',
         \A k, a : Claiming(k, a)' => Claiming(k, a),
         \A k, a : Retiring(k, a)' => Retiring(k, a),
         \A w \in Workers : work'[w].pc \in {"write", "labels"} => work'[w] = work[w]
  PROVE  Owned'
BY DEF Owned, Owners, Exists

\* Owners that are written stay or are brought back; one that comes is claimed.
LEMMA OwnersWritten ==
  ASSUME Typed, Owned, NEW k \in Keys, NEW written, NEW news,
         DOMAIN manifest' = DOMAIN manifest \cup {k}, manifest'[k] = written \cup news,
         \A l \in DOMAIN manifest \ {k} : manifest'[l] = manifest[l],
         revived' = revived \cup BroughtBack(k, written),
         \A a \in news : Held(k, a)' /\ Claiming(k, a) /\ a \in Albums,
         \A l, a : Held(l, a) => Held(l, a)',
         \A l, a : Claiming(l, a)' => Claiming(l, a),
         \A l, a : Retiring(l, a)' => Retiring(l, a),
         \A w \in Workers :
           /\ work'[w].pc = "write" => work'[w] = work[w]
           /\ work'[w].pc = "labels" =>
                \/ work'[w] = work[w]
                \/ work'[w].key = k /\ work'[w].album \notin written \cup news,
         UNCHANGED <<claims, unlabelled>>
  PROVE  Owned'
<1>1. \A a \in written : a \in Owners(k) \/ <<k, a>> \in revived'
  BY DEF BroughtBack
<1>2. /\ \A l, a : Covered(l, a) => Covered(l, a)'
      /\ revived \subseteq revived'
  BY DEF Covered
<1>3. \A a \in written : Covered(k, a)' \/ Held(k, a)'
  BY <1>1, <1>2 DEF Owned, Owners, Exists, Covered
<1>4. \A l \in DOMAIN manifest' : \A a \in manifest'[l] : Covered(l, a)' \/ Held(l, a)'
  BY <1>2, <1>3 DEF Owned
<1>5. \A l \in Keys, a \in Albums : Claiming(l, a)' /\ Retiring(l, a)' => <<l, a>> \in revived'
  BY <1>2 DEF Owned
<1>6. ASSUME NEW w \in Workers, work'[w].pc = "labels", work'[w].album \in Owners(work[w].key)'
      PROVE  <<work'[w].key, work'[w].album>> \in unlabelled' \cup revived'
  <2>1. work'[w] = work[w]
    BY <1>6 DEF Owners, Exists
  <2>2. CASE work[w].key # k
    BY <1>2, <1>6, <2>1, <2>2 DEF Owned, Owners, Exists
  <2>3. CASE work[w].key = k
    <3>1. work[w].album \in written \cup news /\ Retiring(k, work[w].album)
      BY <1>6, <2>1, <2>3 DEF Owners, Exists, Retiring
    <3>2. CASE work[w].album \in Owners(k)
      BY <1>2, <1>6, <2>1, <2>3, <3>2 DEF Owned
    <3>3. CASE work[w].album \in news
      BY <1>2, <2>1, <2>3, <3>1, <3>3 DEF Owned
    <3> QED BY <1>1, <2>1, <2>3, <3>1, <3>2, <3>3
  <2> QED BY <2>2, <2>3
<1> QED BY <1>4, <1>5, <1>6 DEF Owned

\* One request goes on: what the others claim stays claimed.
LEMMA OthersClaim ==
  ASSUME NEW r \in Requests, \A q \in Requests \ {r} : req'[q] = req[q],
         \/ req'[r].pc = "idle"
         \/ req[r].pc # "idle" /\ req'[r].key = req[r].key /\ req'[r].album = req[r].album
  PROVE  /\ \A k, a : Claiming(k, a)' => Claiming(k, a)
         /\ req'[r].pc \in {"reset", "label"} \/ req[r].pc = "write" =>
              \A k, a : Held(k, a) => Held(k, a)'
BY DEF Claiming, Held

LEMMA RequestOwned ==
  ASSUME Typed, Owned, NEW r \in Requests,
         \/ \E a \in Albums : ViewOwned(r, a) \/ View(r, a)
         \/ RequestStep(r) \/ TrackFails(r) \/ LabelFails(r)
  PROVE  Owned'
<1>t. req \in [Requests -> Requested] /\ req[r] \in Requested /\ want \in [Albums -> Keys]
  BY DEF Typed, TypeInvariant, Requested
<1>w. work' = work => \A k, a : Retiring(k, a)' <=> Retiring(k, a)
  BY DEF Retiring
<1>1. ASSUME NEW a \in Albums, ViewOwned(r, a) \/ View(r, a) PROVE Owned'
  <2>1. /\ UNCHANGED <<manifest, claims, unlabelled, work>> /\ req[r].pc = "idle"
        /\ req'[r].pc # "idle" /\ req'[r].key = want[a] /\ req'[r].album = a
        /\ \A q \in Requests \ {r} : req'[q] = req[q]
        /\ revived' = revived \cup MetBy(want[a], a)
    BY <1>1, <1>t DEF ViewOwned, View
  <2>2. /\ \A k, b : Covered(k, b) => Covered(k, b)'
        /\ \A k, b : Held(k, b) => Held(k, b)'
    BY <2>1 DEF Covered, Held
  <2>3. \A k \in Keys, b \in Albums : Claiming(k, b)' /\ Retiring(k, b)' => <<k, b>> \in revived'
    <3>1. \A k, b : Claiming(k, b)' => Claiming(k, b) \/ (k = want[a] /\ b = a)
      BY <2>1 DEF Claiming
    <3> QED BY <2>1, <3>1, <1>w DEF Owned, MetBy
  <2> QED BY <2>1, <2>2, <2>3 DEF Owned, Owners, Exists
<1>2. ASSUME TrackAlbum(r), NEW k, NEW a, NEW owners,
             k = req[r].key, a = req[r].album, owners = req[r].owners
      PROVE  Owned'
  <2>1. /\ UNCHANGED <<claims, unlabelled, work>> /\ DOMAIN manifest' = DOMAIN manifest \cup {k}
        /\ manifest'[k] = owners \cup {a}
        /\ \A l \in DOMAIN manifest \ {k} : manifest'[l] = manifest[l]
        /\ \A q \in Requests \ {r} : req'[q] = req[q]
        /\ req[r].pc = "write" /\ req'[r].pc = "reset" /\ req'[r].key = k /\ req'[r].album = a
        /\ revived' = revived \cup BroughtBack(k, owners)
        /\ k \in Keys /\ a \in Albums
    BY <1>2, <1>t DEF TrackAlbum, Put, Requested
  <2>2. /\ \A l, b : Claiming(l, b)' => Claiming(l, b)
        /\ \A l, b : Held(l, b) => Held(l, b)'
    BY <1>2, <2>1, OthersClaim
  <2>3. Held(k, a)' /\ Claiming(k, a)
    BY <1>2, <2>1 DEF Held, Claiming
  <2>4. \A b \in {a} : Held(k, b)' /\ Claiming(k, b) /\ b \in Albums
    BY <2>1, <2>3
  <2>5. /\ \A l, b : Retiring(l, b)' => Retiring(l, b)
        /\ \A w \in Workers : work'[w] = work[w]
        /\ UNCHANGED <<claims, unlabelled>>
    BY <2>1, <1>w
  <2> QED BY <2>1, <2>2, <2>4, <2>5, OwnersWritten
<1>3. ASSUME ResetClaim(r), NEW k, NEW a, k = req[r].key, a = req[r].album PROVE Owned'
  <2>1. /\ UNCHANGED <<manifest, unlabelled, revived, work>> /\ claims' = claims \ {<<k, a>>}
        /\ \A q \in Requests \ {r} : req'[q] = req[q]
        /\ req[r].pc = "reset" /\ req'[r].pc = "label" /\ req'[r].key = k /\ req'[r].album = a
    BY <1>3, <1>t DEF ResetClaim, Requested, history
  <2>2. /\ \A l, b : Claiming(l, b)' => Claiming(l, b)
        /\ \A l, b : Held(l, b) => Held(l, b)'
    BY <1>3, <2>1, OthersClaim
  <2>3. Held(k, a)'
    BY <1>3, <2>1 DEF Held
  <2>4. \A l, b : Covered(l, b) => Covered(l, b)' \/ (l = k /\ b = a)
    BY <2>1 DEF Covered
  <2>5. \A l \in DOMAIN manifest' : \A b \in manifest'[l] : Covered(l, b)' \/ Held(l, b)'
    BY <2>1, <2>2, <2>3, <2>4 DEF Owned
  <2>6. \A l \in Keys, b \in Albums : Claiming(l, b)' /\ Retiring(l, b)' => <<l, b>> \in revived'
    BY <2>1, <2>2, <1>w DEF Owned
  <2>7. \A l : Owners(l)' = Owners(l)
    BY <2>1 DEF Owners, Exists
  <2> QED BY <2>1, <2>5, <2>6, <2>7 DEF Owned
<1>4. CASE LabelClaim(r)
  <2> DEFINE k == req[r].key
             a == req[r].album
  <2>1. /\ UNCHANGED <<manifest, work>> /\ claims' = claims \cup {<<k, a>>}
        /\ unlabelled' = unlabelled \ {<<k, a>>}
        /\ revived' = revived \/ (~Retiring(k, a) /\ revived' = revived \ {<<k, a>>})
        /\ \A q \in Requests \ {r} : req'[q] = req[q]
        /\ req[r].pc = "label" /\ req'[r].pc = "idle"
        /\ k \in Keys /\ a \in Albums
    BY <1>4, <1>t DEF LabelClaim, NoRequest, Requested
  <2>2. /\ \A l, b : Covered(l, b) => Covered(l, b)'
        /\ \A l, b : Held(l, b) => Held(l, b)' \/ Covered(l, b)'
    BY <2>1 DEF Covered, Held
  <2>3. (\A l, b : Claiming(l, b)' => Claiming(l, b)) /\ Claiming(k, a)
    BY <2>1, OthersClaim DEF Claiming
  <2> HIDE DEF k, a
  <2>4. \A l, b : Retiring(l, b) /\ <<l, b>> \in revived => <<l, b>> \in revived'
    BY <2>1
  <2>5. ASSUME NEW w \in Workers, work'[w].pc = "labels", work'[w].album \in Owners(work[w].key)'
        PROVE  <<work'[w].key, work'[w].album>> \in unlabelled' \cup revived'
    <3> DEFINE l == work[w].key
               b == work[w].album
    <3>1. Retiring(l, b) /\ <<l, b>> \in unlabelled \cup revived
      BY <2>1, <2>5 DEF Owned, Owners, Exists, Retiring
    <3>2. l = k /\ b = a => <<l, b>> \in revived
      BY <2>1, <2>3, <3>1 DEF Owned
    <3> QED BY <2>1, <2>4, <3>1, <3>2
  <2>6. \A l \in DOMAIN manifest' : \A b \in manifest'[l] : Covered(l, b)' \/ Held(l, b)'
    BY <2>1, <2>2 DEF Owned
  <2>7. \A l \in Keys, b \in Albums : Claiming(l, b)' /\ Retiring(l, b)' => <<l, b>> \in revived'
    BY <2>1, <2>3, <2>4, <1>w DEF Owned
  <2>8. \A w \in Workers : work'[w].pc = "write" => work'[w].album \notin work'[w].owners
    BY <2>1 DEF Owned
  <2> QED BY <2>5, <2>6, <2>7, <2>8 DEF Owned
<1>5. CASE TrackFails(r) \/ LabelFails(r)
  <2>1. /\ UNCHANGED <<manifest, claims, revived, work>> /\ unlabelled \subseteq unlabelled'
        /\ \A q \in Requests \ {r} : req'[q] = req[q]
        /\ req'[r].pc = "idle"
        /\ req[r].pc = "write" \/ <<req[r].key, req[r].album>> \in unlabelled'
    BY <1>5, <1>t DEF TrackFails, LabelFails, NoRequest, history
  <2>2. /\ \A k, a : Covered(k, a) => Covered(k, a)'
        /\ \A k, a : Held(k, a) => Held(k, a)' \/ Covered(k, a)'
    BY <2>1 DEF Covered, Held
  <2>3. \A k, a : Claiming(k, a)' => Claiming(k, a)
    BY <2>1, OthersClaim
  <2> QED BY <2>1, <2>2, <2>3, <1>w, NoneComes
<1> QED BY <1>1, <1>2, <1>3, <1>4, <1>5 DEF RequestStep

LEMMA WorkOwned ==
  ASSUME Typed, Owned, NEW w \in Workers,
         (\E O \in Together : Change(w, O)) \/ WorkStep(w) \/ RetireFails(w)
  PROVE  Owned'
<1>t. work \in [Workers -> Retirement] /\ work[w] \in Retirement
  BY DEF Typed, TypeInvariant, Retirement
<1>h. req' = req => \A k, a : (Held(k, a)' <=> Held(k, a)) /\ (Claiming(k, a)' <=> Claiming(k, a))
  BY DEF Held, Claiming
<1>1. ASSUME NEW c \in work[w].todo, RetireRead(w, c) PROVE Owned'
  <2> DEFINE k == c[1]
             a == c[2]
  <2>1. /\ UNCHANGED <<manifest, claims, unlabelled, req>> /\ c = <<k, a>>
        /\ \A v \in Workers \ {w} : work'[v] = work[v]
        /\ work'[w].key = k /\ work'[w].album = a
        /\ work'[w].pc = IF a \in Owners(k) THEN "write" ELSE "labels"
        /\ work'[w].owners = Owners(k) \ {a}
        /\ revived' = IF Claiming(k, a) THEN revived \cup {<<k, a>>} ELSE revived
    BY <1>1, <1>t DEF RetireRead, Retirement
  <2> HIDE DEF k, a
  <2>2. \A l, b : Retiring(l, b)' => Retiring(l, b) \/ (l = k /\ b = a)
    BY <2>1 DEF Retiring
  <2>3. \A l, b : Covered(l, b) => Covered(l, b)'
    BY <2>1 DEF Covered
  <2>4. \A l : Owners(l)' = Owners(l)
    BY <2>1 DEF Owners, Exists
  <2>5. \A l \in Keys, b \in Albums : Claiming(l, b)' /\ Retiring(l, b)' => <<l, b>> \in revived'
    BY <2>1, <2>2, <1>h DEF Owned
  <2>6. \A l \in DOMAIN manifest' : \A b \in manifest'[l] : Covered(l, b)' \/ Held(l, b)'
    BY <2>1, <2>3, <1>h DEF Owned
  <2>7. \A v \in Workers :
          /\ work'[v].pc = "write" => work'[v].album \notin work'[v].owners
          /\ work'[v].pc = "labels" /\ work'[v].album \in Owners(work[v].key)' =>
               <<work'[v].key, work'[v].album>> \in unlabelled' \cup revived'
    BY <2>1, <2>4 DEF Owned
  <2> QED BY <2>5, <2>6, <2>7 DEF Owned
<1>2. ASSUME RetireWrite(w), NEW k, NEW written, NEW news,
             k = work[w].key, written = work[w].owners, news = {}
      PROVE  Owned'
  <2>1. /\ UNCHANGED <<claims, unlabelled, req>> /\ DOMAIN manifest' = DOMAIN manifest \cup {k}
        /\ manifest'[k] = written \cup news
        /\ \A l \in DOMAIN manifest \ {k} : manifest'[l] = manifest[l]
        /\ \A v \in Workers \ {w} : work'[v] = work[v]
        /\ work[w].pc = "write" /\ work'[w].pc = "labels" /\ work'[w].key = k
        /\ work'[w].album = work[w].album
        /\ revived' = revived \cup BroughtBack(k, written)
        /\ k \in Keys
    BY <1>2, <1>t DEF RetireWrite, Put, Retirement
  <2>2. work[w].album \notin work[w].owners
    BY <2>1 DEF Owned
  <2>3. \A l, b : Retiring(l, b)' => Retiring(l, b)
    BY <1>2, <2>1 DEF Retiring
  <2>4. /\ \A l, b : Held(l, b) => Held(l, b)'
        /\ \A l, b : Claiming(l, b)' => Claiming(l, b)
        /\ \A b \in news : Held(k, b)' /\ Claiming(k, b) /\ b \in Albums
    BY <1>2, <2>1, <1>h
  <2>5. \A v \in Workers :
          /\ work'[v].pc = "write" => work'[v] = work[v]
          /\ work'[v].pc = "labels" =>
               \/ work'[v] = work[v]
               \/ work'[v].key = k /\ work'[v].album \notin written \cup news
    BY <1>2, <2>1, <2>2
  <2> QED BY <2>1, <2>3, <2>4, <2>5, OwnersWritten
<1>3. CASE RetireLabel(w)
  <2> DEFINE k == work[w].key
             a == work[w].album
  <2>1. /\ UNCHANGED <<manifest, unlabelled, revived, req>> /\ claims' = claims \ {<<k, a>>}
        /\ \A v \in Workers \ {w} : work'[v] = work[v]
        /\ work[w].pc = "labels" /\ work'[w].pc = "next"
    BY <1>3, <1>t DEF RetireLabel, NoWork, history
  <2>2. a \in Owners(k) => <<k, a>> \in unlabelled \cup revived
    BY <2>1 DEF Owned
  <2>3. \A l, b : Retiring(l, b)' => Retiring(l, b)
    BY <2>1 DEF Retiring
  <2>4. \A l, b : Covered(l, b) => Covered(l, b)' \/ (l = k /\ b = a)
    BY <2>1 DEF Covered
  <2> HIDE DEF k, a
  <2>5. \A l \in DOMAIN manifest' : \A b \in manifest'[l] : Covered(l, b)' \/ Held(l, b)'
    BY <2>1, <2>2, <2>4, <1>h DEF Owned, Owners, Exists, Covered
  <2> QED BY <2>1, <2>3, <2>5, <1>h DEF Owned, Owners, Exists
<1>4. CASE (\E O \in Together : Change(w, O)) \/ Select(w) \/ Finish(w) \/ RetireFails(w)
  <2>1. /\ \A v \in Workers \ {w} : work'[v] = work[v]
        /\ work'[w].pc \notin {"write", "labels"}
    <3>1. CASE Select(w)
      BY <3>1, <1>t DEF Select, Retirement
    <3>2. CASE Finish(w) \/ RetireFails(w)
      BY <3>2, <1>t DEF Finish, RetireFails, NoWork
    <3>3. ASSUME NEW O \in Together, Change(w, O)
          PROVE  work'[w].pc = "select" /\ \A v \in Workers \ {w} : work'[v] = work[v]
      BY <3>3, <1>t DEF Change, NoWork
    <3> QED BY <1>4, <3>1, <3>2, <3>3
  <2>2. UNCHANGED <<manifest, claims, unlabelled, revived, req>>
    BY <1>4 DEF Change, Select, Finish, RetireFails, history
  <2>3. \A l, b : Retiring(l, b)' => Retiring(l, b)
    BY <2>1 DEF Retiring
  <2>4. \A l, b : Covered(l, b) => Covered(l, b)'
    BY <2>2 DEF Covered
  <2> QED BY <2>1, <2>2, <2>3, <2>4, <1>h, NoneComes
<1> QED BY <1>1, <1>2, <1>3, <1>4 DEF WorkStep

LEMMA OwnedStep == Typed /\ Owned /\ [Next]_vars => Owned'
<1> SUFFICES ASSUME Typed, Owned, [Next]_vars PROVE Owned'
  OBVIOUS
<1>h. UNCHANGED <<req, work>> =>
        \A k, a : /\ (Held(k, a)' <=> Held(k, a)) /\ (Claiming(k, a)' <=> Claiming(k, a))
                  /\ (Retiring(k, a)' <=> Retiring(k, a))
  BY DEF Held, Claiming, Retiring
<1>c. UNCHANGED <<claims, unlabelled, revived>> => \A k, a : Covered(k, a)' <=> Covered(k, a)
  BY DEF Covered
<1>1. ASSUME NEW k \in Keys, StoreManifest(k) PROVE Owned'
  <2>1. /\ DOMAIN manifest' = DOMAIN manifest \cup {k} /\ manifest'[k] = {}
        /\ \A l \in DOMAIN manifest \ {k} : manifest'[l] = manifest[l]
        /\ UNCHANGED <<claims, unlabelled, revived, req, work>>
    BY <1>1 DEF StoreManifest, Put
  <2> QED BY <2>1, <1>h, <1>c DEF Owned, Owners, Exists
<1>2. CASE \/ \E k \in Keys : BuildFails(k) \/ \E c \in AllChunks : EnsureChunk(k, c)
           \/ \E d \in Checks : CheckStep(d) \/ DeleteFails(d)
           \/ \E a \in Albums : StartBuild(a)
           \/ Sweep \/ UNCHANGED vars
  <2>1. /\ \A l \in DOMAIN manifest' : l \in DOMAIN manifest /\ manifest'[l] = manifest[l]
        /\ UNCHANGED <<claims, unlabelled, revived, req, work>>
    <3>1. ASSUME NEW k \in Keys, BuildFails(k) \/ \E c \in AllChunks : EnsureChunk(k, c)
          PROVE  UNCHANGED <<manifest, claims, unlabelled, revived, req, work>>
      BY <3>1 DEF EnsureChunk, BuildFails, history
    <3>2. ASSUME NEW d \in Checks, DeleteManifest(d)
          PROVE  /\ \A l \in DOMAIN manifest' : l \in DOMAIN manifest /\ manifest'[l] = manifest[l]
                 /\ UNCHANGED <<claims, unlabelled, revived, req, work>>
      BY <3>2 DEF DeleteManifest, Without
    <3>3. ASSUME NEW d \in Checks, Keep(d) \/ Check(d) \/ DeleteFails(d) \/ \E c \in AllChunks : DeleteChunk(d, c)
          PROVE  UNCHANGED <<manifest, claims, unlabelled, revived, req, work>>
      BY <3>3 DEF Keep, Check, DeleteFails, DeleteChunk, history
    <3>4. CASE (\E a \in Albums : StartBuild(a)) \/ UNCHANGED vars
      BY <3>4 DEF StartBuild, vars
    <3>5. CASE Sweep
      BY <3>5 DEF Sweep, history
    <3> QED BY <1>2, <3>1, <3>2, <3>3, <3>4, <3>5 DEF CheckStep
  <2> QED BY <2>1, <1>c, <1>h, NoneComes
<1>3. CASE Crash
  <2>1. /\ UNCHANGED <<manifest, claims, revived>> /\ unlabelled \subseteq unlabelled'
        /\ \A r \in Requests : /\ req[r].pc \in {"reset", "label"} => <<req[r].key, req[r].album>> \in unlabelled'
                               /\ req'[r].pc = "idle"
        /\ \A w \in Workers : work'[w].pc = "idle"
    BY <1>3 DEF Crash, NoRequest, NoWork
  <2>2. /\ \A k, a : Covered(k, a) => Covered(k, a)'
        /\ \A k, a : Held(k, a) => Covered(k, a)'
        /\ \A k, a : ~Claiming(k, a)' /\ ~Retiring(k, a)'
    BY <2>1 DEF Held, Covered, Claiming, Retiring
  <2> QED BY <2>1, <2>2, NoneComes
<1> QED BY <1>1, <1>2, <1>3, RequestOwned, WorkOwned DEF Next, BuildStep

-----------------------------------------------------------------------------
LEMMA SpriteStart == Init => Kept /\ Owned
<1> SUFFICES ASSUME Init PROVE Kept /\ Owned
  OBVIOUS
<1>1. /\ \A r \in Requests : req[r].pc = "idle"
      /\ \A w \in Workers : work[w].pc = "idle"
      /\ DOMAIN manifest = {} /\ DOMAIN build = {}
      /\ \A k : ~Deleting(k)
  BY DEF Init, NoRequest, NoWork, NoCheck, Deleting
<1> QED BY <1>1 DEF Kept, OwnChunksStay, Writing, Owned, Claiming

\* An album that owns a manifest gives it up when it changes, whatever overlaps: ShowAlbum
\* labels the claim, and only Delete for that claim takes the label away, after the owner; the
\* reasons why not are an error, a crash, or a race with a claim or a write.
THEOREM OwnersRetire == Spec => []OwnerCanBeRetired
<1>1. Typed /\ Owned /\ [Next]_vars => (Typed /\ Owned)'
  BY TypeStep, OwnedStep
<1>2. Owned => OwnerCanBeRetired
  BY DEF Owned, Covered, OwnerCanBeRetired, Labelled
<1> QED BY TypeInit, SpriteStart, <1>1, <1>2, PTL DEF Spec

\* A page that finds its manifest finds the chunks that are the manifest's own, whatever
\* overlaps, unless its deletion was met by a build or a write, or was cut short.
THEOREM ChunksReady == Spec => []OwnChunksStay
<1>1. Typed /\ Kept /\ [Next]_vars => (Typed /\ Kept)'
  BY TypeStep, KeptStep
<1>2. Kept => OwnChunksStay
  BY DEF Kept
<1> QED BY TypeInit, SpriteStart, <1>1, <1>2, PTL DEF Spec

=============================================================================
