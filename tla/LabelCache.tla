------------------------------ MODULE LabelCache ------------------------------
(***************************************************************************)
(* Rendered pages are kept in a persistent cache for an hour and dropped   *)
(* earlier by labels: internal/infra/dep/cache.go on top of                *)
(* pkg/sqlitec/invalidation/index.go.                                      *)
(*                                                                         *)
(* A page that is missing or expired is rebuilt by one goroutine: it drops *)
(* the labels of the key (ResetKey), attaches labels and reads the data in *)
(* the order the handler has them (Plan), and the cache stores the result. *)
(* A handler that changes an album, the list of albums or the settings     *)
(* then invalidates by label: it selects the keys that carry the label,    *)
(* and for each deletes the entry and, in a second statement, the labels.  *)
(* All of these statements interleave.                                     *)
(*                                                                         *)
(* Keys: the main page, and for an album its page and its preview (a part  *)
(* of its parents' pages, in the cache of the album pages), for a guest.   *)
(* Sources are what pages are made from, each with a version: the          *)
(* settings, the list of albums, and each album.                           *)
(*                                                                         *)
(* Abstracted.  Contents: an entry is what it saw, source |-> version.     *)
(* The one builder per key, the lifetime of an hour and the serving of     *)
(* expired entries during a rebuild belong to the cache library.           *)
(***************************************************************************)
EXTENDS Naturals, Sequences, FiniteSets, Functions

CONSTANTS
  Albums,       \* album names
  Order,        \* the albums in the order of the main page
  Featured,     \* the featured album of the main page: <<>> or <<album>>
  Keys,         \* the cache keys of interest
  Workers,      \* handlers that change data at the same time
  Overlap,      \* TRUE: builds and changes run at the same time
  MaxChanges,   \* bound: changes of data
  MaxCrashes,   \* bound: restarts
  MaxFaults     \* bound: failing statements

settings == "settings"
list == "album-list"
Sources == Albums \cup {settings, list}

main == <<"main">>
page(a) == <<"page", a>>
preview(a) == <<"preview", a>>
AllKeys == {main} \cup UNION {{page(a), preview(a)} : a \in Albums}

ASSUME LabelCacheAssumption ==
  /\ Albums \cap {settings, list} = {}
  /\ Order \in Seq(Albums) /\ Range(Order) = Albums
  /\ Featured \in Seq(Albums) /\ Len(Featured) <= 1
  /\ Keys \subseteq AllKeys
  /\ Overlap \in BOOLEAN
  /\ MaxChanges \in Nat /\ MaxCrashes \in Nat /\ MaxFaults \in Nat

VARIABLES
  ver,        \* [Sources -> Nat], version of the data pages are made from
  st,         \* [Albums -> state], what decides whether the main page shows the album
  stored,     \* version of the settings in the database, ver has the one in memory
  entry,      \* table record: cached keys |-> page
  labels,     \* table cache_label: set of <<key, label>>
  build,      \* keys that are being rebuilt |-> how far the rebuild is
  viewed,     \* albums whose preview a page request holds, the label still to attach
  work,       \* Workers |-> invalidations still to do
  unguarded,  \* history: keys whose labels an invalidation or a failure took from a build
  lost,       \* history: labels whose last invalidation was not carried out
  budget      \* how many of each bounded event are left

vars == <<ver, st, stored, entry, labels, build, viewed, work, unguarded, lost, budget>>

States == {"absent", "hidden", "empty", "full"}

Label(s) == [op |-> "label", src |-> s]
Read(s) == [op |-> "read", src |-> s]

ReadThenLabel(as) ==
  [i \in 1..2 * Len(as) |-> IF i % 2 = 1 THEN Read(as[(i + 1) \div 2]) ELSE Label(as[i \div 2])]

\* What the builders do after ResetKey, in this order.
MainPlan ==
  <<Label(settings), Label(list), Read(settings)>> \o ReadThenLabel(Featured)
    \o <<Read(list)>> \o ReadThenLabel(Order)

\* Mutant: the labels are attached after the reads, as the main page does it.
PagePlanReadsFirst(a) == <<Read(a), Read(settings), Label(settings), Label(a)>>

PagePlan(a) == <<Label(settings), Label(a), Read(a), Read(settings)>>

PreviewPlan(a) == <<Read(a), Read(settings)>>

Plan(k) ==
  CASE k = main -> MainPlan
    [] k[1] = "page" -> PagePlan(k[2])
    [] k[1] = "preview" -> PreviewPlan(k[2])

NoWork == [queue |-> <<>>, todo |-> {}, cur |-> {}, pc |-> "select"]

Bounds == [change |-> MaxChanges, crash |-> MaxCrashes, fault |-> MaxFaults]

Spend(what) == budget[what] > 0 /\ budget' = [budget EXCEPT ![what] = @ - 1]

Building(k) == k \in DOMAIN build
Cached(k) == k \in DOMAIN entry
Busy(w) == work[w].queue # <<>>
Quiet == \A w \in Workers : ~Busy(w)
Live(k) == Cached(k) /\ ~entry[k].expired

Without(f, k) == [x \in DOMAIN f \ {k} |-> f[x]]
With(f, k, v) == [x \in DOMAIN f \cup {k} |-> IF x = k THEN v ELSE f[x]]

\* SettingsManager.mu is held from SetX to the assignment of the new value.
SettingsLocked == \E w \in Workers : Busy(w) /\ Head(work[w].queue) = settings
-----------------------------------------------------------------------------
(* Rebuilding an entry *)

\* Mutant: no ResetKey before the rebuild.
KeepLabels(k) == labels

\* dep.Cache.ResetKey
ResetKey(k) == {l \in labels : l[1] # k}

\* A request finds no entry or an expired one.
StartBuild(k) ==
  /\ ~Live(k) /\ ~Building(k)
  /\ Overlap \/ Quiet
  /\ build' = With(build, k, [todo |-> Plan(k), saw |-> << >>, skip |-> {}, shown |-> {}])
  /\ labels' = ResetKey(k)
  /\ unguarded' = unguarded \ {k}
  /\ UNCHANGED <<ver, st, stored, entry, viewed, work, lost, budget>>

NextIs(k, op) == Building(k) /\ build[k].todo # <<>> /\ Head(build[k].todo).op = op
NextSrc(k) == Head(build[k].todo).src

\* The main page labels an album only when it shows it; the featured one in any case.
Labelled(k, s) ==
  IF k = main /\ s \in Albums
  THEN s \in build[k].shown \/ (s \in Range(Featured) /\ list \notin DOMAIN build[k].saw)
  ELSE TRUE

\* Mutant: the arguments of AddLabels are swapped.
AttachSwapped(k) ==
  /\ NextIs(k, "label")
  /\ labels' = labels \cup {<<NextSrc(k), k>>}
  /\ build' = [build EXCEPT ![k].todo = Tail(@)]
  /\ UNCHANGED <<ver, st, stored, entry, viewed, work, unguarded, lost, budget>>

\* AlbumListDependency, AlbumDependency, ServiceSettingsDependency
Attach(k) ==
  /\ NextIs(k, "label")
  /\ labels' = IF Labelled(k, NextSrc(k)) THEN labels \cup {<<k, NextSrc(k)>>} ELSE labels
  /\ build' = [build EXCEPT ![k].todo = Tail(@)]
  /\ UNCHANGED <<ver, st, stored, entry, viewed, work, unguarded, lost, budget>>

\* AddLabels prints the error of the INSERT and the rebuild goes on.
AttachFails(k) ==
  /\ NextIs(k, "label")
  /\ Spend("fault")
  /\ build' = [build EXCEPT ![k].todo = Tail(@)]
  /\ unguarded' = unguarded \cup {k}
  /\ UNCHANGED <<ver, st, stored, entry, labels, viewed, work, lost>>

\* The next read finds no album; the builder of the main page does without the featured one.
Missing(k) ==
  /\ st[NextSrc(k)] = "absent"
  /\ NextSrc(k) \notin Range(Featured) \/ k # main \/ list \in DOMAIN build[k].saw

\* An album is read; the main page passes over those the list showed as hidden, and over
\* the empty ones.
ReadAlbum(k) ==
  /\ NextIs(k, "read") /\ NextSrc(k) \in Albums
  /\ LET a == NextSrc(k)
         b == build[k]
         earlier == a \in DOMAIN b.saw /\ (st[a] = "hidden" \/ a \in Range(Featured))
         seen == IF earlier THEN b.saw[a] ELSE ver[a]
     IN IF a \in b.skip
        THEN build' = [build EXCEPT ![k].todo = Tail(@)]
        ELSE /\ ~Missing(k)
             /\ build' = [build EXCEPT ![k] =
                  [b EXCEPT !.todo = Tail(@),
                            !.saw = With(b.saw, a, seen),
                            !.shown = IF st[a] = "empty" THEN @ ELSE @ \cup {a}]]
  /\ UNCHANGED <<ver, st, stored, entry, labels, viewed, work, unguarded, lost, budget>>

\* FindAll for the main page: hidden albums will be passed over, absent ones do not exist.
ReadList(k) ==
  /\ NextIs(k, "read") /\ NextSrc(k) = list
  /\ LET b == build[k]
         rows == {a \in Albums : st[a] # "absent"}
     IN build' = [build EXCEPT ![k] =
          [b EXCEPT !.todo = Tail(@),
                    !.skip = {a \in Albums : st[a] \in {"hidden", "absent"}},
                    !.shown = {},
                    !.saw = [s \in DOMAIN b.saw \cup rows \cup {list} |->
                               IF s \in DOMAIN b.saw THEN b.saw[s] ELSE ver[s]]]]
  /\ UNCHANGED <<ver, st, stored, entry, labels, viewed, work, unguarded, lost, budget>>

\* Settings are read from memory, under the manager's mutex.
ReadSettings(k) ==
  /\ NextIs(k, "read") /\ NextSrc(k) = settings
  /\ ~SettingsLocked
  /\ build' = [build EXCEPT ![k].todo = Tail(@), ![k].saw = With(@, settings, ver[settings])]
  /\ UNCHANGED <<ver, st, stored, entry, labels, viewed, work, unguarded, lost, budget>>

\* The builder returns and the cache stores its value.  A preview is built for the page of
\* a parent album, which goes on with the value.
Store(k) ==
  /\ Building(k) /\ build[k].todo = <<>>
  /\ entry' = With(entry, k, [saw |-> build[k].saw, shown |-> build[k].shown, expired |-> FALSE])
  /\ build' = Without(build, k)
  /\ viewed' = IF k[1] = "preview" THEN viewed \cup build[k].shown ELSE viewed
  /\ UNCHANGED <<ver, st, stored, labels, work, unguarded, lost, budget>>

\* The builder meets an album that does not exist (any more): nothing is stored.
NotFound(k) ==
  /\ NextIs(k, "read") /\ NextSrc(k) \in Albums \ build[k].skip
  /\ Missing(k)
  /\ build' = Without(build, k)
  /\ UNCHANGED <<ver, st, stored, entry, labels, viewed, work, unguarded, lost, budget>>

\* A read fails: nothing is stored.
ReadFails(k) ==
  /\ NextIs(k, "read")
  /\ Spend("fault")
  /\ build' = Without(build, k)
  /\ UNCHANGED <<ver, st, stored, entry, labels, viewed, work, unguarded, lost>>

\* Mutant: entries never expire.
ExpireNever(k) == FALSE /\ UNCHANGED vars

\* The hour is over: the next request rebuilds the entry.
Expire(k) ==
  /\ Live(k)
  /\ entry' = [entry EXCEPT ![k].expired = TRUE]
  /\ UNCHANGED <<ver, st, stored, labels, build, viewed, work, unguarded, lost, budget>>

\* The page of a parent album got the preview from the cache and will show it: empty ones
\* are passed over.
ViewPreview(a) ==
  /\ preview(a) \in Keys /\ a \notin viewed
  /\ Cached(preview(a)) /\ a \in entry[preview(a)].shown
  /\ Overlap \/ Quiet
  /\ viewed' = viewed \cup {a}
  /\ UNCHANGED <<ver, st, stored, entry, labels, build, work, unguarded, lost, budget>>

\* Only then it attaches the label of the preview.
AttachPreview(a) ==
  /\ a \in viewed
  /\ viewed' = viewed \ {a}
  /\ labels' = labels \cup {<<preview(a), a>>}
  /\ UNCHANGED <<ver, st, stored, entry, build, work, unguarded, lost, budget>>
-----------------------------------------------------------------------------
(* Changing data *)

\* A handler has changed the data and will invalidate these labels.
Announce(ls) ==
  IF ls = <<>> THEN UNCHANGED work
  ELSE \E w \in Workers :
         ~Busy(w) /\ work' = [work EXCEPT ![w] = [queue |-> ls, todo |-> {}, cur |-> {}, pc |-> "select"]]

MayChange ==
  /\ Overlap \/ (Quiet /\ viewed = {} /\ \A k \in Keys : ~Building(k))
  /\ Spend("change")

\* Metadata or photos of an album change: AlbumChanged.
ChangeAlbum(a, s) ==
  /\ st[a] # "absent" /\ s # "absent"
  /\ MayChange
  /\ ver' = [ver EXCEPT ![a] = @ + 1]
  /\ st' = [st EXCEPT ![a] = s]
  /\ Announce(<<a>>)
  /\ UNCHANGED <<stored, entry, labels, build, viewed, unguarded, lost>>

\* add_to_album copies the photos of another album: nothing is invalidated.
CopyToAlbum(a) ==
  /\ st[a] # "absent"
  /\ MayChange
  /\ ver' = [ver EXCEPT ![a] = @ + 1]
  /\ st' = [st EXCEPT ![a] = IF @ = "empty" THEN "full" ELSE @]
  /\ lost' = lost \cup {a}
  /\ UNCHANGED <<stored, entry, labels, build, viewed, work, unguarded>>

\* Mutant: a new album does not invalidate what depends on the list of albums.
CreateUnannounced(a) ==
  /\ st[a] = "absent"
  /\ MayChange
  /\ ver' = [ver EXCEPT ![a] = @ + 1, ![list] = @ + 1]
  /\ \E s \in {"hidden", "empty"} : st' = [st EXCEPT ![a] = s]
  /\ UNCHANGED <<stored, entry, labels, build, viewed, work, unguarded, lost>>

\* A new album, without photos: AlbumListChanged.
CreateAlbum(a) ==
  /\ st[a] = "absent"
  /\ MayChange
  /\ ver' = [ver EXCEPT ![a] = @ + 1, ![list] = @ + 1]
  /\ \E s \in {"hidden", "empty"} : st' = [st EXCEPT ![a] = s]
  /\ Announce(<<list>>)
  /\ UNCHANGED <<stored, entry, labels, build, viewed, unguarded, lost>>

\* AlbumListChanged, then AlbumChanged.
DeleteAlbum(a) ==
  /\ st[a] # "absent"
  /\ MayChange
  /\ ver' = [ver EXCEPT ![a] = @ + 1, ![list] = @ + 1]
  /\ st' = [st EXCEPT ![a] = "absent"]
  /\ Announce(<<list, a>>)
  /\ UNCHANGED <<stored, entry, labels, build, viewed, unguarded, lost>>

\* Manager.set stores the value, then invalidates; the caller assigns the value (Finish).
SetSettings ==
  /\ ~SettingsLocked
  /\ MayChange
  /\ stored' = stored + 1
  /\ Announce(<<settings>>)
  /\ UNCHANGED <<ver, st, entry, labels, build, viewed, unguarded, lost>>

\* InvalidateByLabels: SELECT DISTINCT the keys with the label.
Select(w) ==
  /\ Busy(w) /\ work[w].pc = "select"
  /\ work' = [work EXCEPT ![w].todo = {k \in Keys : <<k, Head(work[w].queue)>> \in labels},
                          ![w].pc = "delete"]
  /\ lost' = lost \ {Head(work[w].queue)}
  /\ UNCHANGED <<ver, st, stored, entry, labels, build, viewed, unguarded, budget>>

\* Delete the entry of the next key, if there is one.
DeleteEntry(w, k) ==
  /\ Busy(w) /\ work[w].cur = {} /\ k \in work[w].todo
  /\ entry' = Without(entry, k)
  /\ work' = [work EXCEPT ![w].todo = @ \ {k}, ![w].cur = {k}]
  /\ UNCHANGED <<ver, st, stored, labels, build, viewed, unguarded, lost, budget>>

\* Delete every label of that key.
DeleteLabels(w, k) ==
  /\ Busy(w) /\ k \in work[w].cur
  /\ labels' = {l \in labels : l[1] # k}
  /\ work' = [work EXCEPT ![w].cur = {}]
  /\ unguarded' = IF Building(k) \/ Cached(k) THEN unguarded \cup {k} ELSE unguarded
  /\ UNCHANGED <<ver, st, stored, entry, build, viewed, lost, budget>>

\* All keys are done: the next label, or the end of the handler.
Finish(w) ==
  /\ Busy(w) /\ work[w].pc = "delete" /\ work[w].todo = {} /\ work[w].cur = {}
  /\ ver' = IF Head(work[w].queue) = settings THEN [ver EXCEPT ![settings] = stored] ELSE ver
  /\ work' = [work EXCEPT ![w].queue = Tail(@), ![w].pc = "select"]
  /\ UNCHANGED <<st, stored, entry, labels, build, viewed, unguarded, lost, budget>>

\* A statement fails and ends the invalidation of this label.  New settings are then
\* in the database but not in memory.
InvalidateFails(w) ==
  /\ Busy(w)
  /\ Spend("fault")
  /\ lost' = lost \cup {Head(work[w].queue)}
  /\ work' = [work EXCEPT ![w].queue = Tail(@), ![w].pc = "select", ![w].todo = {}, ![w].cur = {}]
  /\ UNCHANGED <<ver, st, stored, entry, labels, build, viewed, unguarded>>

\* The process dies and is started again: the tables stay, the manager reads the settings.
Crash ==
  /\ Spend("crash")
  /\ build' = << >>
  /\ viewed' = {}
  /\ work' = [w \in Workers |-> NoWork]
  /\ ver' = [ver EXCEPT ![settings] = stored]
  /\ lost' = lost \cup (UNION {Range(work[w].queue) : w \in Workers})
                  \cup (IF stored # ver[settings] THEN {settings} ELSE {})
  /\ UNCHANGED <<st, stored, entry, labels, unguarded>>
-----------------------------------------------------------------------------
Init ==
  /\ ver = [s \in Sources |-> 0]
  /\ st \in [Albums -> States]
  /\ stored = 0
  /\ entry = << >>
  /\ labels = {}
  /\ build = << >>
  /\ viewed = {}
  /\ work = [w \in Workers |-> NoWork]
  /\ unguarded = {}
  /\ lost = {}
  /\ budget = Bounds

BuildStep(k) ==
  \/ Attach(k) \/ ReadAlbum(k) \/ ReadList(k) \/ ReadSettings(k)
  \/ Store(k) \/ NotFound(k)

InvalidateStep(w) ==
  \/ Select(w) \/ Finish(w)
  \/ \E k \in Keys : DeleteEntry(w, k) \/ DeleteLabels(w, k)

Change ==
  \/ \E a \in Albums : \E s \in States : ChangeAlbum(a, s)
  \/ \E a \in Albums : CopyToAlbum(a) \/ CreateAlbum(a) \/ DeleteAlbum(a)
  \/ SetSettings

Next ==
  \/ \E k \in Keys : StartBuild(k) \/ BuildStep(k) \/ Expire(k)
  \/ \E k \in Keys : AttachFails(k) \/ ReadFails(k)
  \/ \E a \in Albums : ViewPreview(a) \/ AttachPreview(a)
  \/ Change
  \/ \E w \in Workers : InvalidateStep(w) \/ InvalidateFails(w)
  \/ Crash

Spec == Init /\ [][Next]_vars

\* Pages keep being requested and time passes; goroutines keep running.
Fairness ==
  /\ \A k \in Keys : WF_vars(StartBuild(k)) /\ WF_vars(BuildStep(k)) /\ WF_vars(Expire(k))
  /\ \A w \in Workers : WF_vars(InvalidateStep(w))

FairSpec == Spec /\ Fairness
-----------------------------------------------------------------------------
(* Properties *)

\* An album is called by this label in some handler that has yet to finish.
Pending(s) == \E w \in Workers : s \in Range(work[w].queue)

\* The entry shows an older version of the source than there is now.
Stale(k, s) == s \in DOMAIN entry[k].saw /\ entry[k].saw[s] # ver[s]

\* The sources whose label the builder attaches before it reads them.
LabelledFirst(k) ==
  CASE k[1] = "main" -> {settings, list}
    [] k[1] = "page" -> {settings, k[2]}
    [] k[1] = "preview" -> {}

TypeInvariant ==
  /\ ver \in [Sources -> Nat] /\ stored \in Nat
  /\ st \in [Albums -> States]
  /\ DOMAIN entry \subseteq Keys
  /\ \A k \in DOMAIN entry :
       /\ DOMAIN entry[k].saw \subseteq Sources /\ entry[k].shown \subseteq Albums
       /\ entry[k].expired \in BOOLEAN
  /\ labels \subseteq Keys \X Sources
  /\ DOMAIN build \subseteq Keys
  /\ \A k \in DOMAIN build :
       /\ Range(build[k].todo) \subseteq [op : {"label", "read"}, src : Sources]
       /\ DOMAIN build[k].saw \subseteq Sources
  /\ viewed \subseteq Albums
  /\ \A w \in Workers :
       /\ work[w].queue \in Seq(Sources) /\ work[w].pc \in {"select", "delete"}
       /\ work[w].todo \subseteq Keys /\ work[w].cur \subseteq Keys
  /\ unguarded \subseteq Keys /\ lost \subseteq Sources

\* What labels are for: a page that is served without a rebuild shows the current data of
\* every source it was labelled with before the read, unless the invalidation is still on
\* its way, was not carried out, or took the labels of a rebuild it overlapped.
FreshUnlessOvertaken ==
  \A k \in Keys : Live(k) => \A s \in LabelledFirst(k) :
    Stale(k, s) => Pending(s) \/ s \in lost \/ k \in unguarded

\* A key carries no label its entry was not built with (ResetKey before the rebuild), so
\* that an album that left a page does not go on dropping it.
NoLeftoverLabels ==
  \A k \in Keys : Live(k) => \A l \in labels :
    l[1] = k => l[2] \in LabelledFirst(k) \cup entry[k].shown \cup Range(Featured) \cup
                         (IF k[1] = "preview" THEN {k[2]} ELSE {})

\* Every page that is asked for shows the current data in the end, whatever overlapped,
\* failed or was forgotten.
EveryPageCatchesUp ==
  \A k \in Keys :
    <>[](\/ (k # main /\ st[k[2]] = "absent")
         \/ (Cached(k) /\ \A s \in Sources : ~Stale(k, s)))

\* "changing album A invalidates album page A" (dep/README.md): once no invalidation of A
\* is on its way, a page that is served shows the album as it is.
AlbumPageFollowsAlbum ==
  \A a \in Albums : page(a) \in Keys /\ Live(page(a)) /\ Stale(page(a), a) =>
    Pending(a) \/ a \in lost

\* "If a cache entry should react to an album change, it must carry that album label
\* directly" (dep/README.md): the main page reacts to an album that is shown or was filled.
MainPageShowsAll ==
  main \in Keys /\ Live(main) =>
    \A a \in Albums : st[a] = "full" /\ a \notin entry[main].shown =>
      \/ Pending(a) \/ Pending(list) \/ {a, list} \cap lost # {} \/ main \in unguarded

=============================================================================
