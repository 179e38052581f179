# Verification of photo-blog

photo-blog is a Go server for albums of photos: SQLite databases, a message queue of its
own in one of them, rendered pages and sprites in persistent caches, and scripts in the
browser that show the albums. This directory holds TLA+ models of its concurrent and
persistent parts and of the scripts, configurations for TLC, and proofs checked by TLAPS.

    tlasany M.tla                            parse
    tlc -config Broker_crash.cfg MCQliteBroker    model-check one run
    tlapm QliteBroker_proofs.tla             check proofs

`PROJECT.json` is the index: it lists runs with their properties, the mutants each property
was tried against, the source lines of every definition, findings, hazards and theorems.

## The system

| component | source | state | operations | model |
|---|---|---|---|---|
| message broker | `pkg/qlite` | tables `message`, `message_archive`; channel `pollAgain`; a semaphore per topic | Publish, poll (one goroutine), consumeOnce (one goroutine per message), restart | `QliteBroker`, `WorkQueue` |
| invalidation by labels | `internal/infra/dep`, `pkg/sqlitec/invalidation` | table `cache_label` | ResetKey, AddLabels, InvalidateByLabels | `LabelCache` |
| cached pages | `usecase/show_main.go`, `show_album.go`, `show_thumb_grid.go`, `pkg/sqlitec/cache.go` | table `record`, one hour to live | rebuild, serve, expire | `LabelCache` |
| handlers that change albums | `usecase/control` | albums, images of albums | create, change, delete, copy photos; each announces its change | `LabelCache` |
| settings | `internal/infra/settings` | values in memory, values in the database | SetX, X, start | `LabelCache` |
| album sprites | `internal/infra/image/sprite` | manifests in table `record`, chunks in a blob store, sleeping goroutines | Ready, build, TrackAlbum, Delete, delayed deletion | `SpriteManifests` |
| uploads | `infra/upload`, `infra/files`, `static/album_extra.js` | images that wait for their thumbnails (in memory), rows, the album | beforeUploadRequest, processUpload, AddFile | `Uploads` |
| indexing, repositories | `infra/image/indexer.go`, `infra/storage/hashed` | the row and the metadata of an image | Index, Ensure, Update, label goroutines, edits | `Indexing` |
| album contents | `usecase/album_timeline.go`, `get_album_contents.go` | none of their own | texts between the images, by server and browser | `Timeline` |
| album page | `static/album.js`, `album_extra.js` | galleries, lightbox, address, full screen | open, go, close, toggle, remove, drag | `AlbumPage` |
| visitor statistics | the same, `infra/storage/visitor` | clocks of the page; counters | measure, report | `ViewStats` (the page) |
| client of the HTTP interface | `static/client.js` | one request each | send, hear of it | `Backend`, `BackendCalls` |
| tables of results | `static/db/script.js`, `stats/script.js` | order and display of rows | sort, search | `ResultTable` |
| thumbnails | `infra/storage/thumb.go` | table of thumbnails | find or build | planned |
| cloudflare workers | `infra/image/cloudflare` | queues, callbacks | classify, describe | planned |
| image selection, favorites | `infra/storage` | none of their own | pure assembly of lists | planned as operators |

What makes each of them right:

- the broker: a message accepted is carried out or given back, by one handler at a time,
  with its follow-ups, in the order of publication, and whatever waits is polled in the end;
- labels and pages: a page that is served shows the current data, or the reason why not is
  one the design accepts (it is bounded by the hour), and in the end every page catches up;
- handlers and settings: each change is announced for every page that shows it, and what is
  in memory is what is in the database after any error and restart;
- sprites: a manifest never points to a chunk that is gone, an owner can always be retired,
  and what has no owner is deleted in the end;
- uploads: every stored file is indexed once it is complete;
- repositories and the indexer: no write undoes a field somebody else has just written, and
  in the end the image has all its columns and labels;
- the album page: its address is that of the image shown, and what the page shows after an
  edit is what the server has;
- statistics: each view is reported once, with the time the visitor looked;
- the client: one answer, one callback, the right one;
- tables: the order is that of the clicks, whatever is searched for in between;
- thumbnails: one row for one image and size.

How they interact. An upload or a control handler writes rows, publishes `index_image` to
the broker with `album_changed` as its follow-up, and announces the change of the album to
the label index. The broker's handlers index the image and, as the consumer of
`album_changed`, announce the change again. The label index deletes pages, and for a label
that a sprite claim carries it calls the sprite service. Page requests rebuild what is
missing; a page that comes without its images has `loadAlbum` ask for them and put them
together. What a page changes on the server it changes in itself when the answer comes. The
broker's tables, the pages and the manifests survive a restart; tokens,
handlers, builds, invalidations and sleeping checks do not.

What is hard here: several statements where one transaction would be needed, goroutines
that write what they read earlier, ids that SQLite hands out again, timeouts whose owner is
still alive, and cleanup that only a goroutine in memory remembers; in the browser, events of
the user, answers of the server and decisions of the browser in any order. The hazards in
`PROJECT.json` name each at its line.

## The broker: `QliteBroker`, `WorkQueue`

`rows` and `archive` are the two tables, `pollAgain` the number of tokens in the channel
(capacity 2), `poller` the goroutine `Broker.poll` and `run` the goroutines `consumeOnce`,
one place per unit of a topic's semaphore. The poller's work for one topic is split as in
the code: SELECT with a limit, then for each row the UPDATE of `started_at` and the start of
the goroutine. A handler runs the consumer, publishes the follow-ups one by one, and then
either rewrites its row (retry) or archives and deletes it in two statements; it frees its
place at the very end. Every one of these statements may fail, and the process may die
between any two.

Time is relative: a row has an age since its start and a wait until its next try, both
capped where nothing depends on more. A `uid` is added to messages for the properties,
because row ids are reused: `FreshId` is SQLite's rule for `INTEGER PRIMARY KEY`.

`WorkQueue` is what users of the queue rely on: an accepted message waits, is taken, and is
either finished or given back; it never vanishes. `KeepsPromise` maps the tables and
goroutines to it (`Waiting`, `Taken`, `Done`).

| run | question | properties | expected |
|---|---|---|---|
| broker_crash | one message with its follow-up, lost tokens, the ticker, and a crash at any step, or a failing statement, which may end a round before the other topics had their turn | TypeInvariant, NoMessageLost, OneHandler, HandlerOwnsRow, EveryMessageSettles | pass |
| broker_steps | two messages and their follow-ups on two places; pairs of follow-ups and follow-ups of follow-ups; a crash, a failing statement or a retry anywhere | KeepsPromise, RefusedForPayload, ProcessedOnce, FollowUpsPublished, IdsFollowPublication, PollerNeverBlocks | pass |
| broker_idreuse | a handler slower than `startExpire`, and a second message | NoMessageLost | violation |

`Timely` says that no handler outlives `startExpire` (an hour in the application). The code
does not enforce it; the run broker_idreuse drops it, all others and the theorems
of `QliteBroker_timely` keep it.

What was accepted is validated again when its turn comes: Publish looks at the topics of a
message and of its follow-ups at every depth (`Valid`), stores them in the payload, and each
follow-up goes through Publish again, perhaps after a restart. `RefusedForPayload` says that
it is never the topic for which it is refused then; what is refused is a payload that did not
survive its way through the table (`Reloads`).

Bounds. Two topics as in the application (image jobs with room for two handlers, album
notices with one), a body without consumer, at most two publications from outside, one crash,
fault or retry, ages up to one tick past the expiry. broker_crash has a crash or a fault, not
both (`CrashOrFault`). broker_steps joins two cases (`StepCases`). `TwoJobs` is two publications of
jobs and notices; its `OneTrouble` does not follow a state that has used a fault or a retry and both
publications, which leaves two messages or trouble, not both to their ends. `OneOfAny` is one
publication from outside of any of eight bodies, with a crash or a fault: alone, with one
follow-up, with two, with a chain of two, and with the topic nobody consumes at each depth. Two
messages are enough for a reused id and for a full semaphore; one of each failure puts it at
every step of a message's life. The constraints cut off publications, crashes, faults and
retries only, which no fairness asks for. The theorems have none of these bounds.

Fairness (broker_crash). `Poll` is the ticker of `infra/init.go`, which calls it every
so often for as long as the process lives; the polling goroutine and the handlers keep
running, which is Go's scheduler and consumers that return; `Tick` is time. All are weak.

## Cached pages and labels: `LabelCache`

Keys are the main page, and for an album its page and its preview, as a guest sees them
(the thumb grid labels and reads its album as the page does). A source is an album, the list
of albums or the settings; each has a version, and an entry is the versions it saw. `Plan` is the order in which each builder
attaches labels and reads, taken from its handler. A rebuild drops the labels of its key,
follows its plan step by step and stores its result; an announcement selects keys by label
and for each deletes the entry, then the labels. Rebuilds, announcements, failing statements
and crashes interleave. `CopyToAlbum` is the path of add_to_album that announces nothing, though `dep/README.md` lists
adding photos among what AlbumChanged is for; it makes its album `lost` (see the findings).

History variables say why an entry may be stale: `unguarded`, a key whose labels an
invalidation or a failed INSERT took from it; `lost`, a label whose last invalidation was
not carried out. `FreshUnlessOvertaken` says that these, and an invalidation still on its
way, are the only reasons for the sources a builder labels before it reads them.

| run | question | properties | expected |
|---|---|---|---|
| labels_fresh | an album's page, two handlers, a fault, a crash; does expiry repair the rest? | TypeInvariant, FreshUnlessOvertaken, EveryPageCatchesUp | pass |
| labels_main | the main page and a preview, two albums that come and go, one featured | FreshUnlessOvertaken, NoLeftoverLabels | pass |
| labels_overtaken | a rebuild that an invalidation overlaps | AlbumPageFollowsAlbum | violation |
| labels_hidden | an empty album that is filled, nothing overlapping | MainPageShowsAll | violation |

`Overlap = FALSE` lets a change begin only when no rebuild or handler is at work: labels_hidden
does not even need concurrency. `LabelledFirst` names, for each key, the sources whose label
is attached before the read; `FreshUnlessOvertaken` is about those. The albums a main page
shows are not among them, because that page reads an album first and labels it after.

Bounds. Two changes are needed for "overtaken, then missed"; two handlers for two
announcements at once; two albums and a featured one for the main page's list. The list of
keys is cut to the keys a run is about, since keys meet only through announcements.

Fairness (labels_fresh). Pages keep being requested (`StartBuild`, weakly), entries
expire, builders and handlers keep running. The property is about pages that are requested;
nothing is promised of one nobody asks for.

## Sprites: `SpriteManifests`

A manifest key is a hash of the images of a page, so that two albums with the same images
share a manifest, and a changed page has another key. `manifest` maps keys to owners,
`blobs` holds the chunks. A request whose manifest exists makes its album an owner
(`View`, `TrackAlbum`) and labels the claim; a request without starts a build that ensures
chunk after chunk and then stores the manifest. A change invalidates the claims of its
albums, one after the other: `RetireRead`, `RetireWrite`, `RetireLabel`. After the last
owner a sleeping goroutine (`check`) waits to `Check` and delete.

TrackAlbum, Delete and the delayed check each read the manifest in one step and write or
delete it in a later one, chunk by chunk; no lock keeps them, or a build, apart, and the model
has every interleaving of them. Four histories name what can come of it:

- `unlabelled`: claims whose label an error or a crash prevented;
- `damaged`: manifests whose deletion an error or a crash cut short;
- `crossed`: manifests that were read to be written back, or built, while they were deleted;
- `revived`: claims that a request made while they were retired, or that a write brought back.

`OwnChunksStay` and `OwnerCanBeRetired` say that these are the only reasons why a manifest
lacks a chunk that only it names, and why an owner cannot be found by its label. The two
violations break what the documentation promises: one by a chunk of two manifests, one by the
janitor.

| run | question | properties | expected |
|---|---|---|---|
| sprites_main | two albums that own one manifest and change apart or together, and one fault, crash or run of the janitor; or one album that turns from one manifest to another with a chunk in common | TypeInvariant, OwnChunksStay, OwnerCanBeRetired, RetiredIsDeleted | pass |
| sprites_shared | two manifests with a chunk in common | ReadyHasChunks | violation |
| sprites_sweep | the janitor of the shared table | OwnedManifestStays | violation |

Bounds. sprites_main has two albums, two keys with a chunk in common, one request, one handler,
two sleeping checks and one change, with one trouble of any kind (`MaxTroubles`): a manifest can
lose its last owner, be built again and lose it again while the first check still sleeps. The
constraint `TwoOfOne` leaves two cases: both albums on one manifest, or one album and both
manifests, without trouble. It cuts off requests, builds that a request starts, changes and
troubles only, which no fairness asks for. With one request there is a retirement to race with,
but no second claim; the theorems have none of these bounds.

`OwnedManifestStays` fails without the janitor too: with `MaxSweeps = 0` in sprites_sweep a page
claims the manifest between `Check`, which saw no owner, and `DeleteManifest`.

Fairness (sprites_main). Goroutines keep running and sleeping ones wake up, all weakly: a check
that is due stays enabled until it runs. No page need ever be requested.

## Uploads: `Uploads`

In the browser Uppy sends the files it was given one by one; an image is announced with the
sizes of the thumbnails that were chosen with it (`Expected`). On the server tusd hands a file
to one goroutine when it is complete (`Arrive`, `Take`). A thumbnail is stored for the image
that waits for it (`Thumbnail`, which goes on when it was refused); an image is renamed, gets its row, is added to the album,
announced, and then waits for its thumbnails or is given to the broker (`Rename` to `Index`).
Each step may fail, which is only logged, and the process may stop between any two
(`ServerStops`), with `thumbWait` lost. The visitor may choose files again.

`StoredIsIndexed` says that an image of the album has an index job or waits for something that
is yet to come; the history `excused` names the images that an error or a stop came between.

| run | question | properties | expected |
|---|---|---|---|
| uploads_thumbs | does a thumbnail find the image that waits for it? | ThumbsReleaseImage | violation |

`StoredIsIndexed` is checked in site_parts, below. Bounds: two images, one of them with one
thumbnail, in every order; one more choice of any files, one fault, one stop.

## Indexing: `Indexing`

One image, its row and its metadata, under everybody who writes them. A job reads the row when
it starts (`Start`), then works out the columns that are missing one after the other, each
with an UPDATE of all columns (`Ensure`), some of whose errors are only logged (`Soft`).
`AddFile` and `Update`, the form of the administrator, write all columns too. At its end a job
starts a goroutine per kind of label, which looks (`Look`), asks a remote service and merges
the answer into the record as it is then, under the mutex of `Ensure` with Prepare
(`Labelled`). A restart delivers unfinished jobs again and forgets the goroutines.

- `IndexKeepsText`: a job never undoes a description that was entered before it read the row.
  Edits in the minutes after that are undone, which is why the property excuses `overlapped`.
- `ReadyAtRest`: when the jobs are through and no error was logged, all columns are there,
  although jobs and additions write whole rows over each other.
- `LabelsKept`: a label that was stored stays, although all goroutines write one record.

## The browser

`AlbumPage` is the page of an album with its sub-albums: `loadAlbum` runs once for each
gallery and leaves its handlers on the window. A lightbox shows the images of one gallery
(`Show` is both events a change of the image raises); full screen is asked for by the page
(`TurnOn`, `TurnOff`, `Close`) and granted, denied or ended by the browser (`Entered`, `Left`,
`LeftAlready`, `Escaped`); removals and drags are requests (`Post`) that the server carries
out (`Serve`), or the network loses (`Lost`), and the page acts on the answer
(`AnswerRemove`, `AnswerMove`). Each action is one callback, for the page has one thread.

- `AddressFollowsImage`: out of full screen the address is that of the image shown.
  `AddressRestoredInWindow`: with no lightbox it is one the page had before. `FlagMeansOpen`:
  full screen ends with the lightbox.
- `GoneMeansRemoved`, `FirstMoveAgrees`: what the page shows after a removal or a drag is what
  the server will show. `KeyRemovesFromShown`: Ctrl+X removes from the album that is shown.

`ViewStats` is the page's clock: blur, focus and scroll move time between two sums, images and
thumbnails are measured with what is left. `EachViewReported`, `TimesAddUp` and
`ThumbTimesAddUp` compare what was sent with the time that a visitor would count (`views`,
`seen`).

`Backend` lists every method of the generated client with its verb and its arms;
`BackendCalls` is one request of any of them. `ToldOnce` and `AnswerReachesPage` are about all
methods and all statuses, those that nobody expects included.

`ResultTable` is fancyTable, which both administrator's scripts have: `SortedByClicks` says
that clicks on headers sort by the last click, then the one before it, whatever was searched
for in between.

`Timeline` puts texts between images twice, as the server does (`ServerBuilds`, its loop as a
function of the number of rounds) and as the browser does (one round of the loop per action).
The time of a text may have a fraction of a second (`part`), which the browser compares
(`LaterThan`) and the server cuts off (`Stays`). `SameEitherWay` says that both pages are the
same unless, with the oldest image first, a text has an image's second and a fraction
(`SplitsSecond`): the server puts that text before the image, the browser after it.
`TextsInPlace` says where the browser puts texts.

A drag whose target was removed in the meantime takes the dragged image out of the page
(`Before`), as jQuery detaches the element before it looks for the target's parent.

## The parts together: `MCParts`

`AlbumPage`, `ViewStats`, `BackendCalls`, `ResultTable`, `Timeline`, `Uploads` and `Indexing`
have no variable in common: they run on pages of their own, or beside each other without a
word. Interleaving them would multiply states and show nothing, so one run checks all: `Init`
chooses one part that has something to do, and the others stay as they are.

| run | question | properties | expected |
|---|---|---|---|
| site_parts | every part alone, with all its interleavings | FlagMeansOpen, AddressFollowsImage, AddressRestoredInWindow, GoneMeansRemoved, KeyRemovesFromShown, FirstMoveAgrees, EachViewReported, TimesAddUp, ThumbTimesAddUp, ToldOnce, AnswerReachesPage, SortedByClicks, SameEitherWay, TextsInPlace, StoredIsIndexed, IndexKeepsText, ReadyAtRest, LabelsKept | pass |

Bounds (`MCParts`, `Parts.cfg`). Two galleries that share an image; four `Scenarios` of what a
visitor and an administrator do, so that two removals meet, a drag meets a removal, and full
screen meets both and a second lightbox. Three ticks, two views of two images, one of which
can be enlarged; `OneMeasured` separates images from thumbnails, which have only the clock in
common. Every method of the client with ten statuses, described ones and others. Four rows of
three columns with ties in each, four clicks: a click more than there are columns, so that
one turns round. Up to three images and two texts at all times around them, with and without a
fraction. Two index jobs,
with edits, a fault, a restart or labels (`IndexCases`).

A visitor may stop at any time, and jobs end: deadlock is not an error here and nothing is
promised to happen, so that no fairness is stated.

## Findings

Each violation run has an entry under `findings` in `PROJECT.json` with the lines of the
code and of the text it disagrees with. In short:

- A handler that takes longer than an hour gets a second one beside it, and the slower of
  the two may delete an unrelated message that was given the same row id.
- An invalidation removes the labels of a rebuild it overlaps, and an album that is empty or
  hidden gets no label on the main page. The pages stay stale until they expire, an hour at
  most.
- Deleting a sprite manifest deletes chunks that another manifest uses.
- The janitor of the table takes the manifests, which are stored with expiry 0 to last for
  ever.
- A thumbnail that is uploaded with its image never finds the record in which the image waits
  for it, because the key holds the hash of the file's own content. The thumbnail is refused,
  and the image is not indexed.

Four more places do not do what the documentation says. They have no run of their own; the
properties of the passing runs except them by name, and the models show each of them:

- add_to_album announces nothing when it copies photos from another album (`CopyToAlbum`): the
  album's page stays as it is until it expires. `dep/README.md:148` says "changing album `A`
  invalidates album page `A`", and 257-271 list "add photo to album" among the triggers. The
  history `lost` excuses the album in `FreshUnlessOvertaken`.
- The delayed check deletes a manifest that was claimed after the check had looked at its
  owners, which `dep/README.md:243` rules out ("only if it is still ownerless"). sprites_sweep
  with `MaxSweeps = 0` finds it for `OwnedManifestStays`.
- A page request writes back the owners it read (`View`, `TrackAlbum`). An album that was retired
  meanwhile is an owner again without a label, so that its next change does not retire the claim
  as `dep/README.md:234` says; the history `revived` excuses it in `OwnerCanBeRetired`. Of two
  albums that claim at once one is forgotten, though by `dep/README.md:226` the manifest stores
  each that is rendered; no property speaks of it.
- A lightbox that is closed in full screen leaves the address at its image, because the end of
  full screen arrives while the lightbox still closes (`strayed`). `album.js:80` calls baseUrl the
  "base address to set on image close". `AddressRestored` as an invariant of Parts.cfg finds it;
  `AddressRestoredInWindow` says that this is the only case.

What follows is how the code is; we found no text of the repository that promises otherwise,
so that it is disclosed here and no run claims a violation.

- Messages are delivered at least once: after a crash between the archive and the deletion a
  message runs again, so that `ProcessedOnce` is about the time before the first crash or fault. With `Timely = FALSE`,
  `OneHandler` fails.
- A follow-up whose payload is not a plain JSON value is accepted with its message, then
  refused when its turn comes, logged and dropped (the history `dropped`).
- An empty preview is cached without a label, and the main page labels an album after reading
  it.
- A restart forgets the manifests without owners, which stay for ever: `RetiredIsDeleted` is
  about those `retired` by the process that runs. A chunk that cannot be deleted ends the
  deletion of its manifest, which stays and is served without the chunks deleted before.

Of uploads and indexing:

- A stop of the process forgets the images that wait for thumbnails, and an error of the
  deferred announcement ends AddFile before the index job (`excused`); the images stay in the
  album without being indexed.
- A job whose error is not soft is archived as failed and not tried again (`Error`).
- Adding an image that is there already writes a row of path and size only, and with it wipes
  the description (`AddFile`); saving a form that was opened earlier brings back the columns
  of that time (`Update`).
- The label of the place is lost when there is no metadata record yet (`Labelled`); two jobs
  of one image may add a label of the others twice (`Plus`).

Of the page:

- An image that is dragged out of a sub-album is asked for in the album itself, where the
  server finds no row of it and answers with success (`Drop`, `Moved`).
- The button of a caption belongs to the first gallery that has the image (`CaptionOf`).
- `hashByIdx` is not changed by removals and drags, so that a link of the map may open another
  image and the address name another one than is shown; `data("ts")` is read once (`cachedTs`)
  and stale after that.
- Only the gallery that was loaded last follows the end of full screen
  (`SyncAfterFullscreen`).
- A text with a fraction in the second of an image, oldest image first, stands before the image
  on the server's page and after it on the browser's (`SplitsSecond`).
- A drag whose target was removed meanwhile makes the dragged image vanish from the page until
  it is loaded again (`Before`).
- The greatest width shown is not reset between images, and neighbours that are loaded count
  for it (`Resize`). A page that is closed does not report the view that goes on.
- The arms for 401 decode a body that is not there, so that no callback hears of it
  (`AnswerReachesPage` excepts it).

## Proofs

All but four properties of the passing runs are theorems, for every value of the constants
and any number of steps; the runs show them on small instances. The theorems assume what the
modules assume of their constants, and what is named here.

`QliteBroker`, for every set of topics and bodies, every semaphore, any number of messages,
crashes, faults and retries:

- `QliteBroker_proofs`: `TypeCorrect`; `FollowUps` (a success is archived only after its
  follow-ups), by an invariant that says for each step of a handler which follow-ups it has
  behind it; `AcceptedForGood`, by `ValidInv`, that what is stored, and what handlers carry, was
  valid when it was accepted, with `AcceptedAgain`: the bodies that are valid and survive the
  table with all that follows on them are closed under follow-ups, so that what is refused later
  is refused for a payload; `NeverBlocks`, by `Room`: a batch is of one topic and no
  greater than what is free, for the SELECT has the LIMIT that was counted before it.
- `QliteBroker_timely`, with `Timely` as a hypothesis: `NothingLost`, `RowsOwned`,
  `SingleHandler`, `OrderKept`. None is inductive alone. `Own` joins them: a handler's row is
  its own because it is the only one with that id and has not expired; it keeps that row
  because only it deletes by the id; the id is not given away because it is in use; and one
  uid has one row because ids order the rows as they were published. `PromiseKept` follows,
  that every step of the broker is a step of `WorkQueue` or changes nothing there; and
  `HandledOnce`, because without trouble (`Quiet`) a row whose message is archived is one its
  handler is about to delete (`Marked`).

`LabelCache`, for every set of albums, list of featured ones, set of keys and handlers, any
number of changes, crashes and faults (`LabelCache_proofs`): `TypeCorrect`, `Fresh` and
`NoneLeftOver`. `FreshUnlessOvertaken` is not inductive, because a page becomes stale long
after the steps that keep it in reach of a handler. `Inv` follows it through the rebuild.
What a rebuild has to do is the rest of its plan (`OnPlan`), so it reads nothing before its
first two labels (`ReadsFollow`), and those are in the table from then on, through the store,
unless something took them (`Labelled1st`). Whoever saw a version that has changed is
therefore found by the SELECT of the handler that announces the change: `StaleReached` says
that the handler has yet to select, or has the key among those to delete. Versions in memory
change with the announcement except those of the settings, which change after it, so
`SettingsReached` says the same of every page that saw any settings. `SeenEarlier` is for the
creation of an album, which announces the list only: nobody can have read the album since it
was deleted. The proof has a lemma for each action, and common ones for the steps of a
rebuild (`Advance`), changes (`Touch`), and the two kinds of steps of an invalidation
(`Proceed`, `Dequeued`). `NoLeftoverLabels` needs `LabelInv` on top of it: a page has no
labels but its own and those of what it shows (`OnlyOf`), where the main page, which forgets
what it shows when it reads the list, has that only from there on (`Counted`, `ListPlace`).

`SpriteManifests`, for any albums, keys, chunks, requests and handlers, any number of
changes, restarts, faults and janitor runs (`SpriteManifests_proofs`): `TypeCorrect`;
`ChunksReady` and `OwnersRetire`, without any hypothesis on what may overlap. `ChunksReady` is by
`Kept`: what is stored, being built or to be written back is `Backed`, so it has the chunks that
only it names unless it is one of those `crossed` or `damaged`, and a deletion that is under
way takes no others. `OwnersRetire` is by `Owned`: a claim is `Covered` by its label or by a
reason why not, or its request is about to label it; owners that will be written back are
covered or come back as `revived`, and a claim that is made while it is retired is revived
before its label goes. `OwnedManifestStays` has no theorem, because it is false.

`Uploads`, for any images and sizes, choices of files, faults and stops (`Uploads_proofs`):
`StoredIndexed`, by an invariant that names for each image of the album the step, the wait,
the job or the excuse that takes care of it; and `NoThumbnailStored`, that no thumbnail sent
with its image is ever stored: the finding of uploads_thumbs, for every upload.

`Indexing`, for any columns, soft ones, kinds of labels, jobs and descriptions, any number of
additions, edits, faults and restarts (`Indexing_proofs`): `TextKept`, by `TextInv`, that the
row of a job that nobody overlapped has the description of the table; `Ready`, by `Cared`,
that a row that is not complete has somebody `Pending`, a job in the queue or one that works
on an incomplete copy and will fill in what is behind it (`Before`); `LabelsStay`, by the
records the goroutines have read. The one hypothesis is that `Derived` is a sequence.

`AlbumPage`, for any galleries, images and times, any number of clicks, drags, removals and
switches, answered, granted and denied in any order (`AlbumPage_proofs`): `AddressFollows`,
`AddressReturns`, `FlagIsReset`, `KeyRemovesShown`. `PageInv` needs that the page listens
before the browser can be in full screen (`Listens`), that Ctrl+X knows no album but that of
the open lightbox (`CurrentIsShown`), that the position is one of the gallery's as long as the
gallery was not changed (`InRange`), and what the address may be while a lightbox closes
(`Restoring`). `GoneIsRemoved`, by `Undragged`: as long as nothing was dragged, a gallery has
elements of its own only, whether a request came from a caption (`Asked`) or from the key
(`CurrentHas`, `BoxItems`) it names an album that had the image, once it is confirmed the row
is gone and stays so, and each image is `Accounted` for. Hypotheses: there is a gallery, and
sorting a finite set gives a sequence (`Rendered`; SortSeq is closed to the prover).

`FrontEnd_proofs` has the rest of the browser:

- `ViewStats`, for any images, thumbnails and number of views: `ViewsReported`,
  `TimesBalance`, `ThumbsReported`. The clock of the page jumps when the focus comes back;
  `Paid`, which takes the time of the last blur instead of now while the focus is away, does
  not, and whoever began with the focus has seen what was `Paid` since (`Measured`,
  `InSight`); what was reported and what goes on is all that was `Paid` (`Balance`). The
  hypothesis is that widths are numbers.
- `BackendCalls`, for any methods, statuses and number of parts of an answer: `HearsOnce`,
  and `AnswerArrives` for methods that are `Described`: one arm per status, and only bodies
  that are there are decoded. That those of `Backend` are is what the run shows.
- `ResultTable`, for any rows of the same columns, clicks and searches: `RowsFollowClicks`,
  by `TableInv`, in which one row is `Ahead` of another by the last click that tells them
  apart.
- `Timeline`: `PageIsServers`, for any images and texts, with the exception the property makes,
  by `LineInv`: after each round the page has what the server's loop has after as many rounds
  (`SameKept`: both keep the same texts for later). `TextsHavePlaces`, for images in order
  and texts with ids of their own (`Album`): a text is either `Waiting` behind all images so
  far or is `Standing` once, in its place. Its other hypothesis, `Filters`, says that the
  filters keep what passes them in order, which is what SelectSeq does but closed to the
  prover.

The server's loop is written as a function of the number of rounds, as sums are of the number
of members. TLA+ defines such a function by choice, so that the proofs begin with the lemma that
there is one: a least number without a function would have a predecessor with one (`Least`,
`SumExists`, `BuiltExists`).

Only model-checked: `EveryMessageSettles`, `EveryPageCatchesUp` and `RetiredIsDeleted`, which
with fairness and ENABLED are beyond the prover, and `FirstMoveAgrees`, which compares sorted
with filtered sequences. Of the six runs that reproduce a violation, uploads_thumbs has a
theorem too.

## Not modelled

Contents: payloads, pages, images, chunks. Rendering, EXIF, scaling and other pure data.
Authentication and permissions, the command line tools, routing and wiring. Of the front end:
maps, captions, panoramas, EXIF boxes, messages and favorites, the menu and the start page;
`jsdoc.js` is comments and `L.Control.Locate.js` a library. Of uploads: site files, GPX tracks
and the key of a collaborator. Of statistics: the server adds what it is told to counters, one
statement each. External: PhotoSwipe, Uppy, tusd, jQuery and the browser; the failover cache
with its one builder per key and the janitor that calls `deleteExpired`, taken as the code
uses them; SQLite, whose statements are atomic. `AddConsumer` racing with the polling
goroutine at start-up is left out (all consumers are registered before the first message). The
registration of visits, comments and messages is one statement each.

## Plan

1. `ThumbRepository`: find or build under concurrent requests, and uploaded thumbnails.
2. The cloudflare workers, which call back into the metadata of `Indexing`.
3. Remote indexing and directory import: fan-out over images with joined errors.
4. The server's side of statistics: counters and daily hashes under concurrent requests.
5. Operators with reference definitions: image selection, favorites, photo counting.
6. A composition of `Uploads`, the promise of `WorkQueue`, `Indexing` and `LabelCache`: an
   uploaded photo appears on its album's page.
7. Proofs: `FirstMoveAgrees` of `AlbumPage`, with what sorting and filtering do as hypotheses;
   a specification of what sprites promise, implemented by `SpriteManifests`.
