------------------------------ MODULE AlbumPage ------------------------------
(***************************************************************************)
(* An album page in the browser: resources/static/album.js (loadAlbum) and *)
(* album_extra.js.                                                         *)
(*                                                                         *)
(* loadAlbum runs once for each gallery of the page, the album's own and   *)
(* those of its sub-albums.  Each has a lightbox (PhotoSwipe, external)    *)
(* that shows the images of the gallery one at a time and keeps the        *)
(* address of the page on the image shown.  Full screen is asked for with  *)
(* a button of the lightbox and granted, denied or ended by the browser    *)
(* later.  An administrator removes images and drags them to another place *)
(* of the order; the page changes when the server has answered.            *)
(*                                                                         *)
(* The page is single-threaded: an action is one callback.  What happens   *)
(* between two of them is up to the user, the browser and the server.      *)
(*                                                                         *)
(* Abstracted.  Layout, captions, panoramas, the map, texts between the    *)
(* images (also as places to drag to).  Images are numbered in the order   *)
(* of their paths.                                                         *)
(***************************************************************************)
EXTENDS Integers, FiniteSets, SequencesExt

LOCAL INSTANCE Backend

CONSTANT Galleries    \* albums in the order in which the page loads them, its own first

Albums == {Galleries[k] : k \in DOMAIN Galleries}
Main == Galleries[1]
LastGallery == Galleries[Len(Galleries)]

VARIABLES
  times,       \* server: [Albums -> [images of the album -> time]]
  hashByIdx,   \* [Albums -> Seq(image)], as rendered
  dom,         \* [Albums -> Seq(element)], the a.image elements of each gallery
  dataTs,      \* [element -> data-ts attribute]
  cachedTs,    \* elements whose data("ts") was read |-> what jQuery remembers
  address,     \* of the page
  baseUrl,     \* [Albums -> address], params.baseUrl
  box,         \* the lightbox that is open or closing
  current,     \* currentImage: the album and image for Ctrl+X
  full,        \* [can : does the browser have it for pages, flag : fullscreenEnabled,
               \*  on : is the page full screen, asked : Seq of "enter" and "leave",
               \*  listening : was a fullscreenchange listener added]
  sent,        \* requests that are not answered yet
  moves,       \* history: how many drags were sent
  strayed,     \* history: the last lightbox was closed in full screen or on the way to it
  bounds       \* how many requests, uses of the full screen button and openings are left

pageVars == <<times, hashByIdx, dom, dataTs, cachedTs, address, baseUrl, box, current, full,
              sent, moves, strayed, bounds>>
shown == <<address, box, current, full, strayed>>          \* what the lightbox changes
album == <<times, dom, dataTs, cachedTs, sent, moves>>     \* what the administrator changes
fixed == <<hashByIdx, baseUrl>>
-----------------------------------------------------------------------------
(* Helpers *)

Album(g) == <<"album", g>>
Photo(g, i) == <<"photo", g, i>>
NoAlbum == "no album"
NoImage == 0
NoBox == [state |-> "none"]

\* ORDER BY COALESCE(ai.utime, i.utime), path.
InOrder(t) == SetToSortSeq(DOMAIN t, LAMBDA i, j : t[i] < t[j] \/ (t[i] = t[j] /\ i < j))

Element(g, i) == [of |-> g, img |-> i]
OnPage == UNION {{dom[g][k] : k \in DOMAIN dom[g]} : g \in Albums}

\* $("#img" + hash): the first such element of the page, if there is one.
ById(i) ==
  LET hits == {p \in UNION {{n} \X DOMAIN dom[Galleries[n]] : n \in DOMAIN Galleries} :
                 dom[Galleries[p[1]]][p[2]].img = i} IN
  {dom[Galleries[p[1]]][p[2]] : p \in {q \in hits :
     \A r \in hits : q[1] < r[1] \/ (q[1] = r[1] /\ q[2] <= r[2])}}

Without(e) ==
  [g \in Albums |-> LET at == {k \in DOMAIN dom[g] : dom[g][k] = e} IN
                    IF at = {} THEN dom[g] ELSE RemoveAt(dom[g], CHOOSE k \in at : TRUE)]

\* target.before(e): e is taken from where it is, and put before the target if that is still
\* on the page; it is gone if not.  Nothing happens to an element that is its own target.
Before(target, e) ==
  IF target = e THEN dom
  ELSE [g \in Albums |->
         LET s == Without(e)[g] IN
         IF \E k \in DOMAIN s : s[k] = target
         THEN InsertAt(s, CHOOSE k \in DOMAIN s : s[k] = target, e) ELSE s]

Spend(what) == bounds[what] > 0 /\ bounds' = [bounds EXCEPT ![what] = @ - 1]
-----------------------------------------------------------------------------
(* The lightbox and the address *)

\* The address syncCurrentImageAddress gives when b is the open lightbox: by index, as the
\* gallery was rendered.
Synced(b) ==
  IF b.at \in DOMAIN hashByIdx[b.of] THEN Photo(b.of, hashByIdx[b.of][b.at]) ELSE address

\* contentActivate.
Activated(b) == [album |-> IF current.img # NoImage THEN b.of ELSE current.album,
                 img |-> b.items[b.at].img]

\* The lightbox shows another image: contentActivate, then change.
Show(b) ==
  /\ box' = b
  /\ current' = Activated(b)
  /\ address' = IF full.flag THEN address ELSE Synced(b)
  /\ UNCHANGED <<full, strayed, album, fixed>>

\* A click on image k of a gallery; the lightbox takes its items from the page.
Open(g, k) ==
  /\ box = NoBox /\ Spend("open")
  /\ Show([state |-> "open", of |-> g, items |-> dom[g], at |-> k])

\* openByHash, for a link of the map: idxByHash is as rendered, an index that the gallery
\* does not have any more opens its first image.
OpenByHash(g, k) ==
  /\ box = NoBox /\ dom[g] # << >> /\ Spend("open")
  /\ Show([state |-> "open", of |-> g, items |-> dom[g],
           at |-> IF k \in DOMAIN dom[g] THEN k ELSE 1])

\* The next image or the one before, in a loop.
Go(step) ==
  /\ box.state = "open" /\ Len(box.items) > 1
  /\ Show([box EXCEPT !.at = 1 + ((@ - 1 + step) % Len(box.items))])
  /\ UNCHANGED bounds

\* Mutant: the address is left as it is.
RestoreNothing == UNCHANGED address

RestoreAlbumAddress == address' = baseUrl[box.of]

\* Mutant: currentImage is left as it is.
ResetNothing == UNCHANGED current

ResetCurrent == current' = [album |-> NoAlbum, img |-> NoImage]

\* Mutant: only the browser is told.
ExitForgetsFlag == full' = [full EXCEPT !.asked = IF full.on THEN Append(@, "leave") ELSE @]

ExitFullscreen ==
  full' = [full EXCEPT !.flag = FALSE, !.asked = IF full.on THEN Append(@, "leave") ELSE @]

\* Both handlers of close.
Close ==
  /\ box.state = "open"
  /\ box' = [box EXCEPT !.state = "closing"]
  /\ ResetCurrent
  /\ RestoreAlbumAddress
  /\ ExitFullscreen
  /\ strayed' = ((full.on \/ full.asked # << >>) /\ box.of = LastGallery)
  /\ UNCHANGED <<album, bounds, fixed>>

\* The closing animation is over: lightbox.pswp is undefined again.
Destroyed ==
  /\ box.state = "closing"
  /\ box' = NoBox
  /\ UNCHANGED <<address, current, full, strayed, album, bounds, fixed>>
-----------------------------------------------------------------------------
(* Full screen *)

\* Mutant: the address waits for the next image.
SyncForgotten == UNCHANGED address

\* syncGalleryAddressAfterFullscreen is that of the gallery loaded last.
SyncAfterFullscreen ==
  address' = IF box # NoBox /\ box.of = LastGallery THEN Synced(box) ELSE address

\* toggleFullscreen, by its button.
TurnOff ==
  /\ box.state = "open" /\ full.flag /\ Spend("toggle")
  /\ full' = [full EXCEPT !.flag = FALSE, !.asked = IF full.on THEN Append(@, "leave") ELSE @]
  /\ SyncAfterFullscreen
  /\ UNCHANGED <<box, current, strayed, album, fixed>>

TurnOn ==
  /\ box.state = "open" /\ ~full.flag /\ Spend("toggle")
  /\ full' = IF full.can
             THEN [full EXCEPT !.flag = TRUE, !.asked = Append(@, "enter"), !.listening = TRUE]
             ELSE [full EXCEPT !.flag = TRUE]
  /\ UNCHANGED <<address, box, current, strayed, album, fixed>>

Requested(what) == full.asked # << >> /\ full.asked[1] = what

\* The browser grants or denies what was asked for; granted: fullscreenchange, with an element.
Entered ==
  /\ Requested("enter")
  /\ \E on \in {full.on, TRUE} : full' = [full EXCEPT !.on = on, !.asked = Tail(@)]
  /\ UNCHANGED <<address, box, current, strayed, album, bounds, fixed>>

\* Full screen ends: fullscreenchange.
Ended(asked) ==
  /\ full.on
  /\ full' = [full EXCEPT !.on = FALSE, !.asked = asked,
                          !.flag = IF full.listening THEN FALSE ELSE @]
  /\ IF full.listening THEN SyncAfterFullscreen ELSE UNCHANGED address
  /\ UNCHANGED <<box, current, strayed, album, bounds, fixed>>

\* The page asked for it, or the user pressed Escape.
Left == Requested("leave") /\ Ended(Tail(full.asked))
Escaped == Ended(full.asked)

\* It has ended already: denied.
LeftAlready ==
  /\ Requested("leave") /\ ~full.on
  /\ full' = [full EXCEPT !.asked = Tail(@)]
  /\ UNCHANGED <<address, box, current, strayed, album, bounds, fixed>>
-----------------------------------------------------------------------------
(* Removal and reordering *)

\* Status -1: not answered yet.
Post(r) == Spend(r.op) /\ sent' = sent \cup {r}

\* removeImage, confirmed.
AskRemove(g, i, how) ==
  /\ Post([op |-> "remove", id |-> bounds.remove, status |-> -1, by |-> how, album |-> g, img |-> i])
  /\ UNCHANGED <<shown, times, dom, dataTs, cachedTs, moves, fixed>>

\* The album of the first caption with the image, whose button is the one that is shown.
CaptionOf(i) ==
  LET k == CHOOSE k \in DOMAIN Galleries :
             /\ \E x \in DOMAIN hashByIdx[Galleries[k]] : hashByIdx[Galleries[k]][x] = i
             /\ \A n \in 1..(k - 1) : \A x \in DOMAIN hashByIdx[Galleries[n]] :
                  hashByIdx[Galleries[n]][x] # i
  IN Galleries[k]

\* The button in the caption of the image shown.
RemoveByButton ==
  /\ box.state = "open"
  /\ LET i == box.items[box.at].img IN AskRemove(CaptionOf(i), i, "button")

\* Ctrl+X.
RemoveByKey == current.img # NoImage /\ AskRemove(current.album, current.img, "key")

\* Image i is dropped on an element.  What data("ts") returns is fixed by the first read.
Drop(i, target) ==
  LET ts == IF target \in DOMAIN cachedTs THEN cachedTs[target] ELSE dataTs[target] IN
  /\ box = NoBox
  /\ Post([op |-> "move", id |-> bounds.move, status |-> -1, album |-> Main, img |-> i,
           target |-> target, ts |-> ts])
  /\ cachedTs' = target :> ts @@ cachedTs
  /\ moves' = moves + 1
  /\ UNCHANGED <<shown, times, dom, dataTs, fixed>>

Removed(g, i) == [times EXCEPT ![g] = [j \in DOMAIN @ \ {i} |-> @[j]]]

\* Mutant: the image gets the time of the one it is put before.
MovedSame(g, i, ts) == IF i \in DOMAIN times[g] THEN [times EXCEPT ![g][i] = ts] ELSE times

\* SetAlbumImageTime of an album whose oldest image comes first: UPDATE of the row if any.
Moved(g, i, ts) == IF i \in DOMAIN times[g] THEN [times EXCEPT ![g][i] = ts - 1] ELSE times

\* RemoveFromAlbum and SetAlbumImageTime.  500: the statement failed, or what follows it.
Serve(r) ==
  /\ r.status = -1
  /\ \E status \in IF r.album = NoAlbum THEN {404}
                   ELSE {204, IF r.op = "remove" THEN 403 ELSE 401, 500} :
       /\ sent' = (sent \ {r}) \cup {[r EXCEPT !.status = status]}
       /\ times' \in LET done == IF r.op = "remove" THEN Removed(r.album, r.img)
                                 ELSE Moved(r.album, r.img, r.ts) IN
                     CASE status = 204 -> {done}
                       [] status = 500 -> {done, times}
                       [] OTHER -> {times}
  /\ UNCHANGED <<shown, dom, dataTs, cachedTs, moves, bounds, fixed>>

\* The connection breaks, before or after the server was at work.
Lost(r) ==
  /\ r.status # 0
  /\ sent' = (sent \ {r}) \cup {[r EXCEPT !.status = 0]}
  /\ UNCHANGED <<shown, times, dom, dataTs, cachedTs, moves, bounds, fixed>>

\* Mutant: the callback does not look at the status.
SucceededAlways(r, m) == r.status # -1

\* The first callback is called; the others only show the error.
Succeeded(r, m) == Outcome(m, 2, r.status, TRUE) = "called" /\ 1 \in Arm(m, r.status)

\* The answer to removeImage: the first element with the image goes.
AnswerRemove(r) ==
  /\ r.op = "remove" /\ r.status # -1
  /\ sent' = sent \ {r}
  /\ IF Succeeded(r, controlRemoveFromAlbum) /\ ById(r.img) # {}
     THEN \E e \in ById(r.img) : dom' = Without(e)
     ELSE UNCHANGED dom
  /\ UNCHANGED <<shown, times, dataTs, cachedTs, moves, bounds, fixed>>

\* The answer to a drop: the first element with the image moves before the target.
AnswerMove(r) ==
  /\ r.op = "move" /\ r.status # -1
  /\ sent' = sent \ {r}
  /\ IF Succeeded(r, controlSetAlbumImageTime) /\ ById(r.img) # {}
     THEN \E e \in ById(r.img) : /\ dataTs' = [dataTs EXCEPT ![e] = r.ts]
                                 /\ dom' = Before(r.target, e)
     ELSE UNCHANGED <<dom, dataTs>>
  /\ UNCHANGED <<shown, times, cachedTs, moves, bounds, fixed>>
-----------------------------------------------------------------------------
\* The page of the albums t is loaded at one of its addresses; b is what may happen then.  At
\* the address of an image the lightbox opens.
PageInit(t, b) ==
  /\ times = t
  /\ hashByIdx = [g \in Albums |-> InOrder(t[g])]
  /\ dom = [g \in Albums |-> [x \in DOMAIN hashByIdx[g] |-> Element(g, hashByIdx[g][x])]]
  /\ dataTs = [e \in OnPage |-> t[e.of][e.img]]
  /\ cachedTs = << >>
  /\ \/ address = Album(Main) /\ box = NoBox
     \/ \E x \in DOMAIN hashByIdx[Main] :
          /\ address = Photo(Main, hashByIdx[Main][x])
          /\ box = [state |-> "open", of |-> Main, items |-> dom[Main], at |-> x]
  /\ baseUrl = [g \in Albums |-> IF g = Main THEN Album(Main) ELSE address]
  /\ current = [album |-> NoAlbum,
                img |-> IF box = NoBox THEN NoImage ELSE box.items[box.at].img]
  /\ full \in [can : IF b.toggle > 0 THEN BOOLEAN ELSE {TRUE}, flag : {FALSE}, on : {FALSE},
               asked : {<< >>}, listening : {FALSE}]
  /\ sent = {} /\ moves = 0 /\ strayed = FALSE
  /\ bounds = b

PageNext ==
  \/ \E g \in Albums : \E k \in DOMAIN dom[g] : Open(g, k)
  \/ \E k \in DOMAIN hashByIdx[Main] : OpenByHash(Main, k)
  \/ \E step \in {-1, 1} : Go(step)
  \/ Close \/ Destroyed
  \/ TurnOff \/ TurnOn \/ Entered \/ Left \/ LeftAlready \/ Escaped
  \/ RemoveByButton \/ RemoveByKey
  \/ \E e, target \in OnPage : Drop(e.img, target)
  \/ \E r \in sent : Serve(r) \/ Lost(r) \/ AnswerRemove(r) \/ AnswerMove(r)
-----------------------------------------------------------------------------
(* Properties *)

\* fullscreenEnabled is on only while a lightbox is open: else the next one that opens would
\* not keep its address.
FlagMeansOpen == full.flag => box.state = "open"

\* Out of full screen, the address is that of the image shown, so that it can be shared and
\* reloaded: whatever was toggled, granted late, denied or ended with Escape in between.  Not
\* for galleries before the last one once full screen was used, and not for galleries that
\* an image was removed from or moved in since they were rendered.
AddressFollowsImage ==
  /\ box.state = "open" /\ ~full.flag
  /\ box.of = LastGallery \/ (full.can /\ ~full.listening)
  /\ [k \in DOMAIN box.items |-> box.items[k].img] = hashByIdx[box.of]
  => address = Photo(box.of, box.items[box.at].img)

\* "base address to set on image close" (album.js:80).
AddressRestored == box = NoBox => \E g \in Albums : address = baseUrl[g]

\* The same but for a lightbox closed in full screen: the browser reports the end of full
\* screen before the closing animation ends, and the page takes the address of the image again.
AddressRestoredInWindow == strayed \/ AddressRestored

\* An image that is gone from the page is gone from the album, although the page hears of it
\* later, or not at all: for images that are in one of the albums only, as long as no image
\* was dragged (from one gallery to another, of which the server knows nothing).
GoneMeansRemoved ==
  moves = 0 => \A g \in Albums : \A x \in DOMAIN hashByIdx[g] :
    LET i == hashByIdx[g][x] IN
    \/ ById(i) # {}
    \/ i \notin DOMAIN times[g]
    \/ \E h \in Albums \ {g} : \E y \in DOMAIN hashByIdx[h] : hashByIdx[h][y] = i

\* Ctrl+X never removes the image shown from an album other than the one it is shown of:
\* currentImage is reset between two galleries.
KeyRemovesFromShown ==
  [][\A r \in sent' \ sent :
       r.op = "remove" /\ r.by = "key" /\ r.status = -1
         => r.album = NoAlbum \/ (box # NoBox /\ r.album = box.of)]_pageVars

\* After the first drag the images of the album stand on the page in the order in which the
\* album will be shown, if their times differ by two seconds or more.  (A second drag may
\* disagree: data("ts") is what it was, not what the server made of it.)
FirstMoveAgrees ==
  [][\A r \in sent \ sent' :
       /\ r.op = "move" /\ r.status = 204 /\ \A q \in sent' : q.id # r.id
       /\ moves = 1 /\ r.target \in OnPage
       => LET page == [k \in DOMAIN dom'[Main] |-> dom'[Main][k].img] IN
          SelectSeq(page, LAMBDA i : i \in DOMAIN times[Main])
            = SelectSeq(InOrder(times[Main]), LAMBDA i : \E k \in DOMAIN page : page[k] = i)]_pageVars

=============================================================================
