------------------------------ MODULE Timeline ------------------------------
(***************************************************************************)
(* Texts between the images of an album.  An administrator gives each text *)
(* a time; it stands between the images before and after that time.  The   *)
(* page is put together twice: by the server (buildAlbumTimeline in        *)
(* album_timeline.go) for a page that comes rendered, and by loadAlbum     *)
(* (album.js), image by image, for one that does not.                      *)
(*                                                                         *)
(* The time of an image is in whole seconds, that of a text need not be:   *)
(* Date.parse keeps what comes after the second, Time.Unix cuts it off.    *)
(*                                                                         *)
(* Abstracted.  An item is an image with its time or a text; markup.       *)
(***************************************************************************)
EXTENDS Integers, Sequences, SequencesExt

CONSTANTS
  ImageTimes,   \* times of images
  TextTimes,    \* seconds of texts
  MaxImages,    \* bound: images of the album
  MaxTexts      \* bound: texts of the album

VARIABLES
  images,       \* result.images: Seq([time, pano]), in the order of the album
  texts,        \* album.settings.texts: Seq([time, part, id]), in the order they were entered:
                \* the second, and what the time has beyond it
  newestFirst,  \* album.settings.newest_first
  next,         \* i, the loop over the images
  chronoTexts,  \* texts that are not placed yet
  gallery       \* items of the gallery

lineVars == <<images, texts, newestFirst, next, chronoTexts, gallery>>

ImageItem(imgs, k) == [kind |-> "image", id |-> k, time |-> imgs[k].time]
TextItem(t) == [kind |-> "text", id |-> t.id]
TextItems(s) == [k \in DOMAIN s |-> TextItem(s[k])]

\* The texts of s that are in S, in their order.
Those(s, S) == SelectSeq(s, LAMBDA t : t \in S)

\* Is the time of text t later than a whole second.
LaterThan(t, time) == t.time > time \/ (t.time = time /\ t.part > 0)

\* Mutant: a text of the time of an image comes after it.
WaitsAlways(t, k) == IF newestFirst THEN t.time <= images[k].time ELSE t.time >= images[k].time

\* Does text t come after image k.
Waits(t, k) == IF newestFirst THEN t.time < images[k].time ELSE LaterThan(t, images[k].time)

\* Mutant: texts that were placed stay in the list.
LaterKept(k) == chronoTexts

Sooner(k) == Those(chronoTexts, {t \in ToSet(texts) : ~Waits(t, k)})
Later(k) == Those(chronoTexts, {t \in ToSet(texts) : Waits(t, k)})

\* One round of the loop.
Place ==
  /\ next <= Len(images)
  /\ next' = next + 1
  /\ IF images[next].pano THEN UNCHANGED <<chronoTexts, gallery>>
     ELSE /\ gallery' = gallery \o TextItems(Sooner(next))
                                \o <<ImageItem(images, next)>>
          /\ chronoTexts' = Later(next)
  /\ UNCHANGED <<images, texts, newestFirst>>

Placed == next > Len(images) + 1

\* After the loop.
PlaceRest ==
  /\ next = Len(images) + 1
  /\ next' = next + 1
  /\ gallery' = gallery \o TextItems(chronoTexts)
  /\ UNCHANGED <<images, texts, newestFirst, chronoTexts>>
-----------------------------------------------------------------------------
(* The server *)

\* Time.Unix: the fraction is cut off.
Stays(t, img, newest) == IF newest THEN t.time < img.time ELSE t.time > img.time

\* [timeline, remaining] after the images: built[k] is what the loop has after k of them.
ServerBuilds(imgs, txts, newest) ==
  LET built[k \in 0..Len(imgs)] ==
        IF k = 0 THEN [timeline |-> << >>, remaining |-> txts]
        ELSE LET was == built[k - 1]
                 stay == {t \in ToSet(txts) : Stays(t, imgs[k], newest)} IN
             IF imgs[k].pano THEN was
             ELSE [timeline |-> was.timeline \o TextItems(Those(was.remaining, ToSet(txts) \ stay))
                                             \o <<ImageItem(imgs, k)>>,
                   remaining |-> Those(was.remaining, stay)]
  IN built[Len(imgs)]

ServerTimeline(imgs, txts, newest) ==
  LET built == ServerBuilds(imgs, txts, newest) IN built.timeline \o TextItems(built.remaining)
-----------------------------------------------------------------------------
\* The images are ordered by time, or, newest first, the other way round.
Ordered(s, newest) ==
  \A j, k \in DOMAIN s : j < k => IF newest THEN s[j].time >= s[k].time ELSE s[j].time <= s[k].time

\* No page, or one that the server has rendered.
NoLine ==
  /\ images = << >> /\ texts = << >> /\ newestFirst = FALSE
  /\ next = 2 /\ chronoTexts = << >> /\ gallery = << >>

\* A page is put together.
LineInit(imgs, txts, newest) ==
  /\ images = imgs /\ texts = txts /\ newestFirst = newest
  /\ next = 1 /\ chronoTexts = txts /\ gallery = << >>

\* Albums within the bounds.
LineInputs ==
  \E n \in 0..MaxImages, m \in 0..MaxTexts, newest \in BOOLEAN :
    \E imgs \in [1..n -> [time : ImageTimes, pano : BOOLEAN]], times \in [1..m -> TextTimes],
       parts \in [1..m -> {0, 1}] :
      /\ Ordered(imgs, newest)
      /\ LineInit(imgs, [k \in 1..m |-> [time |-> times[k], part |-> parts[k], id |-> k]], newest)

LineNext == Place \/ PlaceRest
-----------------------------------------------------------------------------
(* Properties *)

\* The browser puts text t after an image of the same second, the server before it.
SplitsSecond(t) ==
  ~newestFirst /\ t.part > 0 /\ \E k \in DOMAIN images : ~images[k].pano /\ images[k].time = t.time

\* A page that the browser puts together shows what the server would have rendered, although
\* one compares fractions of a second and the other does not: unless, with the oldest image
\* first, a text has the second of an image and a fraction.
SameEitherWay ==
  Placed /\ (\A t \in ToSet(texts) : ~SplitsSecond(t))
    => gallery = ServerTimeline(images, texts, newestFirst)

\* In whatever order the texts were entered, each stands on the browser's page once, after the
\* images that are older and before the others; newest first, the other way round.
TextsInPlace ==
  Placed => \A t \in ToSet(texts) :
    \E p \in DOMAIN gallery :
      /\ {q \in DOMAIN gallery : gallery[q].kind = "text" /\ gallery[q].id = t.id} = {p}
      /\ \A q \in DOMAIN gallery : gallery[q].kind = "image" =>
           (q < p <=> IF newestFirst THEN t.time < gallery[q].time ELSE LaterThan(t, gallery[q].time))

=============================================================================
