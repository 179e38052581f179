------------------------------ MODULE ViewStats ------------------------------
(***************************************************************************)
(* What an album page tells the server about the visitor: how long each    *)
(* image was shown in the lightbox and how far it was enlarged (album.js), *)
(* and how long each thumbnail was in sight (collectThumbVisibility in     *)
(* album_extra.js).                                                        *)
(*                                                                         *)
(* Time in which the window has lost the focus does not count: it is added *)
(* up when the focus comes back, or the page is scrolled, and subtracted   *)
(* from the clock.  The slideshow, and a layout that is still moving, go   *)
(* on without the focus.                                                   *)
(*                                                                         *)
(* Abstracted.  Milliseconds are ticks; heights; screen and visitor.       *)
(***************************************************************************)
EXTENDS Integers, Sequences

CONSTANTS
  Views,       \* images of the gallery
  Widths,      \* [Views -> widths at which the image can be shown]
  FlushEvery,  \* ticks between two reports about thumbnails
  MaxTime,     \* bound: ticks
  MaxViews     \* bound: images shown

NoView == ""   \* currentImage.img when no image is shown
ASSUME ViewsAssumption == NoView \notin Views

Null == -1      \* lastBlur while the window has the focus

VARIABLES
  opened,       \* is the page open
  now,          \* the clock
  focused,      \* does the window have the focus
  lastBlur,     \* null or when the focus was lost
  unfocused,    \* time without focus so far
  image,        \* currentImage: [img, time, w, mw]
  width,        \* displayedImageWidth of the contents of the lightbox
  visibleSince, \* thumbnails in sight |-> since when
  visibleFor,   \* thumbnails that were in sight |-> how long
  lastFlush,    \* when thumbnails were reported last
  reports,      \* requests to /stats about images: Seq([img, time, w, mw])
  flushed,      \* thumbnails |-> sum of the times that were reported
  views,        \* history: Seq([img, time, fair]), finished views as they were: the attended
                \* time, did the focus see both begin and end
  watched,      \* history: the same of the view that goes on, NoView when the lightbox is closed
  seen          \* history: [thumbnail -> [done, now, fair]], attended time in sight, before
                \* and since it came last, did the focus see every come and go

viewVars == <<opened, now, focused, lastBlur, unfocused, image, width, visibleSince, visibleFor,
              lastFlush, reports, flushed, views, watched, seen>>
focus == <<focused, lastBlur, unfocused>>
imageVars == <<image, width, reports, views>>
thumbs == <<visibleSince, visibleFor, lastFlush, flushed>>

Attended == lastBlur = Null

\* The clock as the page reads it to measure.
Attention == now - unfocused
-----------------------------------------------------------------------------
(* Focus *)

Tick ==
  /\ opened /\ now < MaxTime
  /\ now' = now + 1
  /\ watched' = IF Attended /\ watched.img # NoView THEN [watched EXCEPT !.time = @ + 1] ELSE watched
  /\ seen' = [h \in Views |-> IF Attended /\ h \in DOMAIN visibleSince
                              THEN [seen[h] EXCEPT !.now = @ + 1] ELSE seen[h]]
  /\ UNCHANGED <<focus, imageVars, thumbs, opened>>

Blur ==
  /\ opened /\ focused
  /\ focused' = FALSE
  /\ lastBlur' = now
  /\ UNCHANGED <<now, unfocused, imageVars, thumbs, watched, seen, opened>>

\* Mutant: the time is added, lastBlur is not reset.
AwayTwice == /\ unfocused' = IF lastBlur = Null THEN unfocused ELSE unfocused + now - lastBlur
             /\ UNCHANGED lastBlur

\* The handler of focus and scroll.
Back == /\ unfocused' = IF lastBlur = Null THEN unfocused ELSE unfocused + now - lastBlur
        /\ lastBlur' = Null

Focus ==
  /\ opened /\ ~focused
  /\ focused' = TRUE
  /\ Back
  /\ UNCHANGED <<now, imageVars, thumbs, watched, seen, opened>>

\* A window can be scrolled without the focus.
Scroll ==
  /\ opened
  /\ Back
  /\ UNCHANGED <<now, focused, imageVars, thumbs, watched, seen, opened>>
-----------------------------------------------------------------------------
(* Images *)

\* Mutant: the time without focus counts.
ViewTimeOnClock == now - image.time

\* currentImage.time of a view that ends.
ViewTime == now - image.time - unfocused

Report == IF image.img = NoView THEN UNCHANGED reports
          ELSE reports' = Append(reports, [image EXCEPT !.time = ViewTime])

FinishView == views' = IF watched.img = NoView THEN views
                       ELSE Append(views, [watched EXCEPT !.fair = @ /\ Attended])

\* contentActivate: the view before is reported, the next one begins.  The slideshow goes on
\* without the focus; to open and close the lightbox takes a click or a key, and so the focus.
Activate(i) ==
  /\ opened /\ Len(views) < MaxViews /\ i # watched.img
  /\ focused \/ watched.img # NoView
  /\ Report /\ FinishView
  /\ image' = [img |-> i, time |-> Attention, w |-> width[i], mw |-> image.mw]
  /\ watched' = [img |-> i, time |-> 0, fair |-> Attended]
  /\ UNCHANGED <<now, focus, width, thumbs, seen, opened>>

EndImage == image' = IF image.img = NoView THEN image
                     ELSE [image EXCEPT !.img = NoView, !.time = ViewTime]

\* close.
CloseBox ==
  /\ focused /\ watched.img # NoView
  /\ Report /\ FinishView
  /\ EndImage
  /\ watched' = [watched EXCEPT !.img = NoView]
  /\ UNCHANGED <<now, focus, width, thumbs, seen, opened>>

\* contentResize: an image of the lightbox, the one shown or a neighbour, gets a width, when it
\* is loaded, enlarged or fitted again.
Resize(i, w) ==
  /\ watched.img # NoView
  /\ w # width[i]
  /\ image' = IF w > image.w THEN [image EXCEPT !.mw = w] ELSE image
  /\ width' = [width EXCEPT ![i] = w]
  /\ UNCHANGED <<now, focus, reports, views, thumbs, watched, seen, opened>>
-----------------------------------------------------------------------------
(* Thumbnails *)

\* Mutant: what is in sight at a report is forgotten.
FlushForgets(since, for) ==
  IF Attention - lastFlush >= FlushEvery
  THEN /\ flushed' = [h \in Views |-> flushed[h] + IF h \in DOMAIN for THEN for[h] ELSE 0]
       /\ visibleFor' = << >> /\ visibleSince' = << >>
       /\ lastFlush' = Attention
  ELSE visibleFor' = for /\ visibleSince' = since /\ UNCHANGED <<flushed, lastFlush>>

Flush(since, for) ==
  /\ visibleSince' = since
  /\ IF Attention - lastFlush >= FlushEvery
     THEN /\ flushed' = [h \in Views |-> flushed[h] + IF h \in DOMAIN for THEN for[h] ELSE 0]
          /\ visibleFor' = << >>
          /\ lastFlush' = Attention
     ELSE visibleFor' = for /\ UNCHANGED <<flushed, lastFlush>>

\* The observer's callback: some thumbnails came into sight, others went.
Observe(came, went) ==
  LET gone == went \cap DOMAIN visibleSince
      since == [h \in (DOMAIN visibleSince \cup came) \ gone |->
                  IF h \in DOMAIN visibleSince THEN visibleSince[h] ELSE Attention]
      for == [h \in DOMAIN visibleFor \cup gone |->
                (IF h \in DOMAIN visibleFor THEN visibleFor[h] ELSE 0)
                + (IF h \in gone THEN Attention - visibleSince[h] ELSE 0)] IN
  /\ opened /\ came \cup went # {} /\ came \cap went = {}
  /\ Flush(since, for)
  /\ seen' = [h \in Views |->
                IF h \in gone
                THEN [done |-> seen[h].done + seen[h].now, now |-> 0, fair |-> seen[h].fair /\ Attended]
                ELSE [seen[h] EXCEPT !.fair = @ /\ (h \in DOMAIN since \ DOMAIN visibleSince => Attended)]]
  /\ UNCHANGED <<now, focus, imageVars, watched, opened>>
-----------------------------------------------------------------------------
\* o: is there such a page.
ViewInit(o) ==
  /\ opened = o /\ now = 0 /\ focused = TRUE /\ lastBlur = Null /\ unfocused = 0
  /\ image = [img |-> NoView, time |-> 0, w |-> 0, mw |-> 0]
  /\ width = [i \in Views |-> 0]
  /\ visibleSince = << >> /\ visibleFor = << >> /\ lastFlush = 0
  /\ reports = << >> /\ views = << >>
  /\ flushed = [h \in Views |-> 0]
  /\ watched = [img |-> NoView, time |-> 0, fair |-> TRUE]
  /\ seen = [h \in Views |-> [done |-> 0, now |-> 0, fair |-> TRUE]]

ViewNext ==
  \/ Tick \/ Blur \/ Focus \/ Scroll
  \/ \E i \in Views : Activate(i)
  \/ CloseBox
  \/ \E i \in Views : \E w \in Widths[i] : Resize(i, w)
  \/ \E came, went \in SUBSET Views : Observe(came, went)
-----------------------------------------------------------------------------
(* Properties *)

SumOf(s) == LET sum[k \in 0..Len(s)] == IF k = 0 THEN 0 ELSE sum[k - 1] + s[k].time IN sum[Len(s)]

\* Each view is reported once, in order, and with the time it had the visitor's attention,
\* however often the focus goes and comes back meanwhile (views that begin or end without the
\* focus are left to TimesAddUp).
EachViewReported ==
  /\ Len(reports) = Len(views)
  /\ \A k \in DOMAIN views :
       /\ reports[k].img = views[k].img
       /\ views[k].fair => reports[k].time = views[k].time

\* Also when the slideshow changes images without the focus, no time is lost or counted twice:
\* what one image got too much the others get too little.
TimesAddUp ==
  watched.img = NoView => SumOf(reports) = SumOf(views)

\* What was reported about a thumbnail and what waits for the next report is the time it was in
\* sight, reports between it coming and going included.
ThumbTimesAddUp ==
  \A h \in Views : seen[h].fair =>
    flushed[h] + (IF h \in DOMAIN visibleFor THEN visibleFor[h] ELSE 0) = seen[h].done

=============================================================================
