--------------------------- MODULE AlbumPage_proofs ---------------------------
(***************************************************************************)
(* Proofs about AlbumPage: for any galleries, images, times and number of  *)
(* clicks, requests and switches to full screen, in any order.             *)
(***************************************************************************)
EXTENDS AlbumPage, WellFoundedInduction, TLAPS

LOCAL INSTANCE Backend

PageSpec(t, b) == PageInit(t, b) /\ [][PageNext]_pageVars

\* The page has its own gallery.
HasGallery == 1 \in DOMAIN Galleries

\* The images of a gallery have places: what SetToSortSeq makes of a finite set is a sequence,
\* which the provers cannot look into.
Rendered(s) == \E n \in Nat : DOMAIN s = 1..n

Fulls == [can : BOOLEAN, flag : BOOLEAN, on : BOOLEAN, asked : Seq({"enter", "leave"}),
          listening : BOOLEAN]

BoxTyped(b) ==
  \/ b = NoBox
  \/ /\ b = [state |-> b.state, of |-> b.of, items |-> b.items, at |-> b.at]
     /\ b.state \in {"open", "closing"} /\ b.of \in Albums

Typed ==
  /\ full \in Fulls /\ BoxTyped(box)
  /\ \A g \in Albums : Rendered(hashByIdx[g])

\* The page listens before the browser can be in full screen.
Listens ==
  /\ full.on \/ full.asked # << >> => full.listening
  /\ full.flag /\ full.can => full.listening

\* Ctrl+X knows no album but that of the open lightbox.
CurrentIsShown == current.album # NoAlbum => box.state = "open" /\ current.album = box.of

\* The lightbox has the items of the gallery as it was rendered.
Fits(b) == [k \in DOMAIN b.items |-> b.items[k].img] = hashByIdx[b.of]
InRange(b) == Fits(b) => b.at \in DOMAIN b.items

\* Where the address stays between close and the end of the animation.
Restoring ==
  box.state = "closing" =>
    \/ strayed
    \/ /\ address = baseUrl[box.of]
       /\ box.of = LastGallery => ~full.on /\ full.asked = << >>

PageInv ==
  /\ Typed /\ Listens /\ FlagMeansOpen /\ CurrentIsShown
  /\ box.state = "open" => InRange(box)
  /\ AddressFollowsImage /\ Restoring /\ AddressRestoredInWindow

-----------------------------------------------------------------------------
LEMMA SyncedFits ==
  ASSUME NEW b, b.of \in Albums, Fits(b), InRange(b)
  PROVE  Synced(b) = Photo(b.of, b.items[b.at].img)
<1>1. b.at \in DOMAIN b.items /\ b.at \in DOMAIN hashByIdx[b.of]
  BY DEF Fits, InRange
<1>2. hashByIdx[b.of][b.at] = b.items[b.at].img
  BY <1>1 DEF Fits
<1> QED BY <1>1, <1>2 DEF Synced

\* The lightbox shows another image, of the same gallery if it was open.
LEMMA ShowStep ==
  ASSUME PageInv, NEW b, Show(b), UNCHANGED fixed,
         b = [state |-> "open", of |-> b.of, items |-> b.items, at |-> b.at], b.of \in Albums,
         InRange(b), box = NoBox \/ (box.state = "open" /\ box.of = b.of)
  PROVE  PageInv'
<1>1. box' = b /\ current' = Activated(b) /\ UNCHANGED <<full, strayed, hashByIdx, baseUrl>>
      /\ address' = IF full.flag THEN address ELSE Synced(b)
  BY DEF Show, fixed
<1>2. b.state = "open"
  OBVIOUS
<1>3. Typed' /\ Listens'
  BY <1>1, <1>2 DEF PageInv, Typed, BoxTyped, Listens
<1>4. FlagMeansOpen' /\ InRange(box)' /\ Restoring' /\ AddressRestoredInWindow'
  BY <1>1, <1>2 DEF FlagMeansOpen, InRange, Fits, Restoring, AddressRestoredInWindow, AddressRestored, NoBox
<1>5. CurrentIsShown'
  BY <1>1, <1>2 DEF PageInv, CurrentIsShown, Activated, NoBox
<1>6. AddressFollowsImage'
  BY <1>1, <1>2, SyncedFits DEF AddressFollowsImage, Fits
<1> QED BY <1>1, <1>3, <1>4, <1>5, <1>6 DEF PageInv

\* What the invariant does not look at changes.
LEMMA OtherStep ==
  ASSUME PageInv, UNCHANGED <<shown, fixed>>
  PROVE  PageInv'
BY DEF PageInv, Typed, Listens, FlagMeansOpen, CurrentIsShown, InRange, Fits, Restoring,
       AddressFollowsImage, AddressRestoredInWindow, AddressRestored, shown, fixed

LEMMA FullTyped ==
  ASSUME NEW c \in BOOLEAN, NEW f \in BOOLEAN, NEW o \in BOOLEAN, NEW l \in BOOLEAN,
         NEW a \in Seq({"enter", "leave"})
  PROVE  [can |-> c, flag |-> f, on |-> o, asked |-> a, listening |-> l] \in Fulls
BY DEF Fulls

\* Full screen is given up, and the browser is told.
LEMMA LeaveRequested ==
  ASSUME full \in Fulls,
         full' = [full EXCEPT !.flag = FALSE, !.asked = IF full.on THEN Append(@, "leave") ELSE @]
  PROVE  /\ full' \in Fulls /\ full'.flag = FALSE /\ full'.on = full.on
         /\ full'.can = full.can /\ full'.listening = full.listening
         /\ full'.asked = IF full.on THEN Append(full.asked, "leave") ELSE full.asked
<1> DEFINE a == IF full.on THEN Append(full.asked, "leave") ELSE full.asked
<1>1. a \in Seq({"enter", "leave"})
  BY DEF Fulls
<1>2. full' = [full EXCEPT !.flag = FALSE, !.asked = a]
  OBVIOUS
<1> HIDE DEF a
<1>3. full' = [can |-> full.can, flag |-> FALSE, on |-> full.on, asked |-> a,
               listening |-> full.listening]
  BY <1>2 DEF Fulls
<1>4. full' \in Fulls
  <2>1. full.can \in BOOLEAN /\ full.on \in BOOLEAN /\ full.listening \in BOOLEAN
    BY DEF Fulls
  <2>2. FALSE \in BOOLEAN
    OBVIOUS
  <2>3. [can |-> full.can, flag |-> FALSE, on |-> full.on, asked |-> a,
         listening |-> full.listening] \in Fulls
    BY <1>1, <2>1, <2>2, FullTyped, Zenon
  <2> QED BY <1>3, <2>3, Zenon
<1> QED BY <1>3, <1>4 DEF a

LEMMA CloseStep ==
  ASSUME PageInv, Close
  PROVE  PageInv'
<1>1. box.state = "open" /\ box # NoBox /\ BoxTyped(box) /\ box.of \in Albums
  BY DEF Close, PageInv, Typed, BoxTyped, NoBox
<1>2. /\ box' = [state |-> "closing", of |-> box.of, items |-> box.items, at |-> box.at]
      /\ current' = [album |-> NoAlbum, img |-> NoImage] /\ address' = baseUrl[box.of]
      /\ full' = [full EXCEPT !.flag = FALSE, !.asked = IF full.on THEN Append(@, "leave") ELSE @]
      /\ strayed' = ((full.on \/ full.asked # << >>) /\ box.of = LastGallery)
      /\ UNCHANGED <<hashByIdx, baseUrl>>
  BY <1>1 DEF Close, ResetCurrent, RestoreAlbumAddress, ExitFullscreen, BoxTyped, fixed
<1>3. /\ full' \in Fulls /\ full'.flag = FALSE /\ full'.on = full.on
      /\ full'.listening = full.listening
      /\ full'.asked = IF full.on THEN Append(full.asked, "leave") ELSE full.asked
  BY <1>2, LeaveRequested DEF PageInv, Typed
<1>4. Typed' /\ Listens'
  BY <1>1, <1>2, <1>3 DEF PageInv, Typed, BoxTyped, Listens
<1>5. FlagMeansOpen' /\ CurrentIsShown' /\ AddressFollowsImage' /\ AddressRestoredInWindow'
      /\ box'.state # "open"
  BY <1>2, <1>3 DEF FlagMeansOpen, CurrentIsShown, AddressFollowsImage, AddressRestoredInWindow,
                    AddressRestored, NoBox
<1>6. Restoring'
  BY <1>2, <1>3 DEF Restoring
<1> QED BY <1>4, <1>5, <1>6 DEF PageInv

LEMMA DestroyedStep ==
  ASSUME PageInv, Destroyed
  PROVE  PageInv'
<1>1. box.state = "closing" /\ box # NoBox /\ box.of \in Albums
  BY DEF Destroyed, PageInv, Typed, BoxTyped, NoBox
<1>2. full.flag = FALSE /\ current.album = NoAlbum
  BY <1>1 DEF PageInv, FlagMeansOpen, CurrentIsShown, Typed, Fulls
<1>3. box' = NoBox /\ UNCHANGED <<address, current, full, strayed, hashByIdx, baseUrl>>
  BY DEF Destroyed, fixed
<1>4. strayed \/ address = baseUrl[box.of]
  BY <1>1 DEF PageInv, Restoring
<1> QED BY <1>1, <1>2, <1>3, <1>4
        DEF PageInv, Typed, BoxTyped, Listens, FlagMeansOpen, CurrentIsShown, InRange, Fits,
            AddressFollowsImage, Restoring, AddressRestoredInWindow, AddressRestored, NoBox

\* The page follows the browser out of full screen, or the visitor turns it off.
LEMMA LeaveStep ==
  ASSUME PageInv, UNCHANGED <<box, current, strayed, fixed>>, full' \in Fulls,
         UNCHANGED <<full.can, full.listening>>, full'.flag = FALSE, Listens',
         full.listening \/ ~full.can, SyncAfterFullscreen,
         full.on \/ full.asked # << >> \/ box.state = "open"
  PROVE  PageInv'
<1>1. Typed' /\ FlagMeansOpen' /\ CurrentIsShown' /\ (box.state = "open" => InRange(box))'
  BY DEF PageInv, Typed, FlagMeansOpen, CurrentIsShown, InRange, Fits, fixed
<1>2. AddressFollowsImage'
  <2>1. CASE box.state = "open" /\ Fits(box) /\ box.of = LastGallery
    <3>1. box # NoBox /\ box.of \in Albums /\ InRange(box)
      BY <2>1 DEF PageInv, Typed, BoxTyped, NoBox
    <3>2. address' = Photo(box.of, box.items[box.at].img)
      BY <2>1, <3>1, SyncedFits DEF SyncAfterFullscreen
    <3> QED BY <3>2 DEF AddressFollowsImage
  <2>2. CASE ~(box.state = "open" /\ Fits(box) /\ box.of = LastGallery)
    BY <2>2 DEF AddressFollowsImage, Fits, fixed
  <2> QED BY <2>1, <2>2
<1>3. Restoring' /\ AddressRestoredInWindow'
  BY DEF PageInv, Restoring, AddressRestoredInWindow, AddressRestored, SyncAfterFullscreen, fixed, NoBox
<1> QED BY <1>1, <1>2, <1>3 DEF PageInv

LEMMA FullscreenStep ==
  ASSUME PageInv, TurnOff \/ TurnOn \/ Entered \/ Left \/ LeftAlready \/ Escaped
  PROVE  PageInv'
<1>0. full \in Fulls
  BY DEF PageInv, Typed
<1>1. CASE TurnOff
  <2>1. /\ full' = [full EXCEPT !.flag = FALSE, !.asked = IF full.on THEN Append(@, "leave") ELSE @]
        /\ full.flag /\ box.state = "open" /\ SyncAfterFullscreen
        /\ UNCHANGED <<box, current, strayed, fixed>>
    BY <1>1 DEF TurnOff
  <2>2. /\ full' \in Fulls /\ full'.flag = FALSE /\ full'.on = full.on
        /\ full'.can = full.can /\ full'.listening = full.listening
        /\ full'.asked = IF full.on THEN Append(full.asked, "leave") ELSE full.asked
    BY <1>0, <2>1, LeaveRequested
  <2>3. Listens'
    BY <2>1, <2>2 DEF PageInv, Listens
  <2> QED BY <2>1, <2>2, <2>3, LeaveStep DEF PageInv, Listens
<1>2. CASE TurnOn
  <2>1. box.state = "open" /\ UNCHANGED <<address, box, current, strayed, fixed>>
    BY <1>2 DEF TurnOn
  <2>2. full' \in Fulls /\ full'.flag = TRUE /\ Listens'
    <3>1. CASE full.can
      <4>1. full' = [full EXCEPT !.flag = TRUE, !.asked = Append(full.asked, "enter"), !.listening = TRUE]
        BY <1>2, <3>1 DEF TurnOn
      <4>2. full' = [can |-> full.can, flag |-> TRUE, on |-> full.on,
                     asked |-> Append(full.asked, "enter"), listening |-> TRUE]
        BY <1>0, <4>1 DEF Fulls
      <4> QED BY <1>0, <4>2 DEF Fulls, Listens
    <3>2. CASE ~full.can
      <4>1. full' = [can |-> full.can, flag |-> TRUE, on |-> full.on, asked |-> full.asked,
                     listening |-> full.listening]
        BY <1>0, <1>2, <3>2 DEF TurnOn, Fulls
      <4> QED BY <1>0, <3>2, <4>1 DEF Fulls, PageInv, Listens
    <3> QED BY <3>1, <3>2
  <2> QED BY <2>1, <2>2 DEF PageInv, Typed, FlagMeansOpen, CurrentIsShown, InRange, Fits,
                            AddressFollowsImage, Restoring, AddressRestoredInWindow,
                            AddressRestored, NoBox, fixed
<1>3. CASE Entered
  <2>1. full.asked # << >> /\ full.listening
        /\ UNCHANGED <<address, box, current, strayed, fixed>>
    BY <1>3 DEF Entered, Requested, PageInv, Listens
  <2>2. PICK on \in {full.on, TRUE} : full' = [full EXCEPT !.on = on, !.asked = Tail(@)]
    BY <1>3 DEF Entered
  <2>3. full' = [can |-> full.can, flag |-> full.flag, on |-> on, asked |-> Tail(full.asked),
                 listening |-> TRUE]
    BY <1>0, <2>1, <2>2 DEF Fulls
  <2>4. full' \in Fulls /\ full'.flag = full.flag /\ full'.can = full.can /\ Listens'
        /\ full'.listening = full.listening
    <3>1. /\ full.can \in BOOLEAN /\ full.flag \in BOOLEAN /\ on \in BOOLEAN
          /\ Tail(full.asked) \in Seq({"enter", "leave"})
      <4>1. /\ full.can \in BOOLEAN /\ full.flag \in BOOLEAN /\ full.on \in BOOLEAN
            /\ Tail(full.asked) \in Seq({"enter", "leave"})
        BY <1>0, <2>1 DEF Fulls
      <4>2. on \in BOOLEAN
        BY <4>1, Zenon
      <4> QED BY <4>1, <4>2, Zenon
    <3>2. full' \in Fulls
      BY <2>3, <3>1, FullTyped, Zenon
    <3>3. full'.flag = full.flag /\ full'.can = full.can /\ full'.listening = TRUE
      BY <2>3
    <3> QED BY <2>1, <3>2, <3>3 DEF Listens
  <2> QED BY <2>1, <2>4 DEF PageInv, Typed, FlagMeansOpen, CurrentIsShown, InRange, Fits,
                            AddressFollowsImage, Restoring, AddressRestoredInWindow,
                            AddressRestored, NoBox, fixed
<1>4. ASSUME NEW asked \in Seq({"enter", "leave"}), Ended(asked)
      PROVE  PageInv'
  <2>1. full.on /\ full.listening /\ SyncAfterFullscreen
        /\ UNCHANGED <<box, current, strayed, fixed>>
    BY <1>4 DEF Ended, PageInv, Listens
  <2>2. full' = [can |-> full.can, flag |-> FALSE, on |-> FALSE, asked |-> asked,
                 listening |-> full.listening]
    BY <1>0, <1>4, <2>1 DEF Ended, Fulls
  <2>3. full' \in Fulls /\ full'.flag = FALSE /\ full'.can = full.can
        /\ full'.listening = full.listening /\ Listens'
    BY <1>0, <2>1, <2>2 DEF Fulls, Listens
  <2> QED BY <2>1, <2>3, LeaveStep
<1>5. CASE Left
  <2>1. Tail(full.asked) \in Seq({"enter", "leave"})
    BY <1>0, <1>5 DEF Left, Requested, Fulls
  <2> QED BY <1>4, <1>5, <2>1 DEF Left
<1>6. CASE Escaped
  <2>1. full.asked \in Seq({"enter", "leave"})
    BY <1>0 DEF Fulls
  <2> QED BY <1>4, <1>6, <2>1 DEF Escaped
<1>7. CASE LeftAlready
  <2>1. full.asked # << >> /\ full.listening /\ full.on = FALSE
        /\ UNCHANGED <<address, box, current, strayed, fixed>>
    BY <1>0, <1>7 DEF LeftAlready, Requested, PageInv, Listens, Fulls
  <2>2. full' = [can |-> full.can, flag |-> full.flag, on |-> FALSE, asked |-> Tail(full.asked),
                 listening |-> TRUE]
    BY <1>0, <1>7, <2>1 DEF LeftAlready, Fulls
  <2>3. full' \in Fulls /\ full'.flag = full.flag /\ full'.can = full.can /\ Listens'
        /\ full'.listening = full.listening
    BY <1>0, <2>1, <2>2 DEF Fulls, Listens
  <2> QED BY <2>1, <2>3 DEF PageInv, Typed, FlagMeansOpen, CurrentIsShown, InRange, Fits,
                            AddressFollowsImage, Restoring, AddressRestoredInWindow,
                            AddressRestored, NoBox, fixed
<1> QED BY <1>1, <1>2, <1>3, <1>5, <1>6, <1>7
-----------------------------------------------------------------------------
LEMMA PageStep ==
  ASSUME HasGallery, PageInv, [PageNext]_pageVars
  PROVE  PageInv'
<1>1. ASSUME NEW g \in Albums, NEW k \in DOMAIN dom[g], Open(g, k)
      PROVE  PageInv'
  <2> DEFINE b == [state |-> "open", of |-> g, items |-> dom[g], at |-> k]
  <2>1. Show(b) /\ box = NoBox /\ UNCHANGED fixed /\ InRange(b)
    BY <1>1 DEF Open, Show, InRange
  <2> QED BY <2>1, ShowStep
<1>2. ASSUME NEW k \in DOMAIN hashByIdx[Main], OpenByHash(Main, k)
      PROVE  PageInv'
  <2> DEFINE b == [state |-> "open", of |-> Main, items |-> dom[Main],
                   at |-> IF k \in DOMAIN dom[Main] THEN k ELSE 1]
  <2>1. Show(b) /\ box = NoBox /\ UNCHANGED fixed
    BY <1>2 DEF OpenByHash, Show
  <2>2. InRange(b)
    BY <1>2 DEF InRange, Fits
  <2>3. Main \in Albums
    BY DEF HasGallery, Main, Albums
  <2> QED BY <2>1, <2>2, <2>3, ShowStep
<1>3. ASSUME NEW step \in {-1, 1}, Go(step)
      PROVE  PageInv'
  <2> DEFINE at == 1 + ((box.at - 1 + step) % Len(box.items))
             b == [state |-> "open", of |-> box.of, items |-> box.items, at |-> at]
  <2>1. box.state = "open" /\ BoxTyped(box) /\ box # NoBox /\ box.of \in Albums
    BY <1>3 DEF Go, PageInv, Typed, BoxTyped, NoBox
  <2>2. [box EXCEPT !.at = at] = b
    BY <2>1 DEF BoxTyped
  <2>3. Show(b) /\ UNCHANGED fixed
    BY <1>3, <2>2 DEF Go, Show
  <2>4. ASSUME Fits(b)
        PROVE  at \in DOMAIN box.items
    <3>1. PICK n \in Nat : DOMAIN box.items = 1..n
      BY <2>1, <2>4 DEF Fits, PageInv, Typed, Rendered
    <3>2. Len(box.items) = n
      BY <3>1
    <3>3. n > 1 /\ box.at \in 1..n
      BY <1>3, <2>1, <2>4, <3>1, <3>2 DEF Go, PageInv, InRange, Fits
    <3> QED BY <3>1, <3>2, <3>3
  <2>5. InRange(b)
    BY <2>4 DEF InRange
  <2> QED BY <2>1, <2>3, <2>5, ShowStep
<1>4. CASE Close \/ Destroyed
  BY <1>4, CloseStep, DestroyedStep
<1>5. CASE TurnOff \/ TurnOn \/ Entered \/ Left \/ LeftAlready \/ Escaped
  BY <1>5, FullscreenStep
<1>6. CASE \/ RemoveByButton \/ RemoveByKey
           \/ \E e, target \in OnPage : Drop(e.img, target)
           \/ \E r \in sent : Serve(r) \/ Lost(r) \/ AnswerRemove(r) \/ AnswerMove(r)
           \/ UNCHANGED pageVars
  <2>1. UNCHANGED <<shown, fixed>>
    BY <1>6 DEF RemoveByButton, RemoveByKey, AskRemove, Drop, Serve, Lost, AnswerRemove, AnswerMove,
                pageVars, shown, fixed
  <2> QED BY <2>1, OtherStep
<1> QED BY <1>1, <1>2, <1>3, <1>4, <1>5, <1>6 DEF PageNext

LEMMA PageStart ==
  ASSUME HasGallery, NEW t, NEW b, \A g \in Albums : Rendered(InOrder(t[g])), PageInit(t, b)
  PROVE  PageInv
<1>1. full \in Fulls /\ full.flag = FALSE /\ full.on = FALSE /\ full.asked = << >>
      /\ full.listening = FALSE
  <2>1. full \in [can : IF b.toggle > 0 THEN BOOLEAN ELSE {TRUE}, flag : {FALSE}, on : {FALSE},
                  asked : {<< >>}, listening : {FALSE}]
    BY DEF PageInit
  <2>2. full = [can |-> full.can, flag |-> FALSE, on |-> FALSE, asked |-> << >>, listening |-> FALSE]
    BY <2>1
  <2>3. full.can \in BOOLEAN
    <3>1. CASE b.toggle > 0
      BY <2>1, <3>1
    <3>2. CASE ~(b.toggle > 0)
      BY <2>1, <3>2
    <3> QED BY <3>1, <3>2
  <2>4. << >> \in Seq({"enter", "leave"}) /\ FALSE \in BOOLEAN
    OBVIOUS
  <2>5. [can |-> full.can, flag |-> FALSE, on |-> FALSE, asked |-> << >>, listening |-> FALSE] \in Fulls
    BY <2>3, <2>4, FullTyped, Zenon
  <2>6. full \in Fulls
    BY <2>2, <2>5, Zenon
  <2> QED BY <2>2, <2>6
<1>2. Main \in Albums
  BY DEF HasGallery, Main, Albums
<1>3. /\ \A g \in Albums : hashByIdx[g] = InOrder(t[g])
      /\ \A g \in Albums : dom[g] = [x \in DOMAIN hashByIdx[g] |-> Element(g, hashByIdx[g][x])]
      /\ baseUrl = [g \in Albums |-> IF g = Main THEN Album(Main) ELSE address]
      /\ current.album = NoAlbum
  BY DEF PageInit
<1>4. CASE address = Album(Main) /\ box = NoBox
  BY <1>1, <1>2, <1>3, <1>4
     DEF PageInv, Typed, BoxTyped, Listens, FlagMeansOpen, CurrentIsShown, AddressFollowsImage,
         Restoring, AddressRestoredInWindow, AddressRestored, NoBox
<1>5. ASSUME NEW x \in DOMAIN hashByIdx[Main], address = Photo(Main, hashByIdx[Main][x]),
             box = [state |-> "open", of |-> Main, items |-> dom[Main], at |-> x]
      PROVE  PageInv
  <2>1. box.items[x].img = hashByIdx[Main][x] /\ x \in DOMAIN box.items
    <3>1. dom[Main] = [y \in DOMAIN hashByIdx[Main] |-> Element(Main, hashByIdx[Main][y])]
      BY <1>2, <1>3
    <3>2. box.items = dom[Main]
      BY <1>5
    <3> QED BY <3>1, <3>2 DEF Element
  <2>2. AddressFollowsImage /\ InRange(box)
    BY <1>5, <2>1 DEF AddressFollowsImage, InRange
  <2> QED BY <1>1, <1>2, <1>3, <1>5, <2>2
          DEF PageInv, Typed, BoxTyped, Listens, FlagMeansOpen, CurrentIsShown, Restoring,
              AddressRestoredInWindow, AddressRestored, NoBox
<1> QED BY <1>4, <1>5 DEF PageInit

LEMMA PageAlways ==
  ASSUME HasGallery, NEW t, NEW b, \A g \in Albums : Rendered(InOrder(t[g]))
  PROVE  PageSpec(t, b) => []PageInv
<1>1. PageInit(t, b) => PageInv
  BY PageStart
<1>2. PageInv /\ [PageNext]_pageVars => PageInv'
  BY PageStep
<1> QED BY <1>1, <1>2, PTL DEF PageSpec

\* Out of full screen the address is that of the image shown, whatever the visitor and the
\* browser did in between.
THEOREM AddressFollows ==
  ASSUME HasGallery, NEW t, NEW b, \A g \in Albums : Rendered(InOrder(t[g]))
  PROVE  PageSpec(t, b) => []AddressFollowsImage
<1>1. PageInv => AddressFollowsImage
  BY DEF PageInv
<1> QED BY <1>1, PageAlways, PTL

\* When no lightbox is open the address is one the page began with, unless the last one was
\* closed in full screen.
THEOREM AddressReturns ==
  ASSUME HasGallery, NEW t, NEW b, \A g \in Albums : Rendered(InOrder(t[g]))
  PROVE  PageSpec(t, b) => []AddressRestoredInWindow
<1>1. PageInv => AddressRestoredInWindow
  BY DEF PageInv
<1> QED BY <1>1, PageAlways, PTL

\* No full screen mode is left over from a lightbox that was closed.
THEOREM FlagIsReset ==
  ASSUME HasGallery, NEW t, NEW b, \A g \in Albums : Rendered(InOrder(t[g]))
  PROVE  PageSpec(t, b) => []FlagMeansOpen
<1>1. PageInv => FlagMeansOpen
  BY DEF PageInv
<1> QED BY <1>1, PageAlways, PTL
-----------------------------------------------------------------------------
(* Ctrl+X *)

HaveStatus == \A r \in sent : "status" \in DOMAIN r

KeyStep ==
  \A r \in sent' \ sent :
    r.op = "remove" /\ r.by = "key" /\ r.status = -1
      => r.album = NoAlbum \/ (box # NoBox /\ r.album = box.of)

\* Of all steps only Ctrl+X itself sends such a request; an answer has a status.
LEMMA RequestStep ==
  ASSUME PageInv, HaveStatus, [PageNext]_pageVars
  PROVE  HaveStatus' /\ KeyStep
<1>1. CASE UNCHANGED sent
  BY <1>1 DEF HaveStatus, KeyStep
<1>2. ASSUME NEW r, sent' = sent \cup {r}, "status" \in DOMAIN r,
             \/ r.op # "remove" \/ r.by # "key"
             \/ r.album = current.album
      PROVE  HaveStatus' /\ KeyStep
  <2>1. current.album = NoAlbum \/ (box # NoBox /\ current.album = box.of)
    BY DEF PageInv, CurrentIsShown, NoBox
  <2> QED BY <1>2, <2>1 DEF HaveStatus, KeyStep
<1>3. ASSUME NEW g, NEW i, NEW how, AskRemove(g, i, how), how # "key" \/ g = current.album
      PROVE  HaveStatus' /\ KeyStep
  <2> DEFINE r == [op |-> "remove", id |-> bounds.remove, status |-> -1, by |-> how,
                   album |-> g, img |-> i]
  <2>1. sent' = sent \cup {r} /\ "status" \in DOMAIN r
        /\ (r.by # "key" \/ r.album = current.album)
    BY <1>3 DEF AskRemove, Post
  <2> HIDE DEF r
  <2> QED BY <1>2, <2>1
<1>4. CASE RemoveByButton \/ RemoveByKey
  BY <1>3, <1>4 DEF RemoveByButton, RemoveByKey
<1>5. ASSUME NEW i, NEW target, Drop(i, target)
      PROVE  HaveStatus' /\ KeyStep
  <2> DEFINE ts == IF target \in DOMAIN cachedTs THEN cachedTs[target] ELSE dataTs[target]
             r == [op |-> "move", id |-> bounds.move, status |-> -1, album |-> Main, img |-> i,
                   target |-> target, ts |-> ts]
  <2>1. sent' = sent \cup {r}
    BY <1>5 DEF Drop, Post
  <2>2. "status" \in DOMAIN r /\ r.op # "remove"
    OBVIOUS
  <2> HIDE DEF r
  <2> QED BY <1>2, <2>1, <2>2
<1>6. ASSUME NEW r \in sent, NEW status, status # -1,
             sent' = (sent \ {r}) \cup {[r EXCEPT !.status = status]}
      PROVE  HaveStatus' /\ KeyStep
  <2> DEFINE a == [r EXCEPT !.status = status]
  <2>1. "status" \in DOMAIN r
    BY DEF HaveStatus
  <2>2. a.status = status /\ "status" \in DOMAIN a
    BY <2>1
  <2> HIDE DEF a
  <2> QED BY <1>6, <2>2 DEF HaveStatus, KeyStep
<1>7. ASSUME NEW r \in sent, Serve(r) \/ Lost(r)
      PROVE  HaveStatus' /\ KeyStep
  <2>1. \E status : status # -1 /\ sent' = (sent \ {r}) \cup {[r EXCEPT !.status = status]}
    BY <1>7 DEF Serve, Lost
  <2> QED BY <1>6, <2>1
<1>8. ASSUME NEW r \in sent, AnswerRemove(r) \/ AnswerMove(r)
      PROVE  HaveStatus' /\ KeyStep
  <2>1. sent' = sent \ {r}
    BY <1>8 DEF AnswerRemove, AnswerMove
  <2> QED BY <2>1 DEF HaveStatus, KeyStep
<1>9. CASE \/ \E g \in Albums : \E k \in DOMAIN dom[g] : Open(g, k)
           \/ \E k \in DOMAIN hashByIdx[Main] : OpenByHash(Main, k)
           \/ \E step \in {-1, 1} : Go(step)
           \/ Close \/ Destroyed \/ TurnOff \/ TurnOn \/ Entered \/ Left \/ LeftAlready \/ Escaped
           \/ UNCHANGED pageVars
  <2>1. UNCHANGED sent
    BY <1>9 DEF Open, OpenByHash, Go, Show, Close, Destroyed, TurnOff, TurnOn, Entered, Left,
                LeftAlready, Escaped, Ended, album, pageVars
  <2> QED BY <1>1, <2>1
<1> QED BY <1>4, <1>5, <1>7, <1>8, <1>9 DEF PageNext

\* Ctrl+X never removes the image from an album other than the one it is shown of.
THEOREM KeyRemovesShown ==
  ASSUME HasGallery, NEW t, NEW b, \A g \in Albums : Rendered(InOrder(t[g]))
  PROVE  PageSpec(t, b) => KeyRemovesFromShown
<1>1. PageInit(t, b) => HaveStatus
  BY DEF PageInit, HaveStatus
<1>2. PageInv /\ HaveStatus /\ [PageNext]_pageVars => HaveStatus' /\ KeyStep
  BY RequestStep
<1>3. KeyStep => \A r \in sent' \ sent :
        r.op = "remove" /\ r.by = "key" /\ r.status = -1
          => r.album = NoAlbum \/ (box # NoBox /\ r.album = box.of)
  BY DEF KeyStep
<1> QED BY <1>1, <1>2, <1>3, PageAlways, PTL DEF PageSpec, KeyRemovesFromShown
-----------------------------------------------------------------------------
(* Images that are gone from the page *)

Imgs(g) == {hashByIdx[g][x] : x \in DOMAIN hashByIdx[g]}

\* Elements of a gallery, as it was rendered or with some of them removed.
Items(g) == Seq({Element(g, i) : i \in Imgs(g)})

\* A request of this page to remove an image; the server has removed it when it says so.
Asked(r) ==
  /\ r = [op |-> "remove", id |-> r.id, status |-> r.status, by |-> r.by, album |-> r.album,
          img |-> r.img]
  /\ r.album # NoAlbum => r.album \in Albums /\ r.img \in Imgs(r.album)
  /\ r.status = 204 => r.album # NoAlbum /\ r.img \notin DOMAIN times[r.album]

\* What GoneMeansRemoved says of an image, of its own element.
Accounted(g, i) ==
  \/ \E k \in DOMAIN dom[g] : dom[g][k] = Element(g, i)
  \/ i \notin DOMAIN times[g]
  \/ \E h \in Albums \ {g} : i \in Imgs(h)

AllAsked == \A r \in sent : Asked(r)
OwnItems == \A g \in Albums : dom[g] \in Items(g)
BoxItems == box # NoBox => box.items \in Items(box.of) /\ box.at \in DOMAIN box.items
CurrentHas == current.album # NoAlbum => current.img \in Imgs(current.album)
AllAccounted == \A g \in Albums : \A i \in Imgs(g) : Accounted(g, i)

Undragged == AllAsked /\ OwnItems /\ BoxItems /\ CurrentHas /\ AllAccounted

GoneInv ==
  /\ moves \in Nat /\ times = [g \in Albums |-> times[g]]
  /\ moves = 0 => Undragged

\* A set of numbers with a member has a least one.
LEMMA LeastOf ==
  ASSUME NEW S \in SUBSET Nat, S # {}
  PROVE  \E n \in S : \A m \in S : n <= m
<1>1. IsWellFoundedOn(OpToRel(<, Nat), Nat)
  BY NatLessThanWellFounded
<1>2. PICK n \in S : \A m \in S : ~(<<m, n>> \in OpToRel(<, Nat))
  BY <1>1, WFMin
<1>3. \A m \in S : ~(m < n)
  BY <1>2 DEF OpToRel
<1> QED BY <1>3

\* Two sequences, one after the other.
Joins(c, a, b, S) ==
  /\ c \in Seq(S) /\ Len(c) = Len(a) + Len(b)
  /\ \A k \in 1..Len(a) : c[k] = a[k]
  /\ \A k \in 1..Len(b) : c[Len(a) + k] = b[k]

LEMMA Joined ==
  ASSUME NEW S, NEW a \in Seq(S), NEW b \in Seq(S)
  PROVE  Joins(a \o b, a, b, S)
BY DEF Joins

\* A sequence without one of its elements has the others, and no new ones.
LEMMA RemoveAtHas ==
  ASSUME NEW S, NEW s \in Seq(S), NEW n \in DOMAIN s
  PROVE  /\ RemoveAt(s, n) \in Seq(S)
         /\ \A k \in DOMAIN s \ {n} : \E m \in DOMAIN RemoveAt(s, n) : RemoveAt(s, n)[m] = s[k]
<1>0. n \in 1..Len(s) /\ Len(s) \in Nat /\ DOMAIN s = 1..Len(s)
  OBVIOUS
<1>1. PICK a \in Seq(S) : a = SubSeq(s, 1, n - 1)
  <2>1. SubSeq(s, 1, n - 1) \in Seq(S)
    BY <1>0
  <2> QED BY <2>1, Zenon
<1>2. PICK b \in Seq(S) : b = SubSeq(s, n + 1, Len(s))
  <2>1. SubSeq(s, n + 1, Len(s)) \in Seq(S)
    BY <1>0
  <2> QED BY <2>1, Zenon
<1>3. Len(a) = n - 1 /\ \A k \in 1..(n - 1) : a[k] = s[k]
  BY <1>0, <1>1
<1>4. Len(b) = Len(s) - n /\ \A k \in 1..(Len(s) - n) : b[k] = s[n + k]
  BY <1>0, <1>2
<1>5. PICK c : c = RemoveAt(s, n)
  OBVIOUS
<1>6. Joins(c, a, b, S)
  BY <1>1, <1>2, <1>5, Joined DEF RemoveAt
<1>7. /\ c \in Seq(S) /\ Len(c) = Len(s) - 1 /\ DOMAIN c = 1..(Len(s) - 1)
      /\ \A k \in 1..(n - 1) : c[k] = s[k]
      /\ \A k \in 1..(Len(s) - n) : c[n - 1 + k] = s[n + k]
  <2>1. c \in Seq(S) /\ Len(c) = Len(s) - 1
    BY <1>0, <1>3, <1>4, <1>6 DEF Joins
  <2>2. \A k \in 1..(n - 1) : c[k] = s[k]
    BY <1>3, <1>6 DEF Joins
  <2>3. \A k \in 1..(Len(s) - n) : c[n - 1 + k] = s[n + k]
    BY <1>3, <1>4, <1>6 DEF Joins
  <2> QED BY <2>1, <2>2, <2>3
<1>8. ASSUME NEW k \in DOMAIN s \ {n}
      PROVE  \E m \in DOMAIN c : c[m] = s[k]
  <2>1. CASE k < n
    <3>1. k \in 1..(n - 1) /\ k \in 1..(Len(s) - 1)
      BY <1>0, <2>1
    <3> QED BY <1>7, <3>1
  <2>2. CASE ~(k < n)
    <3>1. k - n \in 1..(Len(s) - n) /\ k - 1 \in 1..(Len(s) - 1)
          /\ n - 1 + (k - n) = k - 1 /\ n + (k - n) = k
      BY <1>0, <2>2
    <3>2. c[n - 1 + (k - n)] = s[n + (k - n)]
      BY <1>7, <3>1
    <3> QED BY <1>7, <3>1, <3>2
  <2> QED BY <2>1, <2>2
<1> QED BY <1>5, <1>7, <1>8

\* An element of the page with the image: $("#img" + hash) finds one.
LEMMA ByIdFinds ==
  ASSUME Rendered(Galleries), \A g \in Albums : Rendered(dom[g]),
         NEW g \in Albums, NEW k \in DOMAIN dom[g], NEW i, dom[g][k].img = i
  PROVE  ById(i) # {}
<1> DEFINE Has(n) == {x \in DOMAIN dom[Galleries[n]] : dom[Galleries[n]][x].img = i}
           N == {n \in DOMAIN Galleries : Has(n) # {}}
           hits == {p \in UNION {{n} \X DOMAIN dom[Galleries[n]] : n \in DOMAIN Galleries} :
                      dom[Galleries[p[1]]][p[2]].img = i}
<1>1. DOMAIN Galleries \subseteq Nat /\ \A n \in DOMAIN Galleries : Galleries[n] \in Albums
  BY DEF Rendered, Albums
<1>2. \A n \in DOMAIN Galleries : Has(n) \subseteq Nat
  BY <1>1 DEF Rendered
<1>3. N \in SUBSET Nat /\ N # {}
  BY <1>1 DEF Albums
<1>4. PICK n \in N : \A m \in N : n <= m
  BY <1>3, LeastOf
<1>5. Has(n) \in SUBSET Nat /\ Has(n) # {}
  BY <1>2, <1>4
<1>6. PICK x \in Has(n) : \A y \in Has(n) : x <= y
  BY <1>5, LeastOf
<1>7. \A p \in hits : p[1] \in N /\ p[2] \in Has(p[1])
  OBVIOUS
<1>8. <<n, x>> \in hits
  BY <1>4, <1>6
<1>9. ASSUME NEW p \in hits
      PROVE  n < p[1] \/ (n = p[1] /\ x <= p[2])
  <2>1. p[1] \in N /\ p[2] \in Has(p[1])
    BY <1>7
  <2> HIDE DEF N, Has, hits
  <2>2. n <= p[1] /\ n \in Nat /\ p[1] \in Nat
    BY <1>3, <1>4, <2>1
  <2>3. CASE n = p[1]
    BY <1>6, <2>1, <2>3
  <2>4. CASE n # p[1]
    BY <2>2, <2>4
  <2> QED BY <2>3, <2>4
<1> QED BY <1>8, <1>9 DEF ById

\* The server has removed the image, or another album has it, when an element leaves the page.
LEMMA WithoutKeeps ==
  ASSUME OwnItems, AllAccounted, NEW g \in Albums, NEW i \in Imgs(g),
         dom' = Without(Element(g, i)), UNCHANGED <<times, hashByIdx>>,
         i \notin DOMAIN times[g] \/ \E h \in Albums \ {g} : i \in Imgs(h)
  PROVE  OwnItems' /\ AllAccounted'
<1>0. \A h \in Albums : Imgs(h)' = Imgs(h) /\ Items(h)' = Items(h)
  BY DEF Imgs, Items
<1>1. ASSUME NEW h \in Albums
      PROVE  /\ dom'[h] \in Items(h)
             /\ \A k \in DOMAIN dom[h] : dom[h][k] # Element(g, i) =>
                  \E m \in DOMAIN dom'[h] : dom'[h][m] = dom[h][k]
  <2> DEFINE at == {k \in DOMAIN dom[h] : dom[h][k] = Element(g, i)}
             n == CHOOSE k \in at : TRUE
  <2>1. dom'[h] = IF at = {} THEN dom[h] ELSE RemoveAt(dom[h], n)
    BY DEF Without
  <2>2. dom[h] \in Items(h)
    BY DEF OwnItems
  <2>3. CASE at = {}
    BY <2>1, <2>2, <2>3
  <2>4. CASE at # {}
    <3>1. n \in DOMAIN dom[h] /\ dom[h][n] = Element(g, i)
      BY <2>4
    <3> HIDE DEF n
    <3>2. /\ RemoveAt(dom[h], n) \in Items(h)
          /\ \A k \in DOMAIN dom[h] \ {n} :
               \E m \in DOMAIN RemoveAt(dom[h], n) : RemoveAt(dom[h], n)[m] = dom[h][k]
      BY <2>2, <3>1, RemoveAtHas DEF Items
    <3> QED BY <2>1, <2>4, <3>1, <3>2
  <2> QED BY <2>3, <2>4
<1>2. ASSUME NEW h \in Albums, NEW j \in Imgs(h)
      PROVE  Accounted(h, j)'
  <2>1. CASE h = g /\ j = i
    BY <1>0, <2>1 DEF Accounted
  <2>2. CASE ~(h = g /\ j = i)
    <3>1. Element(h, j) # Element(g, i)
      BY <2>2 DEF Element
    <3>2. Accounted(h, j)
      BY DEF AllAccounted
    <3> QED BY <1>0, <1>1, <3>1, <3>2 DEF Accounted
  <2> QED BY <2>1, <2>2
<1> QED BY <1>0, <1>1, <1>2 DEF OwnItems, AllAccounted

\* The button asks for an album that has the image.
LEMMA CaptionHas ==
  ASSUME Rendered(Galleries), NEW g \in Albums, NEW i \in Imgs(g)
  PROVE  CaptionOf(i) \in Albums /\ i \in Imgs(CaptionOf(i))
<1> DEFINE N == {k \in DOMAIN Galleries : i \in Imgs(Galleries[k])}
<1>1. N \in SUBSET Nat /\ N # {}
  BY DEF Rendered, Albums
<1>2. PICK n \in N : \A m \in N : n <= m
  BY <1>1, LeastOf
<1>3. \A m \in 1..(n - 1) : m \in DOMAIN Galleries /\ m \notin N
  BY <1>1, <1>2 DEF Rendered
<1> DEFINE Q(k) == /\ \E x \in DOMAIN hashByIdx[Galleries[k]] : hashByIdx[Galleries[k]][x] = i
                   /\ \A m \in 1..(k - 1) : \A x \in DOMAIN hashByIdx[Galleries[m]] :
                        hashByIdx[Galleries[m]][x] # i
<1>4. n \in DOMAIN Galleries /\ Q(n)
  BY <1>2, <1>3 DEF Imgs
<1>5. \E k \in DOMAIN Galleries : CaptionOf(i) = Galleries[k] /\ Q(k)
  <2> DEFINE c == CHOOSE k \in DOMAIN Galleries : Q(k)
  <2>1. c \in DOMAIN Galleries /\ Q(c)
    BY <1>4
  <2>2. CaptionOf(i) = Galleries[c]
    BY DEF CaptionOf
  <2> QED BY <2>1, <2>2
<1> QED BY <1>5 DEF Albums, Imgs

\* Only a deleted row is announced with the callback of success.
LEMMA SuccessIs204 ==
  ASSUME NEW r, Succeeded(r, controlRemoveFromAlbum)
  PROVE  r.status = 204
<1>1. 1 \in Arm(controlRemoveFromAlbum, r.status)
  BY DEF Succeeded
<1>2. controlRemoveFromAlbum.arms = <<204>> \o <<500>>
  BY DEF controlRemoveFromAlbum, Raw
<1>3. controlRemoveFromAlbum.arms[1] = 204
  BY <1>2
<1> QED BY <1>1, <1>3 DEF Arm

\* The lightbox shows another image.
LEMMA GoneShow ==
  ASSUME PageInv, Undragged, NEW b, Show(b), UNCHANGED <<album, fixed>>,
         b = [state |-> "open", of |-> b.of, items |-> b.items, at |-> b.at], b.of \in Albums,
         b.items \in Items(b.of), b.at \in DOMAIN b.items,
         box = NoBox \/ (box.state = "open" /\ box.of = b.of)
  PROVE  Undragged'
<1>1. box' = b /\ current' = Activated(b) /\ UNCHANGED <<hashByIdx, dom, times, sent>>
  BY DEF Show, fixed, album
<1>2. \A g \in Albums : Imgs(g)' = Imgs(g) /\ Items(g)' = Items(g)
  BY <1>1 DEF Imgs, Items
<1>3. \A r \in sent : Asked(r) => Asked(r)'
  BY <1>1, <1>2 DEF Asked
<1>4. \A g \in Albums : \A i \in Imgs(g) : Accounted(g, i)' <=> Accounted(g, i)
  BY <1>1, <1>2 DEF Accounted
<1>5. b.items[b.at].img \in Imgs(b.of)
  <2>1. b.items[b.at] \in {Element(b.of, i) : i \in Imgs(b.of)}
    BY DEF Items
  <2> QED BY <2>1 DEF Element
<1>6. current'.img = b.items[b.at].img /\ (current'.album # NoAlbum => current'.album = b.of)
  BY <1>1 DEF Activated, PageInv, CurrentIsShown, NoBox
<1> QED BY <1>1, <1>2, <1>3, <1>4, <1>5, <1>6
        DEF Undragged, AllAsked, OwnItems, BoxItems, CurrentHas, AllAccounted

\* What the administrator changes stays, and so does what the lightbox holds or it is closed.
LEMMA GoneOther ==
  ASSUME Undragged, UNCHANGED <<album, fixed>>,
         current'.album = NoAlbum \/ UNCHANGED current,
         \/ box' = NoBox
         \/ box # NoBox /\ UNCHANGED <<box.of, box.items, box.at>>
  PROVE  Undragged'
<1>1. UNCHANGED <<hashByIdx, dom, times, sent>>
  BY DEF fixed, album
<1>2. \A g : Imgs(g)' = Imgs(g) /\ Items(g)' = Items(g)
  BY <1>1 DEF Imgs, Items
<1>3. \A r \in sent : Asked(r) => Asked(r)'
  BY <1>1, <1>2 DEF Asked
<1>4. \A g \in Albums : \A i \in Imgs(g) : Accounted(g, i)' <=> Accounted(g, i)
  BY <1>1, <1>2 DEF Accounted
<1> QED BY <1>1, <1>2, <1>3, <1>4
        DEF Undragged, AllAsked, OwnItems, BoxItems, CurrentHas, AllAccounted

\* A request to remove an image of an album that has it, or that there is not.
LEMMA GoneAsk ==
  ASSUME Undragged, NEW g, NEW i, NEW how, AskRemove(g, i, how),
         g # NoAlbum => g \in Albums /\ i \in Imgs(g)
  PROVE  Undragged'
<1>0. PICK q : q = [op |-> "remove", id |-> bounds.remove, status |-> -1, by |-> how, album |-> g,
                    img |-> i]
  OBVIOUS
<1>1. sent' = sent \cup {q} /\ UNCHANGED <<box, current, hashByIdx, dom, times>>
  BY <1>0 DEF AskRemove, Post, shown, fixed
<1>2. \A h : Imgs(h)' = Imgs(h) /\ Items(h)' = Items(h)
  BY <1>1 DEF Imgs, Items
<1>3. Asked(q)'
  <2>1. /\ q = [op |-> "remove", id |-> q.id, status |-> q.status, by |-> q.by, album |-> q.album,
                img |-> q.img]
        /\ q.status = -1 /\ q.album = g /\ q.img = i
    BY <1>0
  <2>2. q.album # NoAlbum => q.album \in Albums /\ q.img \in Imgs(q.album)'
    BY <1>2, <2>1
  <2> QED BY <2>1, <2>2 DEF Asked
<1>4. ASSUME NEW r \in sent
      PROVE  Asked(r)'
  <2>1. Asked(r) /\ times' = times
    BY <1>1 DEF Undragged, AllAsked
  <2> QED BY <1>2, <2>1, Zenon DEF Asked
<1>5. \A h \in Albums : \A j \in Imgs(h) : Accounted(h, j)' <=> Accounted(h, j)
  BY <1>1, <1>2 DEF Accounted
<1>6. AllAsked'
  <2>1. ASSUME NEW p \in sent'
        PROVE  Asked(p)'
    <3>1. p \in sent \/ p = q
      BY <1>1
    <3> QED BY <1>3, <1>4, <3>1
  <2> QED BY <2>1 DEF AllAsked
<1>7. OwnItems' /\ BoxItems' /\ CurrentHas' /\ AllAccounted'
  BY <1>1, <1>2, <1>5 DEF Undragged, OwnItems, BoxItems, CurrentHas, AllAccounted
<1> QED BY <1>6, <1>7 DEF Undragged

\* A request gets a status, and images leave the albums.
LEMMA GoneStatus ==
  ASSUME Undragged, NEW r \in sent, NEW status,
         sent' = (sent \ {r}) \cup {[r EXCEPT !.status = status]},
         \A g \in Albums : DOMAIN times'[g] \subseteq DOMAIN times[g],
         status = 204 => r.album # NoAlbum /\ r.img \notin DOMAIN times'[r.album],
         UNCHANGED <<box, current, hashByIdx, dom>>
  PROVE  Undragged'
<1> DEFINE q == [r EXCEPT !.status = status]
<1>1. \A h : Imgs(h)' = Imgs(h) /\ Items(h)' = Items(h)
  BY DEF Imgs, Items
<1>2. Asked(r)
  BY DEF Undragged, AllAsked
<1>3. q = [op |-> "remove", id |-> r.id, status |-> status, by |-> r.by, album |-> r.album,
           img |-> r.img]
  BY <1>2 DEF Asked
<1>4. Asked(q)'
  BY <1>1, <1>2, <1>3 DEF Asked
<1> HIDE DEF q
<1>5. ASSUME NEW p \in sent
      PROVE  Asked(p)'
  <2>1. Asked(p)
    BY DEF Undragged, AllAsked
  <2>2. p.status = 204 => p.img \notin DOMAIN times'[p.album]
    BY <2>1 DEF Asked
  <2>3. p.album # NoAlbum => p.album \in Albums /\ p.img \in Imgs(p.album)'
    BY <1>1, <2>1 DEF Asked
  <2>4. p = [op |-> "remove", id |-> p.id, status |-> p.status, by |-> p.by, album |-> p.album,
             img |-> p.img] /\ (p.status = 204 => p.album # NoAlbum)
    BY <2>1 DEF Asked
  <2> QED BY <2>2, <2>3, <2>4, Zenon DEF Asked
<1>6. \A h \in Albums : \A j \in Imgs(h) : Accounted(h, j) => Accounted(h, j)'
  BY <1>1 DEF Accounted
<1>7. sent' = (sent \ {r}) \cup {q}
  BY DEF q
<1> QED BY <1>1, <1>4, <1>5, <1>6, <1>7
        DEF Undragged, AllAsked, OwnItems, BoxItems, CurrentHas, AllAccounted

LEMMA GoneServe ==
  ASSUME Undragged, times = [g \in Albums |-> times[g]], NEW r \in sent, Serve(r)
  PROVE  Undragged' /\ times' = [g \in Albums |-> times'[g]]
<1>1. r.op = "remove" /\ (r.album # NoAlbum => r.album \in Albums)
  <2>1. Asked(r)
    BY DEF Undragged, AllAsked
  <2> QED BY <2>1 DEF Asked
<1>2. PICK status \in IF r.album = NoAlbum THEN {404} ELSE {204, 403, 500} :
        /\ sent' = (sent \ {r}) \cup {[r EXCEPT !.status = status]}
        /\ times' \in LET done == Removed(r.album, r.img) IN
                      CASE status = 204 -> {done}
                        [] status = 500 -> {done, times}
                        [] OTHER -> {times}
  BY <1>1 DEF Serve
<1>3. r.album = NoAlbum => times' = times /\ status # 204
  BY <1>2
<1>4. r.album # NoAlbum =>
        times' \in {times, Removed(r.album, r.img)}
        /\ (status = 204 => times' = Removed(r.album, r.img))
  BY <1>2
<1>5. ASSUME NEW g \in Albums, NEW i
      PROVE  LET new == Removed(g, i) IN
             /\ new = [h \in Albums |-> new[h]] /\ i \notin DOMAIN new[g]
             /\ \A h \in Albums : DOMAIN new[h] \subseteq DOMAIN times[h]
  <2>1. Removed(g, i) = [h \in Albums |-> IF h = g THEN [j \in DOMAIN times[g] \ {i} |-> times[g][j]]
                                        ELSE times[h]]
    BY DEF Removed
  <2> QED BY <2>1
<1>6. times' = [g \in Albums |-> times'[g]]
      /\ \A g \in Albums : DOMAIN times'[g] \subseteq DOMAIN times[g]
  <2>1. CASE times' = times
    BY <2>1
  <2>2. CASE r.album \in Albums /\ times' = Removed(r.album, r.img)
    BY <1>5, <2>2
  <2> QED BY <1>1, <1>3, <1>4, <2>1, <2>2
<1>7. status = 204 => r.album # NoAlbum /\ r.img \notin DOMAIN times'[r.album]
  BY <1>1, <1>3, <1>4, <1>5
<1>8. UNCHANGED <<box, current, hashByIdx, dom>>
  BY DEF Serve, shown, fixed
<1>9. Undragged'
  <2> HIDE DEF Undragged
  <2>1. /\ sent' = (sent \ {r}) \cup {[r EXCEPT !.status = status]}
        /\ \A g \in Albums : DOMAIN times'[g] \subseteq DOMAIN times[g]
    BY <1>2, <1>6
  <2> QED BY <1>7, <1>8, <2>1, GoneStatus
<1> QED BY <1>6, <1>9, Zenon

\* The answer: one element leaves the page if the server said that the row is deleted.
LEMMA GoneAnswer ==
  ASSUME Undragged, NEW r \in sent, AnswerRemove(r)
  PROVE  Undragged'
<1>1. sent' = sent \ {r} /\ UNCHANGED <<box, current, hashByIdx, times>>
  BY DEF AnswerRemove, shown, fixed
<1>2. \A h : Imgs(h)' = Imgs(h) /\ Items(h)' = Items(h)
  BY <1>1 DEF Imgs, Items
<1>3. AllAsked'
  <2>1. ASSUME NEW p \in sent
        PROVE  Asked(p)'
    <3>1. Asked(p) /\ times' = times
      BY <1>1 DEF Undragged, AllAsked
    <3> QED BY <1>2, <3>1, Zenon DEF Asked
  <2> QED BY <1>1, <2>1 DEF AllAsked
<1>4. OwnItems' /\ AllAccounted'
  <2>1. CASE UNCHANGED dom
    BY <1>1, <1>2, <2>1 DEF Undragged, OwnItems, AllAccounted, Accounted
  <2>2. ASSUME Succeeded(r, controlRemoveFromAlbum), NEW e \in ById(r.img), dom' = Without(e)
        PROVE  OwnItems' /\ AllAccounted'
    <3>1. PICK g \in Albums : \E k \in DOMAIN dom[g] : e = dom[g][k] /\ e.img = r.img
      BY <2>2 DEF ById, Albums
    <3>2. PICK i \in Imgs(g) : e = Element(g, i)
      <4>1. dom[g] \in Items(g)
        BY DEF Undragged, OwnItems
      <4>2. \A k \in DOMAIN dom[g] : dom[g][k] \in {Element(g, i) : i \in Imgs(g)}
        BY <3>1, <4>1 DEF Items
      <4> QED BY <3>1, <4>2
    <3>3. r.img = i
      BY <3>1, <3>2 DEF Element
    <3>4. r.status = 204
      BY <2>2, SuccessIs204
    <3>5. r.album \in Albums /\ i \in Imgs(r.album) /\ i \notin DOMAIN times[r.album]
      BY <3>3, <3>4 DEF Undragged, AllAsked, Asked
    <3> QED BY <1>1, <2>2, <3>2, <3>5, WithoutKeeps DEF Undragged
  <2> QED BY <2>1, <2>2 DEF AnswerRemove
<1> QED BY <1>1, <1>2, <1>3, <1>4 DEF Undragged, BoxItems, CurrentHas

\* Every step keeps the account of the images that are gone.
LEMMA GoneStep ==
  ASSUME HasGallery, Rendered(Galleries), PageInv, GoneInv, [PageNext]_pageVars
  PROVE  GoneInv'
<1>0. moves \in Nat /\ times = [g \in Albums |-> times[g]] /\ (moves = 0 => Undragged)
  BY DEF GoneInv
<1>1. ASSUME NEW g \in Albums, NEW k \in DOMAIN dom[g], Open(g, k)
      PROVE  GoneInv'
  <2> DEFINE b == [state |-> "open", of |-> g, items |-> dom[g], at |-> k]
  <2>1. Show(b) /\ box = NoBox /\ UNCHANGED <<album, fixed>>
    BY <1>1 DEF Open, Show
  <2>2. Undragged => b.items \in Items(b.of) /\ b.at \in DOMAIN b.items
    BY DEF Undragged, OwnItems
  <2>3. Undragged => Undragged'
    BY <2>1, <2>2, GoneShow
  <2> QED BY <1>0, <2>1, <2>3 DEF GoneInv, album
<1>2. ASSUME NEW k \in DOMAIN hashByIdx[Main], OpenByHash(Main, k)
      PROVE  GoneInv'
  <2> DEFINE b == [state |-> "open", of |-> Main, items |-> dom[Main],
                   at |-> IF k \in DOMAIN dom[Main] THEN k ELSE 1]
  <2>1. Show(b) /\ box = NoBox /\ UNCHANGED <<album, fixed>> /\ dom[Main] # << >>
    BY <1>2 DEF OpenByHash, Show
  <2>2. Main \in Albums
    BY DEF HasGallery, Main, Albums
  <2>3. Undragged => b.items \in Items(b.of) /\ b.at \in DOMAIN b.items
    <3>1. SUFFICES ASSUME dom[Main] \in Items(Main)
                   PROVE  b.at \in DOMAIN dom[Main] /\ b.items \in Items(b.of)
      BY <2>2 DEF Undragged, OwnItems
    <3>2. 1 \in DOMAIN dom[Main]
      BY <2>1, <3>1 DEF Items
    <3> QED BY <3>1, <3>2
  <2>4. Undragged => Undragged'
    BY <2>1, <2>2, <2>3, GoneShow
  <2> QED BY <1>0, <2>1, <2>4 DEF GoneInv, album
<1>3. ASSUME NEW step \in {-1, 1}, Go(step)
      PROVE  GoneInv'
  <2> DEFINE at == 1 + ((box.at - 1 + step) % Len(box.items))
             b == [state |-> "open", of |-> box.of, items |-> box.items, at |-> at]
  <2>1. box.state = "open" /\ BoxTyped(box) /\ box # NoBox /\ box.of \in Albums
    BY <1>3 DEF Go, PageInv, Typed, BoxTyped, NoBox
  <2>2. [box EXCEPT !.at = at] = b
    BY <2>1 DEF BoxTyped
  <2>3. Show(b) /\ UNCHANGED <<album, fixed>>
    BY <1>3, <2>2 DEF Go, Show
  <2>4. Undragged => b.items \in Items(b.of) /\ b.at \in DOMAIN b.items
    <3>1. SUFFICES ASSUME box.items \in Items(box.of), box.at \in DOMAIN box.items
                   PROVE  at \in DOMAIN box.items /\ b.items \in Items(b.of)
      BY <2>1 DEF Undragged, BoxItems
    <3>2. PICK n \in Nat : Len(box.items) = n /\ DOMAIN box.items = 1..n
      BY <3>1 DEF Items
    <3>3. n > 1 /\ box.at \in 1..n
      BY <1>3, <3>1, <3>2 DEF Go
    <3> QED BY <3>1, <3>2, <3>3
  <2>5. Undragged => Undragged'
    BY <2>1, <2>3, <2>4, GoneShow
  <2> QED BY <1>0, <2>3, <2>5 DEF GoneInv, album
<1>4. CASE Close \/ Destroyed
  <2>1. UNCHANGED <<album, fixed>>
    BY <1>4 DEF Close, Destroyed
  <2>2. CASE Close
    <3>1. box.state = "open" /\ BoxTyped(box) /\ box # NoBox
      BY <2>2 DEF Close, PageInv, Typed, NoBox
    <3>2. UNCHANGED <<box.of, box.items, box.at>> /\ current'.album = NoAlbum
      BY <2>2, <3>1 DEF Close, BoxTyped, ResetCurrent
    <3>3. Undragged => Undragged'
      BY <2>1, <3>1, <3>2, GoneOther
    <3> QED BY <1>0, <2>1, <3>3 DEF GoneInv, album
  <2>3. CASE Destroyed
    <3>1. box' = NoBox /\ UNCHANGED current
      BY <2>3 DEF Destroyed
    <3>2. Undragged => Undragged'
      BY <2>1, <3>1, GoneOther
    <3> QED BY <1>0, <2>1, <3>2 DEF GoneInv, album
  <2> QED BY <1>4, <2>2, <2>3
<1>5. CASE \/ TurnOff \/ TurnOn \/ Entered \/ Left \/ LeftAlready \/ Escaped
           \/ UNCHANGED pageVars
  <2>1. UNCHANGED <<box, current, album, fixed>>
    BY <1>5 DEF TurnOff, TurnOn, Entered, Left, LeftAlready, Escaped, Ended, pageVars, album, fixed
  <2>2. Undragged => Undragged'
    <3>1. box' = NoBox \/ (box # NoBox /\ UNCHANGED <<box.of, box.items, box.at>>)
      BY <2>1
    <3> QED BY <2>1, <3>1, GoneOther
  <2> QED BY <1>0, <2>1, <2>2 DEF GoneInv, album
<1>6. CASE RemoveByButton
  <2> DEFINE i == box.items[box.at].img
  <2>1. AskRemove(CaptionOf(i), i, "button") /\ box.state = "open"
    BY <1>6 DEF RemoveByButton
  <2>2. Undragged => CaptionOf(i) \in Albums /\ i \in Imgs(CaptionOf(i))
    <3>1. box # NoBox /\ box.of \in Albums
      BY <2>1 DEF PageInv, Typed, BoxTyped, NoBox
    <3>2. SUFFICES ASSUME box.items \in Items(box.of), box.at \in DOMAIN box.items
                   PROVE  i \in Imgs(box.of)
      BY <3>1, CaptionHas DEF Undragged, BoxItems
    <3>3. box.items[box.at] \in {Element(box.of, j) : j \in Imgs(box.of)}
      BY <3>2 DEF Items
    <3>4. PICK j \in Imgs(box.of) : box.items[box.at] = Element(box.of, j)
      BY <3>3
    <3>5. box.items[box.at].img = j
      BY <3>4 DEF Element
    <3> QED BY <3>5
  <2> HIDE DEF i
  <2>3. Undragged => Undragged'
    BY <2>1, <2>2, GoneAsk
  <2> QED BY <1>0, <2>1, <2>3 DEF GoneInv, AskRemove
<1>7. CASE RemoveByKey
  <2>1. AskRemove(current.album, current.img, "key")
    BY <1>7 DEF RemoveByKey
  <2>2. Undragged /\ current.album # NoAlbum =>
          current.album \in Albums /\ current.img \in Imgs(current.album)
    BY DEF Undragged, CurrentHas, PageInv, CurrentIsShown, Typed, BoxTyped, NoBox
  <2>3. Undragged => Undragged'
    BY <2>1, <2>2, GoneAsk
  <2> QED BY <1>0, <2>1, <2>3 DEF GoneInv, AskRemove
<1>8. CASE \E e, target \in OnPage : Drop(e.img, target)
  <2>1. moves' = moves + 1 /\ UNCHANGED times
    BY <1>8 DEF Drop
  <2> QED BY <1>0, <2>1 DEF GoneInv
<1>9. ASSUME NEW r \in sent, Serve(r) \/ Lost(r)
      PROVE  GoneInv'
  <2>1. UNCHANGED moves
    BY <1>9 DEF Serve, Lost
  <2>2. CASE Lost(r)
    <3>1. /\ sent' = (sent \ {r}) \cup {[r EXCEPT !.status = 0]}
          /\ UNCHANGED <<box, current, hashByIdx, dom, times>>
      BY <2>2 DEF Lost, shown, fixed
    <3>2. Undragged => Undragged'
      BY <3>1, GoneStatus
    <3> QED BY <1>0, <2>1, <3>1, <3>2 DEF GoneInv
  <2>3. CASE Serve(r)
    <3>1. times' = [g \in Albums |-> times'[g]]
      <4>1. \/ times' = times \/ times' = Removed(r.album, r.img)
            \/ times' = Moved(r.album, r.img, r.ts)
        BY <2>3 DEF Serve
      <4> QED BY <1>0, <4>1 DEF Removed, Moved
    <3>2. Undragged => Undragged'
      BY <1>0, <2>3, GoneServe
    <3> QED BY <1>0, <2>1, <3>1, <3>2 DEF GoneInv
  <2> QED BY <1>9, <2>2, <2>3
<1>10. ASSUME NEW r \in sent, AnswerRemove(r) \/ AnswerMove(r)
       PROVE  GoneInv'
  <2>1. UNCHANGED <<moves, times>>
    BY <1>10 DEF AnswerRemove, AnswerMove
  <2>2. Undragged => Undragged'
    <3>1. SUFFICES ASSUME Undragged
                   PROVE  Undragged'
      OBVIOUS
    <3>2. r.op = "remove"
      <4>1. Asked(r)
        BY <3>1 DEF Undragged, AllAsked
      <4> QED BY <4>1 DEF Asked
    <3> QED BY <1>10, <3>1, <3>2, GoneAnswer DEF AnswerMove
  <2> QED BY <1>0, <2>1, <2>2 DEF GoneInv
<1> QED BY <1>1, <1>2, <1>3, <1>4, <1>5, <1>6, <1>7, <1>8, <1>9, <1>10 DEF PageNext

LEMMA GoneStart ==
  ASSUME NEW t, NEW b, t = [g \in Albums |-> t[g]], \A g \in Albums : Rendered(InOrder(t[g])),
         HasGallery, PageInit(t, b)
  PROVE  GoneInv
<1>1. /\ times = t /\ sent = {} /\ moves = 0 /\ current.album = NoAlbum
      /\ \A g \in Albums : hashByIdx[g] = InOrder(t[g])
      /\ \A g \in Albums : dom[g] = [x \in DOMAIN hashByIdx[g] |-> Element(g, hashByIdx[g][x])]
  BY DEF PageInit
<1>2. OwnItems
  <2>1. ASSUME NEW g \in Albums
        PROVE  dom[g] \in Items(g)
    <3>1. PICK n \in Nat : DOMAIN hashByIdx[g] = 1..n
      BY <1>1 DEF Rendered
    <3>2. dom[g] = [x \in 1..n |-> Element(g, hashByIdx[g][x])]
      BY <1>1, <3>1
    <3>3. \A x \in 1..n : Element(g, hashByIdx[g][x]) \in {Element(g, i) : i \in Imgs(g)}
      BY <3>1 DEF Imgs
    <3> QED BY <3>2, <3>3 DEF Items
  <2> QED BY <2>1 DEF OwnItems
<1>3. BoxItems
  <2>1. Main \in Albums
    BY DEF HasGallery, Main, Albums
  <2>2. ASSUME NEW x \in DOMAIN hashByIdx[Main],
               box = [state |-> "open", of |-> Main, items |-> dom[Main], at |-> x]
        PROVE  BoxItems
    <3>1. DOMAIN dom[Main] = DOMAIN hashByIdx[Main] /\ dom[Main] \in Items(Main)
      BY <1>1, <1>2, <2>1 DEF OwnItems
    <3> QED BY <2>2, <3>1 DEF BoxItems
  <2> QED BY <2>2 DEF PageInit, BoxItems
<1>4. AllAccounted
  <2>1. ASSUME NEW g \in Albums, NEW x \in DOMAIN hashByIdx[g]
        PROVE  x \in DOMAIN dom[g] /\ dom[g][x] = Element(g, hashByIdx[g][x])
    BY <1>1
  <2> QED BY <2>1 DEF AllAccounted, Accounted, Imgs
<1> QED BY <1>1, <1>2, <1>3, <1>4 DEF GoneInv, Undragged, AllAsked, CurrentHas

LEMMA GoneSays ==
  ASSUME Rendered(Galleries), GoneInv
  PROVE  GoneMeansRemoved
<1>1. SUFFICES ASSUME moves = 0, NEW g \in Albums, NEW x \in DOMAIN hashByIdx[g]
               PROVE  LET i == hashByIdx[g][x] IN
                      \/ ById(i) # {}
                      \/ i \notin DOMAIN times[g]
                      \/ \E h \in Albums \ {g} : \E y \in DOMAIN hashByIdx[h] : hashByIdx[h][y] = i
  BY DEF GoneMeansRemoved
<1> DEFINE i == hashByIdx[g][x]
<1>2. Accounted(g, i) /\ OwnItems
  BY <1>1 DEF GoneInv, Undragged, AllAccounted, Imgs
<1>3. ASSUME NEW k \in DOMAIN dom[g], dom[g][k] = Element(g, i)
      PROVE  ById(i) # {}
  <2>1. \A h \in Albums : Rendered(dom[h])
    <3>1. SUFFICES ASSUME NEW h \in Albums, NEW S, dom[h] \in Seq(S)
                   PROVE  \E n \in Nat : DOMAIN dom[h] = 1..n
      BY <1>2 DEF OwnItems, Items, Rendered
    <3>2. Len(dom[h]) \in Nat /\ DOMAIN dom[h] = 1..Len(dom[h])
      BY <3>1
    <3> QED BY <3>2
  <2>2. dom[g][k].img = i
    BY <1>3 DEF Element
  <2> QED BY <2>1, <2>2, ByIdFinds
<1> QED BY <1>2, <1>3 DEF Accounted, Imgs

\* An image that is gone from the page is gone from the album, whatever was asked of the server,
\* in whatever order the answers came, and whichever of them were lost; as long as no image was
\* dragged.
THEOREM GoneIsRemoved ==
  ASSUME HasGallery, Rendered(Galleries), NEW t, t = [g \in Albums |-> t[g]], NEW b,
         \A g \in Albums : Rendered(InOrder(t[g]))
  PROVE  PageSpec(t, b) => []GoneMeansRemoved
<1>1. PageInit(t, b) => GoneInv
  BY GoneStart
<1>2. PageInv /\ GoneInv /\ [PageNext]_pageVars => GoneInv'
  BY GoneStep
<1>3. GoneInv => GoneMeansRemoved
  BY GoneSays
<1> QED BY <1>1, <1>2, <1>3, PageAlways, PTL DEF PageSpec

=============================================================================
