-------------------------- MODULE FrontEnd_proofs --------------------------
(***************************************************************************)
(* Proofs about the parts of the front end beside the album page: what it  *)
(* tells the server about the visitor (ViewStats), how it hears of answers *)
(* (BackendCalls), tables of results (ResultTable) and texts between       *)
(* images (Timeline).  For any images, widths, rows, texts and methods,    *)
(* any number of steps and any order of them.                              *)
(***************************************************************************)
EXTENDS ViewStats, BackendCalls, ResultTable, Timeline, FiniteSetTheorems, WellFoundedInduction, TLAPS

LOCAL INSTANCE Backend
-----------------------------------------------------------------------------
(* Recursive functions                                                     *)
(*                                                                         *)
(* A function defined by recursion is the one CHOOSE picks: lemmas say     *)
(* that there is one, by a least number up to which there is none.         *)

\* A set of numbers with a member has a least one.
LEMMA Least ==
  ASSUME NEW S \in SUBSET Nat, S # {}
  PROVE  \E n \in S : \A m \in S : n <= m
<1>1. IsWellFoundedOn(OpToRel(<, Nat), Nat)
  BY NatLessThanWellFounded
<1>2. PICK n \in S : \A m \in S : ~(<<m, n>> \in OpToRel(<, Nat))
  BY <1>1, WFMin
<1>3. \A m \in S : ~(m < n)
  BY <1>2 DEF OpToRel
<1> QED BY <1>3

\* f sums the times of s up to each of its first n members.
IsSum(s, f, n) == f = [k \in 0..n |-> IF k = 0 THEN 0 ELSE f[k - 1] + s[k].time]

LEMMA SumExists ==
  ASSUME NEW s, NEW n \in Nat
  PROVE  \E f : IsSum(s, f, n)
<1> DEFINE Bad == {m \in Nat : ~\E f : IsSum(s, f, m)}
<1> SUFFICES ASSUME Bad # {} PROVE FALSE
  OBVIOUS
<1>1. PICK m \in Bad : \A k \in Bad : m <= k
  BY Least
<1>2. CASE m = 0
  <2>1. IsSum(s, [k \in 0..0 |-> 0], 0)
    BY DEF IsSum
  <2> QED BY <1>2, <2>1
<1>3. CASE m # 0
  <2>1. m - 1 \in Nat /\ m - 1 \notin Bad
    BY <1>1, <1>3
  <2>2. PICK g : IsSum(s, g, m - 1)
    BY <2>1
  <2> DEFINE f == [k \in 0..m |-> IF k = m THEN g[m - 1] + s[m].time ELSE g[k]]
  <2>3. \A k \in 0..(m - 1) : g[k] = IF k = 0 THEN 0 ELSE g[k - 1] + s[k].time
    BY <2>2 DEF IsSum
  <2>4. \A k \in 0..m : f[k] = IF k = 0 THEN 0 ELSE f[k - 1] + s[k].time
    BY <2>1, <2>3
  <2>5. IsSum(s, f, m)
    BY <2>4 DEF IsSum
  <2> QED BY <2>5
<1> QED BY <1>2, <1>3

\* Times that can be added up.
Timed(s) == Len(s) \in Nat /\ \A k \in 1..Len(s) : s[k].time \in Int

LEMMA SumUnfolds ==
  ASSUME NEW s, Timed(s)
  PROVE  \E f : IsSum(s, f, Len(s)) /\ SumOf(s) = f[Len(s)]
<1> DEFINE f == CHOOSE g : IsSum(s, g, Len(s))
<1>1. IsSum(s, f, Len(s))
  BY SumExists DEF Timed
<1>2. SumOf(s) = f[Len(s)]
  BY DEF SumOf, IsSum
<1> QED BY <1>1, <1>2

\* Two sums of the same times agree, and are numbers.
LEMMA SumsAgree ==
  ASSUME NEW s, NEW t, NEW f, NEW g, NEW m \in Nat, NEW n \in Nat, m <= n,
         IsSum(s, f, m), IsSum(t, g, n),
         \A k \in 1..m : s[k] = t[k] /\ s[k].time \in Int
  PROVE  f[m] = g[m] /\ f[m] \in Int
<1> DEFINE Bad == {k \in Nat : k <= m /\ ~(f[k] = g[k] /\ f[k] \in Int)}
<1> SUFFICES ASSUME Bad # {} PROVE FALSE
  OBVIOUS
<1>1. PICK k \in Bad : \A j \in Bad : k <= j
  BY Least
<1>2. f[k] = (IF k = 0 THEN 0 ELSE f[k - 1] + s[k].time)
  BY <1>1 DEF IsSum
<1>3. g[k] = (IF k = 0 THEN 0 ELSE g[k - 1] + t[k].time)
  BY <1>1 DEF IsSum
<1>4. k # 0 => k - 1 \in Nat /\ k - 1 \notin Bad /\ k \in 1..m
  BY <1>1
<1> QED BY <1>1, <1>2, <1>3, <1>4

LEMMA SumOfAppend ==
  ASSUME NEW R, NEW s \in Seq(R), NEW x \in R, \A r \in R : r.time \in Int
  PROVE  SumOf(s) \in Int /\ SumOf(Append(s, x)) = SumOf(s) + x.time
<1> DEFINE t == Append(s, x)
<1>1. Timed(s) /\ Timed(t) /\ Len(t) = Len(s) + 1 /\ t[Len(s) + 1] = x
      /\ \A k \in 1..Len(s) : s[k] = t[k] /\ s[k].time \in Int
  BY DEF Timed
<1> HIDE DEF t
<1>2. PICK f : IsSum(s, f, Len(s)) /\ SumOf(s) = f[Len(s)]
  BY <1>1, SumUnfolds
<1>3. PICK g : IsSum(t, g, Len(t)) /\ SumOf(t) = g[Len(t)]
  BY <1>1, SumUnfolds
<1>4. f[Len(s)] = g[Len(s)] /\ f[Len(s)] \in Int
  <2>1. Len(s) \in Nat /\ Len(t) \in Nat /\ Len(s) <= Len(t)
    BY <1>1 DEF Timed
  <2> QED BY <1>1, <1>2, <1>3, <2>1, SumsAgree, Zenon
<1>5. g[Len(t)] = g[Len(s)] + x.time
  BY <1>1, <1>3 DEF IsSum, Timed
<1>6. SumOf(s) \in Int /\ SumOf(t) = SumOf(s) + x.time
  BY <1>2, <1>3, <1>4, <1>5
<1> QED BY <1>6 DEF t
-----------------------------------------------------------------------------
(* Views and thumbnails *)

ViewSpec(o) == ViewInit(o) /\ [][ViewNext]_viewVars

\* Widths are numbers.
WidthsAreNumbers == Widths \in [Views -> SUBSET Nat]

\* The clock that stands still while the focus is away, and what the visitor has seen of it.
Clock == IF lastBlur = Null THEN now ELSE lastBlur
Paid == Clock - unfocused

Names == Views \cup {NoView}
Seens == [done : Int, now : Int, fair : BOOLEAN]
Watches == [img : Names, time : Int, fair : BOOLEAN]
Images == [img : Names, time : Int, w : Nat, mw : Nat]

Typed ==
  /\ now \in Nat /\ unfocused \in Int /\ lastBlur \in Nat \cup {Null}
  /\ focused => lastBlur = Null
  /\ image \in Images /\ width \in [Views -> Nat]
  /\ watched \in Watches
  /\ reports \in Seq(Images) /\ views \in Seq(Watches)

\* The view that goes on is the one the page measures, and has got what was paid since.
Measured ==
  /\ image.img = watched.img
  /\ watched.img # NoView /\ watched.fair => watched.time = Paid - image.time

\* What a step does to time: the paid part of the clock is continuous.
LEMMA PaidBack == ASSUME Typed, Back, now' = now PROVE Paid' = Paid /\ lastBlur' = Null /\ unfocused' \in Int
BY DEF Typed, Back, Paid, Clock, Null

LEMMA ReportStep ==
  ASSUME Typed, Measured, EachViewReported, Report, FinishView
  PROVE  /\ EachViewReported'
         /\ reports' \in Seq(Images) /\ views' \in Seq(Watches)
<1>1. CASE image.img = NoView
  BY <1>1 DEF Typed, Measured, EachViewReported, Report, FinishView
<1>2. CASE image.img # NoView
  <2> DEFINE r == [image EXCEPT !.time = ViewTime]
             v == [watched EXCEPT !.fair = @ /\ Attended]
  <2>1. reports' = Append(reports, r) /\ views' = Append(views, v)
    BY <1>2 DEF Measured, Report, FinishView
  <2>2. ViewTime \in Int /\ Attended \in BOOLEAN
    BY DEF Typed, ViewTime, Images, Attended
  <2>3. r \in Images /\ r.img = image.img /\ r.time = ViewTime
    BY <2>2 DEF Typed, Images
  <2>4. v \in Watches /\ v.img = watched.img /\ v.time = watched.time
        /\ (v.fair => watched.fair /\ Attended)
    BY <2>2 DEF Typed, Watches
  <2>5. v.fair => r.time = v.time
    BY <1>2, <2>3, <2>4 DEF Measured, Typed, Images, Watches, Attended, ViewTime, Paid, Clock
  <2> HIDE DEF r, v
  <2>6. Len(reports') = Len(views')
    BY <2>1, <2>3, <2>4 DEF Typed, EachViewReported
  <2>7. ASSUME NEW k \in DOMAIN views'
        PROVE  reports'[k].img = views'[k].img /\ (views'[k].fair => reports'[k].time = views'[k].time)
    <3>1. CASE k \in DOMAIN views
      BY <2>1, <2>3, <2>4, <3>1 DEF Typed, EachViewReported
    <3>2. CASE k = Len(views) + 1
      BY <2>1, <2>3, <2>4, <2>5, <3>2 DEF Typed, EachViewReported, Measured
    <3>3. DOMAIN views' = 1..(Len(views) + 1) /\ DOMAIN views = 1..Len(views) /\ Len(views) \in Nat
      BY <2>1, <2>4 DEF Typed
    <3> QED BY <3>1, <3>2, <3>3
  <2> QED BY <2>1, <2>3, <2>4, <2>6, <2>7 DEF Typed, EachViewReported
<1> QED BY <1>1, <1>2

ViewInv == Typed /\ Measured /\ EachViewReported

LEMMA ViewStep ==
  ASSUME WidthsAreNumbers, ViewInv, [ViewNext]_viewVars
  PROVE  ViewInv'
<1> USE DEF ViewInv
<1>1. CASE Tick
  <2>1. UNCHANGED <<focus, imageVars>> /\ now' = now + 1
        /\ watched' = IF Attended /\ watched.img # NoView THEN [watched EXCEPT !.time = @ + 1] ELSE watched
    BY <1>1 DEF Tick
  <2>2. watched' \in Watches /\ watched'.img = watched.img /\ watched'.fair = watched.fair
        /\ watched'.time = IF Attended /\ watched.img # NoView THEN watched.time + 1 ELSE watched.time
    <3>1. CASE Attended /\ watched.img # NoView
      <4>1. watched' = [watched EXCEPT !.time = @ + 1]
        BY <2>1, <3>1
      <4> QED BY <3>1, <4>1 DEF Typed, Watches
    <3>2. CASE ~(Attended /\ watched.img # NoView)
      BY <2>1, <3>2 DEF Typed
    <3> QED BY <3>1, <3>2
  <2>3. Typed' /\ EachViewReported'
    BY <2>1, <2>2 DEF Typed, focus, imageVars, EachViewReported
  <2> QED BY <2>1, <2>2, <2>3 DEF Typed, focus, imageVars, Measured, Paid, Clock, Attended, Images, Watches
<1>2. CASE Blur
  BY <1>2 DEF Blur, Typed, imageVars, Measured, EachViewReported, Paid, Clock, Null
<1>3. CASE Focus \/ Scroll
  <2>1. Back /\ UNCHANGED <<now, imageVars, watched>> /\ focused' \in {TRUE, focused}
    BY <1>3 DEF Focus, Scroll
  <2>2. Paid' = Paid /\ lastBlur' = Null /\ unfocused' \in Int
    BY <2>1, PaidBack
  <2> QED BY <2>1, <2>2 DEF Typed, imageVars, Measured, EachViewReported
<1>4. ASSUME NEW i \in Views, Activate(i)
      PROVE  ViewInv'
  <2>1. EachViewReported' /\ reports' \in Seq(Images) /\ views' \in Seq(Watches)
    BY <1>4, ReportStep DEF Activate
  <2>2. image' = [img |-> i, time |-> Attention, w |-> width[i], mw |-> image.mw]
        /\ watched' = [img |-> i, time |-> 0, fair |-> Attended] /\ UNCHANGED <<now, focus, width>>
    BY <1>4 DEF Activate
  <2>3. image' \in Images /\ image'.img = i /\ image'.time = Attention
    <3>1. image.mw \in Nat /\ width[i] \in Nat /\ Attention \in Int /\ i \in Names
      BY DEF Typed, Images, Attention, Names
    <3> QED BY <2>2, <3>1 DEF Images
  <2>4. watched' \in Watches
    <3>1. Attended \in BOOLEAN /\ i \in Names
      BY DEF Attended, Names
    <3>2. \A f \in BOOLEAN : [img |-> i, time |-> 0, fair |-> f] \in Watches
      BY <3>1 DEF Watches
    <3>3. [img |-> i, time |-> 0, fair |-> Attended] \in Watches
      BY <3>1, <3>2, Zenon
    <3> QED BY <2>2, <3>3, Zenon
  <2>5. Typed'
    BY <2>1, <2>2, <2>3, <2>4 DEF Typed, focus
  <2>6. watched'.img = i /\ watched'.time = 0 /\ watched'.fair = Attended
    BY <2>2
  <2>7. Attended => Paid' = Attention /\ Attention \in Int
    BY <2>2 DEF Typed, Paid, Clock, Attention, Attended, focus
  <2>8. watched'.fair => watched'.time = Paid' - image'.time
    <3>1. Attended => 0 = Paid' - Attention
      BY <2>7
    <3> QED BY <2>3, <2>6, <3>1, Zenon
  <2>9. Measured'
    BY <2>3, <2>6, <2>8, Zenon DEF Measured
  <2> QED BY <2>1, <2>5, <2>9
<1>5. CASE CloseBox
  <2>1. EachViewReported' /\ reports' \in Seq(Images) /\ views' \in Seq(Watches)
    BY <1>5, ReportStep DEF CloseBox
  <2>2. watched' = [watched EXCEPT !.img = NoView] /\ EndImage /\ UNCHANGED <<now, focus, width>>
    BY <1>5 DEF CloseBox
  <2>3. watched' \in Watches /\ watched'.img = NoView
    BY <2>2 DEF Typed, Watches, Names
  <2>4. ViewTime \in Int
    BY DEF Typed, ViewTime, Images
  <2>5. image' \in Images /\ image'.img = NoView
    BY <2>2, <2>4 DEF EndImage, Typed, Images, Names
  <2> QED BY <2>1, <2>2, <2>3, <2>5 DEF Typed, Measured, focus
<1>6. ASSUME NEW i \in Views, NEW w \in Widths[i], Resize(i, w)
      PROVE  ViewInv'
  <2>1. w \in Nat
    BY DEF WidthsAreNumbers
  <2>2. image' \in Images /\ image'.img = image.img /\ image'.time = image.time
    BY <1>6, <2>1 DEF Resize, Typed, Images
  <2>3. width' \in [Views -> Nat]
    BY <1>6, <2>1 DEF Resize, Typed
  <2> QED BY <1>6, <2>2, <2>3 DEF Resize, Typed, Measured, EachViewReported, focus, Paid, Clock
<1>7. CASE \E came, went \in SUBSET Views : Observe(came, went)
  BY <1>7 DEF Observe, Typed, Measured, EachViewReported, focus, imageVars, Paid, Clock
<1>8. CASE UNCHANGED viewVars
  BY <1>8 DEF viewVars, Typed, Measured, EachViewReported, Paid, Clock
<1> QED BY <1>1, <1>2, <1>3, <1>4, <1>5, <1>6, <1>7, <1>8 DEF ViewNext

\* Views that follow each other without the lightbox being closed share the time that came
\* late: what has been reported, and what would be now, is what the visitor has seen.
Balance ==
  IF watched.img = NoView THEN SumOf(reports) = SumOf(views)
  ELSE SumOf(reports) + Paid - image.time = SumOf(views) + watched.time

\* A report takes the time of the view out of the clock that the page reads.
LEMMA ReportBalance ==
  ASSUME Typed, Measured, Report, FinishView
  PROVE  IF watched.img = NoView
         THEN SumOf(reports') = SumOf(reports) /\ SumOf(views') = SumOf(views)
         ELSE /\ SumOf(reports') = SumOf(reports) + Attention - image.time
              /\ SumOf(views') = SumOf(views) + watched.time
<1>1. CASE watched.img = NoView
  BY <1>1 DEF Measured, Report, FinishView
<1>2. CASE watched.img # NoView
  <2> DEFINE r == [image EXCEPT !.time = ViewTime]
             v == [watched EXCEPT !.fair = @ /\ Attended]
  <2>1. reports' = Append(reports, r) /\ views' = Append(views, v)
    BY <1>2 DEF Measured, Report, FinishView
  <2>2. ViewTime \in Int /\ Attended \in BOOLEAN /\ ViewTime = Attention - image.time
    BY DEF Typed, ViewTime, Images, Attended, Attention
  <2>3. r \in Images /\ r.time = ViewTime
    BY <2>2 DEF Typed, Images
  <2>4. v \in Watches /\ v.time = watched.time
    BY <2>2 DEF Typed, Watches
  <2> HIDE DEF r, v
  <2>5. (\A x \in Images : x.time \in Int) /\ \A x \in Watches : x.time \in Int
    BY DEF Images, Watches
  <2>6. SumOf(reports') = SumOf(reports) + r.time /\ SumOf(reports) \in Int
    BY <2>1, <2>3, <2>5, SumOfAppend DEF Typed
  <2>7. SumOf(views') = SumOf(views) + v.time
    BY <2>1, <2>4, <2>5, SumOfAppend DEF Typed
  <2>8. Attention \in Int /\ image.time \in Int
    BY DEF Typed, Attention, Images
  <2> QED BY <1>2, <2>2, <2>3, <2>4, <2>6, <2>7, <2>8
<1> QED BY <1>1, <1>2

LEMMA BalanceStep ==
  ASSUME WidthsAreNumbers, ViewInv, Balance, [ViewNext]_viewVars
  PROVE  Balance'
<1> USE DEF ViewInv
<1>1. /\ image.time \in Int /\ watched.time \in Int /\ Paid \in Int /\ Attention \in Int
      /\ SumOf(reports) \in Int /\ SumOf(views) \in Int
      /\ Attended => Paid = Attention
  <2>1. /\ image.time \in Int /\ watched.time \in Int /\ Paid \in Int /\ Attention \in Int
        /\ Attended => Paid = Attention
    BY DEF Typed, Images, Watches, Paid, Clock, Attention, Attended
  <2>2. (\A x \in Images : x.time \in Int) /\ \A x \in Watches : x.time \in Int
    BY DEF Images, Watches
  <2>3. SumOf(reports) \in Int /\ SumOf(views) \in Int
    BY <2>2, SumOfAppend DEF Typed
  <2> QED BY <2>1, <2>3
<1>2. ASSUME UNCHANGED <<reports, views, image, watched>>, Paid' = Paid
      PROVE  Balance'
  BY <1>2 DEF Balance
<1>3. CASE Tick
  <2>1. UNCHANGED <<reports, views, image>>
    BY <1>3 DEF Tick, imageVars
  <2>2. Paid' = Paid + (IF Attended THEN 1 ELSE 0)
    BY <1>3 DEF Tick, Typed, Paid, Clock, Attended, focus
  <2>3. watched'.img = watched.img
        /\ watched'.time = watched.time + (IF Attended /\ watched.img # NoView THEN 1 ELSE 0)
    <3>1. CASE Attended /\ watched.img # NoView
      <4>1. watched' = [watched EXCEPT !.time = @ + 1]
        BY <1>3, <3>1 DEF Tick
      <4> QED BY <3>1, <4>1 DEF Typed, Watches
    <3>2. CASE ~(Attended /\ watched.img # NoView)
      <4>1. watched' = watched
        BY <1>3, <3>2 DEF Tick
      <4> QED BY <1>1, <3>2, <4>1
    <3> QED BY <3>1, <3>2
  <2>4. SumOf(reports') = SumOf(reports) /\ SumOf(views') = SumOf(views)
    BY <2>1
  <2> QED BY <1>1, <2>1, <2>2, <2>3, <2>4 DEF Balance
<1>4. CASE Blur
  BY <1>2, <1>4 DEF Blur, Typed, imageVars, Paid, Clock, Null
<1>5. CASE Focus \/ Scroll
  BY <1>2, <1>5, PaidBack DEF Focus, Scroll, imageVars
<1>6. ASSUME NEW i \in Views, Activate(i)
      PROVE  Balance'
  <2>1. Report /\ FinishView /\ (Attended \/ watched.img # NoView)
    BY <1>6 DEF Activate, Typed, Attended
  <2>2. image'.time = Attention /\ watched'.time = 0 /\ watched'.img = i /\ Paid' = Paid
    BY <1>6 DEF Activate, focus, Paid, Clock
  <2> QED BY <1>1, <2>1, <2>2, ReportBalance, ViewsAssumption DEF Balance
<1>7. CASE CloseBox
  <2>1. Report /\ FinishView /\ Attended /\ watched.img # NoView
    BY <1>7 DEF CloseBox, Typed, Attended
  <2>2. watched'.img = NoView
    BY <1>7 DEF CloseBox, Typed, Watches
  <2> QED BY <1>1, <2>1, <2>2, ReportBalance DEF Balance
<1>8. ASSUME NEW i \in Views, NEW w \in Widths[i], Resize(i, w)
      PROVE  Balance'
  <2>1. image'.time = image.time
    BY <1>8 DEF Resize, Typed, Images
  <2>2. UNCHANGED <<reports, views, watched>> /\ Paid' = Paid
    BY <1>8 DEF Resize, focus, Paid, Clock
  <2> QED BY <2>1, <2>2 DEF Balance
<1>9. CASE (\E came, went \in SUBSET Views : Observe(came, went)) \/ UNCHANGED viewVars
  BY <1>2, <1>9 DEF Observe, viewVars, focus, imageVars, Paid, Clock
<1> QED BY <1>3, <1>4, <1>5, <1>6, <1>7, <1>8, <1>9 DEF ViewNext

\* Each view is reported once, with the time the visitor paid attention to it.
THEOREM ViewsReported ==
  ASSUME WidthsAreNumbers, NEW o
  PROVE  ViewSpec(o) => []EachViewReported
<1>1. ViewInit(o) => ViewInv
  BY DEF ViewInit, ViewInv, Typed, Measured, EachViewReported, Images, Watches, Names, Null
<1>2. ViewInv /\ [ViewNext]_viewVars => ViewInv'
  BY ViewStep
<1>3. ViewInv => EachViewReported
  BY DEF ViewInv
<1> QED BY <1>1, <1>2, <1>3, PTL DEF ViewSpec

\* No time is lost or counted twice, with the slideshow going on while the window is away.
THEOREM TimesBalance ==
  ASSUME WidthsAreNumbers, NEW o
  PROVE  ViewSpec(o) => []TimesAddUp
<1>1. ViewInit(o) => ViewInv /\ Balance
  BY DEF ViewInit, ViewInv, Balance, Typed, Measured, EachViewReported, Images, Watches, Names, Null
<1>2. ViewInv /\ Balance /\ [ViewNext]_viewVars => (ViewInv /\ Balance)'
  BY ViewStep, BalanceStep
<1>3. Balance => TimesAddUp
  BY DEF Balance, TimesAddUp
<1> QED BY <1>1, <1>2, <1>3, PTL DEF ViewSpec
-----------------------------------------------------------------------------
(* Thumbnails *)

\* A time of a thumbnail, 0 if there is none.
TimeOf(f, h) == IF h \in DOMAIN f THEN f[h] ELSE 0
Times(f) == DOMAIN f \subseteq Views /\ \A h \in DOMAIN f : f[h] \in Int

ThumbTyped ==
  /\ Times(visibleSince) /\ Times(visibleFor)
  /\ flushed \in [Views -> Int] /\ seen \in [Views -> Seens]

\* A thumbnail in sight has got what was paid since it came.
InSight ==
  \A h \in Views : seen[h].fair =>
    seen[h].now = IF h \in DOMAIN visibleSince THEN Paid - visibleSince[h] ELSE 0

AddUp == \A h \in Views : seen[h].fair => flushed[h] + TimeOf(visibleFor, h) = seen[h].done

ThumbInv == Typed /\ ThumbTyped /\ InSight /\ AddUp

\* A report moves what waits for it, and keeps the sums.
LEMMA FlushStep ==
  ASSUME ThumbTyped, NEW since, NEW for, Times(since), Times(for), Flush(since, for)
  PROVE  /\ visibleSince' = since
         /\ Times(visibleFor') /\ flushed' \in [Views -> Int]
         /\ \A h \in Views :
              flushed'[h] + TimeOf(visibleFor', h) = flushed[h] + TimeOf(for, h)
<1>1. CASE visibleFor' = for /\ UNCHANGED flushed
  BY <1>1 DEF ThumbTyped, Flush
<1>2. CASE /\ flushed' = [h \in Views |-> flushed[h] + IF h \in DOMAIN for THEN for[h] ELSE 0]
           /\ visibleFor' = << >>
  <2>1. \A h \in Views : TimeOf(visibleFor', h) = 0
    BY <1>2 DEF TimeOf
  <2>2. Times(visibleFor')
    BY <1>2 DEF Times
  <2>3. flushed' \in [Views -> Int] /\ \A h \in Views : flushed'[h] = flushed[h] + TimeOf(for, h)
    BY <1>2 DEF Times, TimeOf, ThumbTyped
  <2> QED BY <2>1, <2>2, <2>3 DEF Flush
<1> QED BY <1>1, <1>2 DEF Flush

LEMMA ObserveStep ==
  ASSUME ThumbInv, NEW came \in SUBSET Views, NEW went \in SUBSET Views, Observe(came, went)
  PROVE  (ThumbTyped /\ InSight /\ AddUp)'
<1> DEFINE gone == went \cap DOMAIN visibleSince
           since == [h \in (DOMAIN visibleSince \cup came) \ gone |->
                       IF h \in DOMAIN visibleSince THEN visibleSince[h] ELSE Attention]
           for == [h \in DOMAIN visibleFor \cup gone |->
                     (IF h \in DOMAIN visibleFor THEN visibleFor[h] ELSE 0)
                     + (IF h \in gone THEN Attention - visibleSince[h] ELSE 0)]
           later(h) ==
             IF h \in gone
             THEN [done |-> seen[h].done + seen[h].now, now |-> 0, fair |-> seen[h].fair /\ Attended]
             ELSE [seen[h] EXCEPT !.fair = @ /\ (h \in DOMAIN since \ DOMAIN visibleSince => Attended)]
<1>1. Flush(since, for) /\ seen' = [h \in Views |-> later(h)] /\ UNCHANGED <<now, focus>>
  BY DEF Observe
<1>2. Attention \in Int /\ Times(visibleSince) /\ Times(visibleFor)
  BY DEF ThumbInv, ThumbTyped, Typed, Attention
<1>3. Times(since) /\ Times(for)
  BY <1>2 DEF Times
<1>4. \A h \in Views : TimeOf(for, h) =
        TimeOf(visibleFor, h) + (IF h \in gone THEN Attention - visibleSince[h] ELSE 0)
  BY <1>2 DEF Times, TimeOf
<1>5. \A h \in Views : TimeOf(visibleFor, h) \in Int /\ flushed[h] \in Int /\ seen[h] \in Seens
  BY DEF ThumbInv, ThumbTyped, Times, TimeOf
<1>6. Paid' = Paid /\ (Attended => Paid = Attention)
  BY <1>1 DEF focus, Paid, Clock, Attention, Attended
<1>7. ASSUME NEW h \in Views
      PROVE  /\ later(h) \in Seens
             /\ later(h).fair => seen[h].fair
             /\ later(h).fair /\ (h \in gone \/ h \in DOMAIN since \ DOMAIN visibleSince) => Attended
             /\ later(h).done = seen[h].done + (IF h \in gone THEN seen[h].now ELSE 0)
             /\ later(h).now = IF h \in gone THEN 0 ELSE seen[h].now
  <2>1. seen[h] \in Seens /\ Attended \in BOOLEAN
    BY <1>5 DEF Attended
  <2>2. CASE h \in gone
    <3>1. later(h) = [done |-> seen[h].done + seen[h].now, now |-> 0,
                      fair |-> seen[h].fair /\ Attended]
      BY <2>2
    <3> HIDE DEF gone, since, for, later
    <3>2. seen[h].done + seen[h].now \in Int /\ (seen[h].fair /\ Attended) \in BOOLEAN
      BY <2>1 DEF Seens
    <3>3. \A d \in Int, f \in BOOLEAN : [done |-> d, now |-> 0, fair |-> f] \in Seens
      BY DEF Seens
    <3>4. later(h) \in Seens
      BY <3>1, <3>2, <3>3, Zenon
    <3>5. /\ later(h).done = seen[h].done + seen[h].now /\ later(h).now = 0
          /\ later(h).fair = (seen[h].fair /\ Attended)
      BY <3>1
    <3> QED BY <2>2, <3>4, <3>5, Zenon
  <2>3. CASE h \notin gone
    <3> DEFINE new == h \in DOMAIN since \ DOMAIN visibleSince
               kept == seen[h].fair /\ (new => Attended)
    <3>1. later(h) = [seen[h] EXCEPT !.fair = kept]
      BY <2>3
    <3>2. kept \in BOOLEAN /\ (kept => seen[h].fair) /\ (kept /\ new => Attended)
      BY <2>1
    <3> HIDE DEF gone, since, for, later, new, kept
    <3>3. /\ later(h) \in Seens /\ later(h).done = seen[h].done
          /\ later(h).now = seen[h].now /\ later(h).fair = kept
      BY <2>1, <3>1, <3>2 DEF Seens
    <3>4. later(h).done = seen[h].done + 0
      BY <2>1, <3>3 DEF Seens
    <3>5. /\ later(h).fair => seen[h].fair
          /\ later(h).fair /\ new => Attended
      BY <3>2, <3>3, Zenon
    <3> QED BY <2>3, <3>3, <3>4, <3>5, Zenon DEF new
  <2> QED BY <2>2, <2>3
<1>8. DOMAIN since = (DOMAIN visibleSince \cup came) \ gone
      /\ \A h \in DOMAIN since :
           since[h] = IF h \in DOMAIN visibleSince THEN visibleSince[h] ELSE Attention
  OBVIOUS
<1> HIDE DEF since, for, later
<1>9. /\ visibleSince' = since /\ Times(visibleFor') /\ flushed' \in [Views -> Int]
      /\ \A h \in Views : flushed'[h] + TimeOf(visibleFor', h) = flushed[h] + TimeOf(for, h)
  BY <1>1, <1>3, FlushStep DEF ThumbInv
<1>10. ThumbTyped'
  BY <1>1, <1>3, <1>7, <1>9 DEF ThumbTyped
<1>11. \A h \in Views : seen'[h] = later(h)
  BY <1>1
<1>12. ASSUME NEW h \in Views, later(h).fair
       PROVE  later(h).now = IF h \in DOMAIN since THEN Paid - since[h] ELSE 0
  BY <1>2, <1>5, <1>6, <1>7, <1>8, <1>12 DEF ThumbInv, InSight, Seens, Times
<1>13. ASSUME NEW h \in Views, later(h).fair
       PROVE  flushed[h] + TimeOf(for, h) = later(h).done
  BY <1>2, <1>4, <1>5, <1>6, <1>7, <1>13 DEF ThumbInv, InSight, AddUp, Seens, Times
<1> QED BY <1>6, <1>9, <1>10, <1>11, <1>12, <1>13 DEF InSight, AddUp

LEMMA ThumbStep ==
  ASSUME WidthsAreNumbers, ViewInv, ThumbInv, [ViewNext]_viewVars
  PROVE  ThumbInv'
<1>0. Typed'
  BY ViewStep DEF ViewInv
<1>1. CASE Tick
  <2> DEFINE later(h) == IF Attended /\ h \in DOMAIN visibleSince
                         THEN [seen[h] EXCEPT !.now = @ + 1] ELSE seen[h]
  <2>1. seen' = [h \in Views |-> later(h)] /\ UNCHANGED <<focus, thumbs>> /\ now' = now + 1
    BY <1>1 DEF Tick
  <2>2. ASSUME NEW h \in Views
        PROVE  /\ later(h) \in Seens /\ later(h).fair = seen[h].fair /\ later(h).done = seen[h].done
               /\ later(h).now = seen[h].now + (IF Attended /\ h \in DOMAIN visibleSince THEN 1 ELSE 0)
    <3>1. seen[h] \in Seens
      BY DEF ThumbInv, ThumbTyped
    <3>2. CASE Attended /\ h \in DOMAIN visibleSince
      <4>1. later(h) = [seen[h] EXCEPT !.now = @ + 1]
        BY <3>2
      <4> QED BY <3>1, <3>2, <4>1 DEF Seens
    <3>3. CASE ~(Attended /\ h \in DOMAIN visibleSince)
      <4>1. later(h) = seen[h]
        BY <3>3
      <4> QED BY <3>1, <3>3, <4>1 DEF Seens
    <3> QED BY <3>2, <3>3
  <2> HIDE DEF later
  <2>3. \A h \in Views : seen'[h] = later(h)
    BY <2>1
  <2>4. ThumbTyped'
    BY <2>1, <2>2 DEF ThumbInv, ThumbTyped, thumbs
  <2>5. AddUp'
    BY <2>1, <2>2, <2>3 DEF ThumbInv, AddUp, thumbs
  <2>6. Paid' = Paid + (IF Attended THEN 1 ELSE 0) /\ Paid \in Int
    BY <2>1 DEF ThumbInv, Typed, Paid, Clock, Attended, focus
  <2>7. ASSUME NEW h \in Views, seen'[h].fair
        PROVE  seen'[h].now = IF h \in DOMAIN visibleSince THEN Paid' - visibleSince[h] ELSE 0
    <3>1. seen[h].fair /\ seen[h].now \in Int
      BY <2>2, <2>3, <2>7 DEF ThumbInv, ThumbTyped, Seens
    <3>2. seen[h].now = IF h \in DOMAIN visibleSince THEN Paid - visibleSince[h] ELSE 0
      BY <3>1 DEF ThumbInv, InSight
    <3>3. seen'[h].now = seen[h].now + (IF Attended /\ h \in DOMAIN visibleSince THEN 1 ELSE 0)
      BY <2>2, <2>3
    <3>4. CASE h \in DOMAIN visibleSince
      <4>1. visibleSince[h] \in Int
        BY <3>4 DEF ThumbInv, ThumbTyped, Times
      <4> QED BY <2>6, <3>1, <3>2, <3>3, <3>4, <4>1
    <3>5. CASE h \notin DOMAIN visibleSince
      BY <3>1, <3>2, <3>3, <3>5
    <3> QED BY <3>4, <3>5
  <2> QED BY <1>0, <2>1, <2>4, <2>5, <2>7 DEF ThumbInv, InSight, thumbs
<1>2. ASSUME NEW came \in SUBSET Views, NEW went \in SUBSET Views, Observe(came, went)
      PROVE  ThumbInv'
  BY <1>0, <1>2, ObserveStep DEF ThumbInv
<1>3. ASSUME UNCHANGED <<thumbs, seen>>, Paid' = Paid
      PROVE  ThumbInv'
  BY <1>0, <1>3 DEF ThumbInv, ThumbTyped, InSight, AddUp, thumbs
<1>4. CASE Blur
  BY <1>3, <1>4 DEF Blur, ThumbInv, Typed, Paid, Clock, Null
<1>5. CASE Focus \/ Scroll
  BY <1>3, <1>5, PaidBack DEF Focus, Scroll, ThumbInv
<1>6. CASE \/ \E i \in Views : Activate(i) \/ \E w \in Widths[i] : Resize(i, w)
           \/ CloseBox \/ UNCHANGED viewVars
  <2>1. UNCHANGED <<thumbs, seen, now, focus>>
    BY <1>6 DEF Activate, Resize, CloseBox, viewVars, thumbs, focus
  <2> QED BY <1>3, <2>1 DEF Paid, Clock, focus
<1> QED BY <1>1, <1>2, <1>4, <1>5, <1>6 DEF ViewNext

\* What was reported about a thumbnail, and what waits, is the time the visitor saw it.
THEOREM ThumbsReported ==
  ASSUME WidthsAreNumbers, NEW o
  PROVE  ViewSpec(o) => []ThumbTimesAddUp
<1>1. ViewInit(o) => ViewInv /\ ThumbInv
  <2>1. ViewInit(o) => ViewInv
    BY DEF ViewInit, ViewInv, Typed, Measured, EachViewReported, Images, Watches, Names, Null
  <2>2. ViewInit(o) => ThumbTyped /\ InSight /\ AddUp
    BY DEF ViewInit, ThumbTyped, Times, Seens, InSight, AddUp, TimeOf
  <2> QED BY <2>1, <2>2 DEF ViewInv, ThumbInv
<1>2. ViewInv /\ ThumbInv /\ [ViewNext]_viewVars => (ViewInv /\ ThumbInv)'
  BY ViewStep, ThumbStep
<1>3. ThumbInv => ThumbTimesAddUp
  BY DEF ThumbInv, AddUp, TimeOf, ThumbTimesAddUp
<1> QED BY <1>1, <1>2, <1>3, PTL DEF ViewSpec
-----------------------------------------------------------------------------
(* Requests *)

CallSpec(c) == CallInit(c) /\ [][CallNext]_callVars

\* A method has one arm for a status, and decodes only bodies that are there (401 apart).
Described(m) ==
  /\ \A j, k \in DOMAIN m.arms : m.arms[j] = m.arms[k] => j = k
  /\ \A s \in m.parsed : s # 401 => BodyIsJSON(m, s)

\* Requests that were sent.
Calls == [state : {"opened", "headers", "loading", "done"}, m : CallMethods, given : Nat,
          status : Statuses \cup {0}]

\* The handler was silent until the answer was complete, and then looked at it once.
Told ==
  \/ call.state # "done" /\ told = << >>
  \/ /\ call.state = "done"
     /\ told = <<[at |-> "done", did |-> Outcome(call.m, call.given, call.status,
                                                 BodyIsJSON(call.m, call.status))]>>

CallInv == (call \in {NoCall, Ready} \/ call \in Calls) /\ Told

LEMMA BecomeStep ==
  ASSUME CallInv, call.state # "done", NEW c \in Calls, Become(c)
  PROVE  CallInv'
<1>1. told = << >> /\ call' = c
  BY DEF CallInv, Told, Become
<1>2. CASE c.state # "done"
  BY <1>1, <1>2 DEF CallInv, Told, Become, OnReadyState
<1>3. CASE c.state = "done"
  BY <1>1, <1>3 DEF CallInv, Told, Become, OnReadyState
<1> QED BY <1>2, <1>3

LEMMA CallStep ==
  ASSUME CallInv, [CallNext]_callVars
  PROVE  CallInv'
<1>1. ASSUME NEW m \in CallMethods, NEW n \in 0..Len(m.arms), Send(m, n)
      PROVE  CallInv'
  <2> DEFINE c == [state |-> "opened", m |-> m, given |-> n, status |-> 0]
  <2>1. Become(c) /\ c \in Calls /\ call.state # "done"
    BY <1>1 DEF Send, Calls, Ready
  <2> HIDE DEF c
  <2> QED BY <2>1, BecomeStep
<1>2. call.state \in {"opened", "headers", "loading"} => call \in Calls /\ call.state # "done"
  BY DEF CallInv, NoCall, Ready
<1>3. ASSUME NEW status \in Statuses, Headers(status)
      PROVE  CallInv'
  <2> DEFINE c == [call EXCEPT !.state = "headers", !.status = status]
  <2>1. Become(c) /\ call.state = "opened"
    BY <1>3 DEF Headers
  <2>2. c \in Calls
    BY <1>2, <2>1 DEF Calls
  <2> HIDE DEF c
  <2> QED BY <1>2, <2>1, <2>2, BecomeStep
<1>4. ASSUME NEW s \in {"loading", "done"}, Become([call EXCEPT !.state = s]),
             call.state \in {"headers", "loading"}
      PROVE  CallInv'
  <2> DEFINE c == [call EXCEPT !.state = s]
  <2>1. Become(c)
    BY <1>4
  <2>2. c \in Calls
    BY <1>2, <1>4 DEF Calls
  <2> HIDE DEF c
  <2> QED BY <1>2, <1>4, <2>1, <2>2, BecomeStep
<1>5. CASE Loading \/ Arrived
  BY <1>4, <1>5 DEF Loading, Arrived
<1>6. CASE Broken
  <2> DEFINE c == [call EXCEPT !.state = "done", !.status = 0]
  <2>1. Become(c) /\ call.state \in {"opened", "headers", "loading"}
    BY <1>6 DEF Broken
  <2>2. c \in Calls
    BY <1>2, <2>1 DEF Calls
  <2> HIDE DEF c
  <2> QED BY <1>2, <2>1, <2>2, BecomeStep
<1>7. CASE UNCHANGED callVars
  BY <1>7 DEF callVars, CallInv, Told
<1> QED BY <1>1, <1>3, <1>5, <1>6, <1>7 DEF CallNext

LEMMA CallAlways ==
  ASSUME NEW c \in {NoCall, Ready}
  PROVE  CallSpec(c) => []CallInv
<1>1. CallInit(c) => CallInv
  BY DEF CallInit, CallInv, Told, NoCall, Ready
<1>2. CallInv /\ [CallNext]_callVars => CallInv'
  BY CallStep
<1> QED BY <1>1, <1>2, PTL DEF CallSpec

\* The page hears of a request at most once, and not before the answer is complete.
THEOREM HearsOnce ==
  ASSUME NEW c \in {NoCall, Ready}
  PROVE  CallSpec(c) => []ToldOnce
<1>1. CallInv => ToldOnce
  <2>1. ASSUME NEW d, told = <<d>>
        PROVE  Len(told) = 1
    BY <2>1
  <2> QED BY <2>1 DEF CallInv, Told, ToldOnce
<1> QED BY <1>1, CallAlways, PTL

\* A complete answer with a described status reaches the callback that was given for it.
THEOREM AnswerArrives ==
  ASSUME NEW c \in {NoCall, Ready}, \A m \in CallMethods : Described(m)
  PROVE  CallSpec(c) => []AnswerReachesPage
<1>1. ASSUME CallInv, call.state = "done", call.status # 401,
             NEW a \in Arm(call.m, call.status) \cap 1..call.given
      PROVE  told[1].did = "called" /\ 1 \in DOMAIN told
  <2>1. Described(call.m) /\ call.given \in Nat
    BY <1>1 DEF CallInv, NoCall, Ready, Calls
  <2>2. \A k \in Arm(call.m, call.status) : k = a
    BY <1>1, <2>1 DEF Arm, Described
  <2>3. call.status \in call.m.parsed => BodyIsJSON(call.m, call.status)
    BY <1>1, <2>1 DEF Described
  <2>4. Outcome(call.m, call.given, call.status, BodyIsJSON(call.m, call.status)) = "called"
    <3>1. /\ Arm(call.m, call.status) # {}
          /\ ~\E k \in Arm(call.m, call.status) : k > call.given
      BY <1>1, <2>1, <2>2
    <3>2. ~\E k \in Arm(call.m, call.status) :
             k <= call.given /\ call.status \in call.m.parsed /\ ~BodyIsJSON(call.m, call.status)
      BY <2>3
    <3> QED BY <3>1, <3>2 DEF Outcome
  <2> QED BY <1>1, <2>4 DEF CallInv, Told
<1>2. CallInv => AnswerReachesPage
  BY <1>1 DEF AnswerReachesPage
<1> QED BY <1>2, CallAlways, PTL
-----------------------------------------------------------------------------
(* Tables *)

TableSpec(n) == TableInit(n) /\ [][TableNext]_tableVars

\* The rows, each somewhere.
Permuted(s) == s \in [Rows -> Rows] /\ \A r \in Rows : \E k \in Rows : s[k] = r

Clicks == Seq([column : Columns, order : {1, -1}])

\* Clicks that tell two rows apart, and the last of some clicks.
Telling(a, b, cl) == {n \in DOMAIN cl : Cells[a][cl[n].column] # Cells[b][cl[n].column]}
LastOf(T) == CHOOSE n \in T : \A m \in T : m <= n

\* Row a stands before row b, by the clicks.
Ahead(a, b, cl) ==
  LET telling == Telling(a, b, cl) IN
  IF telling = {} THEN a < b
  ELSE LET c == cl[LastOf(telling)] IN
       c.order * Cells[a][c.column] < c.order * Cells[b][c.column]

TableInv ==
  /\ clicks \in Clicks /\ sortOrder \in {1, -1}
  /\ body = << >> \/ Permuted(body)
  /\ \A j, k \in DOMAIN body : j < k => Ahead(body[j], body[k], clicks)

LEMMA LastExists ==
  ASSUME NEW n \in Nat, NEW T \in SUBSET (1..n), T # {}
  PROVE  LastOf(T) \in T /\ \A m \in T : m <= LastOf(T)
<1> DEFINE S == {d \in Nat : \E m \in T : d = n - m}
<1>1. \A m \in T : m \in Int /\ n - m \in S
  OBVIOUS
<1>2. PICK d \in S : \A e \in S : d <= e
  BY <1>1, Least
<1>3. PICK k \in T : d = n - k
  BY <1>2
<1>4. \A m \in T : m <= k
  BY <1>1, <1>2, <1>3
<1> QED BY <1>3, <1>4 DEF LastOf

\* A sort leaves all rows in the table.
LEMMA SortedRows ==
  ASSUME NEW s \in SetToSeqs(Rows)
  PROVE  Permuted(s)
<1>1. Rows = 1..Len(Cells) /\ Len(Cells) \in Nat
  BY TableAssumption DEF Rows
<1>2. IsFiniteSet(Rows) /\ 1..Cardinality(Rows) = Rows
  BY <1>1, FS_Interval
<1>3. s \in [Rows -> Rows] /\ \A i, j \in Rows : i # j => s[i] # s[j]
  BY <1>2 DEF SetToSeqs
<1>4. s \in Injection(Rows, Rows)
  BY <1>3 DEF Injection, IsInjective
<1>5. s \in Surjection(Rows, Rows)
  BY <1>2, <1>4, FS_Injection
<1> QED BY <1>3, <1>5 DEF Permuted, Surjection

\* One more click: its column decides, and where it does not, the clicks before.
LEMMA ClickAhead ==
  ASSUME NEW cl \in Clicks, NEW c \in Columns, NEW o \in {1, -1}, NEW a \in Rows, NEW b \in Rows,
         \/ o * Cells[a][c] < o * Cells[b][c]
         \/ Cells[a][c] = Cells[b][c] /\ Ahead(a, b, cl)
  PROVE  Ahead(a, b, Append(cl, [column |-> c, order |-> o]))
<1> DEFINE x == [column |-> c, order |-> o]
           cn == Append(cl, x)
           T == Telling(a, b, cl)
           U == Telling(a, b, cn)
<1>1. Len(cl) \in Nat /\ DOMAIN cl = 1..Len(cl) /\ DOMAIN cn = 1..(Len(cl) + 1)
      /\ cn[Len(cl) + 1] = x /\ \A m \in 1..Len(cl) : cn[m] = cl[m]
  BY DEF Clicks
<1>2. x.column = c /\ x.order = o
  OBVIOUS
<1>3. Cells[a][c] \in Int /\ Cells[b][c] \in Int
  BY TableAssumption DEF Rows, Columns
<1> HIDE DEF x, cn
<1>4. CASE o * Cells[a][c] < o * Cells[b][c]
  <2>1. Cells[a][c] # Cells[b][c]
    BY <1>3, <1>4
  <2>2. Len(cl) + 1 \in U /\ U \subseteq 1..(Len(cl) + 1)
    BY <1>1, <1>2, <2>1 DEF Telling
  <2> HIDE DEF U
  <2>3. LastOf(U) = Len(cl) + 1
    <3> DEFINE n == Len(cl) + 1
               L == LastOf(U)
    <3>1. n \in Nat /\ U \in SUBSET (1..n) /\ n \in U
      BY <1>1, <2>2
    <3> HIDE DEF n
    <3>2. L \in U /\ \A m \in U : m <= L
      BY <3>1, LastExists, Zenon
    <3> HIDE DEF L
    <3>3. L \in 1..n /\ n <= L
      BY <3>1, <3>2
    <3>4. L = n
      BY <3>1, <3>3
    <3> QED BY <3>4 DEF n, L
  <2> QED BY <1>1, <1>2, <1>4, <2>2, <2>3 DEF Ahead, U, cn, x
<1>5. CASE Cells[a][c] = Cells[b][c] /\ Ahead(a, b, cl)
  <2>1. U = T /\ T \subseteq 1..Len(cl)
    BY <1>1, <1>2, <1>5 DEF Telling
  <2> HIDE DEF U, T
  <2>2. T # {} => LastOf(T) \in 1..Len(cl)
    BY <1>1, <2>1, LastExists
  <2>3. T # {} => cn[LastOf(U)] = cl[LastOf(T)]
    BY <1>1, <2>1, <2>2
  <2> QED BY <1>5, <2>1, <2>3 DEF Ahead, T, U, cn, x
<1> QED BY <1>4, <1>5

LEMMA TableStep ==
  ASSUME TableInv, [TableNext]_tableVars
  PROVE  TableInv'
<1>1. ASSUME NEW c \in Columns, Click(c)
      PROVE  TableInv'
  <2> DEFINE o == IF sortColumn = c THEN -sortOrder ELSE 1
  <2>1. /\ body # << >> /\ sortOrder' = o /\ TableSort(c, o)
        /\ clicks' = Append(clicks, [column |-> c, order |-> o])
    BY <1>1 DEF Click
  <2>2. o \in {1, -1}
    BY DEF TableInv
  <2> HIDE DEF o
  <2>3. Permuted(body) /\ Permuted(body')
        /\ \A j, k \in DOMAIN body' : j < k => Comes(body'[j], body'[k], c, o)
    BY <2>1, SortedRows DEF TableInv, TableSort
  <2>4. clicks \in Clicks /\ clicks' \in Clicks
    BY <2>1, <2>2 DEF TableInv, Clicks
  <2>5. ASSUME NEW j \in DOMAIN body', NEW k \in DOMAIN body', j < k
        PROVE  Ahead(body'[j], body'[k], clicks')
    <3> DEFINE a == body'[j]
               b == body'[k]
    <3>1. a \in Rows /\ b \in Rows /\ Comes(a, b, c, o)
      BY <2>3, <2>5 DEF Permuted
    <3> HIDE DEF a, b
    <3>2. ASSUME Position(body, a) < Position(body, b)
          PROVE  Ahead(a, b, clicks)
      <4>1. /\ Position(body, a) \in DOMAIN body /\ body[Position(body, a)] = a
            /\ Position(body, b) \in DOMAIN body /\ body[Position(body, b)] = b
        BY <2>3, <3>1 DEF Permuted, Position
      <4> QED BY <3>2, <4>1 DEF TableInv
    <3>3. Ahead(a, b, Append(clicks, [column |-> c, order |-> o]))
      BY <2>2, <2>4, <3>1, <3>2, ClickAhead DEF Comes
    <3> QED BY <2>1, <3>3 DEF a, b
  <2> QED BY <2>1, <2>2, <2>3, <2>4, <2>5 DEF TableInv
<1>2. ASSUME NEW t, Type(t)
      PROVE  TableInv'
  BY <1>2 DEF Type, TableInv
<1>3. CASE Answer
  <2>1. body' = [r \in Rows |-> r] /\ clicks' = << >> /\ sortOrder' = 1
    BY <1>3 DEF Answer
  <2>2. \A a, b : Telling(a, b, << >>) = {}
    BY DEF Telling
  <2> QED BY <2>1, <2>2 DEF TableInv, Permuted, Clicks, Ahead
<1>4. CASE UNCHANGED tableVars
  BY <1>4 DEF tableVars, TableInv
<1> QED BY <1>1, <1>2, <1>3, <1>4 DEF TableNext

\* Rows stand as the clicks say, the last one first, whatever was searched for in between.
THEOREM RowsFollowClicks ==
  ASSUME NEW n
  PROVE  TableSpec(n) => []SortedByClicks
<1>1. TableInit(n) => TableInv
  BY DEF TableInit, TableInv, Clicks
<1>2. TableInv /\ [TableNext]_tableVars => TableInv'
  BY TableStep
<1>3. TableInv => SortedByClicks
  BY DEF TableInv, SortedByClicks, Ahead, Telling, LastOf
<1> QED BY <1>1, <1>2, <1>3, PTL DEF TableSpec
-----------------------------------------------------------------------------
(* Texts between images *)

LineSpec(imgs, txts, newest) == LineInit(imgs, txts, newest) /\ [][LineNext]_lineVars

\* Of texts, those that the server keeps for later at image k, and the others.
Kept(txts, imgs, newest, k) == {t \in ToSet(txts) : Stays(t, imgs[k], newest)}
Before(s, txts, imgs, newest, k) == Those(s, ToSet(txts) \ Kept(txts, imgs, newest, k))
After(s, txts, imgs, newest, k) == Those(s, Kept(txts, imgs, newest, k))

\* The server's loop: what it makes of image k after the ones before.
Round(was, txts, imgs, newest, k) ==
  IF imgs[k].pano THEN was
  ELSE [timeline |-> was.timeline \o TextItems(Before(was.remaining, txts, imgs, newest, k))
                                  \o <<ImageItem(imgs, k)>>,
        remaining |-> After(was.remaining, txts, imgs, newest, k)]
Start(txts) == [timeline |-> << >>, remaining |-> txts]

IsBuilt(f, imgs, txts, newest, n) ==
  f = [k \in 0..n |-> IF k = 0 THEN Start(txts) ELSE Round(f[k - 1], txts, imgs, newest, k)]

Built(imgs, txts, newest) == CHOOSE f : IsBuilt(f, imgs, txts, newest, Len(imgs))

LEMMA BuiltExists ==
  ASSUME NEW imgs, NEW txts, NEW newest, NEW n \in Nat
  PROVE  \E f : IsBuilt(f, imgs, txts, newest, n)
<1> DEFINE Bad == {m \in Nat : ~\E f : IsBuilt(f, imgs, txts, newest, m)}
<1> SUFFICES ASSUME Bad # {} PROVE FALSE
  OBVIOUS
<1>1. PICK m \in Bad : \A k \in Bad : m <= k
  BY Least
<1>2. CASE m = 0
  <2>1. IsBuilt([k \in 0..0 |-> Start(txts)], imgs, txts, newest, 0)
    BY DEF IsBuilt
  <2> QED BY <1>2, <2>1
<1>3. CASE m # 0
  <2>1. m - 1 \in Nat /\ m - 1 \notin Bad
    BY <1>1, <1>3
  <2>2. PICK g : IsBuilt(g, imgs, txts, newest, m - 1)
    BY <2>1
  <2> DEFINE f == [k \in 0..m |-> IF k = m THEN Round(g[m - 1], txts, imgs, newest, m) ELSE g[k]]
  <2>3. \A k \in 0..(m - 1) : g[k] = IF k = 0 THEN Start(txts) ELSE Round(g[k - 1], txts, imgs, newest, k)
    BY <2>2 DEF IsBuilt
  <2>4. \A k \in 0..m : f[k] = IF k = 0 THEN Start(txts) ELSE Round(f[k - 1], txts, imgs, newest, k)
    BY <2>1, <2>3
  <2>5. IsBuilt(f, imgs, txts, newest, m)
    BY <2>4 DEF IsBuilt
  <2> QED BY <2>5
<1> QED BY <1>2, <1>3

\* The server's loop, round by round.
LEMMA ServerRounds ==
  ASSUME NEW imgs, NEW txts, NEW newest, Len(imgs) \in Nat
  PROVE  LET f == Built(imgs, txts, newest) IN
         /\ f[0] = Start(txts)
         /\ \A k \in 1..Len(imgs) : f[k] = Round(f[k - 1], txts, imgs, newest, k)
         /\ ServerBuilds(imgs, txts, newest) = f[Len(imgs)]
<1> DEFINE f == Built(imgs, txts, newest)
<1>1. IsBuilt(f, imgs, txts, newest, Len(imgs))
  BY BuiltExists DEF Built
<1>2. f[0] = Start(txts) /\ \A k \in 1..Len(imgs) : f[k] = Round(f[k - 1], txts, imgs, newest, k)
  <2> HIDE DEF f
  <2> QED BY <1>1 DEF IsBuilt
<1>3. ServerBuilds(imgs, txts, newest) = f[Len(imgs)]
  BY DEF ServerBuilds, Built, IsBuilt, Round, Before, After, Kept, Start
<1> QED BY <1>2, <1>3

LEMMA HasMembers ==
  ASSUME NEW S, NEW s \in Seq(S), NEW k \in DOMAIN s
  PROVE  s[k] \in S /\ k \in Nat
OBVIOUS

\* The times of a page; no text has a fraction within the second of an image, where it matters.
LineTimes == \A t \in ToSet(texts), k \in DOMAIN images :
           t.time \in Int /\ t.part \in Nat /\ images[k].time \in Int
Agreed == \A t \in ToSet(texts) : ~SplitsSecond(t)

\* At every image that is shown, both loops keep the same texts for later.
LEMMA SameKept ==
  ASSUME LineTimes, Agreed, NEW k \in DOMAIN images, ~images[k].pano
  PROVE  /\ {t \in ToSet(texts) : Waits(t, k)} = Kept(texts, images, newestFirst, k)
         /\ {t \in ToSet(texts) : ~Waits(t, k)}
              = ToSet(texts) \ Kept(texts, images, newestFirst, k)
<1>1. ASSUME NEW t \in ToSet(texts)
      PROVE  Waits(t, k) <=> Stays(t, images[k], newestFirst)
  <2>1. t.time \in Int /\ t.part \in Nat /\ images[k].time \in Int
    BY DEF LineTimes
  <2>2. CASE newestFirst
    BY <2>2 DEF Waits, Stays
  <2>3. CASE ~newestFirst
    <3>1. ~(t.part > 0 /\ images[k].time = t.time)
      BY <2>3 DEF Agreed, SplitsSecond
    <3> QED BY <2>1, <2>3, <3>1 DEF Waits, Stays, LaterThan
  <2> QED BY <2>2, <2>3
<1> QED BY <1>1 DEF Kept

\* The page has what the server had after as many rounds.
Alike ==
  LET f == Built(images, texts, newestFirst) IN
  /\ next <= Len(images) + 1 => /\ gallery = f[next - 1].timeline
                                /\ chronoTexts = f[next - 1].remaining
  /\ Placed => gallery = ServerTimeline(images, texts, newestFirst)

LineInv ==
  /\ Len(images) \in Nat /\ next \in 1..(Len(images) + 2)
  /\ DOMAIN images = 1..Len(images) /\ LineTimes
  /\ Agreed => Alike

LEMMA LineStep ==
  ASSUME LineInv, [LineNext]_lineVars
  PROVE  LineInv'
<1> DEFINE f == Built(images, texts, newestFirst)
<1>0. /\ f[0] = Start(texts)
      /\ \A k \in 1..Len(images) : f[k] = Round(f[k - 1], texts, images, newestFirst, k)
      /\ ServerBuilds(images, texts, newestFirst) = f[Len(images)]
  BY ServerRounds DEF LineInv
<1>1. UNCHANGED <<images, texts, newestFirst>>
  BY DEF LineNext, Place, PlaceRest, lineVars
<1>2. next' \in 1..(Len(images') + 2) /\ (next' = next \/ next <= Len(images) + 1)
  BY <1>1 DEF LineNext, Place, PlaceRest, lineVars, LineInv
<1>3. (LineTimes' <=> LineTimes) /\ (Agreed' <=> Agreed)
  BY <1>1 DEF LineTimes, Agreed, SplitsSecond
<1>4. SUFFICES ASSUME Agreed PROVE Alike'
  BY <1>1, <1>2, <1>3 DEF LineInv
<1>5. Alike /\ LineTimes /\ DOMAIN images = 1..Len(images) /\ Len(images) \in Nat
      /\ next \in 1..(Len(images) + 2)
  BY <1>4 DEF LineInv
<1>6. f' = f /\ ServerTimeline(images, texts, newestFirst)' = ServerTimeline(images, texts, newestFirst)
  BY <1>1
<1>7. CASE Place
  <2>1. next \in 1..Len(images) /\ next' = next + 1
    BY <1>5, <1>7 DEF Place
  <2>2. gallery = f[next - 1].timeline /\ chronoTexts = f[next - 1].remaining
    BY <1>5, <2>1 DEF Alike
  <2>3. f[next] = Round(f[next - 1], texts, images, newestFirst, next)
    BY <1>0, <2>1
  <2>4. gallery' = f[next].timeline /\ chronoTexts' = f[next].remaining
    <3> HIDE DEF f
    <3>1. CASE images[next].pano
      BY <1>7, <2>2, <2>3, <3>1 DEF Place, Round
    <3>2. CASE ~images[next].pano
      <4>1. Sooner(next) = Before(chronoTexts, texts, images, newestFirst, next)
            /\ Later(next) = After(chronoTexts, texts, images, newestFirst, next)
        <5>1. next \in DOMAIN images
          BY <1>5, <2>1
        <5>2. /\ {t \in ToSet(texts) : Waits(t, next)} = Kept(texts, images, newestFirst, next)
              /\ {t \in ToSet(texts) : ~Waits(t, next)}
                   = ToSet(texts) \ Kept(texts, images, newestFirst, next)
          BY <1>4, <1>5, <3>2, <5>1, SameKept
        <5> QED BY <5>2 DEF Sooner, Later, Before, After
      <4>2. /\ gallery' = gallery \o TextItems(Before(chronoTexts, texts, images, newestFirst, next))
                                 \o <<ImageItem(images, next)>>
            /\ chronoTexts' = After(chronoTexts, texts, images, newestFirst, next)
        BY <1>7, <3>2, <4>1 DEF Place
      <4>3. f[next] = [timeline |-> gallery \o TextItems(Before(chronoTexts, texts, images, newestFirst, next))
                                            \o <<ImageItem(images, next)>>,
                       remaining |-> After(chronoTexts, texts, images, newestFirst, next)]
        BY <2>2, <2>3, <3>2 DEF Round
      <4> QED BY <4>2, <4>3
    <3> QED BY <3>1, <3>2
  <2>5. next' - 1 = next /\ ~Placed'
    BY <1>1, <1>5, <2>1 DEF Placed
  <2> QED BY <1>6, <2>4, <2>5 DEF Alike
<1>8. CASE PlaceRest
  <2>1. next = Len(images) + 1 /\ next' = next + 1 /\ gallery' = gallery \o TextItems(chronoTexts)
    BY <1>8 DEF PlaceRest
  <2>2. gallery = f[Len(images)].timeline /\ chronoTexts = f[Len(images)].remaining
    BY <1>5, <2>1 DEF Alike
  <2>3. gallery' = ServerTimeline(images, texts, newestFirst)
    BY <1>0, <2>1, <2>2 DEF ServerTimeline
  <2>4. ~(next' <= Len(images') + 1)
    BY <1>1, <1>5, <2>1
  <2> QED BY <1>6, <2>3, <2>4 DEF Alike
<1>9. CASE UNCHANGED lineVars
  BY <1>5, <1>6, <1>9 DEF lineVars, Alike, Placed
<1> QED BY <1>7, <1>8, <1>9 DEF LineNext

\* The browser puts a page together as the server does, whose loop cuts the fractions of a second
\* off the times of the texts: for any images and texts, unless, with the oldest image first, a
\* text has the second of an image and a fraction.
THEOREM PageIsServers ==
  ASSUME NEW imgs \in Seq([time : Int, pano : BOOLEAN]),
         NEW Ids, NEW txts \in Seq([time : Int, part : Nat, id : Ids]), NEW newest
  PROVE  LineSpec(imgs, txts, newest) => []SameEitherWay
<1>1. LineInit(imgs, txts, newest) => LineInv
  <2> SUFFICES ASSUME LineInit(imgs, txts, newest) PROVE LineInv
    OBVIOUS
  <2>1. images = imgs /\ texts = txts /\ next = 1 /\ chronoTexts = txts /\ gallery = << >>
    BY DEF LineInit
  <2>2. Len(imgs) \in Nat /\ DOMAIN imgs = 1..Len(imgs)
    OBVIOUS
  <2>3. LineTimes
    <3>1. \A k \in DOMAIN imgs : imgs[k] \in [time : Int, pano : BOOLEAN]
      BY HasMembers
    <3>2. \A t \in ToSet(txts) : t \in [time : Int, part : Nat, id : Ids]
      BY HasMembers DEF ToSet
    <3> QED BY <2>1, <3>1, <3>2 DEF LineTimes
  <2>4. Built(images, texts, newestFirst)[0] = Start(texts)
    BY <2>1, <2>2, ServerRounds
  <2>5. Alike
    BY <2>1, <2>2, <2>4 DEF Alike, Placed, Start
  <2> QED BY <2>1, <2>2, <2>3, <2>5 DEF LineInv
<1>2. LineInv /\ [LineNext]_lineVars => LineInv'
  BY LineStep
<1>3. LineInv => SameEitherWay
  BY DEF LineInv, Alike, Agreed, SameEitherWay
<1> QED BY <1>1, <1>2, <1>3, PTL DEF LineSpec
-----------------------------------------------------------------------------
(* Each text in its place *)

\* c is what s has of S, in the order of s: what SelectSeq is for.
Picks(c, s, S) ==
  \E n \in Nat : \E f \in [1..n -> DOMAIN s] :
    /\ \A j, k \in 1..n : j < k => f[j] < f[k]
    /\ {f[j] : j \in 1..n} = {p \in DOMAIN s : s[p] \in S}
    /\ c = [j \in 1..n |-> s[f[j]]]

\* Text t belongs after an image of that time.
Behind(t, time, newest) == IF newest THEN t.time < time ELSE LaterThan(t, time)

TextsWith(Ids) == [time : Int, part : Nat, id : Ids]

\* The filter of the loop is a selection; the provers know no definition of SelectSeq.
Filters(Ids) ==
  \A s \in Seq(TextsWith(Ids)), S \in SUBSET TextsWith(Ids) : Picks(Those(s, S), s, S)

Members(s) == {s[k] : k \in DOMAIN s}

\* No id twice.
Apart(s) == \A j, k \in DOMAIN s : s[j].id = s[k].id => j = k

Mentions(g, t) == {q \in DOMAIN g : g[q].kind = "text" /\ g[q].id = t.id}

\* Text t stands in the gallery at p only, after the images it belongs after.
Stands(g, t, p, newest) ==
  /\ p \in DOMAIN g /\ Mentions(g, t) = {p}
  /\ \A q \in DOMAIN g : g[q].kind = "image" => (q < p <=> Behind(t, g[q].time, newest))

LEMMA PickedMembers ==
  ASSUME NEW X, NEW s \in Seq(X), NEW S, NEW c, Picks(c, s, S), Apart(s)
  PROVE  c \in Seq(X) /\ Apart(c) /\ Members(c) = Members(s) \cap S
<1>0. PICK n \in Nat : \E f \in [1..n -> DOMAIN s] :
        /\ \A j, k \in 1..n : j < k => f[j] < f[k]
        /\ {f[j] : j \in 1..n} = {p \in DOMAIN s : s[p] \in S}
        /\ c = [j \in 1..n |-> s[f[j]]]
  BY DEF Picks
<1>1. PICK f \in [1..n -> DOMAIN s] :
        /\ \A j, k \in 1..n : j < k => f[j] < f[k]
        /\ {f[j] : j \in 1..n} = {p \in DOMAIN s : s[p] \in S}
        /\ c = [j \in 1..n |-> s[f[j]]]
  BY <1>0
<1>2. \A p \in DOMAIN s : p \in Nat /\ s[p] \in X
  OBVIOUS
<1>3. c \in Seq(X) /\ DOMAIN c = 1..n /\ \A j \in 1..n : c[j] = s[f[j]] /\ f[j] \in DOMAIN s
  <2>1. \A j \in 1..n : f[j] \in DOMAIN s /\ s[f[j]] \in X
    BY <1>1, <1>2
  <2>2. c = [j \in 1..n |-> s[f[j]]]
    BY <1>1
  <2>3. c \in [1..n -> X]
    BY <2>1, <2>2, Zenon
  <2> QED BY <2>1, <2>2, <2>3
<1>4. Apart(c)
  <2>1. SUFFICES ASSUME NEW j \in 1..n, NEW k \in 1..n, c[j].id = c[k].id, j # k
                 PROVE  FALSE
    BY <1>3 DEF Apart
  <2>2. f[j] = f[k]
    BY <1>3, <2>1 DEF Apart
  <2>3. f[j] \in Nat
    BY <1>2, <1>3
  <2>4. j < k \/ k < j
    BY <2>1
  <2> QED BY <1>1, <2>2, <2>3, <2>4
<1>5. \A x : x \in Members(c) <=> x \in Members(s) \cap S
  <2>1. ASSUME NEW j \in 1..n
        PROVE  c[j] \in Members(s) \cap S
    <3>1. f[j] \in {p \in DOMAIN s : s[p] \in S}
      BY <1>1
    <3> QED BY <1>3, <3>1 DEF Members
  <2>2. ASSUME NEW p \in DOMAIN s, s[p] \in S
        PROVE  s[p] \in Members(c)
    <3>1. p \in {f[j] : j \in 1..n}
      BY <1>1, <2>2
    <3>2. PICK j \in 1..n : p = f[j]
      BY <3>1
    <3> QED BY <1>3, <3>2 DEF Members
  <2> QED BY <1>3, <2>1, <2>2 DEF Members
<1> QED BY <1>3, <1>4, <1>5

\* Two sequences, one after the other.
Joins(c, a, b, S) ==
  /\ c \in Seq(S) /\ Len(c) = Len(a) + Len(b)
  /\ \A k \in 1..Len(a) : c[k] = a[k]
  /\ \A k \in 1..Len(b) : c[Len(a) + k] = b[k]

LEMMA Joined ==
  ASSUME NEW S, NEW a \in Seq(S), NEW b \in Seq(S)
  PROVE  Joins(a \o b, a, b, S)
BY DEF Joins

\* Every place of both is a place of one of the two.
LEMMA JoinedPlaces ==
  ASSUME NEW S, NEW a \in Seq(S), NEW b \in Seq(S), NEW c, Joins(c, a, b, S)
  PROVE  /\ \A k \in DOMAIN a : k \in DOMAIN c /\ c[k] = a[k] /\ k <= Len(a)
         /\ \A k \in DOMAIN b : Len(a) + k \in DOMAIN c /\ c[Len(a) + k] = b[k] /\ k >= 1
         /\ \A q \in DOMAIN c : q \in DOMAIN a \/ \E k \in DOMAIN b : q = Len(a) + k
<1>1. Len(a) \in Nat /\ Len(b) \in Nat /\ DOMAIN a = 1..Len(a) /\ DOMAIN b = 1..Len(b)
  OBVIOUS
<1>2. DOMAIN c = 1..(Len(a) + Len(b))
  BY <1>1 DEF Joins
<1>3. ASSUME NEW q \in DOMAIN c, q \notin DOMAIN a
      PROVE  \E k \in DOMAIN b : q = Len(a) + k
  <2>1. q - Len(a) \in DOMAIN b /\ q = Len(a) + (q - Len(a))
    BY <1>1, <1>2, <1>3
  <2> QED BY <2>1
<1> QED BY <1>1, <1>2, <1>3 DEF Joins

\* A text that stands keeps its place when others, and images it does not belong after, follow.
LEMMA StandsStay ==
  ASSUME NEW S, NEW a \in Seq(S), NEW b \in Seq(S), NEW c, Joins(c, a, b, S), NEW t, NEW p,
         NEW newest, Stands(a, t, p, newest), Mentions(b, t) = {},
         \A k \in DOMAIN b : b[k].kind = "image" => ~Behind(t, b[k].time, newest)
  PROVE  Stands(c, t, p, newest)
<1>1. /\ \A k \in DOMAIN a : k \in DOMAIN c /\ c[k] = a[k] /\ k <= Len(a)
      /\ \A k \in DOMAIN b : Len(a) + k \in DOMAIN c /\ c[Len(a) + k] = b[k] /\ k >= 1
      /\ \A q \in DOMAIN c : q \in DOMAIN a \/ \E k \in DOMAIN b : q = Len(a) + k
  BY JoinedPlaces
<1>2. Len(a) \in Nat /\ DOMAIN a \subseteq Nat /\ DOMAIN b \subseteq Nat
  OBVIOUS
<1>3. p \in DOMAIN c /\ Mentions(c, t) = {p}
  BY <1>1 DEF Stands, Mentions
<1>4. ASSUME NEW q \in DOMAIN c, c[q].kind = "image"
      PROVE  q < p <=> Behind(t, c[q].time, newest)
  <2>1. CASE q \in DOMAIN a
    BY <1>1, <1>4, <2>1 DEF Stands
  <2>2. CASE \E k \in DOMAIN b : q = Len(a) + k
    <3>1. PICK k \in DOMAIN b : q = Len(a) + k
      BY <2>2
    <3>2. ~(q < p)
      BY <1>1, <1>2, <3>1 DEF Stands
    <3> QED BY <1>1, <1>4, <3>1, <3>2
  <2> QED BY <1>1, <2>1, <2>2
<1> QED BY <1>3, <1>4 DEF Stands

\* A text that is put at the end stands after all images.
LEMMA StandsNew ==
  ASSUME NEW S, NEW a \in Seq(S), NEW s, TextItems(s) \in Seq(S), Apart(s),
         NEW c, Joins(c, a, TextItems(s), S), NEW k \in DOMAIN s, NEW newest,
         Mentions(a, s[k]) = {},
         \A q \in DOMAIN a : a[q].kind = "image" => Behind(s[k], a[q].time, newest)
  PROVE  Stands(c, s[k], Len(a) + k, newest)
<1> DEFINE b == TextItems(s)
<1>0. DOMAIN b = DOMAIN s /\ \A j \in DOMAIN s : b[j].kind = "text" /\ b[j].id = s[j].id
  BY DEF TextItems, TextItem
<1> HIDE DEF b
<1>1. /\ \A j \in DOMAIN a : j \in DOMAIN c /\ c[j] = a[j] /\ j <= Len(a)
      /\ \A j \in DOMAIN b : Len(a) + j \in DOMAIN c /\ c[Len(a) + j] = b[j] /\ j >= 1
      /\ \A q \in DOMAIN c : q \in DOMAIN a \/ \E j \in DOMAIN b : q = Len(a) + j
  BY JoinedPlaces DEF b
<1>2. Len(a) \in Nat /\ DOMAIN a \subseteq Nat
  OBVIOUS
<1>3. DOMAIN b \subseteq Nat
  BY DEF b
<1>4. Mentions(c, s[k]) = {Len(a) + k}
  <2>1. ASSUME NEW q \in Mentions(c, s[k])
        PROVE  q = Len(a) + k
    <3>1. q \in DOMAIN c /\ c[q].kind = "text" /\ c[q].id = s[k].id
      BY DEF Mentions
    <3>2. q \notin DOMAIN a
      BY <1>1, <3>1 DEF Mentions
    <3>3. PICK j \in DOMAIN b : q = Len(a) + j
      BY <1>1, <3>1, <3>2
    <3>4. s[j].id = s[k].id
      BY <1>0, <1>1, <3>1, <3>3
    <3> QED BY <1>0, <3>3, <3>4 DEF Apart
  <2>2. Len(a) + k \in Mentions(c, s[k])
    BY <1>0, <1>1 DEF Mentions
  <2> QED BY <2>1, <2>2
<1>5. ASSUME NEW q \in DOMAIN c, c[q].kind = "image"
      PROVE  q < Len(a) + k /\ Behind(s[k], c[q].time, newest)
  <2>1. q \in DOMAIN a
    BY <1>0, <1>1, <1>5
  <2> QED BY <1>0, <1>1, <1>2, <1>3, <1>5, <2>1
<1> QED BY <1>0, <1>1, <1>4, <1>5 DEF Stands

LEMMA StillAbsent ==
  ASSUME NEW S, NEW a \in Seq(S), NEW b \in Seq(S), NEW c, Joins(c, a, b, S), NEW t,
         Mentions(a, t) = {}, Mentions(b, t) = {}
  PROVE  Mentions(c, t) = {}
BY JoinedPlaces DEF Mentions

Item(Ids) == [kind : {"image"}, id : Nat, time : Int] \cup [kind : {"text"}, id : Ids]

\* The album: texts with ids of their own, images in order.
Album(imgs, txts, newest, Ids) ==
  /\ newest \in BOOLEAN /\ txts \in Seq(TextsWith(Ids)) /\ Apart(txts)
  /\ imgs \in Seq([time : Int, pano : BOOLEAN]) /\ Ordered(imgs, newest)

\* The text waits: it belongs after all images so far, those that are not on the page included.
Waiting(t) ==
  /\ t \in Members(chronoTexts) /\ Mentions(gallery, t) = {}
  /\ \A j \in 1..(next - 1) : ~images[j].pano => Behind(t, images[j].time, newestFirst)

\* It has its place, before one of the images so far.
Standing(t) ==
  /\ t \notin Members(chronoTexts)
  /\ \E p \in DOMAIN gallery : Stands(gallery, t, p, newestFirst)
  /\ \E j \in 1..(next - 1) : ~Behind(t, images[j].time, newestFirst)

ShowsImages ==
  \A q \in DOMAIN gallery : gallery[q].kind = "image" =>
    \E j \in 1..(next - 1) : ~images[j].pano /\ gallery[q].time = images[j].time

InLoop(Ids) ==
  /\ gallery \in Seq(Item(Ids)) /\ ShowsImages
  /\ chronoTexts \in Seq(TextsWith(Ids)) /\ Apart(chronoTexts)
  /\ Members(chronoTexts) \subseteq Members(texts)
  /\ \A t \in Members(texts) : Waiting(t) \/ Standing(t)

PlaceInv(Ids) ==
  /\ Album(images, texts, newestFirst, Ids) /\ Filters(Ids)
  /\ next \in 1..(Len(images) + 2)
  /\ next <= Len(images) + 1 => InLoop(Ids)
  /\ next = Len(images) + 2 =>
       \A t \in Members(texts) : \E p \in DOMAIN gallery : Stands(gallery, t, p, newestFirst)

LEMMA ImageTyped ==
  ASSUME NEW imgs, NEW txts, NEW newest, NEW Ids, Album(imgs, txts, newest, Ids), NEW k \in DOMAIN imgs
  PROVE  imgs[k].time \in Int /\ k \in Nat
<1>1. imgs \in Seq([time : Int, pano : BOOLEAN])
  BY DEF Album
<1>2. imgs[k] \in [time : Int, pano : BOOLEAN] /\ k \in Nat
  BY <1>1, HasMembers
<1> QED BY <1>2

LEMMA ItemsTyped ==
  ASSUME NEW Ids, NEW s \in Seq(TextsWith(Ids))
  PROVE  TextItems(s) \in Seq(Item(Ids))
<1>1. \A k \in DOMAIN s : s[k].id \in Ids
  <2>1. \A k \in DOMAIN s : s[k] \in TextsWith(Ids)
    BY HasMembers
  <2> QED BY <2>1 DEF TextsWith
<1>2. \A k \in DOMAIN s : TextItem(s[k]) \in Item(Ids)
  BY <1>1 DEF TextItem, Item
<1>3. DOMAIN s = 1..Len(s) /\ Len(s) \in Nat
  OBVIOUS
<1>4. TextItems(s) = [k \in 1..Len(s) |-> TextItem(s[k])]
  BY <1>3 DEF TextItems
<1>5. \A k \in 1..Len(s) : TextItem(s[k]) \in Item(Ids)
  BY <1>2, <1>3
<1> QED BY <1>3, <1>4, <1>5

\* Of two texts with one id there is one only.
LEMMA OneOfEach ==
  ASSUME NEW s, Apart(s), NEW t \in Members(s), NEW u \in Members(s), t.id = u.id
  PROVE  t = u
BY DEF Apart, Members

\* A text that images before belong before belongs before the later ones.
LEMMA NotBehindLater ==
  ASSUME NEW imgs, NEW txts, NEW newest, NEW Ids, Album(imgs, txts, newest, Ids),
         NEW t \in TextsWith(Ids), NEW j \in DOMAIN imgs, NEW k \in DOMAIN imgs, j <= k,
         ~Behind(t, imgs[j].time, newest)
  PROVE  ~Behind(t, imgs[k].time, newest)
<1>1. t.time \in Int /\ t.part \in Nat /\ imgs[j].time \in Int /\ imgs[k].time \in Int /\ j \in Nat /\ k \in Nat
  BY ImageTyped DEF TextsWith
<1>2. j = k \/ IF newest THEN imgs[j].time >= imgs[k].time ELSE imgs[j].time <= imgs[k].time
  BY <1>1 DEF Album, Ordered
<1> QED BY <1>1, <1>2 DEF Behind, LaterThan, Album

LEMMA RoundStep ==
  ASSUME NEW Ids, PlaceInv(Ids), Place
  PROVE  PlaceInv(Ids)'
<1> DEFINE k == next
           T == TextsWith(Ids)
           B == Sooner(k)
           C == Later(k)
<1>0. /\ k \in 1..Len(images) /\ next' = k + 1 /\ UNCHANGED <<images, texts, newestFirst>>
      /\ InLoop(Ids) /\ Album(images, texts, newestFirst, Ids) /\ Len(images) \in Nat
      /\ DOMAIN images = 1..Len(images)
  BY DEF Place, PlaceInv, Album
<1>1. SUFFICES InLoop(Ids)'
  <2>1. next' \in 1..(Len(images') + 2) /\ next' # Len(images') + 2
    BY <1>0
  <2>2. Album(images, texts, newestFirst, Ids)' /\ Filters(Ids)'
    BY <1>0 DEF PlaceInv
  <2> QED BY <2>1, <2>2 DEF PlaceInv
<1>2. CASE images[k].pano
  <2>1. UNCHANGED <<chronoTexts, gallery>>
    BY <1>2 DEF Place
  <2>2. \A j \in 1..(next' - 1) : j \in 1..(k - 1) \/ j = k
    BY <1>0
  <2>3. \A j \in 1..(k - 1) : j \in 1..(next' - 1)
    BY <1>0
  <2>4. \A t : Waiting(t) => Waiting(t)'
    BY <1>0, <1>2, <2>1, <2>2 DEF Waiting
  <2>5. \A t : Standing(t) => Standing(t)'
    BY <1>0, <2>1, <2>3 DEF Standing
  <2>6. ShowsImages => ShowsImages'
    BY <1>0, <2>1, <2>3 DEF ShowsImages
  <2> QED BY <1>0, <2>1, <2>4, <2>5, <2>6 DEF InLoop
<1>3. CASE ~images[k].pano
  <2> DEFINE d == <<ImageItem(images, k)>>
  <2>1. gallery' = gallery \o TextItems(B) \o d /\ chronoTexts' = C
    BY <1>3 DEF Place
  <2>2. /\ gallery \in Seq(Item(Ids)) /\ chronoTexts \in Seq(T) /\ Apart(chronoTexts)
        /\ Members(chronoTexts) \subseteq Members(texts)
    BY <1>0 DEF InLoop
  <2>3. /\ Members(chronoTexts) \subseteq T /\ Members(texts) \subseteq T
        /\ ToSet(texts) = Members(texts)
    BY <1>0, <2>2 DEF Members, Album, ToSet
  <2>4. /\ B \in Seq(T) /\ Apart(B)
        /\ Members(B) = Members(chronoTexts) \cap {t \in T : ~Behind(t, images[k].time, newestFirst)}
    <3> DEFINE S == {t \in ToSet(texts) : ~Waits(t, k)}
    <3>1. S \subseteq T /\ B = Those(chronoTexts, S)
      BY <2>3 DEF Sooner
    <3>2. \A t : Waits(t, k) <=> Behind(t, images[k].time, newestFirst)
      BY DEF Waits, Behind
    <3>3. Picks(B, chronoTexts, S)
      BY <2>2, <3>1 DEF PlaceInv, Filters
    <3> HIDE DEF B
    <3>4. B \in Seq(T) /\ Apart(B) /\ Members(B) = Members(chronoTexts) \cap S
      <4> HIDE DEF S, T
      <4> QED BY <2>2, <3>3, PickedMembers
    <3> QED BY <2>2, <2>3, <3>2, <3>4
  <2>5. /\ C \in Seq(T) /\ Apart(C)
        /\ Members(C) = Members(chronoTexts) \cap {t \in T : Behind(t, images[k].time, newestFirst)}
    <3> DEFINE S == {t \in ToSet(texts) : Waits(t, k)}
    <3>1. S \subseteq T /\ C = Those(chronoTexts, S)
      BY <2>3 DEF Later
    <3>2. \A t : Waits(t, k) <=> Behind(t, images[k].time, newestFirst)
      BY DEF Waits, Behind
    <3>3. Picks(C, chronoTexts, S)
      BY <2>2, <3>1 DEF PlaceInv, Filters
    <3> HIDE DEF C
    <3>4. C \in Seq(T) /\ Apart(C) /\ Members(C) = Members(chronoTexts) \cap S
      <4> HIDE DEF S, T
      <4> QED BY <2>2, <3>3, PickedMembers
    <3> QED BY <2>2, <2>3, <3>2, <3>4
  <2> HIDE DEF B, C
  <2>6. Members(chronoTexts) \subseteq T /\ Members(texts) \subseteq T
    BY <2>3
  <2>7. d \in Seq(Item(Ids)) /\ DOMAIN d = {1} /\ d[1].kind = "image" /\ d[1].time = images[k].time
    <3>1. images[k].time \in Int /\ k \in Nat
      BY <1>0, ImageTyped
    <3>2. ImageItem(images, k) \in Item(Ids)
      BY <3>1 DEF ImageItem, Item
    <3> QED BY <3>2 DEF ImageItem
  <2> HIDE DEF d
  <2>8. TextItems(B) \in Seq(Item(Ids))
    BY <2>4, ItemsTyped
  <2>9. PICK m : m = gallery \o TextItems(B)
    OBVIOUS
  <2>10. Joins(m, gallery, TextItems(B), Item(Ids)) /\ Joins(gallery', m, d, Item(Ids))
         /\ m \in Seq(Item(Ids)) /\ gallery' \in Seq(Item(Ids))
    <3>1. Joins(m, gallery, TextItems(B), Item(Ids))
      BY <2>2, <2>8, <2>9, Joined
    <3>2. m \in Seq(Item(Ids))
      BY <3>1 DEF Joins
    <3>3. gallery' = m \o d
      BY <2>1, <2>9
    <3>4. Joins(gallery', m, d, Item(Ids))
      BY <2>7, <3>2, <3>3, Joined
    <3> QED BY <3>1, <3>2, <3>4 DEF Joins
  <2>11. \A j \in 1..(next' - 1) : j \in 1..(k - 1) \/ j = k
    BY <1>0
  <2>12. k \in 1..(next' - 1) /\ \A j \in 1..(k - 1) : j \in 1..(next' - 1) /\ j \in DOMAIN images /\ j <= k
    BY <1>0
  <2>13. \A t : Mentions(d, t) = {}
    BY <2>7 DEF Mentions
  <2>14. \A t : t \in Members(texts) /\ t \notin Members(B) => Mentions(TextItems(B), t) = {}
    <3>1. ASSUME NEW t \in Members(texts), NEW j \in DOMAIN B, B[j].id = t.id
          PROVE  t \in Members(B)
      <4>1. B[j] \in Members(B) /\ B[j] \in Members(texts)
        BY <2>2, <2>4 DEF Members
      <4>2. B[j] = t
        BY <1>0, <3>1, <4>1, OneOfEach DEF Album
      <4> QED BY <4>1, <4>2
    <3> QED BY <3>1 DEF Mentions, TextItems, TextItem
  <2>15. \A j \in DOMAIN TextItems(B) : TextItems(B)[j].kind # "image"
    BY DEF TextItems, TextItem
  <2>16. ShowsImages'
    <3>1. ASSUME NEW q \in DOMAIN gallery', gallery'[q].kind = "image"
          PROVE  \E j \in 1..(next' - 1) : ~images[j].pano /\ gallery'[q].time = images[j].time
      <4>1. CASE q \in DOMAIN gallery
        <5>1. gallery'[q] = gallery[q]
          BY <2>2, <2>7, <2>8, <2>10, <4>1, JoinedPlaces
        <5> QED BY <1>0, <2>12, <3>1, <4>1, <5>1 DEF InLoop, ShowsImages
      <4>2. CASE q \notin DOMAIN gallery
        <5>1. CASE q \in DOMAIN m
          <6>1. gallery'[q] = m[q]
            BY <2>7, <2>10, <5>1, JoinedPlaces
          <6>2. \E j \in DOMAIN TextItems(B) : m[q] = TextItems(B)[j]
            BY <2>2, <2>8, <2>10, <4>2, <5>1, JoinedPlaces
          <6> QED BY <2>15, <3>1, <6>1, <6>2
        <5>2. CASE q \notin DOMAIN m
          <6>1. \E j \in DOMAIN d : gallery'[q] = d[j]
            BY <2>7, <2>10, <5>2, JoinedPlaces
          <6>2. gallery'[q].time = images[k].time
            BY <2>7, <6>1
          <6> QED BY <1>3, <2>12, <6>2
        <5> QED BY <5>1, <5>2
      <4> QED BY <4>1, <4>2
    <3> QED BY <1>0, <3>1 DEF ShowsImages
  <2>17. ASSUME NEW t \in Members(texts), Waiting(t), Behind(t, images[k].time, newestFirst)
         PROVE  Waiting(t)'
    <3>1. t \in Members(C) /\ t \notin Members(B)
      BY <2>4, <2>5, <2>6, <2>17 DEF Waiting
    <3>2. Mentions(m, t) = {}
      BY <2>2, <2>8, <2>10, <2>14, <2>17, <3>1, StillAbsent DEF Waiting
    <3>3. Mentions(gallery', t) = {}
      BY <2>7, <2>10, <2>13, <3>2, StillAbsent
    <3>4. \A j \in 1..(next' - 1) : ~images[j].pano => Behind(t, images[j].time, newestFirst)
      BY <2>11, <2>17 DEF Waiting
    <3> QED BY <1>0, <2>1, <3>1, <3>3, <3>4 DEF Waiting
  <2>18. ASSUME NEW t \in Members(texts), Waiting(t), ~Behind(t, images[k].time, newestFirst)
         PROVE  Standing(t)'
    <3>1. t \in Members(B) /\ t \notin Members(C)
      BY <2>4, <2>5, <2>6, <2>18 DEF Waiting
    <3>2. PICK j \in DOMAIN B : t = B[j]
      BY <3>1 DEF Members
    <3>3. \A q \in DOMAIN gallery : gallery[q].kind = "image" => Behind(t, gallery[q].time, newestFirst)
      BY <1>0, <2>18 DEF InLoop, ShowsImages, Waiting
    <3>4. Stands(m, t, Len(gallery) + j, newestFirst)
      BY <2>2, <2>4, <2>8, <2>10, <2>18, <3>2, <3>3, StandsNew DEF Waiting
    <3>5. Stands(gallery', t, Len(gallery) + j, newestFirst)
      BY <2>7, <2>10, <2>13, <2>18, <3>4, StandsStay
    <3> QED BY <1>0, <2>1, <2>12, <2>18, <3>1, <3>5 DEF Standing, Stands
  <2>19. ASSUME NEW t \in Members(texts), Standing(t)
         PROVE  Standing(t)'
    <3>1. t \notin Members(B) /\ t \notin Members(C)
      BY <2>4, <2>5, <2>19 DEF Standing
    <3>2. PICK p \in DOMAIN gallery : Stands(gallery, t, p, newestFirst)
      BY <2>19 DEF Standing
    <3>3. PICK j \in 1..(k - 1) : ~Behind(t, images[j].time, newestFirst)
      BY <2>19 DEF Standing
    <3>4. ~Behind(t, images[k].time, newestFirst)
      BY <1>0, <2>6, <2>12, <3>3, NotBehindLater
    <3>5. Stands(m, t, p, newestFirst)
      BY <2>2, <2>8, <2>10, <2>14, <2>15, <3>1, <3>2, StandsStay
    <3>6. Stands(gallery', t, p, newestFirst)
      BY <2>7, <2>10, <2>13, <3>4, <3>5, StandsStay
    <3> QED BY <1>0, <2>1, <2>12, <3>1, <3>3, <3>6 DEF Standing, Stands
  <2>20. \A t \in Members(texts) : (Waiting(t) \/ Standing(t))'
    BY <1>0, <2>17, <2>18, <2>19 DEF InLoop
  <2>21. Members(C) \subseteq Members(texts)
    BY <2>2, <2>5
  <2> QED BY <1>0, <2>1, <2>5, <2>10, <2>16, <2>20, <2>21 DEF InLoop
<1> QED BY <1>2, <1>3

LEMMA RestStep ==
  ASSUME NEW Ids, PlaceInv(Ids), PlaceRest
  PROVE  PlaceInv(Ids)'
<1>0. /\ next = Len(images) + 1 /\ next' = Len(images) + 2 /\ UNCHANGED <<images, texts, newestFirst>>
      /\ gallery' = gallery \o TextItems(chronoTexts) /\ Len(images) \in Nat
      /\ InLoop(Ids) /\ Album(images, texts, newestFirst, Ids)
  BY DEF PlaceRest, PlaceInv, Album
<1>1. gallery \in Seq(Item(Ids)) /\ TextItems(chronoTexts) \in Seq(Item(Ids)) /\ Apart(chronoTexts)
      /\ Members(chronoTexts) \subseteq Members(texts)
  BY <1>0, ItemsTyped DEF InLoop
<1>2. Joins(gallery', gallery, TextItems(chronoTexts), Item(Ids))
  BY <1>0, <1>1, Joined
<1>3. ASSUME NEW t \in Members(texts)
      PROVE  \E p \in DOMAIN gallery' : Stands(gallery', t, p, newestFirst)
  <2>1. CASE Waiting(t)
    <3>1. PICK j \in DOMAIN chronoTexts : t = chronoTexts[j]
      BY <2>1 DEF Waiting, Members
    <3>2. \A q \in DOMAIN gallery : gallery[q].kind = "image" => Behind(t, gallery[q].time, newestFirst)
      BY <1>0, <2>1 DEF InLoop, ShowsImages, Waiting
    <3>3. Stands(gallery', t, Len(gallery) + j, newestFirst)
      BY <1>1, <1>2, <2>1, <3>1, <3>2, StandsNew DEF Waiting
    <3> QED BY <3>3 DEF Stands
  <2>2. CASE Standing(t)
    <3>1. PICK p \in DOMAIN gallery : Stands(gallery, t, p, newestFirst)
      BY <2>2 DEF Standing
    <3>2. Mentions(TextItems(chronoTexts), t) = {}
      <4>1. ASSUME NEW j \in DOMAIN chronoTexts, chronoTexts[j].id = t.id
            PROVE  t \in Members(chronoTexts)
        <5>1. chronoTexts[j] \in Members(chronoTexts) /\ chronoTexts[j] \in Members(texts)
          BY <1>1 DEF Members
        <5>2. chronoTexts[j] = t
          BY <1>0, <4>1, <5>1, OneOfEach DEF Album
        <5> QED BY <5>1, <5>2
      <4> QED BY <2>2, <4>1 DEF Standing, Mentions, TextItems, TextItem
    <3>3. \A j \in DOMAIN TextItems(chronoTexts) : TextItems(chronoTexts)[j].kind # "image"
      BY DEF TextItems, TextItem
    <3>4. Stands(gallery', t, p, newestFirst)
      BY <1>1, <1>2, <3>1, <3>2, <3>3, StandsStay
    <3> QED BY <3>4 DEF Stands
  <2> QED BY <1>0, <2>1, <2>2 DEF InLoop
<1>4. next' \in 1..(Len(images') + 2) /\ ~(next' <= Len(images') + 1)
  BY <1>0
<1> QED BY <1>0, <1>3, <1>4 DEF PlaceInv

\* Each text stands on the finished page once, after the images it belongs after and before the
\* others, for any number of images and texts in any order of entry.
THEOREM TextsHavePlaces ==
  ASSUME NEW imgs, NEW txts, NEW newest, NEW Ids, Album(imgs, txts, newest, Ids), Filters(Ids)
  PROVE  LineSpec(imgs, txts, newest) => []TextsInPlace
<1>1. LineInit(imgs, txts, newest) => PlaceInv(Ids)
  <2> SUFFICES ASSUME LineInit(imgs, txts, newest) PROVE PlaceInv(Ids)
    OBVIOUS
  <2>1. images = imgs /\ texts = txts /\ newestFirst = newest /\ next = 1 /\ chronoTexts = txts
        /\ gallery = << >>
    BY DEF LineInit
  <2>2. Len(images) \in Nat /\ txts \in Seq(TextsWith(Ids)) /\ Apart(txts)
    BY <2>1 DEF Album
  <2>3. gallery \in Seq(Item(Ids)) /\ DOMAIN gallery = {}
    BY <2>1
  <2>4. ShowsImages /\ \A t \in Members(texts) : Waiting(t)
    BY <2>1, <2>3 DEF ShowsImages, Waiting, Mentions
  <2>5. InLoop(Ids)
    BY <2>1, <2>2, <2>3, <2>4 DEF InLoop
  <2> QED BY <2>1, <2>2, <2>5 DEF PlaceInv
<1>2. PlaceInv(Ids) /\ [LineNext]_lineVars => PlaceInv(Ids)'
  <2> SUFFICES ASSUME PlaceInv(Ids), [LineNext]_lineVars PROVE PlaceInv(Ids)'
    OBVIOUS
  <2>1. CASE UNCHANGED lineVars
    BY <2>1 DEF lineVars, PlaceInv, InLoop, ShowsImages, Waiting, Standing
  <2> QED BY <2>1, RoundStep, RestStep DEF LineNext
<1>3. PlaceInv(Ids) => TextsInPlace
  <2> SUFFICES ASSUME PlaceInv(Ids), Placed, NEW t \in Members(texts)
               PROVE  \E p \in DOMAIN gallery :
                 /\ {q \in DOMAIN gallery : gallery[q].kind = "text" /\ gallery[q].id = t.id} = {p}
                 /\ \A q \in DOMAIN gallery : gallery[q].kind = "image" =>
                      (q < p <=> IF newestFirst THEN t.time < gallery[q].time
                                                ELSE LaterThan(t, gallery[q].time))
    BY DEF TextsInPlace, ToSet, Members
  <2>1. next = Len(images) + 2 /\ Len(images) \in Nat
    BY DEF PlaceInv, Placed, Album
  <2>2. PICK p \in DOMAIN gallery : Stands(gallery, t, p, newestFirst)
    BY <2>1 DEF PlaceInv
  <2> QED BY <2>2 DEF Stands, Mentions, Behind
<1> QED BY <1>1, <1>2, <1>3, PTL DEF LineSpec

=============================================================================
