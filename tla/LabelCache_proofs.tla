-------------------------- MODULE LabelCache_proofs --------------------------
(***************************************************************************)
(* Theorems about LabelCache for every set of albums and pages, any number *)
(* of handlers at a time, and any number of changes, restarts and          *)
(* failures: the types, that a stale page that is served has one of the    *)
(* known reasons, and that a page has no label it does not need.           *)
(***************************************************************************)
EXTENDS LabelCache, TLAPS

Steps == [op : {"label", "read"}, src : Sources]
Seen == UNION {[D -> Nat] : D \in SUBSET Sources}
Builds == [todo : Seq(Steps), saw : Seen, skip : SUBSET Albums, shown : SUBSET Albums]
Entries == [saw : Seen, shown : SUBSET Albums, expired : BOOLEAN]
Works ==
  {h \in [queue : Seq(Sources), todo : SUBSET Keys, cur : SUBSET Keys, pc : {"select", "delete"}] :
     \A k, q \in h.cur : k = q}

Shape ==
  /\ ver \in [Sources -> Nat] /\ stored \in Nat
  /\ st \in [Albums -> States]
  /\ DOMAIN entry \subseteq Keys /\ entry \in [DOMAIN entry -> Entries]
  /\ DOMAIN build \subseteq Keys /\ build \in [DOMAIN build -> Builds]
  /\ labels \subseteq Keys \X Sources
  /\ viewed \subseteq {a \in Albums : preview(a) \in Keys}
  /\ work \in [Workers -> Works]
  /\ unguarded \subseteq Keys /\ lost \subseteq Sources

\* How many steps of its plan a rebuild has behind it.
Behind(k) == Len(Plan(k)) - Len(build[k].todo)

\* What a rebuild has to do is the rest of its plan.
OnPlan ==
  \A k \in DOMAIN build :
    /\ Len(build[k].todo) <= Len(Plan(k))
    /\ \A i \in 1..Len(build[k].todo) : build[k].todo[i] = Plan(k)[Behind(k) + i]

\* A preview shows its album or nothing.
PreviewShows ==
  \A a \in Albums : preview(a) \in DOMAIN build => build[preview(a)].shown \subseteq {a}

\* A served page is not being rebuilt, so that at most one set of versions counts for a key.
OneVersion == \A k \in Keys : ~(Building(k) /\ Live(k))

Holds(k) == Building(k) \/ Live(k)
Saw(k) == IF Building(k) THEN build[k].saw ELSE entry[k].saw

\* Where the plan of a key attaches the label of s, for s in LabelledFirst(k).
Place(s) == IF s = settings THEN 1 ELSE 2

\* The labels that a rebuild has attached are in the table, those of a served page too.
Labelled1st ==
  \A k \in Keys \ unguarded : \A s \in LabelledFirst(k) :
    Live(k) \/ (Building(k) /\ Behind(k) >= Place(s)) => <<k, s>> \in labels

\* Nothing is read before the first labels are attached.
ReadsFollow ==
  \A k \in DOMAIN build : LabelledFirst(k) # {} /\ DOMAIN build[k].saw # {} => Behind(k) >= 2

\* What was seen of an album is not newer than the album, and older than its deletion.
SeenEarlier ==
  \A k \in Keys : \A a \in Albums :
    Holds(k) /\ a \in LabelledFirst(k) /\ a \in DOMAIN Saw(k) =>
      /\ Saw(k)[a] <= ver[a]
      /\ st[a] = "absent" => Saw(k)[a] # ver[a]

\* The handler at w has still to reach the key k on behalf of the label s.
Reaches(w, s, k) ==
  /\ s \in Range(work[w].queue)
  /\ \/ work[w].pc = "select"
     \/ s \in Range(Tail(work[w].queue))
     \/ k \in work[w].todo \cup work[w].cur

\* Whoever saw an old version will be reached by a handler.
StaleReached ==
  \A k \in Keys \ unguarded : \A s \in LabelledFirst(k) :
    Holds(k) /\ s \in DOMAIN Saw(k) /\ Saw(k)[s] # ver[s] =>
      s \in lost \/ \E w \in Workers : Reaches(w, s, k)

\* New settings replace the old in memory only when nobody is left who saw the old.
SettingsReached ==
  \A w \in Workers : \A k \in Keys \ unguarded :
    /\ Busy(w) /\ Head(work[w].queue) = settings /\ work[w].pc = "delete"
    /\ Holds(k) /\ settings \in LabelledFirst(k) /\ settings \in DOMAIN Saw(k)
    => k \in work[w].todo \cup work[w].cur

Inv ==
  /\ Shape /\ OnPlan /\ PreviewShows /\ OneVersion /\ Labelled1st /\ ReadsFollow
  /\ SeenEarlier /\ StaleReached /\ SettingsReached

-----------------------------------------------------------------------------
(* The keys and their plans *)

LEMMA KeyKinds ==
  ASSUME NEW k \in Keys
  PROVE  k = main \/ \E a \in Albums : k = page(a) \/ k = preview(a)
BY LabelCacheAssumption DEF AllKeys

\* The source whose label is the second of a plan.
Second(k) == IF k = main THEN list ELSE k[2]

LEMMA FirstLabels ==
  ASSUME NEW k \in Keys
  PROVE  \/ LabelledFirst(k) = {}
         \/ /\ LabelledFirst(k) = {settings, Second(k)}
            /\ Second(k) \in Sources \ {settings}
<1> USE DEF LabelledFirst, Second, main, page, preview, Sources, settings, list
<1>1. CASE k = main
  BY <1>1
<1>2. ASSUME NEW a \in Albums, k = page(a) PROVE LabelledFirst(k) = {settings, a} /\ Second(k) = a
  BY <1>2
<1>3. ASSUME NEW a \in Albums, k = preview(a) PROVE LabelledFirst(k) = {}
  BY <1>3
<1>4. \A a \in Albums : a # settings
  BY LabelCacheAssumption
<1> QED BY <1>1, <1>2, <1>3, <1>4, KeyKinds

LEMMA StepsTyped ==
  ASSUME NEW s \in Sources
  PROVE  Label(s) \in Steps /\ Read(s) \in Steps
BY DEF Label, Read, Steps

LEMMA Halves ==
  ASSUME NEW n \in Nat, NEW i \in 1..2 * n
  PROVE  /\ i % 2 = 1 => (i + 1) \div 2 \in 1..n
         /\ i % 2 # 1 => i \div 2 \in 1..n
OBVIOUS

LEMMA ReadThenLabelTyped ==
  ASSUME NEW names \in Seq(Albums)
  PROVE  ReadThenLabel(names) \in Seq(Steps)
<1> DEFINE n == Len(names)
           step(i) == IF i % 2 = 1 THEN Read(names[(i + 1) \div 2]) ELSE Label(names[i \div 2])
<1>1. n \in Nat
  OBVIOUS
<1>2. \A i \in 1..n : names[i] \in Sources
  BY DEF Sources
<1>3. ASSUME NEW i \in 1..2 * n
      PROVE  step(i) \in Steps
  <2>1. CASE i % 2 = 1
    <3>1. names[(i + 1) \div 2] \in Sources
      BY <1>1, <1>2, <2>1, Halves
    <3> QED BY <2>1, <3>1, StepsTyped
  <2>2. CASE i % 2 # 1
    <3>1. names[i \div 2] \in Sources
      BY <1>1, <1>2, <2>2, Halves
    <3> QED BY <2>2, <3>1, StepsTyped
  <2> QED BY <2>1, <2>2
<1>4. ReadThenLabel(names) = [i \in 1..2 * n |-> step(i)]
  BY DEF ReadThenLabel
<1>5. 2 * n \in Nat
  BY <1>1
<1> HIDE DEF step, n
<1> QED BY <1>3, <1>4, <1>5

LEMMA PlanTyped ==
  ASSUME NEW k \in Keys
  PROVE  Plan(k) \in Seq(Steps)
<1> settings \in Sources /\ list \in Sources /\ \A a \in Albums : a \in Sources
  BY DEF Sources
<1>1. MainPlan \in Seq(Steps)
  <2>1. /\ <<Label(settings), Label(list), Read(settings)>> \in Seq(Steps)
        /\ <<Read(list)>> \in Seq(Steps)
    BY StepsTyped
  <2>2. ReadThenLabel(Featured) \in Seq(Steps) /\ ReadThenLabel(Order) \in Seq(Steps)
    BY ReadThenLabelTyped, LabelCacheAssumption
  <2> QED BY <2>1, <2>2 DEF MainPlan
<1>2. \A a \in Albums : PagePlan(a) \in Seq(Steps) /\ PreviewPlan(a) \in Seq(Steps)
  BY StepsTyped DEF PagePlan, PreviewPlan
<1> QED BY <1>1, <1>2, KeyKinds DEF Plan, main, page, preview

\* The plans begin with the labels of LabelledFirst.
LEMMA PlanBegins ==
  ASSUME NEW k \in Keys, LabelledFirst(k) # {}
  PROVE  /\ Len(Plan(k)) >= 2
         /\ Plan(k)[1] = Label(settings)
         /\ Plan(k)[2] = Label(Second(k))
<1>1. CASE k = main
  <2>1. ReadThenLabel(Featured) \in Seq(Steps) /\ ReadThenLabel(Order) \in Seq(Steps)
    BY ReadThenLabelTyped, LabelCacheAssumption
  <2>2. /\ <<Label(settings), Label(list), Read(settings)>> \in Seq(Steps)
        /\ <<Read(list)>> \in Seq(Steps)
    BY StepsTyped DEF Sources
  <2>3. Len(MainPlan) >= 2 /\ MainPlan[1] = Label(settings) /\ MainPlan[2] = Label(list)
    BY <2>1, <2>2 DEF MainPlan
  <2>4. Plan(k) = MainPlan /\ Second(k) = list
    BY <1>1 DEF Plan, Second, main
  <2> QED BY <2>3, <2>4
<1>2. ASSUME NEW a \in Albums, k = page(a)
      PROVE  Plan(k) = PagePlan(a) /\ Second(k) = a
  BY <1>2 DEF Plan, Second, page, main
<1>3. ASSUME NEW a \in Albums, k = preview(a) PROVE FALSE
  BY <1>3 DEF LabelledFirst, preview, main
<1> QED BY <1>1, <1>2, <1>3, KeyKinds DEF PagePlan

\* A preview reads its album only.
LEMMA PreviewReads ==
  ASSUME NEW a \in Albums, preview(a) \in Keys, NEW i \in 1..Len(Plan(preview(a)))
  PROVE  Plan(preview(a))[i].src \in {a, settings}
BY DEF Plan, preview, main, PreviewPlan, Read

-----------------------------------------------------------------------------
(* A rebuild *)

\* One step of the plan of k: it leaves b of the rebuild.
LEMMA Advance ==
  ASSUME Inv, NEW k \in DOMAIN build, build[k].todo # << >>, NEW b \in Builds,
         b.todo = Tail(build[k].todo), build' = [build EXCEPT ![k] = b],
         UNCHANGED <<ver, st, stored, entry, viewed, work, lost>>,
         labels \subseteq labels', labels' \subseteq Keys \X Sources,
         unguarded \subseteq unguarded', unguarded' \subseteq Keys,
         \A s \in LabelledFirst(k) :
           Head(build[k].todo) = Label(s) /\ k \notin unguarded' => <<k, s>> \in labels',
         DOMAIN b.saw # DOMAIN build[k].saw => Head(build[k].todo).op = "read",
         \A s \in LabelledFirst(k) \cap DOMAIN b.saw :
           \/ s \in DOMAIN build[k].saw /\ b.saw[s] = build[k].saw[s]
           \/ /\ b.saw[s] = ver[s]
              /\ s \in Albums => st[s] # "absent"
              /\ s = settings => ~SettingsLocked,
         \A a \in Albums : k = preview(a) => b.shown \subseteq {a}
  PROVE  Inv'
<1> USE DEF Inv
<1>1. /\ k \in Keys /\ build \in [DOMAIN build -> Builds] /\ build[k] \in Builds
      /\ DOMAIN build' = DOMAIN build /\ build'[k] = b
      /\ \A q \in DOMAIN build \ {k} : build'[q] = build[q]
  BY DEF Shape
<1>2. /\ build[k].todo \in Seq(Steps) /\ Len(build[k].todo) \in Nat
      /\ Len(b.todo) = Len(build[k].todo) - 1
      /\ \A i \in 1..Len(b.todo) : b.todo[i] = build[k].todo[i + 1]
      /\ Head(build[k].todo) = build[k].todo[1]
      /\ 1 \in 1..Len(build[k].todo)
  BY <1>1 DEF Builds
<1>3. Plan(k) \in Seq(Steps) /\ Len(Plan(k)) \in Nat
  BY <1>1, PlanTyped
<1>4. /\ Behind(k) \in Nat /\ Behind(k)' = Behind(k) + 1
      /\ Head(build[k].todo) = Plan(k)[Behind(k) + 1]
      /\ \A q \in DOMAIN build \ {k} : Behind(q)' = Behind(q)
  <2>1. /\ Len(build[k].todo) <= Len(Plan(k))
        /\ build[k].todo[1] = Plan(k)[Behind(k) + 1]
    BY <1>2 DEF OnPlan
  <2>2. Behind(k) \in Nat
    BY <1>2, <1>3, <2>1 DEF Behind
  <2>3. Behind(k)' = Len(Plan(k)) - Len(b.todo)
    BY <1>1 DEF Behind
  <2>4. Behind(k)' = Behind(k) + 1
    <3>1. Behind(k) = Len(Plan(k)) - Len(build[k].todo)
      BY DEF Behind
    <3> HIDE DEF Inv
    <3> QED BY <1>2, <1>3, <2>3, <3>1
  <2>5. \A q \in DOMAIN build \ {k} : Behind(q)' = Behind(q)
    BY <1>1 DEF Behind
  <2> QED BY <1>2, <2>1, <2>2, <2>4, <2>5
<1>5. Shape'
  BY <1>1 DEF Shape
<1>6. OnPlan'
  <2>1. /\ Len(b.todo) <= Len(Plan(k))
        /\ \A i \in 1..Len(b.todo) : b.todo[i] = Plan(k)[Behind(k) + 1 + i]
    <3>1. ASSUME NEW i \in 1..Len(b.todo)
          PROVE  b.todo[i] = Plan(k)[Behind(k) + (i + 1)] /\ Behind(k) + (i + 1) = Behind(k) + 1 + i
      <4>1. i + 1 \in 1..Len(build[k].todo)
        BY <1>2
      <4>2. build[k].todo[i + 1] = Plan(k)[Behind(k) + (i + 1)]
        BY <4>1 DEF OnPlan
      <4>3. b.todo[i] = build[k].todo[i + 1]
        BY <1>2
      <4>4. Behind(k) + (i + 1) = Behind(k) + 1 + i
        BY <1>2, <1>4
      <4> QED BY <4>2, <4>3, <4>4
    <3>2. Len(build[k].todo) <= Len(Plan(k))
      BY DEF OnPlan
    <3>3. Len(b.todo) <= Len(Plan(k))
      BY <1>2, <1>3, <3>2
    <3> QED BY <3>1, <3>3
  <2>2. ASSUME NEW q \in DOMAIN build \ {k}
        PROVE  /\ Len(build'[q].todo) <= Len(Plan(q))
               /\ \A i \in 1..Len(build'[q].todo) : build'[q].todo[i] = Plan(q)[Behind(q)' + i]
    <3>1. build'[q] = build[q] /\ Behind(q)' = Behind(q)
      BY <1>1, <1>4
    <3> QED BY <3>1 DEF OnPlan
  <2>3. ASSUME NEW q \in DOMAIN build'
        PROVE  /\ Len(build'[q].todo) <= Len(Plan(q))
               /\ \A i \in 1..Len(build'[q].todo) : build'[q].todo[i] = Plan(q)[Behind(q)' + i]
    <3>1. CASE q = k
      BY <1>1, <1>4, <2>1, <3>1
    <3>2. CASE q # k
      BY <1>1, <2>2, <3>2
    <3> QED BY <3>1, <3>2
  <2> QED BY <2>3 DEF OnPlan
<1>7. PreviewShows'
  BY <1>1 DEF PreviewShows
<1>8. /\ \A q : Building(q)' <=> Building(q)
      /\ \A q : Live(q)' <=> Live(q)
      /\ \A q : Holds(q)' <=> Holds(q)
  BY <1>1 DEF Building, Live, Cached, Holds
<1>9. OneVersion'
  BY <1>8 DEF OneVersion
<1>10. /\ Saw(k) = build[k].saw /\ Saw(k)' = b.saw
       /\ \A q \in Keys \ {k} : Saw(q)' = Saw(q)
  BY <1>1, <1>8 DEF Saw, Building
<1>11. LabelledFirst(k) # {} =>
         /\ Behind(k) = 0 => Head(build[k].todo) = Label(settings)
         /\ Behind(k) = 1 => Head(build[k].todo) = Label(Second(k))
  BY <1>1, <1>4, PlanBegins
<1>12. Labelled1st'
  <2> SUFFICES ASSUME NEW q \in Keys, q \notin unguarded', NEW s \in LabelledFirst(q),
                      Live(q)' \/ (Building(q)' /\ Behind(q)' >= Place(s))
               PROVE  <<q, s>> \in labels'
    BY DEF Labelled1st
  <2>1. CASE q # k \/ Live(q)'
    BY <1>4, <1>8, <2>1 DEF Labelled1st, Building, OneVersion
  <2>2. CASE q = k /\ ~Live(q)'
    <3>1. CASE Behind(k) >= Place(s)
      BY <1>8, <2>2, <3>1 DEF Labelled1st, Building
    <3>2. CASE Behind(k) < Place(s)
      <4>1. Behind(k) + 1 = Place(s)
        BY <1>4, <2>2, <3>2 DEF Place
      <4>2. s = settings \/ s = Second(k)
        BY <1>1, <2>2, FirstLabels
      <4>3. CASE s = settings
        <5>1. Behind(k) = 0
          BY <1>4, <4>1, <4>3 DEF Place
        <5> QED BY <1>11, <2>2, <4>3, <5>1
      <4>4. CASE s # settings
        <5>1. Behind(k) = 1
          BY <1>4, <4>1, <4>4 DEF Place
        <5> QED BY <1>11, <2>2, <4>2, <4>4, <5>1
      <4> QED BY <4>3, <4>4
    <3> QED BY <1>4, <3>1, <3>2 DEF Place
  <2> QED BY <2>1, <2>2
<1>13. ReadsFollow'
  <2> SUFFICES ASSUME LabelledFirst(k) # {}, DOMAIN b.saw # {}
               PROVE  Behind(k) + 1 >= 2
    BY <1>1, <1>4 DEF ReadsFollow
  <2>1. CASE DOMAIN b.saw = DOMAIN build[k].saw
    BY <1>4, <2>1 DEF ReadsFollow
  <2>2. CASE DOMAIN b.saw # DOMAIN build[k].saw
    BY <1>4, <1>11, <2>2 DEF Label
  <2> QED BY <2>1, <2>2
<1>14. SeenEarlier'
  <2> SUFFICES ASSUME NEW q \in Keys, NEW a \in Albums, Holds(q),
                      a \in LabelledFirst(q), a \in DOMAIN Saw(q)'
               PROVE  /\ Saw(q)'[a] <= ver[a]
                      /\ st[a] = "absent" => Saw(q)'[a] # ver[a]
    BY <1>8 DEF SeenEarlier
  <2>1. ver[a] \in Nat
    BY DEF Shape, Sources
  <2> QED BY <1>10, <2>1 DEF SeenEarlier
<1>15. StaleReached'
  <2> SUFFICES ASSUME NEW q \in Keys \ unguarded, NEW s \in LabelledFirst(q), Holds(q),
                      s \in DOMAIN Saw(q)', Saw(q)'[s] # ver[s]
               PROVE  s \in lost \/ \E w \in Workers : Reaches(w, s, q)
    BY <1>8 DEF StaleReached, Reaches
  <2> QED BY <1>10 DEF StaleReached
<1>16. SettingsReached'
  <2> SUFFICES ASSUME NEW w \in Workers, NEW q \in Keys \ unguarded,
                      Busy(w), Head(work[w].queue) = settings, work[w].pc = "delete",
                      Holds(q), settings \in LabelledFirst(q), settings \in DOMAIN Saw(q)'
               PROVE  q \in work[w].todo \cup work[w].cur
    BY <1>8 DEF SettingsReached, Busy
  <2>1. SettingsLocked
    BY DEF SettingsLocked
  <2> QED BY <1>10, <2>1 DEF SettingsReached
<1> QED BY <1>5, <1>6, <1>7, <1>9, <1>12, <1>13, <1>14, <1>15, <1>16

\* Dropping the step that was done.
LEMMA Dropped ==
  ASSUME Inv, NEW k \in DOMAIN build, build[k].todo # << >>
  PROVE  LET b == [build[k] EXCEPT !.todo = Tail(@)]
         IN /\ k \in Keys /\ Head(build[k].todo) \in Steps
            /\ Tail(build[k].todo) \in Seq(Steps)
            /\ b \in Builds /\ b.todo = Tail(build[k].todo)
            /\ b.saw = build[k].saw /\ b.shown = build[k].shown
            /\ [build EXCEPT ![k].todo = Tail(@)] = [build EXCEPT ![k] = b]
<1>1. k \in Keys /\ build[k] \in Builds
  BY DEF Inv, Shape
<1>2. build[k].todo \in Seq(Steps)
  BY <1>1 DEF Builds
<1>3. Head(build[k].todo) \in Steps /\ Tail(build[k].todo) \in Seq(Steps)
  BY <1>2
<1> QED BY <1>1, <1>3 DEF Builds

LEMMA FirstAreLabelled ==
  ASSUME NEW k \in Keys, NEW s \in LabelledFirst(k)
  PROVE  Labelled(k, s)
<1>1. CASE k = main
  <2>1. s \in {settings, list}
    BY <1>1 DEF LabelledFirst, main
  <2>2. s \notin Albums
    BY <2>1, LabelCacheAssumption
  <2> QED BY <2>2 DEF Labelled
<1>2. CASE k # main
  BY <1>2 DEF Labelled
<1> QED BY <1>1, <1>2

LEMMA PreviewUnchanged ==
  ASSUME Inv, NEW k \in DOMAIN build
  PROVE  \A a \in Albums : k = preview(a) => build[k].shown \subseteq {a}
BY DEF Inv, PreviewShows

LEMMA AttachInv ==
  ASSUME Inv, NEW k \in Keys, Attach(k)
  PROVE  Inv'
<1> DEFINE b == [build[k] EXCEPT !.todo = Tail(@)]
<1>1. k \in DOMAIN build /\ build[k].todo # << >>
  BY DEF Attach, NextIs, Building
<1>2. /\ Head(build[k].todo) \in Steps /\ b \in Builds /\ b.todo = Tail(build[k].todo)
      /\ b.saw = build[k].saw /\ b.shown = build[k].shown
      /\ build' = [build EXCEPT ![k] = b]
  BY <1>1, Dropped DEF Attach
<1>3. NextSrc(k) \in Sources
  BY <1>2 DEF NextSrc, Steps
<1>4. labels \subseteq labels' /\ labels' \subseteq Keys \X Sources
  BY <1>3 DEF Attach, Inv, Shape
<1>5. ASSUME NEW s \in LabelledFirst(k), Head(build[k].todo) = Label(s)
      PROVE  <<k, s>> \in labels'
  <2>1. NextSrc(k) = s
    BY <1>5 DEF NextSrc, Label
  <2> QED BY <2>1, FirstAreLabelled DEF Attach
<1>6. UNCHANGED <<ver, st, stored, entry, viewed, work, lost, unguarded>> /\ unguarded \subseteq Keys
  BY DEF Attach, Inv, Shape
<1> HIDE DEF b
<1> QED BY <1>1, <1>2, <1>4, <1>5, <1>6, Advance, PreviewUnchanged

LEMMA AttachFailsInv ==
  ASSUME Inv, NEW k \in Keys, AttachFails(k)
  PROVE  Inv'
<1> DEFINE b == [build[k] EXCEPT !.todo = Tail(@)]
<1>1. k \in DOMAIN build /\ build[k].todo # << >>
  BY DEF AttachFails, NextIs, Building
<1>2. /\ b \in Builds /\ b.todo = Tail(build[k].todo)
      /\ b.saw = build[k].saw /\ b.shown = build[k].shown
      /\ build' = [build EXCEPT ![k] = b]
  BY <1>1, Dropped DEF AttachFails
<1>3. /\ UNCHANGED <<ver, st, stored, entry, viewed, work, lost, labels>>
      /\ unguarded' = unguarded \cup {k} /\ unguarded' \subseteq Keys /\ labels \subseteq Keys \X Sources
  BY DEF AttachFails, Inv, Shape
<1> HIDE DEF b
<1> QED BY <1>1, <1>2, <1>3, Advance, PreviewUnchanged

LEMMA WithTyped ==
  ASSUME NEW f, NEW s, NEW v, f \in Seen, s \in Sources, v \in Nat
  PROVE  With(f, s, v) \in Seen
<1>1. PICK D \in SUBSET Sources : f \in [D -> Nat]
  BY DEF Seen
<1>2. With(f, s, v) \in [D \cup {s} -> Nat]
  BY <1>1 DEF With
<1> QED BY <1>1, <1>2 DEF Seen

LEMMA ReadSettingsInv ==
  ASSUME Inv, NEW k \in Keys, ReadSettings(k)
  PROVE  Inv'
<1> DEFINE f == build[k].saw
           v == ver[settings]
           b == [build[k] EXCEPT !.todo = Tail(@), !.saw = With(@, settings, v)]
<1>1. k \in DOMAIN build /\ build[k].todo # << >> /\ Head(build[k].todo).op = "read"
  BY DEF ReadSettings, NextIs, Building
<1>2. build[k] \in Builds /\ Tail(build[k].todo) \in Seq(Steps)
  BY <1>1, Dropped DEF Inv, Shape
<1>3. settings \in Sources /\ v \in Nat
  BY DEF Inv, Shape, Sources
<1>4. f \in Seen
  BY <1>2 DEF Builds
<1>5. build' = [build EXCEPT ![k] = b]
  BY <1>1, <1>2 DEF ReadSettings, Builds
<1> HIDE DEF f, v
<1>6. /\ With(f, settings, v) \in Seen
      /\ With(f, settings, v)[settings] = v
      /\ \A q \in DOMAIN With(f, settings, v) \ {settings} :
           q \in DOMAIN f /\ With(f, settings, v)[q] = f[q]
  <2>1. With(f, settings, v) \in Seen
    BY <1>3, <1>4, WithTyped
  <2>2. /\ DOMAIN With(f, settings, v) = DOMAIN f \cup {settings}
        /\ With(f, settings, v)[settings] = v
        /\ \A q \in DOMAIN f : q # settings => With(f, settings, v)[q] = f[q]
    BY DEF With
  <2> QED BY <2>1, <2>2
<1>7. /\ b \in Builds /\ b.todo = Tail(build[k].todo) /\ b.shown = build[k].shown
      /\ b.saw = With(f, settings, v)
  BY <1>2, <1>6 DEF Builds, f
<1>8. settings \notin Albums /\ ~SettingsLocked
  BY LabelCacheAssumption DEF ReadSettings
<1> HIDE DEF b
<1>9. \A s \in LabelledFirst(k) \cap DOMAIN b.saw :
           \/ s \in DOMAIN build[k].saw /\ b.saw[s] = build[k].saw[s]
           \/ /\ b.saw[s] = ver[s]
              /\ s \in Albums => st[s] # "absent"
              /\ s = settings => ~SettingsLocked
  BY <1>6, <1>7, <1>8 DEF f, v
<1>10. \A s \in LabelledFirst(k) :
         Head(build[k].todo) = Label(s) /\ k \notin unguarded' => <<k, s>> \in labels'
  BY <1>1 DEF Label
<1>11. /\ UNCHANGED <<ver, st, stored, entry, viewed, work, lost>>
       /\ labels \subseteq labels' /\ labels' \subseteq Keys \X Sources
       /\ unguarded \subseteq unguarded' /\ unguarded' \subseteq Keys
  BY DEF ReadSettings, Inv, Shape
<1>12. \A a \in Albums : k = preview(a) => b.shown \subseteq {a}
  BY <1>1, <1>7, PreviewUnchanged
<1> QED BY <1>1, <1>5, <1>7, <1>9, <1>10, <1>11, <1>12, Advance

\* The album a preview reads is its own.
LEMMA PreviewNext ==
  ASSUME Inv, NEW k \in DOMAIN build, build[k].todo # << >>, NextSrc(k) \in Albums,
         NEW a \in Albums, k = preview(a)
  PROVE  NextSrc(k) = a
<1>1. build[k].todo \in Seq(Steps) /\ k \in Keys
  BY DEF Inv, Shape, Builds
<1>2. /\ Len(build[k].todo) \in Nat /\ 1 \in 1..Len(build[k].todo)
      /\ Head(build[k].todo) = build[k].todo[1]
  BY <1>1
<1>3. Plan(k) \in Seq(Steps) /\ Len(Plan(k)) \in Nat
  BY <1>1, PlanTyped
<1>4. Len(build[k].todo) <= Len(Plan(k)) /\ build[k].todo[1] = Plan(k)[Behind(k) + 1]
  BY <1>2 DEF Inv, OnPlan
<1>5. Behind(k) + 1 \in 1..Len(Plan(k))
  BY <1>2, <1>3, <1>4 DEF Behind
<1>6. NextSrc(k) \in {a, settings}
  BY <1>1, <1>2, <1>4, <1>5, PreviewReads DEF NextSrc
<1> QED BY <1>6, LabelCacheAssumption

LEMMA ReadAlbumInv ==
  ASSUME Inv, NEW k \in Keys, ReadAlbum(k)
  PROVE  Inv'
<1> DEFINE a == NextSrc(k)
           f == build[k].saw
<1>1. /\ k \in DOMAIN build /\ build[k].todo # << >> /\ Head(build[k].todo).op = "read"
      /\ a \in Albums
  BY DEF ReadAlbum, NextIs, Building
<1>2. build[k] \in Builds /\ Tail(build[k].todo) \in Seq(Steps)
  BY <1>1, Dropped DEF Inv, Shape
<1>3. /\ UNCHANGED <<ver, st, stored, entry, viewed, work, lost>>
      /\ labels \subseteq labels' /\ labels' \subseteq Keys \X Sources
      /\ unguarded \subseteq unguarded' /\ unguarded' \subseteq Keys
  BY DEF ReadAlbum, Inv, Shape
<1>4. \A s \in LabelledFirst(k) :
        Head(build[k].todo) = Label(s) /\ k \notin unguarded' => <<k, s>> \in labels'
  BY <1>1 DEF Label
<1>5. CASE a \in build[k].skip
  <2> DEFINE b == [build[k] EXCEPT !.todo = Tail(@)]
  <2>1. /\ b \in Builds /\ b.todo = Tail(build[k].todo)
        /\ b.saw = build[k].saw /\ b.shown = build[k].shown
        /\ build' = [build EXCEPT ![k] = b]
    BY <1>1, <1>5, Dropped DEF ReadAlbum
  <2> HIDE DEF b
  <2> QED BY <1>1, <1>3, <1>4, <2>1, Advance, PreviewUnchanged
<1>6. CASE a \notin build[k].skip
  <2> DEFINE seen == IF a \in DOMAIN f /\ (st[a] = "hidden" \/ a \in Range(Featured))
                     THEN f[a] ELSE ver[a]
             shown == IF st[a] = "empty" THEN build[k].shown ELSE build[k].shown \cup {a}
             b == [build[k] EXCEPT !.todo = Tail(build[k].todo), !.saw = With(f, a, seen),
                                   !.shown = shown]
  <2>1. ~Missing(k) /\ build' = [build EXCEPT ![k] = b]
    BY <1>6 DEF ReadAlbum
  <2>2. f \in Seen /\ a \in Sources
    BY <1>1, <1>2 DEF Builds, Sources
  <2>3. seen \in Nat
    <3>1. ver[a] \in Nat
      BY <2>2 DEF Inv, Shape
    <3>2. \A s \in DOMAIN f : f[s] \in Nat
      BY <2>2 DEF Seen
    <3> QED BY <3>1, <3>2
  <2>4. With(f, a, seen) \in Seen
    BY <2>2, <2>3, WithTyped
  <2>5. shown \in SUBSET Albums
    BY <1>1, <1>2 DEF Builds
  <2>6. /\ b \in Builds /\ b.todo = Tail(build[k].todo)
        /\ b.saw = With(f, a, seen) /\ b.shown = shown
    BY <1>2, <2>4, <2>5 DEF Builds
  <2>7. \A q \in Albums : k = preview(q) => b.shown \subseteq {q}
    BY <1>1, <2>6, PreviewUnchanged, PreviewNext
  <2>8. \A s \in DOMAIN With(f, a, seen) :
          /\ s # a => s \in DOMAIN f /\ With(f, a, seen)[s] = f[s]
          /\ s = a => With(f, a, seen)[s] = seen
    BY DEF With
  <2>9. a \in LabelledFirst(k) => st[a] # "absent"
    <3>1. a \notin {settings, list}
      BY <1>1, LabelCacheAssumption
    <3>2. a \in LabelledFirst(k) => k # main
      BY <3>1 DEF LabelledFirst, main
    <3> QED BY <2>1, <3>2 DEF Missing
  <2>10. a # settings
    BY <1>1, LabelCacheAssumption
  <2>11. seen = ver[a] \/ (a \in DOMAIN f /\ seen = f[a])
    OBVIOUS
  <2> HIDE DEF b, seen, shown, a
  <2>12. \A s \in LabelledFirst(k) \cap DOMAIN b.saw :
           \/ s \in DOMAIN build[k].saw /\ b.saw[s] = build[k].saw[s]
           \/ /\ b.saw[s] = ver[s]
              /\ s \in Albums => st[s] # "absent"
              /\ s = settings => ~SettingsLocked
    BY <2>6, <2>8, <2>9, <2>10, <2>11
  <2> QED BY <1>1, <1>3, <1>4, <2>1, <2>6, <2>7, <2>12, Advance
<1> QED BY <1>5, <1>6

LEMMA ReadListInv ==
  ASSUME Inv, NEW k \in Keys, ReadList(k)
  PROVE  Inv'
<1> DEFINE f == build[k].saw
           rows == {q \in Albums : st[q] # "absent"}
           g == [s \in DOMAIN f \cup rows \cup {list} |-> IF s \in DOMAIN f THEN f[s] ELSE ver[s]]
           b == [build[k] EXCEPT !.todo = Tail(build[k].todo),
                                 !.skip = {q \in Albums : st[q] \in {"hidden", "absent"}},
                                 !.shown = {}, !.saw = g]
<1>1. k \in DOMAIN build /\ build[k].todo # << >> /\ Head(build[k].todo).op = "read"
  BY DEF ReadList, NextIs, Building
<1>2. build[k] \in Builds /\ Tail(build[k].todo) \in Seq(Steps)
  BY <1>1, Dropped DEF Inv, Shape
<1>3. f \in Seen
  BY <1>2 DEF Builds
<1>4. g \in Seen
  <2>1. PICK D \in SUBSET Sources : f \in [D -> Nat]
    BY <1>3 DEF Seen
  <2>2. \A s \in Sources : ver[s] \in Nat
    BY DEF Inv, Shape
  <2>3. D \cup rows \cup {list} \in SUBSET Sources
    BY DEF Sources
  <2>4. g \in [D \cup rows \cup {list} -> Nat]
    BY <2>1, <2>2, <2>3
  <2> QED BY <2>3, <2>4 DEF Seen
<1>5. build' = [build EXCEPT ![k] = b]
  BY DEF ReadList
<1>6. \A s \in DOMAIN g : /\ s \in DOMAIN f => g[s] = f[s]
                          /\ s \notin DOMAIN f => s \in rows \cup {list} /\ g[s] = ver[s]
  OBVIOUS
<1> HIDE DEF g
<1>7. b \in Builds /\ b.todo = Tail(build[k].todo) /\ b.saw = g /\ b.shown = {}
  BY <1>2, <1>4 DEF Builds
<1>8. settings \notin rows \cup {list} /\ list \notin Albums
  BY LabelCacheAssumption DEF settings, list
<1> HIDE DEF b
<1>9. \A s \in LabelledFirst(k) \cap DOMAIN b.saw :
           \/ s \in DOMAIN build[k].saw /\ b.saw[s] = build[k].saw[s]
           \/ /\ b.saw[s] = ver[s]
              /\ s \in Albums => st[s] # "absent"
              /\ s = settings => ~SettingsLocked
  BY <1>6, <1>7, <1>8
<1>10. \A s \in LabelledFirst(k) :
         Head(build[k].todo) = Label(s) /\ k \notin unguarded' => <<k, s>> \in labels'
  BY <1>1 DEF Label
<1>11. /\ UNCHANGED <<ver, st, stored, entry, viewed, work, lost>>
       /\ labels \subseteq labels' /\ labels' \subseteq Keys \X Sources
       /\ unguarded \subseteq unguarded' /\ unguarded' \subseteq Keys
  BY DEF ReadList, Inv, Shape
<1>12. \A q \in Albums : k = preview(q) => b.shown \subseteq {q}
  BY <1>7
<1> QED BY <1>1, <1>5, <1>7, <1>9, <1>10, <1>11, <1>12, Advance

\* What is kept of a key that is neither begun nor ended: everything the invariant says.
LEMMA Abandon ==
  ASSUME Inv, NEW k \in DOMAIN build, build' = Without(build, k),
         UNCHANGED <<ver, st, stored, entry, labels, viewed, work, unguarded, lost>>
  PROVE  Inv'
<1> USE DEF Inv
<1>1. /\ DOMAIN build' = DOMAIN build \ {k} /\ k \in Keys
      /\ \A q \in DOMAIN build' : build'[q] = build[q]
  BY DEF Without, Shape
<1>2. \A q \in DOMAIN build' : Behind(q)' = Behind(q)
  BY <1>1 DEF Behind
<1>3. Shape'
  <2>1. build' \in [DOMAIN build' -> Builds]
    BY <1>1 DEF Without, Shape
  <2> QED BY <1>1, <2>1 DEF Shape
<1>4. OnPlan' /\ PreviewShows'
  BY <1>1, <1>2 DEF OnPlan, PreviewShows
<1>5. \A q : /\ Building(q)' <=> Building(q) /\ q # k
             /\ Live(q)' <=> Live(q)
  BY <1>1 DEF Building, Live, Cached
<1>6. \A q \in Keys : Holds(q)' => Holds(q) /\ q # k /\ Saw(q)' = Saw(q)
  BY <1>1, <1>5 DEF Holds, Saw, OneVersion, Building
<1>7. OneVersion' /\ Labelled1st' /\ ReadsFollow'
  BY <1>1, <1>2, <1>5 DEF OneVersion, Labelled1st, ReadsFollow, Building
<1>8. SeenEarlier'
  BY <1>6 DEF SeenEarlier
<1>9. StaleReached' /\ SettingsReached'
  BY <1>6 DEF StaleReached, SettingsReached, Reaches, Busy
<1> QED BY <1>3, <1>4, <1>7, <1>8, <1>9

LEMMA StartBuildInv ==
  ASSUME Inv, NEW k \in Keys, StartBuild(k)
  PROVE  Inv'
<1> DEFINE b == [todo |-> Plan(k), saw |-> << >>, skip |-> {}, shown |-> {}]
<1> USE DEF Inv
<1>1. /\ ~Live(k) /\ ~Building(k)
      /\ DOMAIN build' = DOMAIN build \cup {k} /\ build'[k] = b
      /\ \A q \in DOMAIN build : q # k /\ build'[q] = build[q]
  BY DEF StartBuild, With, Building
<1>2. Plan(k) \in Seq(Steps) /\ Len(Plan(k)) \in Nat
  BY PlanTyped
<1>3. b \in Builds /\ DOMAIN b.saw = {} /\ b.todo = Plan(k) /\ b.shown = {}
  <2>1. << >> \in [{} -> Nat] /\ DOMAIN << >> = {}
    OBVIOUS
  <2>2. << >> \in Seen
    BY <2>1 DEF Seen
  <2> QED BY <1>2, <2>1, <2>2 DEF Builds
<1>4. UNCHANGED <<ver, st, stored, entry, viewed, work, lost>>
  BY DEF StartBuild
<1>5. /\ labels' = {l \in labels : l[1] # k} /\ unguarded' = unguarded \ {k}
  BY DEF StartBuild, ResetKey
<1> HIDE DEF b
<1>6. /\ \A q \in DOMAIN build : Behind(q)' = Behind(q)
      /\ Behind(k)' = 0
  <2>1. Behind(k)' = Len(Plan(k)) - Len(Plan(k))
    BY <1>1, <1>3 DEF Behind
  <2>2. \A q \in DOMAIN build : Behind(q)' = Behind(q)
    BY <1>1 DEF Behind
  <2> QED BY <1>2, <2>1, <2>2
<1>7. Shape'
  <2>1. build' \in [DOMAIN build' -> Builds]
    BY <1>1, <1>3 DEF Shape, StartBuild, With
  <2> QED BY <1>1, <1>4, <1>5, <2>1 DEF Shape
<1>8. OnPlan'
  <2> SUFFICES ASSUME NEW q \in DOMAIN build'
               PROVE  /\ Len(build'[q].todo) <= Len(Plan(q))
                      /\ \A i \in 1..Len(build'[q].todo) : build'[q].todo[i] = Plan(q)[Behind(q)' + i]
    BY DEF OnPlan
  <2>1. CASE q = k
    <3>1. \A i \in 1..Len(Plan(k)) : 0 + i = i
      OBVIOUS
    <3> QED BY <1>1, <1>2, <1>3, <1>6, <2>1, <3>1
  <2>2. CASE q # k
    BY <1>1, <1>6, <2>2 DEF OnPlan
  <2> QED BY <2>1, <2>2
<1>9. PreviewShows'
  BY <1>1, <1>3 DEF PreviewShows
<1>10. \A q : /\ Building(q)' <=> Building(q) \/ q = k
              /\ Live(q)' <=> Live(q)
  BY <1>1, <1>4 DEF Building, Live, Cached
<1>11. OneVersion'
  BY <1>1, <1>10 DEF OneVersion
<1>12. Labelled1st'
  <2> SUFFICES ASSUME NEW q \in Keys, q \notin unguarded', NEW s \in LabelledFirst(q),
                      Live(q)' \/ (Building(q)' /\ Behind(q)' >= Place(s))
               PROVE  <<q, s>> \in labels'
    BY DEF Labelled1st
  <2>1. q # k
    BY <1>1, <1>6, <1>10 DEF Place
  <2>2. <<q, s>> \in labels
    BY <1>5, <1>6, <1>10, <2>1 DEF Labelled1st, Building
  <2> QED BY <1>5, <2>1, <2>2
<1>13. ReadsFollow'
  BY <1>1, <1>3, <1>6 DEF ReadsFollow
<1>14. \A q \in Keys : Holds(q)' => IF q = k THEN DOMAIN Saw(q)' = {}
                                    ELSE Holds(q) /\ Saw(q)' = Saw(q)
  BY <1>1, <1>3, <1>4, <1>10 DEF Holds, Saw, Building
<1>15. SeenEarlier'
  BY <1>4, <1>14 DEF SeenEarlier
<1>16. StaleReached' /\ SettingsReached'
  BY <1>4, <1>5, <1>14 DEF StaleReached, SettingsReached, Reaches, Busy
<1> QED BY <1>7, <1>8, <1>9, <1>11, <1>12, <1>13, <1>15, <1>16

LEMMA StoreInv ==
  ASSUME Inv, NEW k \in Keys, Store(k)
  PROVE  Inv'
<1> DEFINE e == [saw |-> build[k].saw, shown |-> build[k].shown, expired |-> FALSE]
<1> USE DEF Inv
<1>1. /\ k \in DOMAIN build /\ build[k].todo = << >> /\ build[k] \in Builds
      /\ DOMAIN build' = DOMAIN build \ {k}
      /\ \A q \in DOMAIN build' : build'[q] = build[q]
  BY DEF Store, Without, Building, Shape
<1>2. /\ DOMAIN entry' = DOMAIN entry \cup {k} /\ entry'[k] = e
      /\ \A q \in DOMAIN entry \ {k} : entry'[q] = entry[q]
  BY DEF Store, With
<1>3. e \in Entries /\ e.saw = build[k].saw /\ ~e.expired
  BY <1>1 DEF Builds, Entries
<1>4. UNCHANGED <<ver, st, stored, labels, work, unguarded, lost>>
  BY DEF Store
<1> HIDE DEF e
<1>5. \A q \in DOMAIN build' : Behind(q)' = Behind(q)
  BY <1>1 DEF Behind
<1>6. viewed' \subseteq {a \in Albums : preview(a) \in Keys}
  <2>1. CASE k[1] = "preview"
    <3>1. PICK a \in Albums : k = preview(a)
      BY <2>1, KeyKinds DEF main, page, preview
    <3>2. build[k].shown \subseteq {a}
      BY <1>1, <3>1 DEF PreviewShows
    <3> QED BY <3>1, <3>2 DEF Store, Shape
  <2>2. CASE k[1] # "preview"
    BY <2>2 DEF Store, Shape
  <2> QED BY <2>1, <2>2
<1>7. Shape'
  <2>1. build' \in [DOMAIN build' -> Builds]
    BY <1>1 DEF Store, Without, Shape
  <2>2. entry' \in [DOMAIN entry' -> Entries]
    BY <1>2, <1>3 DEF Store, With, Shape
  <2> QED BY <1>1, <1>2, <1>4, <1>6, <2>1, <2>2 DEF Shape
<1>8. OnPlan' /\ PreviewShows'
  BY <1>1, <1>5 DEF OnPlan, PreviewShows
<1>9. /\ \A q : Building(q)' <=> Building(q) /\ q # k
      /\ \A q : q # k => (Live(q)' <=> Live(q))
      /\ Live(k)'
  BY <1>1, <1>2, <1>3 DEF Building, Live, Cached
<1>10. OneVersion'
  BY <1>9 DEF OneVersion
<1>11. LabelledFirst(k) # {} => Behind(k) >= 2
  BY <1>1, PlanBegins, PlanTyped DEF Behind
<1>12. Labelled1st'
  <2> SUFFICES ASSUME NEW q \in Keys \ unguarded, NEW s \in LabelledFirst(q),
                      Live(q)' \/ (Building(q)' /\ Behind(q)' >= Place(s))
               PROVE  <<q, s>> \in labels
    BY <1>4 DEF Labelled1st
  <2>1. CASE q = k
    <3>1. Behind(k) = Len(Plan(k)) /\ Len(Plan(k)) \in Nat
      BY <1>1, PlanTyped DEF Behind
    <3>2. Behind(k) >= Place(s)
      BY <1>11, <2>1, <3>1 DEF Place
    <3> QED BY <1>1, <2>1, <3>2 DEF Labelled1st, Building
  <2>2. CASE q # k
    BY <1>5, <1>9, <2>2 DEF Labelled1st, Building
  <2> QED BY <2>1, <2>2
<1>13. ReadsFollow'
  BY <1>1, <1>5 DEF ReadsFollow
<1>14. \A q \in Keys : Holds(q)' => Holds(q) /\ Saw(q)' = Saw(q)
  BY <1>1, <1>2, <1>3, <1>9 DEF Holds, Saw, Building, Live, Cached
<1>15. SeenEarlier'
  BY <1>4, <1>14 DEF SeenEarlier
<1>16. StaleReached' /\ SettingsReached'
  BY <1>4, <1>14 DEF StaleReached, SettingsReached, Reaches, Busy
<1> QED BY <1>7, <1>8, <1>10, <1>12, <1>13, <1>15, <1>16

LEMMA NotFoundInv ==
  ASSUME Inv, NEW k \in Keys, NotFound(k) \/ ReadFails(k)
  PROVE  Inv'
BY Abandon DEF NotFound, ReadFails, NextIs, Building

\* An entry expires, or a preview is viewed and labelled.
LEMMA Fewer ==
  ASSUME Inv, UNCHANGED <<ver, st, stored, build, work, unguarded, lost>>,
         labels \subseteq labels', labels' \subseteq Keys \X Sources,
         viewed' \subseteq {a \in Albums : preview(a) \in Keys},
         DOMAIN entry' \subseteq Keys, entry' \in [DOMAIN entry' -> Entries],
         \A q : Live(q)' => Live(q) /\ entry'[q] = entry[q]
  PROVE  Inv'
<1> USE DEF Inv
<1>1. Shape'
  BY DEF Shape
<1>2. /\ \A q : Building(q)' <=> Building(q)
      /\ \A q \in DOMAIN build : Behind(q)' = Behind(q)
  BY DEF Building, Behind
<1>3. OnPlan' /\ PreviewShows' /\ ReadsFollow'
  BY <1>2 DEF OnPlan, PreviewShows, ReadsFollow
<1>4. OneVersion' /\ Labelled1st'
  BY <1>2 DEF OneVersion, Labelled1st, Building
<1>5. \A q : Holds(q)' => Holds(q) /\ Saw(q)' = Saw(q)
  BY <1>2 DEF Holds, Saw
<1>6. SeenEarlier'
  BY <1>5 DEF SeenEarlier
<1>7. StaleReached' /\ SettingsReached'
  BY <1>5 DEF StaleReached, SettingsReached, Reaches, Busy
<1> QED BY <1>1, <1>3, <1>4, <1>6, <1>7

LEMMA ExpireInv ==
  ASSUME Inv, NEW k \in Keys, Expire(k)
  PROVE  Inv'
<1>1. /\ k \in DOMAIN entry /\ entry \in [DOMAIN entry -> Entries]
      /\ DOMAIN entry' = DOMAIN entry /\ DOMAIN entry \subseteq Keys
      /\ \A q \in DOMAIN entry \ {k} : entry'[q] = entry[q]
      /\ entry'[k] = [entry[k] EXCEPT !.expired = TRUE]
  BY DEF Expire, Live, Cached, Inv, Shape
<1>2. entry'[k] \in Entries /\ entry'[k].expired
  BY <1>1 DEF Entries
<1>3. entry' \in [DOMAIN entry' -> Entries]
  <2>1. entry' = [entry EXCEPT ![k].expired = TRUE]
    BY DEF Expire
  <2>2. \A q \in DOMAIN entry' : entry'[q] \in Entries
    BY <1>1, <1>2
  <2> QED BY <1>1, <2>1, <2>2
<1>4. \A q : Live(q)' => Live(q) /\ entry'[q] = entry[q]
  BY <1>1, <1>2 DEF Live, Cached
<1>5. /\ UNCHANGED <<ver, st, stored, build, work, unguarded, lost, labels, viewed>>
      /\ labels \subseteq Keys \X Sources /\ viewed \subseteq {a \in Albums : preview(a) \in Keys}
  BY DEF Expire, Inv, Shape
<1> QED BY <1>1, <1>3, <1>4, <1>5, Fewer

LEMMA PreviewInv ==
  ASSUME Inv, NEW a \in Albums, ViewPreview(a) \/ AttachPreview(a)
  PROVE  Inv'
<1>1. /\ UNCHANGED <<ver, st, stored, build, work, unguarded, lost, entry>>
      /\ labels \subseteq labels'
  BY DEF ViewPreview, AttachPreview
<1>2. /\ labels' \subseteq Keys \X Sources
      /\ viewed' \subseteq {q \in Albums : preview(q) \in Keys}
  <2>1. CASE ViewPreview(a)
    BY <2>1 DEF ViewPreview, Inv, Shape
  <2>2. CASE AttachPreview(a)
    BY <2>2 DEF AttachPreview, Inv, Shape, Sources
  <2> QED BY <2>1, <2>2
<1>3. /\ DOMAIN entry' \subseteq Keys /\ entry' \in [DOMAIN entry' -> Entries]
      /\ \A q : Live(q)' => Live(q) /\ entry'[q] = entry[q]
  BY <1>1 DEF Inv, Shape, Live, Cached
<1> QED BY <1>1, <1>2, <1>3, Fewer

-----------------------------------------------------------------------------
(* Changes *)

\* Sources T change; each is announced by an idle handler, or the announcement is lost, or
\* it is an album that nobody can have seen since it was deleted.
LEMMA Touch ==
  ASSUME Inv, NEW T \in SUBSET (Albums \cup {list}),
         ver' \in [Sources -> Nat], stored' \in Nat, st' \in [Albums -> States],
         \A s \in Sources : ver'[s] = IF s \in T THEN ver[s] + 1 ELSE ver[s],
         \A a \in Albums \ T : st'[a] = st[a],
         work' \in [Workers -> Works],
         \A w \in Workers : work'[w] = work[w] \/ (~Busy(w) /\ work'[w].pc = "select"),
         lost \subseteq lost', lost' \subseteq Sources,
         \A s \in T : \/ s \in lost'
                      \/ s \in Albums /\ st[s] = "absent"
                      \/ \E w \in Workers : work'[w].pc = "select" /\ s \in Range(work'[w].queue),
         UNCHANGED <<entry, labels, build, viewed, unguarded>>
  PROVE  Inv'
<1> USE DEF Inv
<1>1. Shape'
  BY DEF Shape
<1>2. /\ \A q : Building(q)' <=> Building(q)
      /\ \A q : Live(q)' <=> Live(q)
      /\ \A q : Holds(q)' <=> Holds(q)
      /\ \A q : Saw(q)' = Saw(q)
      /\ \A q \in DOMAIN build : Behind(q)' = Behind(q)
  BY DEF Building, Live, Cached, Holds, Saw, Behind
<1>3. OnPlan' /\ PreviewShows' /\ ReadsFollow' /\ OneVersion' /\ Labelled1st'
  BY <1>2 DEF OnPlan, PreviewShows, ReadsFollow, OneVersion, Labelled1st, Building
<1>4. \A s \in Sources : ver[s] \in Nat
  BY DEF Shape
<1>5. ASSUME NEW q \in Keys, Holds(q)
      PROVE  \A s \in DOMAIN Saw(q) : Saw(q)[s] \in Nat /\ s \in Sources
  <2>1. Saw(q) \in Seen
    BY <1>5 DEF Saw, Holds, Building, Live, Cached, Shape, Builds, Entries
  <2> QED BY <2>1 DEF Seen
<1>6. SeenEarlier'
  <2> SUFFICES ASSUME NEW q \in Keys, NEW a \in Albums, Holds(q),
                      a \in LabelledFirst(q), a \in DOMAIN Saw(q)
               PROVE  /\ Saw(q)[a] <= ver'[a]
                      /\ st'[a] = "absent" => Saw(q)[a] # ver'[a]
    BY <1>2 DEF SeenEarlier
  <2>1. a \in Sources /\ Saw(q)[a] \in Nat /\ ver[a] \in Nat
    BY <1>4, <1>5
  <2>2. Saw(q)[a] <= ver[a] /\ (st[a] = "absent" => Saw(q)[a] # ver[a])
    BY DEF SeenEarlier
  <2>3. CASE a \in T
    BY <2>1, <2>2, <2>3
  <2>4. CASE a \notin T
    BY <2>1, <2>2, <2>4
  <2> QED BY <2>3, <2>4
<1>7. StaleReached'
  <2> SUFFICES ASSUME NEW q \in Keys \ unguarded, NEW s \in LabelledFirst(q), Holds(q),
                      s \in DOMAIN Saw(q), Saw(q)[s] # ver'[s]
               PROVE  s \in lost' \/ \E w \in Workers : Reaches(w, s, q)'
    BY <1>2 DEF StaleReached
  <2>1. s \in Sources
    BY <1>5
  <2>2. ASSUME NEW w \in Workers, Reaches(w, s, q)
        PROVE  Reaches(w, s, q)'
    <3>1. work[w].queue # << >>
      BY <2>2 DEF Reaches, Range
    <3>2. work'[w] = work[w]
      BY <3>1 DEF Busy
    <3> QED BY <2>2, <3>2 DEF Reaches
  <2>3. CASE Saw(q)[s] # ver[s]
    BY <2>2, <2>3 DEF StaleReached
  <2>4. CASE Saw(q)[s] = ver[s]
    <3>1. s \in T
      BY <2>1, <2>4
    <3>2. ~(s \in Albums /\ st[s] = "absent")
      BY <2>4 DEF SeenEarlier
    <3>3. s \in lost' \/ \E w \in Workers : work'[w].pc = "select" /\ s \in Range(work'[w].queue)
      BY <3>1, <3>2
    <3> QED BY <3>3 DEF Reaches
  <2> QED BY <2>3, <2>4
<1>8. SettingsReached'
  <2> SUFFICES ASSUME NEW w \in Workers, NEW q \in Keys \ unguarded,
                      Busy(w)', Head(work'[w].queue) = settings, work'[w].pc = "delete",
                      Holds(q), settings \in LabelledFirst(q), settings \in DOMAIN Saw(q)
               PROVE  q \in work'[w].todo \cup work'[w].cur
    BY <1>2 DEF SettingsReached
  <2>1. work'[w] = work[w]
    OBVIOUS
  <2> QED BY <2>1 DEF SettingsReached, Busy
<1> QED BY <1>1, <1>3, <1>6, <1>7, <1>8

\* What Announce does to the handlers.
LEMMA Announced ==
  ASSUME Inv, NEW ls \in Seq(Sources), ls # << >>, Announce(ls)
  PROVE  /\ work' \in [Workers -> Works]
         /\ \A w \in Workers : work'[w] = work[w] \/ (~Busy(w) /\ work'[w].pc = "select")
         /\ \E w \in Workers : work'[w].pc = "select" /\ work'[w].queue = ls
<1> DEFINE h == [queue |-> ls, todo |-> {}, cur |-> {}, pc |-> "select"]
<1>1. PICK w \in Workers : ~Busy(w) /\ work' = [work EXCEPT ![w] = h]
  BY DEF Announce
<1>2. h \in Works /\ h.pc = "select" /\ h.queue = ls
  BY DEF Works
<1>3. work \in [Workers -> Works]
  BY DEF Inv, Shape
<1> HIDE DEF h
<1> QED BY <1>1, <1>2, <1>3

LEMMA RangeOne ==
  ASSUME NEW x, NEW y
  PROVE  Range(<<x>>) = {x} /\ Range(<<x, y>>) = {x, y}
BY DEF Range

LEMMA ChangeAlbumInv ==
  ASSUME Inv, NEW a \in Albums, NEW s \in States, ChangeAlbum(a, s)
  PROVE  Inv'
<1>1. /\ a \in Sources /\ <<a>> \in Seq(Sources) /\ <<a>> # << >>
      /\ ver \in [Sources -> Nat] /\ st \in [Albums -> States] /\ stored \in Nat
      /\ lost \subseteq Sources
  BY DEF Sources, Inv, Shape
<1>2. /\ work' \in [Workers -> Works]
      /\ \A w \in Workers : work'[w] = work[w] \/ (~Busy(w) /\ work'[w].pc = "select")
      /\ \E w \in Workers : work'[w].pc = "select" /\ work'[w].queue = <<a>>
  BY <1>1, Announced DEF ChangeAlbum
<1>3. \A q \in {a} : \E w \in Workers : work'[w].pc = "select" /\ q \in Range(work'[w].queue)
  BY <1>2, RangeOne
<1>4. /\ ver' \in [Sources -> Nat] /\ st' \in [Albums -> States]
      /\ \A q \in Sources : ver'[q] = IF q \in {a} THEN ver[q] + 1 ELSE ver[q]
      /\ \A q \in Albums \ {a} : st'[q] = st[q]
  BY <1>1 DEF ChangeAlbum
<1>5. UNCHANGED <<stored, entry, labels, build, viewed, unguarded, lost>>
  BY DEF ChangeAlbum
<1> QED BY <1>1, <1>2, <1>3, <1>4, <1>5, Touch

LEMMA CopyToAlbumInv ==
  ASSUME Inv, NEW a \in Albums, CopyToAlbum(a)
  PROVE  Inv'
<1>1. /\ a \in Sources /\ ver \in [Sources -> Nat] /\ st \in [Albums -> States]
      /\ stored \in Nat /\ lost \subseteq Sources /\ work \in [Workers -> Works]
      /\ "full" \in States
  BY DEF Sources, Inv, Shape, States
<1>2. /\ ver' \in [Sources -> Nat] /\ st' \in [Albums -> States]
      /\ \A q \in Sources : ver'[q] = IF q \in {a} THEN ver[q] + 1 ELSE ver[q]
      /\ \A q \in Albums \ {a} : st'[q] = st[q]
  BY <1>1 DEF CopyToAlbum
<1>3. UNCHANGED <<stored, entry, labels, build, viewed, unguarded, work>> /\ lost' = lost \cup {a}
  BY DEF CopyToAlbum
<1> QED BY <1>1, <1>2, <1>3, Touch

LEMMA CreateAlbumInv ==
  ASSUME Inv, NEW a \in Albums, CreateAlbum(a)
  PROVE  Inv'
<1>1. /\ a \in Sources /\ list \in Sources /\ a # list
      /\ <<list>> \in Seq(Sources) /\ <<list>> # << >>
      /\ ver \in [Sources -> Nat] /\ st \in [Albums -> States] /\ stored \in Nat
      /\ lost \subseteq Sources
  BY LabelCacheAssumption DEF Sources, Inv, Shape
<1>2. /\ work' \in [Workers -> Works]
      /\ \A w \in Workers : work'[w] = work[w] \/ (~Busy(w) /\ work'[w].pc = "select")
      /\ \E w \in Workers : work'[w].pc = "select" /\ work'[w].queue = <<list>>
  BY <1>1, Announced DEF CreateAlbum
<1>3. \A q \in {a, list} :
        \/ q \in Albums /\ st[q] = "absent"
        \/ \E w \in Workers : work'[w].pc = "select" /\ q \in Range(work'[w].queue)
  BY <1>2, RangeOne DEF CreateAlbum
<1>4. /\ ver' \in [Sources -> Nat]
      /\ \A q \in Sources : ver'[q] = IF q \in {a, list} THEN ver[q] + 1 ELSE ver[q]
  BY <1>1 DEF CreateAlbum
<1>5. st' \in [Albums -> States] /\ \A q \in Albums \ {a, list} : st'[q] = st[q]
  <2>1. PICK s \in {"hidden", "empty"} : st' = [st EXCEPT ![a] = s]
    BY DEF CreateAlbum
  <2> QED BY <1>1, <2>1 DEF States
<1>6. UNCHANGED <<stored, entry, labels, build, viewed, unguarded, lost>>
  BY DEF CreateAlbum
<1> QED BY <1>1, <1>2, <1>3, <1>4, <1>5, <1>6, Touch

LEMMA DeleteAlbumInv ==
  ASSUME Inv, NEW a \in Albums, DeleteAlbum(a)
  PROVE  Inv'
<1>1. /\ a \in Sources /\ list \in Sources /\ a # list
      /\ <<list, a>> \in Seq(Sources) /\ <<list, a>> # << >>
      /\ ver \in [Sources -> Nat] /\ st \in [Albums -> States] /\ stored \in Nat
      /\ lost \subseteq Sources /\ "absent" \in States
  BY LabelCacheAssumption DEF Sources, Inv, Shape, States
<1>2. /\ work' \in [Workers -> Works]
      /\ \A w \in Workers : work'[w] = work[w] \/ (~Busy(w) /\ work'[w].pc = "select")
      /\ \E w \in Workers : work'[w].pc = "select" /\ work'[w].queue = <<list, a>>
  BY <1>1, Announced DEF DeleteAlbum
<1>3. \A q \in {a, list} :
        \E w \in Workers : work'[w].pc = "select" /\ q \in Range(work'[w].queue)
  <2>1. PICK w \in Workers : work'[w].pc = "select" /\ work'[w].queue = <<list, a>>
    BY <1>2
  <2>2. Range(work'[w].queue) = {list, a}
    BY <2>1, RangeOne
  <2> QED BY <2>1, <2>2
<1>4. /\ ver' \in [Sources -> Nat] /\ st' \in [Albums -> States]
      /\ \A q \in Sources : ver'[q] = IF q \in {a, list} THEN ver[q] + 1 ELSE ver[q]
      /\ \A q \in Albums \ {a, list} : st'[q] = st[q]
  BY <1>1 DEF DeleteAlbum
<1>5. UNCHANGED <<stored, entry, labels, build, viewed, unguarded, lost>>
  BY DEF DeleteAlbum
<1> QED BY <1>1, <1>2, <1>3, <1>4, <1>5, Touch

LEMMA SetSettingsInv ==
  ASSUME Inv, SetSettings
  PROVE  Inv'
<1>1. /\ <<settings>> \in Seq(Sources) /\ <<settings>> # << >>
      /\ ver \in [Sources -> Nat] /\ st \in [Albums -> States] /\ stored \in Nat
      /\ lost \subseteq Sources
  BY DEF Sources, Inv, Shape
<1>2. /\ work' \in [Workers -> Works]
      /\ \A w \in Workers : work'[w] = work[w] \/ (~Busy(w) /\ work'[w].pc = "select")
  BY <1>1, Announced DEF SetSettings
<1>3. /\ stored' \in Nat
      /\ UNCHANGED <<ver, st, entry, labels, build, viewed, unguarded, lost>>
  BY <1>1 DEF SetSettings
<1>4. {} \in SUBSET (Albums \cup {list})
  OBVIOUS
<1>5. \A q \in Sources : ver'[q] = IF q \in {} THEN ver[q] + 1 ELSE ver[q]
  BY <1>3
<1> QED BY <1>1, <1>2, <1>3, <1>4, <1>5, Touch

-----------------------------------------------------------------------------
(* Invalidation *)

\* What a page saw, it is labelled with.
LEMMA SeenLabelled ==
  ASSUME Inv, NEW q \in Keys \ unguarded, NEW s \in LabelledFirst(q), Holds(q), s \in DOMAIN Saw(q)
  PROVE  <<q, s>> \in labels
<1>1. CASE Building(q)
  <2>1. Behind(q) >= 2
    BY <1>1 DEF Inv, ReadsFollow, Saw, Building
  <2>2. Behind(q) \in Int
    <3>1. build[q].todo \in Seq(Steps) /\ Len(Plan(q)) \in Nat
      BY <1>1, PlanTyped DEF Building, Inv, Shape, Builds
    <3> QED BY <3>1 DEF Behind
  <2>3. Behind(q) >= Place(s)
    BY <2>1, <2>2 DEF Place
  <2> QED BY <1>1, <2>3 DEF Inv, Labelled1st
<1>2. CASE Live(q)
  BY <1>2 DEF Inv, Labelled1st
<1> QED BY <1>1, <1>2 DEF Holds

LEMMA QueueRange ==
  ASSUME NEW qu \in Seq(Sources), qu # << >>
  PROVE  /\ Head(qu) \in Sources /\ Tail(qu) \in Seq(Sources)
         /\ Range(qu) = {Head(qu)} \cup Range(Tail(qu))
<1>1. /\ Head(qu) = qu[1] /\ 1 \in DOMAIN qu /\ Tail(qu) \in Seq(Sources)
      /\ DOMAIN Tail(qu) = 1..Len(qu) - 1 /\ DOMAIN qu = 1..Len(qu) /\ Len(qu) \in Nat
      /\ \A i \in 1..Len(qu) - 1 : Tail(qu)[i] = qu[i + 1]
  OBVIOUS
<1>2. ASSUME NEW i \in DOMAIN qu, i # 1
      PROVE  qu[i] \in Range(Tail(qu))
  <2>1. i - 1 \in 1..Len(qu) - 1 /\ (i - 1) + 1 = i
    BY <1>1, <1>2
  <2>2. Tail(qu)[i - 1] = qu[i]
    BY <1>1, <2>1
  <2> QED BY <1>1, <2>1, <2>2 DEF Range
<1>3. ASSUME NEW i \in DOMAIN Tail(qu)
      PROVE  Tail(qu)[i] \in Range(qu)
  <2>1. i + 1 \in DOMAIN qu /\ Tail(qu)[i] = qu[i + 1]
    BY <1>1
  <2> QED BY <2>1 DEF Range
<1>4. \A x \in Range(qu) : x \in {Head(qu)} \cup Range(Tail(qu))
  BY <1>1, <1>2 DEF Range
<1>5. \A x \in {Head(qu)} \cup Range(Tail(qu)) : x \in Range(qu)
  BY <1>1, <1>3 DEF Range
<1> QED BY <1>1, <1>4, <1>5

LEMMA SelectInv ==
  ASSUME Inv, NEW w \in Workers, Select(w)
  PROVE  Inv'
<1> DEFINE h == Head(work[w].queue)
           found == {q \in Keys : <<q, h>> \in labels}
<1> USE DEF Inv
<1>1. /\ work[w] \in Works /\ work \in [Workers -> Works] /\ work[w].queue # << >>
      /\ work[w].pc = "select"
  BY DEF Select, Busy, Shape
<1>2. work[w].queue \in Seq(Sources) /\ work[w].cur \subseteq Keys
  BY <1>1 DEF Works
<1>3. h \in Sources /\ Range(work[w].queue) = {h} \cup Range(Tail(work[w].queue))
  BY <1>1, <1>2, QueueRange
<1>4. /\ work' = [work EXCEPT ![w].todo = found, ![w].pc = "delete"]
      /\ lost' = lost \ {h}
      /\ UNCHANGED <<ver, st, stored, entry, labels, build, viewed, unguarded>>
  BY DEF Select
<1> HIDE DEF h, found
<1>5. /\ work'[w].queue = work[w].queue /\ work'[w].todo = found /\ work'[w].pc = "delete"
      /\ work'[w].cur = work[w].cur /\ work'[w] \in Works
      /\ \A v \in Workers \ {w} : work'[v] = work[v]
  BY <1>1, <1>4 DEF Works, found
<1>6. Shape'
  <2>1. work' \in [Workers -> Works]
    BY <1>1, <1>4, <1>5
  <2> QED BY <1>4, <2>1 DEF Shape
<1>7. /\ \A q : Building(q)' <=> Building(q)
      /\ \A q : Live(q)' <=> Live(q)
      /\ \A q : Holds(q)' <=> Holds(q)
      /\ \A q : Saw(q)' = Saw(q)
      /\ \A q \in DOMAIN build : Behind(q)' = Behind(q)
  BY <1>4 DEF Building, Live, Cached, Holds, Saw, Behind
<1>8. OnPlan' /\ PreviewShows' /\ ReadsFollow' /\ OneVersion' /\ Labelled1st' /\ SeenEarlier'
  BY <1>4, <1>7 DEF OnPlan, PreviewShows, ReadsFollow, OneVersion, Labelled1st, SeenEarlier, Building
<1>9. ASSUME NEW q \in Keys \ unguarded, Holds(q), h \in LabelledFirst(q), h \in DOMAIN Saw(q)
      PROVE  q \in found
  BY <1>9, SeenLabelled DEF found
<1>10. StaleReached'
  <2> SUFFICES ASSUME NEW q \in Keys \ unguarded, NEW s \in LabelledFirst(q), Holds(q),
                      s \in DOMAIN Saw(q), Saw(q)[s] # ver[s]
               PROVE  s \in lost' \/ \E v \in Workers : Reaches(v, s, q)'
    BY <1>4, <1>7 DEF StaleReached
  <2>1. CASE s \in lost /\ s # h
    BY <1>4, <2>1
  <2>2. CASE s = h
    BY <1>3, <1>5, <1>9, <2>2 DEF Reaches
  <2>3. ASSUME NEW v \in Workers, Reaches(v, s, q), s # h
        PROVE  Reaches(v, s, q)'
    <3>1. CASE v = w
      BY <1>3, <1>5, <2>3, <3>1 DEF Reaches
    <3>2. CASE v # w
      BY <1>5, <2>3, <3>2 DEF Reaches
    <3> QED BY <3>1, <3>2
  <2> QED BY <2>1, <2>2, <2>3 DEF StaleReached
<1>11. SettingsReached'
  <2> SUFFICES ASSUME NEW v \in Workers, NEW q \in Keys \ unguarded,
                      Busy(v)', Head(work'[v].queue) = settings, work'[v].pc = "delete",
                      Holds(q), settings \in LabelledFirst(q), settings \in DOMAIN Saw(q)
               PROVE  q \in work'[v].todo \cup work'[v].cur
    BY <1>4, <1>7 DEF SettingsReached
  <2>1. CASE v = w
    <3>1. h = settings
      BY <1>5, <2>1 DEF h
    <3> QED BY <1>5, <1>9, <2>1, <3>1
  <2>2. CASE v # w
    BY <1>5, <2>2 DEF SettingsReached, Busy
  <2> QED BY <2>1, <2>2
<1> QED BY <1>6, <1>8, <1>10, <1>11

\* The handler at w goes on, the rest stays; who is reached is reached still.
LEMMA Proceed ==
  ASSUME Inv, NEW w \in Workers, work' \in [Workers -> Works],
         \A v \in Workers \ {w} : work'[v] = work[v],
         work'[w].queue = work[w].queue, work'[w].pc = work[w].pc,
         UNCHANGED <<ver, st, stored, build, viewed, lost>>,
         DOMAIN entry' \subseteq DOMAIN entry, entry' \in [DOMAIN entry' -> Entries],
         \A q \in DOMAIN entry' : entry'[q] = entry[q],
         labels' \subseteq labels,
         unguarded \subseteq unguarded', unguarded' \subseteq Keys,
         \A q \in Keys \ unguarded' : Holds(q)' =>
           /\ \A s \in Sources : <<q, s>> \in labels => <<q, s>> \in labels'
           /\ q \in work[w].todo \cup work[w].cur => q \in work'[w].todo \cup work'[w].cur
  PROVE  Inv'
<1> USE DEF Inv
<1>1. Shape'
  BY DEF Shape
<1>2. /\ \A q : Building(q)' <=> Building(q)
      /\ \A q : Live(q)' => Live(q)
      /\ \A q : Holds(q)' => Holds(q) /\ Saw(q)' = Saw(q)
      /\ \A q \in DOMAIN build : Behind(q)' = Behind(q)
  BY DEF Building, Live, Cached, Holds, Saw, Behind
<1>3. OnPlan' /\ PreviewShows' /\ ReadsFollow' /\ OneVersion'
  BY <1>2 DEF OnPlan, PreviewShows, ReadsFollow, OneVersion
<1>4. SeenEarlier'
  BY <1>2 DEF SeenEarlier
<1>5. Labelled1st'
  <2> SUFFICES ASSUME NEW q \in Keys \ unguarded', NEW s \in LabelledFirst(q),
                      Live(q)' \/ (Building(q)' /\ Behind(q)' >= Place(s))
               PROVE  <<q, s>> \in labels'
    BY DEF Labelled1st
  <2>1. <<q, s>> \in labels
    BY <1>2 DEF Labelled1st, Building
  <2>2. Holds(q)' /\ s \in Sources
    BY <2>1 DEF Holds, Shape
  <2> QED BY <2>1, <2>2
<1>6. StaleReached'
  <2> SUFFICES ASSUME NEW q \in Keys \ unguarded', NEW s \in LabelledFirst(q), Holds(q)',
                      s \in DOMAIN Saw(q), Saw(q)[s] # ver[s]
               PROVE  s \in lost \/ \E v \in Workers : Reaches(v, s, q)'
    BY <1>2 DEF StaleReached
  <2>1. ASSUME NEW v \in Workers, Reaches(v, s, q)
        PROVE  Reaches(v, s, q)'
    <3>1. CASE v = w
      BY <2>1, <3>1 DEF Reaches
    <3>2. CASE v # w
      BY <2>1, <3>2 DEF Reaches
    <3> QED BY <3>1, <3>2
  <2> QED BY <1>2, <2>1 DEF StaleReached
<1>7. SettingsReached'
  <2> SUFFICES ASSUME NEW v \in Workers, NEW q \in Keys \ unguarded',
                      Busy(v)', Head(work'[v].queue) = settings, work'[v].pc = "delete",
                      Holds(q)', settings \in LabelledFirst(q), settings \in DOMAIN Saw(q)
               PROVE  q \in work'[v].todo \cup work'[v].cur
    BY <1>2 DEF SettingsReached
  <2>1. Busy(v) /\ Head(work[v].queue) = settings /\ work[v].pc = "delete"
    BY DEF Busy
  <2>2. q \in work[v].todo \cup work[v].cur
    BY <1>2, <2>1 DEF SettingsReached
  <2> QED BY <2>2
<1> QED BY <1>1, <1>3, <1>4, <1>5, <1>6, <1>7

LEMMA DeleteEntryInv ==
  ASSUME Inv, NEW w \in Workers, NEW k \in Keys, DeleteEntry(w, k)
  PROVE  Inv'
<1>1. work[w] \in Works /\ work \in [Workers -> Works]
  BY DEF Inv, Shape
<1>2. /\ work' = [work EXCEPT ![w].todo = @ \ {k}, ![w].cur = {k}] /\ k \in work[w].todo
      /\ work[w].cur = {}
      /\ entry' = Without(entry, k)
      /\ UNCHANGED <<ver, st, stored, labels, build, viewed, unguarded, lost>>
  BY DEF DeleteEntry
<1>3. /\ work'[w].queue = work[w].queue /\ work'[w].pc = work[w].pc
      /\ work'[w].todo = work[w].todo \ {k} /\ work'[w].cur = {k}
      /\ work'[w] \in Works
      /\ \A v \in Workers \ {w} : work'[v] = work[v]
  BY <1>1, <1>2 DEF Works
<1>4. work' \in [Workers -> Works]
  BY <1>1, <1>2, <1>3
<1>5. /\ DOMAIN entry' \subseteq DOMAIN entry
      /\ \A q \in DOMAIN entry' : entry'[q] = entry[q]
  BY <1>2 DEF Without
<1>6. entry' \in [DOMAIN entry' -> Entries]
  BY <1>2, <1>5 DEF Without, Inv, Shape
<1>7. unguarded' \subseteq Keys
  BY <1>2 DEF Inv, Shape
<1> QED BY <1>2, <1>3, <1>4, <1>5, <1>6, <1>7, Proceed

LEMMA DeleteLabelsInv ==
  ASSUME Inv, NEW w \in Workers, NEW k \in Keys, DeleteLabels(w, k)
  PROVE  Inv'
<1>1. work[w] \in Works /\ work \in [Workers -> Works]
  BY DEF Inv, Shape
<1>2. /\ work' = [work EXCEPT ![w].cur = {}] /\ k \in work[w].cur
      /\ labels' = {l \in labels : l[1] # k}
      /\ unguarded' = IF Building(k) \/ Cached(k) THEN unguarded \cup {k} ELSE unguarded
      /\ UNCHANGED <<ver, st, stored, entry, build, viewed, lost>>
  BY DEF DeleteLabels
<1>3. /\ work'[w].queue = work[w].queue /\ work'[w].pc = work[w].pc
      /\ work'[w].todo = work[w].todo /\ work[w].cur = {k}
      /\ work'[w] \in Works
      /\ \A v \in Workers \ {w} : work'[v] = work[v]
  <2>1. work[w].cur = {k}
    <3>1. \A q \in work[w].cur : q = k
      BY <1>1, <1>2 DEF Works
    <3> QED BY <1>2, <3>1
  <2>2. work'[w] = [work[w] EXCEPT !.cur = {}] /\ \A v \in Workers \ {w} : work'[v] = work[v]
    BY <1>1, <1>2
  <2>3. /\ work'[w].queue = work[w].queue /\ work'[w].pc = work[w].pc
        /\ work'[w].todo = work[w].todo /\ work'[w] \in Works
    BY <1>1, <2>2 DEF Works
  <2> QED BY <2>1, <2>2, <2>3
<1>4. work' \in [Workers -> Works]
  BY <1>1, <1>2, <1>3
<1>5. entry' \in [DOMAIN entry' -> Entries] /\ unguarded' \subseteq Keys /\ unguarded \subseteq unguarded'
  BY <1>2 DEF Inv, Shape
<1>6. \A q \in Keys \ unguarded' : Holds(q)' => q # k
  BY <1>2 DEF Holds, Live, Building, Cached
<1>7. \A q, s : q # k /\ <<q, s>> \in labels => <<q, s>> \in labels'
  BY <1>2
<1> QED BY <1>2, <1>3, <1>4, <1>5, <1>6, <1>7, Proceed

\* The rest of a queue, whatever was done for its head.
LEMMA NextLabel ==
  ASSUME Inv, NEW w \in Workers, Busy(w), NEW h,
         h = [work[w] EXCEPT !.queue = Tail(@), !.pc = "select", !.todo = {}, !.cur = {}]
  PROVE  /\ h \in Works /\ Head(work[w].queue) \in Sources
         /\ h.queue = Tail(work[w].queue) /\ h.pc = "select"
         /\ Range(work[w].queue) = {Head(work[w].queue)} \cup Range(Tail(work[w].queue))
<1>1. work[w] \in Works /\ work[w].queue # << >>
  BY DEF Inv, Shape, Busy
<1>2. work[w].queue \in Seq(Sources)
  BY <1>1 DEF Works
<1>3. Tail(work[w].queue) \in Seq(Sources) /\ Head(work[w].queue) \in Sources
  BY <1>1, <1>2, QueueRange
<1> QED BY <1>1, <1>2, <1>3, QueueRange DEF Works

\* A handler is done with a label: nobody has to be reached for it, or it is lost.
LEMMA Dequeued ==
  ASSUME Inv, NEW w \in Workers, Busy(w),
         work' \in [Workers -> Works],
         \A v \in Workers \ {w} : work'[v] = work[v],
         work'[w].queue = Tail(work[w].queue), work'[w].pc = "select",
         UNCHANGED <<st, stored, entry, labels, build, viewed, unguarded>>,
         lost \subseteq lost', lost' \subseteq Sources,
         ver' \in [Sources -> Nat], \A s \in Sources \ {settings} : ver'[s] = ver[s],
         Head(work[w].queue) \in lost' \/ (work[w].todo \cup work[w].cur = {} /\ work[w].pc = "delete"),
         \/ ver'[settings] = ver[settings]
         \/ /\ Head(work[w].queue) = settings
            /\ work[w].todo \cup work[w].cur = {} /\ work[w].pc = "delete"
  PROVE  Inv'
<1> DEFINE h == Head(work[w].queue)
<1> USE DEF Inv
<1>1. Range(work[w].queue) = {h} \cup Range(Tail(work[w].queue))
  BY NextLabel
<1>2. Shape'
  BY DEF Shape
<1>3. /\ \A q : Building(q)' <=> Building(q)
      /\ \A q : Live(q)' <=> Live(q)
      /\ \A q : Holds(q)' <=> Holds(q)
      /\ \A q : Saw(q)' = Saw(q)
      /\ \A q \in DOMAIN build : Behind(q)' = Behind(q)
  BY DEF Building, Live, Cached, Holds, Saw, Behind
<1>4. OnPlan' /\ PreviewShows' /\ ReadsFollow' /\ OneVersion' /\ Labelled1st'
  BY <1>3 DEF OnPlan, PreviewShows, ReadsFollow, OneVersion, Labelled1st, Building
<1>5. SeenEarlier'
  <2>1. \A a \in Albums : ver'[a] = ver[a]
    BY LabelCacheAssumption DEF Sources
  <2> QED BY <1>3, <2>1 DEF SeenEarlier
<1>6. ASSUME NEW q \in Keys \ unguarded, Holds(q), settings \in LabelledFirst(q),
             settings \in DOMAIN Saw(q)
      PROVE  ver'[settings] = ver[settings]
  BY <1>6 DEF SettingsReached
<1>7. StaleReached'
  <2> SUFFICES ASSUME NEW q \in Keys \ unguarded, NEW s \in LabelledFirst(q), Holds(q),
                      s \in DOMAIN Saw(q), Saw(q)[s] # ver'[s]
               PROVE  s \in lost' \/ \E v \in Workers : Reaches(v, s, q)'
    BY <1>3 DEF StaleReached
  <2>1. s \in Sources
    BY FirstLabels DEF Sources
  <2>2. ver'[s] = ver[s]
    BY <1>6, <2>1
  <2>3. ASSUME NEW v \in Workers, Reaches(v, s, q)
        PROVE  s \in lost' \/ Reaches(v, s, q)'
    <3>1. CASE v # w
      BY <2>3, <3>1 DEF Reaches
    <3>2. CASE v = w /\ s \in Range(Tail(work[w].queue))
      BY <3>2 DEF Reaches
    <3>3. CASE v = w /\ s \notin Range(Tail(work[w].queue))
      <4>1. s = h
        BY <1>1, <2>3, <3>3 DEF Reaches
      <4>2. ~(work[w].todo \cup work[w].cur = {} /\ work[w].pc = "delete")
        BY <2>3, <3>3 DEF Reaches
      <4> QED BY <4>1, <4>2
    <3> QED BY <3>1, <3>2, <3>3
  <2> QED BY <2>2, <2>3 DEF StaleReached
<1>8. SettingsReached'
  <2> SUFFICES ASSUME NEW v \in Workers, NEW q \in Keys \ unguarded,
                      Busy(v)', Head(work'[v].queue) = settings, work'[v].pc = "delete",
                      Holds(q), settings \in LabelledFirst(q), settings \in DOMAIN Saw(q)
               PROVE  q \in work'[v].todo \cup work'[v].cur
    BY <1>3 DEF SettingsReached
  <2>1. work'[v] = work[v]
    OBVIOUS
  <2> QED BY <2>1 DEF SettingsReached, Busy
<1> QED BY <1>2, <1>4, <1>5, <1>7, <1>8

LEMMA FinishInv ==
  ASSUME Inv, NEW w \in Workers, Finish(w)
  PROVE  Inv'
<1> DEFINE h == [work[w] EXCEPT !.queue = Tail(@), !.pc = "select", !.todo = {}, !.cur = {}]
<1>1. /\ Busy(w) /\ work[w].pc = "delete" /\ work[w].todo = {} /\ work[w].cur = {}
      /\ work' = [work EXCEPT ![w].queue = Tail(@), ![w].pc = "select"]
      /\ ver' = IF Head(work[w].queue) = settings THEN [ver EXCEPT ![settings] = stored] ELSE ver
      /\ UNCHANGED <<st, stored, entry, labels, build, viewed, unguarded, lost>>
  BY DEF Finish
<1>2. work \in [Workers -> Works] /\ lost \subseteq Sources /\ stored \in Nat /\ ver \in [Sources -> Nat]
  BY DEF Inv, Shape
<1>3. h \in Works /\ h.queue = Tail(work[w].queue) /\ h.pc = "select"
  BY <1>1, NextLabel
<1>4. work' = [work EXCEPT ![w] = h]
  BY <1>1, <1>2 DEF Works
<1> HIDE DEF h
<1>5. /\ work' \in [Workers -> Works] /\ work'[w] = h
      /\ \A v \in Workers \ {w} : work'[v] = work[v]
  BY <1>2, <1>3, <1>4
<1>6. /\ ver' \in [Sources -> Nat] /\ \A s \in Sources \ {settings} : ver'[s] = ver[s]
      /\ ver'[settings] = ver[settings] \/ Head(work[w].queue) = settings
  BY <1>1, <1>2
<1> QED BY <1>1, <1>2, <1>3, <1>5, <1>6, Dequeued

LEMMA InvalidateFailsInv ==
  ASSUME Inv, NEW w \in Workers, InvalidateFails(w)
  PROVE  Inv'
<1> DEFINE h == [work[w] EXCEPT !.queue = Tail(@), !.pc = "select", !.todo = {}, !.cur = {}]
<1>1. /\ Busy(w)
      /\ work' = [work EXCEPT ![w].queue = Tail(@), ![w].pc = "select", ![w].todo = {}, ![w].cur = {}]
      /\ lost' = lost \cup {Head(work[w].queue)}
      /\ UNCHANGED <<ver, st, stored, entry, labels, build, viewed, unguarded>>
  BY DEF InvalidateFails
<1>2. work \in [Workers -> Works] /\ lost \subseteq Sources /\ ver \in [Sources -> Nat]
  BY DEF Inv, Shape
<1>3. /\ h \in Works /\ h.queue = Tail(work[w].queue) /\ h.pc = "select"
      /\ Head(work[w].queue) \in Sources
  BY <1>1, NextLabel
<1>4. work' = [work EXCEPT ![w] = h]
  BY <1>1, <1>2
<1> HIDE DEF h
<1>5. /\ work' \in [Workers -> Works] /\ work'[w] = h
      /\ \A v \in Workers \ {w} : work'[v] = work[v]
  BY <1>2, <1>3, <1>4
<1> QED BY <1>1, <1>2, <1>3, <1>5, Dequeued

LEMMA QueuesRange ==
  ASSUME Inv, NEW w \in Workers
  PROVE  Range(work[w].queue) \subseteq Sources
<1>1. work[w].queue \in Seq(Sources)
  BY DEF Inv, Shape, Works
<1> QED BY <1>1 DEF Range

LEMMA EmptyFunction ==
  ASSUME NEW S
  PROVE  DOMAIN << >> = {} /\ << >> \in [{} -> S]
OBVIOUS

LEMMA NoWorkTyped == NoWork \in Works /\ NoWork.queue = << >> /\ NoWork.pc = "select"
BY DEF NoWork, Works

LEMMA CrashInv ==
  ASSUME Inv, Crash
  PROVE  Inv'
<1> USE DEF Inv
<1>1. /\ build' = << >> /\ viewed' = {}
      /\ ver' = [ver EXCEPT ![settings] = stored]
      /\ UNCHANGED <<st, stored, entry, labels, unguarded>>
      /\ work' = [w \in Workers |-> NoWork]
  BY DEF Crash
<1>2. /\ lost \subseteq lost'
      /\ \A w \in Workers : Range(work[w].queue) \subseteq lost'
      /\ stored # ver[settings] => settings \in lost'
      /\ lost' \subseteq Sources
  <2> DEFINE queued == UNION {Range(work[w].queue) : w \in Workers}
             unset == IF stored # ver[settings] THEN {settings} ELSE {}
  <2>1. lost' = lost \cup queued \cup unset
    BY DEF Crash
  <2>2. /\ queued \subseteq Sources
        /\ \A w \in Workers : Range(work[w].queue) \subseteq queued
    BY QueuesRange
  <2>3. unset \subseteq Sources /\ (stored # ver[settings] => settings \in unset)
    BY DEF Sources
  <2>4. lost \subseteq Sources
    BY DEF Shape
  <2> HIDE DEF queued, unset, Inv
  <2> QED BY <2>1, <2>2, <2>3, <2>4
<1>4. DOMAIN build' = {} /\ build' \in [{} -> Builds]
  BY <1>1, EmptyFunction
<1>5. work' \in [Workers -> Works] /\ ver' \in [Sources -> Nat]
  <2>1. ver \in [Sources -> Nat] /\ stored \in Nat
    BY DEF Shape
  <2>2. ver' \in [Sources -> Nat]
    BY <1>1, <2>1
  <2>3. work' \in [Workers -> Works]
    BY <1>1, NoWorkTyped
  <2> QED BY <2>2, <2>3
<1>6. Shape'
  BY <1>1, <1>2, <1>4, <1>5 DEF Shape
<1>7. OnPlan' /\ PreviewShows' /\ ReadsFollow'
  BY <1>4 DEF OnPlan, PreviewShows, ReadsFollow
<1>8. /\ \A q : ~Building(q)' /\ (Live(q)' <=> Live(q))
      /\ \A q \in Keys : Holds(q)' => Holds(q) /\ Saw(q)' = Saw(q)
  <2>1. \A q : ~Building(q)' /\ (Live(q)' <=> Live(q))
    BY <1>1, <1>4 DEF Building, Live, Cached
  <2> QED BY <1>1, <2>1 DEF Holds, Saw, OneVersion
<1>9. OneVersion' /\ Labelled1st'
  BY <1>1, <1>8 DEF OneVersion, Labelled1st
<1>10. \A s \in Sources : ver'[s] = ver[s] \/ (s = settings /\ s \in lost')
  BY <1>1, <1>2 DEF Shape
<1>11. SeenEarlier'
  <2>1. \A a \in Albums : ver'[a] = ver[a]
    BY <1>10, LabelCacheAssumption DEF Sources
  <2> QED BY <1>1, <1>8, <2>1 DEF SeenEarlier
<1>12. StaleReached'
  <2> SUFFICES ASSUME NEW q \in Keys \ unguarded, NEW s \in LabelledFirst(q), Holds(q),
                      s \in DOMAIN Saw(q), Saw(q)[s] # ver'[s]
               PROVE  s \in lost'
    BY <1>1, <1>8 DEF StaleReached
  <2>1. s \in Sources
    BY FirstLabels DEF Sources
  <2>2. CASE ver'[s] = ver[s]
    BY <1>2, <2>2 DEF StaleReached, Reaches
  <2> QED BY <1>10, <2>1, <2>2
<1>13. SettingsReached'
  <2>1. \A w \in Workers : ~Busy(w)'
    BY <1>1, NoWorkTyped DEF Busy
  <2> QED BY <2>1 DEF SettingsReached
<1> QED BY <1>6, <1>7, <1>9, <1>11, <1>12, <1>13

-----------------------------------------------------------------------------
LEMMA InitInv ==
  ASSUME Init
  PROVE  Inv
<1>1. /\ build = << >> /\ entry = << >> /\ labels = {} /\ viewed = {}
      /\ unguarded = {} /\ lost = {} /\ stored = 0
      /\ ver = [s \in Sources |-> 0] /\ st \in [Albums -> States]
      /\ work = [w \in Workers |-> NoWork]
  BY DEF Init
<1>2. /\ DOMAIN build = {} /\ build \in [{} -> Builds]
      /\ DOMAIN entry = {} /\ entry \in [{} -> Entries]
  BY <1>1, EmptyFunction
<1>3. ver \in [Sources -> Nat] /\ work \in [Workers -> Works]
  BY <1>1, NoWorkTyped
<1>4. Shape
  BY <1>1, <1>2, <1>3 DEF Shape
<1>5. \A q : ~Building(q) /\ ~Live(q) /\ ~Holds(q)
  BY <1>2 DEF Building, Live, Cached, Holds
<1>6. OnPlan /\ PreviewShows /\ ReadsFollow
  BY <1>2 DEF OnPlan, PreviewShows, ReadsFollow
<1>7. OneVersion /\ Labelled1st /\ SeenEarlier /\ StaleReached /\ SettingsReached
  BY <1>5 DEF OneVersion, Labelled1st, SeenEarlier, StaleReached, SettingsReached
<1> QED BY <1>4, <1>6, <1>7 DEF Inv

LEMMA StutterInv ==
  ASSUME Inv, UNCHANGED vars
  PROVE  Inv'
BY DEF vars, Inv, Shape, OnPlan, Behind, PreviewShows, OneVersion, Labelled1st, ReadsFollow,
       SeenEarlier, StaleReached, SettingsReached, Reaches, Holds, Saw, Building, Live, Cached,
       Busy

LEMMA StepInv ==
  ASSUME Inv, [Next]_vars
  PROVE  Inv'
<1>1. ASSUME NEW k \in Keys, StartBuild(k) \/ BuildStep(k) \/ Expire(k) \/ AttachFails(k) \/ ReadFails(k)
      PROVE  Inv'
  BY <1>1, StartBuildInv, AttachInv, ReadAlbumInv, ReadListInv, ReadSettingsInv, StoreInv,
     NotFoundInv, ExpireInv, AttachFailsInv DEF BuildStep
<1>2. ASSUME NEW a \in Albums, ViewPreview(a) \/ AttachPreview(a)
      PROVE  Inv'
  BY <1>2, PreviewInv
<1>3. CASE Change
  BY <1>3, ChangeAlbumInv, CopyToAlbumInv, CreateAlbumInv, DeleteAlbumInv, SetSettingsInv
     DEF Change
<1>4. ASSUME NEW w \in Workers, InvalidateStep(w) \/ InvalidateFails(w)
      PROVE  Inv'
  BY <1>4, SelectInv, FinishInv, DeleteEntryInv, DeleteLabelsInv, InvalidateFailsInv
     DEF InvalidateStep
<1>5. CASE Crash
  BY <1>5, CrashInv
<1>6. CASE UNCHANGED vars
  BY <1>6, StutterInv
<1> QED BY <1>1, <1>2, <1>3, <1>4, <1>5, <1>6 DEF Next

\* The inductive invariant holds in every state of the cache.
THEOREM Invariant == Spec => []Inv
<1>1. Init => Inv
  BY InitInv
<1>2. Inv /\ [Next]_vars => Inv'
  BY StepInv
<1> QED BY <1>1, <1>2, PTL DEF Spec

\* The rows of the cache and of cache_label, the rebuilds and the handlers keep their types:
\* no label for a key or of a source that does not exist, no queue of unknown labels.
THEOREM TypeCorrect == Spec => []TypeInvariant
<1>1. Inv => TypeInvariant
  <2> SUFFICES ASSUME Inv PROVE TypeInvariant
    OBVIOUS
  <2>1. Shape
    BY DEF Inv
  <2>2. ASSUME NEW f \in Seen
        PROVE  DOMAIN f \subseteq Sources
    BY DEF Seen
  <2>3. ASSUME NEW k \in DOMAIN entry
        PROVE  /\ DOMAIN entry[k].saw \subseteq Sources /\ entry[k].shown \subseteq Albums
               /\ entry[k].expired \in BOOLEAN
    <3>1. entry[k] \in Entries
      BY <2>1 DEF Shape
    <3> QED BY <2>2, <3>1 DEF Entries
  <2>4. ASSUME NEW k \in DOMAIN build
        PROVE  /\ Range(build[k].todo) \subseteq [op : {"label", "read"}, src : Sources]
               /\ DOMAIN build[k].saw \subseteq Sources
    <3>1. build[k].todo \in Seq(Steps) /\ build[k].saw \in Seen
      BY <2>1 DEF Shape, Builds
    <3>2. Range(build[k].todo) \subseteq Steps
      BY <3>1 DEF Range
    <3> QED BY <2>2, <3>1, <3>2 DEF Steps
  <2>5. ASSUME NEW w \in Workers
        PROVE  /\ work[w].queue \in Seq(Sources) /\ work[w].pc \in {"select", "delete"}
               /\ work[w].todo \subseteq Keys /\ work[w].cur \subseteq Keys
    BY <2>1 DEF Shape, Works
  <2>6. /\ ver \in [Sources -> Nat] /\ stored \in Nat
        /\ st \in [Albums -> States]
        /\ DOMAIN entry \subseteq Keys /\ DOMAIN build \subseteq Keys
        /\ labels \subseteq Keys \X Sources /\ viewed \subseteq Albums
        /\ unguarded \subseteq Keys /\ lost \subseteq Sources
    BY <2>1 DEF Shape
  <2> QED BY <2>3, <2>4, <2>5, <2>6 DEF TypeInvariant
<1> QED BY <1>1, Invariant, PTL

\* A page that is served although a source it was labelled with before the read has changed:
\* the invalidation is still on its way, was not carried out, or overlapped the rebuild.  For
\* every site, any number of handlers, and however they interleave, fail and restart.
THEOREM Fresh == Spec => []FreshUnlessOvertaken
<1>1. Inv => FreshUnlessOvertaken
  <2> SUFFICES ASSUME Inv, NEW k \in Keys, Live(k), NEW s \in LabelledFirst(k), Stale(k, s),
                      k \notin unguarded
               PROVE  Pending(s) \/ s \in lost
    BY DEF FreshUnlessOvertaken
  <2>1. Holds(k) /\ Saw(k) = entry[k].saw
    BY DEF Inv, OneVersion, Holds, Saw
  <2>2. s \in lost \/ \E w \in Workers : Reaches(w, s, k)
    BY <2>1 DEF Inv, StaleReached, Stale
  <2> QED BY <2>2 DEF Reaches, Pending
<1> QED BY <1>1, Invariant, PTL
-----------------------------------------------------------------------------
(* Labels that a page does not need *)

\* Where the plan of the main page reads the list of albums.
ListAt == 4 + 2 * Len(Featured)

IsListRead(step) == step.op = "read" /\ step.src = list

\* The labels of a key whatever it shows.
Own(k) == LabelledFirst(k) \cup Range(Featured) \cup (IF k[1] = "preview" THEN {k[2]} ELSE {})

OnlyOf(k, shown) == \A l \in labels : l[1] = k => l[2] \in Own(k) \cup shown

\* What a rebuild has labelled beside: what it shows, as far as it will not forget it when it
\* reads the list.
Counted(k) == IF list \in DOMAIN build[k].saw THEN build[k].shown ELSE {}

ListPlace ==
  main \in DOMAIN build => (list \in DOMAIN build[main].saw <=> Behind(main) >= ListAt)

LabelInv ==
  /\ ListPlace
  /\ \A k \in Keys : /\ Building(k) => OnlyOf(k, Counted(k))
                     /\ Live(k) => OnlyOf(k, entry[k].shown)

LEMMA NextOnPlan ==
  ASSUME Inv, NEW k \in DOMAIN build, build[k].todo # << >>
  PROVE  /\ k \in Keys /\ Behind(k) \in Nat /\ Behind(k) + 1 \in 1..Len(Plan(k))
         /\ Head(build[k].todo) = Plan(k)[Behind(k) + 1]
<1>1. build[k].todo \in Seq(Steps) /\ k \in Keys
  BY DEF Inv, Shape, Builds
<1>2. /\ Len(build[k].todo) \in Nat /\ 1 \in 1..Len(build[k].todo)
      /\ Head(build[k].todo) = build[k].todo[1]
  BY <1>1
<1>3. Plan(k) \in Seq(Steps) /\ Len(Plan(k)) \in Nat
  BY <1>1, PlanTyped
<1>4. Len(build[k].todo) <= Len(Plan(k)) /\ build[k].todo[1] = Plan(k)[Behind(k) + 1]
  BY <1>2 DEF Inv, OnPlan
<1>5. Behind(k) = Len(Plan(k)) - Len(build[k].todo)
  BY DEF Behind
<1>6. Behind(k) \in Nat /\ Behind(k) + 1 \in 1..Len(Plan(k))
  BY <1>2, <1>3, <1>4, <1>5
<1> QED BY <1>1, <1>2, <1>4, <1>6

\* h is f and then g.
Joins(h, f, g, p, q) ==
  /\ h \in Seq(Steps) /\ Len(h) = p + q
  /\ \A j \in 1..p : h[j] = f[j]
  /\ \A j \in 1..(p + q) : j > p => h[j] = g[j - p]

LEMMA Joined ==
  ASSUME NEW f \in Seq(Steps), NEW g \in Seq(Steps)
  PROVE  Joins(f \o g, f, g, Len(f), Len(g))
BY DEF Joins

\* What is read and labelled before the list is read, and after.
LEMMA MainPlaces ==
  ASSUME NEW i \in 1..Len(MainPlan)
  PROVE  /\ ListAt \in Nat
         /\ i < ListAt => MainPlan[i].src \in {settings, list} \cup Range(Featured)
                          /\ ~IsListRead(MainPlan[i])
         /\ i = ListAt => IsListRead(MainPlan[i])
         /\ i > ListAt => MainPlan[i].src \in Albums
<1> DEFINE A == <<Label(settings), Label(list), Read(settings)>>
           F == ReadThenLabel(Featured)
           R == <<Read(list)>>
           O == ReadThenLabel(Order)
           n == Len(Featured)
           m == Len(Order)
<1>1. n \in Nat /\ m \in Nat
      /\ (\A j \in 1..n : Featured[j] \in Range(Featured) \cap Albums)
      /\ \A j \in 1..m : Order[j] \in Albums
  BY LabelCacheAssumption DEF Range
<1>2. A \in Seq(Steps) /\ R \in Seq(Steps) /\ Len(A) = 3 /\ Len(R) = 1 /\ R[1] = Read(list)
      /\ A[1] = Label(settings) /\ A[2] = Label(list) /\ A[3] = Read(settings)
  BY StepsTyped DEF Sources
<1>3. F \in Seq(Steps) /\ O \in Seq(Steps)
  BY ReadThenLabelTyped, LabelCacheAssumption
<1>4. /\ Len(F) = 2 * n
      /\ \A j \in 1..2 * n : F[j].src \in Range(Featured) \cap Albums
  <2>1. F = [j \in 1..2 * n |-> IF j % 2 = 1 THEN Read(Featured[(j + 1) \div 2])
                                ELSE Label(Featured[j \div 2])]
    BY DEF ReadThenLabel
  <2>2. 2 * n \in Nat
    BY <1>1
  <2> HIDE DEF n
  <2>3. Len(F) = 2 * n
    BY <2>1, <2>2
  <2>4. ASSUME NEW j \in 1..2 * n
        PROVE  F[j].src \in Range(Featured) \cap Albums
    <3>1. \/ j % 2 = 1 /\ F[j] = Read(Featured[(j + 1) \div 2]) /\ (j + 1) \div 2 \in 1..n
          \/ F[j] = Label(Featured[j \div 2]) /\ j \div 2 \in 1..n
      BY <1>1, <2>1, Halves
    <3> QED BY <1>1, <3>1 DEF Read, Label
  <2> QED BY <2>3, <2>4
<1>5. /\ Len(O) = 2 * m
      /\ \A j \in 1..2 * m : O[j].src \in Albums
  <2>1. O = [j \in 1..2 * m |-> IF j % 2 = 1 THEN Read(Order[(j + 1) \div 2])
                                ELSE Label(Order[j \div 2])]
    BY DEF ReadThenLabel
  <2>2. 2 * m \in Nat
    BY <1>1
  <2> HIDE DEF m
  <2>3. Len(O) = 2 * m
    BY <2>1, <2>2
  <2>4. ASSUME NEW j \in 1..2 * m
        PROVE  O[j].src \in Albums
    <3>1. \/ j % 2 = 1 /\ O[j] = Read(Order[(j + 1) \div 2]) /\ (j + 1) \div 2 \in 1..m
          \/ O[j] = Label(Order[j \div 2]) /\ j \div 2 \in 1..m
      BY <1>1, <2>1, Halves
    <3> QED BY <1>1, <3>1 DEF Read, Label
  <2> QED BY <2>3, <2>4
<1>6. MainPlan = A \o F \o R \o O
  BY DEF MainPlan
<1>7. ListAt = 4 + 2 * n
  BY DEF ListAt
<1>8. list # settings /\ list \notin Albums /\ (\A s : Label(s).src = s /\ Label(s).op = "label")
      /\ \A s : Read(s).src = s /\ Read(s).op = "read"
  BY LabelCacheAssumption DEF list, settings, Label, Read
<1> HIDE DEF A, F, R, O, n, m
<1>9. /\ Len(MainPlan) = 4 + 2 * n + 2 * m
      /\ i <= 3 => MainPlan[i] = A[i]
      /\ i > 3 /\ i < 4 + 2 * n => MainPlan[i] = F[i - 3] /\ i - 3 \in 1..2 * n
      /\ i = 4 + 2 * n => MainPlan[i] = R[1]
      /\ i > 4 + 2 * n => MainPlan[i] = O[i - (4 + 2 * n)] /\ i - (4 + 2 * n) \in 1..2 * m
  <2> DEFINE N == 2 * n
             M == 2 * m
             B == A \o F
             C == B \o R
             D == C \o O
  <2>1. N \in Nat /\ M \in Nat /\ 3 \in Nat /\ 1 \in Nat /\ 3 + N \in Nat /\ 3 + N + 1 \in Nat
        /\ Len(F) = N /\ Len(O) = M
    BY <1>1, <1>4, <1>5
  <2> HIDE DEF N, M, B, C, D
  <2>2. Joins(B, A, F, 3, N)
    BY <1>2, <1>3, <2>1, Joined DEF B
  <2>3. Joins(C, B, R, 3 + N, 1)
    <3>1. B \in Seq(Steps) /\ Len(B) = 3 + N
      BY <2>2 DEF Joins
    <3> QED BY <1>2, <3>1, Joined DEF C
  <2>4. Joins(D, C, O, 3 + N + 1, M)
    <3>1. C \in Seq(Steps) /\ Len(C) = 3 + N + 1
      BY <2>3 DEF Joins
    <3> QED BY <1>3, <2>1, <3>1, Joined DEF D
  <2>5. MainPlan = D
    BY <1>6 DEF B, C, D
  <2>6. Len(D) = 3 + N + 1 + M /\ i \in 1..(3 + N + 1 + M)
    BY <2>4, <2>5 DEF Joins
  <2>7. i <= 3 => MainPlan[i] = A[i]
    <3>1. i <= 3 => i \in 1..3 /\ i \in 1..(3 + N) /\ i \in 1..(3 + N + 1)
      BY <2>1, <2>6
    <3> QED BY <2>2, <2>3, <2>4, <2>5, <3>1 DEF Joins
  <2>8. i > 3 /\ i < 4 + N => MainPlan[i] = F[i - 3] /\ i - 3 \in 1..N
    <3>1. i > 3 /\ i < 4 + N => i \in 1..(3 + N) /\ i \in 1..(3 + N + 1) /\ i - 3 \in 1..N
      BY <2>1, <2>6
    <3> QED BY <2>2, <2>3, <2>4, <2>5, <3>1 DEF Joins
  <2>9. i = 4 + N => MainPlan[i] = R[1]
    <3>1. i = 4 + N => i \in 1..(3 + N + 1) /\ i > 3 + N /\ i - (3 + N) = 1
      BY <2>1, <2>6
    <3> QED BY <2>3, <2>4, <2>5, <3>1 DEF Joins
  <2>10. i > 4 + N => MainPlan[i] = O[i - (4 + N)] /\ i - (4 + N) \in 1..M
    <3>1. i > 4 + N => i > 3 + N + 1 /\ i - (3 + N + 1) = i - (4 + N) /\ i - (4 + N) \in 1..M
      BY <2>1, <2>6
    <3> QED BY <2>4, <2>5, <2>6, <3>1 DEF Joins
  <2>11. Len(MainPlan) = 4 + N + M
    BY <2>1, <2>5, <2>6
  <2> HIDE DEF MainPlan
  <2> QED BY <2>7, <2>8, <2>9, <2>10, <2>11 DEF N, M
<1>10. CASE i <= 3
  BY <1>1, <1>2, <1>7, <1>8, <1>9, <1>10 DEF IsListRead
<1>11. CASE i > 3 /\ i < 4 + 2 * n
  BY <1>1, <1>4, <1>7, <1>8, <1>9, <1>11 DEF IsListRead
<1>12. CASE i >= 4 + 2 * n
  BY <1>1, <1>2, <1>5, <1>7, <1>8, <1>9, <1>12 DEF IsListRead
<1> QED BY <1>1, <1>10, <1>11, <1>12

\* Pages and previews of albums do not read the list, and label what LabelledFirst says.
LEMMA OtherPlaces ==
  ASSUME NEW k \in Keys, k # main, NEW i \in 1..Len(Plan(k))
  PROVE  /\ Plan(k)[i].op = "label" => Plan(k)[i].src \in LabelledFirst(k)
         /\ ~IsListRead(Plan(k)[i])
<1>0. list # settings /\ list \notin Albums
  BY LabelCacheAssumption DEF list, settings
<1>1. ASSUME NEW a \in Albums, k = page(a)
      PROVE  /\ Plan(k)[i].op = "label" => Plan(k)[i].src \in LabelledFirst(k)
             /\ ~IsListRead(Plan(k)[i])
  <2>1. Plan(k) = <<Label(settings), Label(a), Read(a), Read(settings)>> /\ LabelledFirst(k) = {settings, a}
    BY <1>1 DEF Plan, page, main, PagePlan, LabelledFirst
  <2> QED BY <1>0, <2>1 DEF Label, Read, IsListRead
<1>2. ASSUME NEW a \in Albums, k = preview(a)
      PROVE  Plan(k)[i].op # "label" /\ ~IsListRead(Plan(k)[i])
  <2>1. Plan(k) = <<Read(a), Read(settings)>>
    BY <1>2 DEF Plan, preview, main, PreviewPlan
  <2> QED BY <1>0, <2>1 DEF Read, IsListRead
<1> QED BY <1>1, <1>2, KeyKinds

\* One step of the plan of k: it leaves b of the rebuild, and adds a label that counts.
LEMMA AdvanceLabels ==
  ASSUME Inv, LabelInv, NEW k \in DOMAIN build, build[k].todo # << >>, NEW b,
         b.todo = Tail(build[k].todo), build' = [build EXCEPT ![k] = b], UNCHANGED entry,
         list \in DOMAIN b.saw <=> list \in DOMAIN build[k].saw \/ IsListRead(Head(build[k].todo)),
         IsListRead(Head(build[k].todo)) \/ build[k].shown \subseteq b.shown,
         \A l \in labels' : \/ l \in labels
                            \/ /\ l[1] = k
                               /\ l[2] \in Own(k) \cup (IF list \in DOMAIN b.saw THEN b.shown ELSE {})
  PROVE  LabelInv'
<1> DEFINE h == Head(build[k].todo)
<1>1. /\ k \in Keys /\ Behind(k) \in Nat /\ Behind(k) + 1 \in 1..Len(Plan(k))
      /\ h = Plan(k)[Behind(k) + 1]
  BY NextOnPlan
<1>2. /\ DOMAIN build' = DOMAIN build /\ build'[k] = b
      /\ \A q \in DOMAIN build \ {k} : build'[q] = build[q] /\ Behind(q)' = Behind(q)
  BY DEF Behind
<1>3. Behind(k)' = Behind(k) + 1
  <2>1. build[k].todo \in Seq(Steps)
    BY DEF Inv, Shape, Builds
  <2>2. Len(b.todo) = Len(build[k].todo) - 1 /\ Len(build[k].todo) \in Nat
    BY <2>1
  <2>3. Len(Plan(k)) \in Nat
    BY <1>1, PlanTyped
  <2>4. Behind(k) = Len(Plan(k)) - Len(build[k].todo) /\ Behind(k)' = Len(Plan(k)) - Len(b.todo)
    BY <1>2 DEF Behind
  <2> QED BY <2>2, <2>3, <2>4
<1>4. IsListRead(h) <=> k = main /\ Behind(k) + 1 = ListAt
  <2>1. CASE k = main
    <3>1. Plan(k) = MainPlan
      BY <2>1 DEF Plan, main
    <3>2. IsListRead(h) <=> Behind(k) + 1 = ListAt
      <4>1. /\ ListAt \in Nat
            /\ Behind(k) + 1 < ListAt => ~IsListRead(h)
            /\ Behind(k) + 1 = ListAt => IsListRead(h)
            /\ Behind(k) + 1 > ListAt => h.src \in Albums
        BY <1>1, <3>1, MainPlaces
      <4>2. h.src \in Albums => ~IsListRead(h)
        BY LabelCacheAssumption DEF IsListRead
      <4> QED BY <1>1, <4>1, <4>2
    <3> QED BY <2>1, <3>2
  <2>2. CASE k # main
    BY <1>1, <2>2, OtherPlaces
  <2> QED BY <2>1, <2>2
<1>5. k = main => ListAt \in Nat
  BY <1>1, MainPlaces DEF Plan, main
<1>6. ListPlace'
  <2>1. CASE k = main
    <3>1. list \in DOMAIN build[main].saw <=> Behind(main) >= ListAt
      BY <2>1 DEF LabelInv, ListPlace
    <3>2. list \in DOMAIN b.saw <=> Behind(main) + 1 >= ListAt
      BY <1>1, <1>4, <1>5, <2>1, <3>1
    <3> QED BY <1>2, <1>3, <2>1, <3>2 DEF ListPlace, ListAt
  <2>2. CASE k # main
    BY <1>2, <2>2 DEF LabelInv, ListPlace, ListAt
  <2> QED BY <2>1, <2>2
<1>7. Counted(k) \subseteq Counted(k)'
  <2>1. list \in DOMAIN build[k].saw => ~IsListRead(h)
    <3>1. ASSUME k = main, list \in DOMAIN build[k].saw
          PROVE  Behind(k) >= ListAt
      BY <3>1 DEF LabelInv, ListPlace
    <3> QED BY <1>1, <1>4, <1>5, <3>1
  <2> QED BY <1>2, <2>1 DEF Counted
<1>8. \A q \in Keys : /\ Building(q)' <=> Building(q)
                      /\ Live(q)' <=> Live(q)
                      /\ Live(q) => ~Building(q)
  BY <1>2 DEF Building, Live, Cached, Inv, OneVersion
<1>9. ASSUME NEW q \in Keys, Building(q)'
      PROVE  OnlyOf(q, Counted(q))'
  <2>1. OnlyOf(q, Counted(q))
    BY <1>8, <1>9 DEF LabelInv
  <2>2. Counted(q) \subseteq Counted(q)'
    BY <1>2, <1>7, <1>8, <1>9 DEF Counted, Building
  <2>3. Own(q)' = Own(q)
    BY DEF Own, LabelledFirst
  <2>4. ASSUME NEW l \in labels', l[1] = q
        PROVE  l[2] \in Own(q) \cup Counted(q)'
    <3>1. CASE l \in labels
      BY <2>1, <2>2, <2>4, <3>1 DEF OnlyOf
    <3>2. CASE l \notin labels
      BY <1>2, <2>4, <3>2 DEF Counted
    <3> QED BY <3>1, <3>2
  <2> QED BY <2>3, <2>4 DEF OnlyOf
<1>10. ASSUME NEW q \in Keys, Live(q)'
       PROVE  OnlyOf(q, entry[q].shown)'
  <2>1. q # k /\ Live(q)
    BY <1>8, <1>10 DEF Building
  <2> QED BY <2>1 DEF LabelInv, OnlyOf, Own, LabelledFirst
<1> QED BY <1>6, <1>9, <1>10 DEF LabelInv

\* No rebuild makes a step: rebuilds end, labels go or are those of previews, entries go or are
\* what a rebuild made.
LEMMA RestLabels ==
  ASSUME Inv, LabelInv,
         \A q \in DOMAIN build' : q \in DOMAIN build /\ build'[q] = build[q],
         \A l \in labels' : l \in labels \/ \E a \in Albums : l = <<preview(a), a>>,
         \A q \in Keys : Live(q)' => \/ Live(q) /\ entry'[q] = entry[q]
                                     \/ Building(q) /\ entry'[q].shown = build[q].shown
  PROVE  LabelInv'
<1>1. \A q \in DOMAIN build' : Behind(q)' = Behind(q) /\ Counted(q)' = Counted(q)
  BY DEF Behind, Counted
<1>2. ListPlace'
  BY <1>1 DEF LabelInv, ListPlace, ListAt
<1>3. \A q : Own(q)' = Own(q)
  BY DEF Own, LabelledFirst
<1>4. \A a \in Albums : a \in Own(preview(a))
  BY DEF Own, preview
<1>5. ASSUME NEW q \in Keys, NEW shown, OnlyOf(q, shown)
      PROVE  \A l \in labels' : l[1] = q => l[2] \in Own(q) \cup shown
  BY <1>4, <1>5 DEF OnlyOf
<1>6. ASSUME NEW q \in Keys, Building(q)'
      PROVE  OnlyOf(q, Counted(q))'
  BY <1>1, <1>3, <1>5, <1>6 DEF LabelInv, OnlyOf, Building
<1>7. ASSUME NEW q \in Keys, Live(q)'
      PROVE  OnlyOf(q, entry[q].shown)'
  <2>1. CASE Live(q) /\ entry'[q] = entry[q]
    BY <1>3, <1>5, <2>1 DEF LabelInv, OnlyOf
  <2>2. CASE Building(q) /\ entry'[q].shown = build[q].shown
    <3>1. OnlyOf(q, build[q].shown)
      BY <2>2 DEF LabelInv, OnlyOf, Counted
    <3> QED BY <1>3, <1>5, <2>2, <3>1 DEF OnlyOf
  <2> QED BY <1>7, <2>1, <2>2
<1> QED BY <1>2, <1>6, <1>7 DEF LabelInv

LEMMA AttachLabels ==
  ASSUME Inv, LabelInv, NEW k \in Keys, Attach(k) \/ AttachFails(k)
  PROVE  LabelInv'
<1> DEFINE b == [build[k] EXCEPT !.todo = Tail(@)]
<1>1. k \in DOMAIN build /\ build[k].todo # << >> /\ Head(build[k].todo).op = "label"
  BY DEF Attach, AttachFails, NextIs, Building
<1>2. /\ b.todo = Tail(build[k].todo) /\ b.saw = build[k].saw /\ b.shown = build[k].shown
      /\ build' = [build EXCEPT ![k] = b]
  BY <1>1, Dropped DEF Attach, AttachFails
<1> HIDE DEF b
<1>3. UNCHANGED entry
  BY DEF Attach, AttachFails
<1>4. ~IsListRead(Head(build[k].todo))
  BY <1>1 DEF IsListRead
<1>5. ASSUME Labelled(k, NextSrc(k))
      PROVE  NextSrc(k) \in Own(k) \cup (IF list \in DOMAIN b.saw THEN b.shown ELSE {})
  <2>1. /\ Behind(k) \in Nat /\ Behind(k) + 1 \in 1..Len(Plan(k))
        /\ Head(build[k].todo) = Plan(k)[Behind(k) + 1]
    BY <1>1, NextOnPlan
  <2>2. CASE k # main
    BY <1>1, <2>1, <2>2, OtherPlaces DEF Own, NextSrc
  <2>3. CASE k = main
    <3>1. Plan(k) = MainPlan /\ {settings, list} \subseteq Own(k)
      BY <2>3 DEF Plan, main, Own, LabelledFirst
    <3>2. /\ ListAt \in Nat
          /\ Behind(k) + 1 < ListAt => NextSrc(k) \in Own(k)
          /\ Behind(k) + 1 # ListAt
          /\ Behind(k) + 1 > ListAt => NextSrc(k) \in Albums
      BY <1>4, <2>1, <3>1, MainPlaces DEF NextSrc, Own
    <3>3. list \in DOMAIN b.saw <=> Behind(k) >= ListAt
      BY <1>1, <1>2, <2>3 DEF LabelInv, ListPlace
    <3>4. NextSrc(k) \in Albums => NextSrc(k) \in b.shown \cup Range(Featured)
      BY <1>2, <1>5, <2>3 DEF Labelled
    <3> QED BY <2>1, <3>2, <3>3, <3>4 DEF Own
  <2> QED BY <2>2, <2>3
<1>6. \A l \in labels' : \/ l \in labels
                         \/ /\ l[1] = k
                            /\ l[2] \in Own(k) \cup (IF list \in DOMAIN b.saw THEN b.shown ELSE {})
  BY <1>5 DEF Attach, AttachFails
<1> QED BY <1>1, <1>2, <1>3, <1>4, <1>6, AdvanceLabels

LEMMA ReadLabels ==
  ASSUME Inv, LabelInv, NEW k \in Keys, ReadAlbum(k) \/ ReadSettings(k) \/ ReadList(k)
  PROVE  LabelInv'
<1>1. /\ k \in DOMAIN build /\ build[k].todo # << >> /\ Head(build[k].todo).op = "read"
      /\ UNCHANGED <<entry, labels>>
  BY DEF ReadAlbum, ReadSettings, ReadList, NextIs, Building
<1>2. build[k] \in Builds /\ build \in [DOMAIN build -> Builds]
  BY <1>1 DEF Inv, Shape
<1>3. \A l \in labels' : l \in labels
  BY <1>1
<1>4. IsListRead(Head(build[k].todo)) <=> NextSrc(k) = list
  BY <1>1 DEF IsListRead, NextSrc
<1>5. list \notin Albums /\ list # settings
  BY LabelCacheAssumption DEF list, settings
<1>6. ASSUME NEW b, b.todo = Tail(build[k].todo), build' = [build EXCEPT ![k] = b],
             list \in DOMAIN b.saw <=> list \in DOMAIN build[k].saw \/ NextSrc(k) = list,
             NextSrc(k) = list \/ build[k].shown \subseteq b.shown
      PROVE  LabelInv'
  BY <1>1, <1>3, <1>4, <1>6, AdvanceLabels
<1>7. CASE ReadAlbum(k)
  <2> DEFINE a == NextSrc(k)
             seen == IF a \in DOMAIN build[k].saw /\ (st[a] = "hidden" \/ a \in Range(Featured))
                     THEN build[k].saw[a] ELSE ver[a]
             shown == IF st[a] = "empty" THEN build[k].shown ELSE build[k].shown \cup {a}
  <2>1. a \in Albums /\ a # list
    BY <1>5, <1>7 DEF ReadAlbum
  <2>2. CASE a \in build[k].skip
    <3> DEFINE b == [build[k] EXCEPT !.todo = Tail(@)]
    <3>1. /\ b.todo = Tail(build[k].todo) /\ b.saw = build[k].saw /\ b.shown = build[k].shown
          /\ build' = [build EXCEPT ![k] = b]
      BY <1>1, <1>7, <2>2, Dropped DEF ReadAlbum
    <3> HIDE DEF b
    <3> QED BY <1>6, <2>1, <3>1
  <2>3. CASE a \notin build[k].skip
    <3> DEFINE b == [build[k] EXCEPT !.todo = Tail(@), !.saw = With(build[k].saw, a, seen), !.shown = shown]
    <3>1. build' = [build EXCEPT ![k] = b]
      BY <1>7, <2>3 DEF ReadAlbum
    <3>2. list \in DOMAIN With(build[k].saw, a, seen) <=> list \in DOMAIN build[k].saw
      BY <2>1 DEF With
    <3>3. build[k].shown \subseteq shown
      OBVIOUS
    <3> HIDE DEF seen, shown, a
    <3>4. b.todo = Tail(build[k].todo) /\ b.saw = With(build[k].saw, a, seen) /\ b.shown = shown
      BY <1>2 DEF Builds
    <3> HIDE DEF b
    <3> QED BY <1>6, <2>1, <3>1, <3>2, <3>3, <3>4 DEF a
  <2> QED BY <2>2, <2>3
<1>8. CASE ReadSettings(k)
  <2> DEFINE saw == With(build[k].saw, settings, ver[settings])
             b == [build[k] EXCEPT !.todo = Tail(@), !.saw = saw]
  <2>1. build' = [build EXCEPT ![k] = b]
    BY <1>1, <1>8 DEF ReadSettings
  <2>2. list \in DOMAIN saw <=> list \in DOMAIN build[k].saw
    BY <1>5 DEF With
  <2>3. NextSrc(k) = settings
    BY <1>8 DEF ReadSettings
  <2> HIDE DEF saw
  <2>4. b.todo = Tail(build[k].todo) /\ b.saw = saw /\ b.shown = build[k].shown
    BY <1>2 DEF Builds
  <2> HIDE DEF b
  <2> QED BY <1>5, <1>6, <2>1, <2>2, <2>3, <2>4
<1>9. CASE ReadList(k)
  <2> DEFINE f == build[k].saw
             rows == {q \in Albums : st[q] # "absent"}
             saw == [s \in DOMAIN f \cup rows \cup {list} |-> IF s \in DOMAIN f THEN f[s] ELSE ver[s]]
             skip == {q \in Albums : st[q] \in {"hidden", "absent"}}
             b == [build[k] EXCEPT !.todo = Tail(@), !.skip = skip, !.shown = {}, !.saw = saw]
  <2>1. NextSrc(k) = list /\ build' = [build EXCEPT ![k] = b]
    BY <1>9 DEF ReadList
  <2>2. list \in DOMAIN saw
    OBVIOUS
  <2> HIDE DEF saw, skip
  <2>3. b.todo = Tail(build[k].todo) /\ b.saw = saw
    BY <1>2 DEF Builds
  <2> HIDE DEF b
  <2> QED BY <1>6, <2>1, <2>2, <2>3
<1> QED BY <1>7, <1>8, <1>9

LEMMA StartLabels ==
  ASSUME Inv, LabelInv, NEW k \in Keys, StartBuild(k)
  PROVE  LabelInv'
<1>1. /\ ~Live(k) /\ UNCHANGED entry /\ labels' = {l \in labels : l[1] # k}
      /\ DOMAIN build' = DOMAIN build \cup {k} /\ k \notin DOMAIN build
      /\ build'[k].saw = << >> /\ build'[k].todo = Plan(k)
      /\ \A q \in DOMAIN build : q # k /\ build'[q] = build[q]
  BY DEF StartBuild, With, Building, ResetKey
<1>2. ListPlace'
  <2>1. CASE k = main
    <3>1. Len(Plan(k)) \in Nat /\ Len(Featured) \in Nat
      BY PlanTyped, LabelCacheAssumption
    <3>2. Behind(k)' = 0
      BY <1>1, <3>1 DEF Behind
    <3> QED BY <1>1, <2>1, <3>1, <3>2 DEF ListPlace, ListAt
  <2>2. CASE k # main
    BY <1>1, <2>2 DEF LabelInv, ListPlace, ListAt, Behind
  <2> QED BY <2>1, <2>2
<1>3. \A q : Own(q)' = Own(q)
  BY DEF Own, LabelledFirst
<1>4. ASSUME NEW q \in Keys, Building(q)'
      PROVE  OnlyOf(q, Counted(q))'
  <2>1. CASE q = k
    BY <1>1, <2>1 DEF OnlyOf
  <2>2. CASE q # k
    <3>1. Building(q) /\ Counted(q)' = Counted(q)
      BY <1>1, <1>4, <2>2 DEF Building, Counted
    <3> QED BY <1>1, <1>3, <3>1 DEF LabelInv, OnlyOf
  <2> QED BY <2>1, <2>2
<1>5. ASSUME NEW q \in Keys, Live(q)'
      PROVE  OnlyOf(q, entry[q].shown)'
  <2>1. Live(q)
    BY <1>1, <1>5 DEF Live, Cached
  <2> QED BY <1>1, <1>3, <2>1 DEF LabelInv, OnlyOf
<1> QED BY <1>2, <1>4, <1>5 DEF LabelInv

LEMMA LabelStep ==
  ASSUME Inv, LabelInv, [Next]_vars
  PROVE  LabelInv'
<1>1. ASSUME NEW k \in Keys, StartBuild(k) \/ Attach(k) \/ AttachFails(k)
                             \/ ReadAlbum(k) \/ ReadSettings(k) \/ ReadList(k)
      PROVE  LabelInv'
  BY <1>1, StartLabels, AttachLabels, ReadLabels
<1>2. ASSUME UNCHANGED <<entry, build>>,
             \A l \in labels' : l \in labels \/ \E a \in Albums : l = <<preview(a), a>>
      PROVE  LabelInv'
  BY <1>2, RestLabels DEF Live, Cached
<1>3. ASSUME NEW k \in Keys, Store(k)
      PROVE  LabelInv'
  <2>1. /\ k \in DOMAIN build /\ build' = Without(build, k) /\ UNCHANGED labels
        /\ entry' = With(entry, k, [saw |-> build[k].saw, shown |-> build[k].shown, expired |-> FALSE])
    BY <1>3 DEF Store, Building
  <2>2. \A q \in DOMAIN build' : q \in DOMAIN build /\ build'[q] = build[q]
    BY <2>1 DEF Without
  <2>3. /\ entry'[k].shown = build[k].shown
        /\ \A q : q # k => (Live(q)' => Live(q) /\ entry'[q] = entry[q])
    BY <2>1 DEF With, Live, Cached
  <2> QED BY <2>1, <2>2, <2>3, RestLabels DEF Building
<1>4. ASSUME NEW k \in Keys, NotFound(k) \/ ReadFails(k)
      PROVE  LabelInv'
  <2>1. build' = Without(build, k) /\ UNCHANGED <<labels, entry>>
    BY <1>4 DEF NotFound, ReadFails
  <2>2. \A q \in DOMAIN build' : q \in DOMAIN build /\ build'[q] = build[q]
    BY <2>1 DEF Without
  <2> QED BY <2>1, <2>2, RestLabels DEF Live, Cached
<1>5. ASSUME NEW k \in Keys, Expire(k)
      PROVE  LabelInv'
  <2>1. /\ k \in DOMAIN entry /\ entry \in [DOMAIN entry -> Entries]
        /\ entry' = [entry EXCEPT ![k].expired = TRUE] /\ UNCHANGED <<build, labels>>
    BY <1>5 DEF Expire, Live, Cached, Inv, Shape
  <2>2. entry'[k].expired
    BY <2>1 DEF Entries
  <2>3. \A q : Live(q)' => Live(q) /\ entry'[q] = entry[q]
    BY <2>1, <2>2 DEF Live, Cached
  <2> QED BY <2>1, <2>3, RestLabels
<1>6. ASSUME NEW a \in Albums, ViewPreview(a) \/ AttachPreview(a)
      PROVE  LabelInv'
  BY <1>2, <1>6 DEF ViewPreview, AttachPreview
<1>7. CASE Change
  BY <1>2, <1>7 DEF Change, ChangeAlbum, CopyToAlbum, CreateAlbum, DeleteAlbum, SetSettings
<1>8. ASSUME NEW w \in Workers, NEW k \in Keys, DeleteEntry(w, k)
      PROVE  LabelInv'
  <2>1. entry' = Without(entry, k) /\ UNCHANGED <<build, labels>>
    BY <1>8 DEF DeleteEntry
  <2>2. \A q : Live(q)' => Live(q) /\ entry'[q] = entry[q]
    BY <2>1 DEF Without, Live, Cached
  <2> QED BY <2>1, <2>2, RestLabels
<1>9. ASSUME NEW w \in Workers, Select(w) \/ Finish(w) \/ InvalidateFails(w)
                                \/ \E k \in Keys : DeleteLabels(w, k)
      PROVE  LabelInv'
  BY <1>2, <1>9 DEF Select, Finish, InvalidateFails, DeleteLabels
<1>10. CASE Crash
  <2>1. build' = << >> /\ UNCHANGED <<entry, labels>>
    BY <1>10 DEF Crash
  <2> QED BY <2>1, RestLabels DEF Live, Cached
<1>11. CASE UNCHANGED vars
  BY <1>2, <1>11 DEF vars
<1> QED BY <1>1, <1>3, <1>4, <1>5, <1>6, <1>7, <1>8, <1>9, <1>10, <1>11
        DEF Next, BuildStep, InvalidateStep

\* A page that is served carries the labels of what it shows, and none of what it showed before:
\* changes of an album that left it do not go on dropping it.
THEOREM NoneLeftOver == Spec => []NoLeftoverLabels
<1>1. Init => LabelInv
  <2> SUFFICES ASSUME Init PROVE LabelInv
    OBVIOUS
  <2>1. labels = {} /\ DOMAIN build = {}
    BY DEF Init
  <2> QED BY <2>1 DEF LabelInv, ListPlace, OnlyOf
<1>2. Inv /\ LabelInv /\ [Next]_vars => LabelInv'
  BY LabelStep
<1>3. LabelInv => NoLeftoverLabels
  BY DEF LabelInv, OnlyOf, Own, NoLeftoverLabels
<1> QED BY <1>1, <1>2, <1>3, Invariant, PTL DEF Spec
=============================================================================
