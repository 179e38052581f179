--------------------------- MODULE Indexing_proofs ---------------------------
(***************************************************************************)
(* Proofs about Indexing: for any columns, jobs, kinds of labels and       *)
(* descriptions, and any number of edits, additions, faults and restarts.  *)
(***************************************************************************)
EXTENDS Indexing, TLAPS

\* ls are the labels that the settings enable, b is what may happen.
IndexSpec(ls, b) == IndexInit(ls, b) /\ [][IndexNext]_indexVars

Rows == [text : Texts \cup {NoText}, cols : SUBSET All]
Metas == [Labels -> Nat] \cup {NoMeta}
Works == [at : Int, image : Rows, row : Rows, redo : SUBSET All]
Deeds == {"nothing", "starts", "asks"}
Asks == [does : Deeds, read : Metas]

Typed ==
  /\ row \in Rows
  /\ jobs \in [Jobs -> Works]
  /\ form \in Rows \cup {NoForm}
  /\ meta \in Metas
  /\ askers \in [Jobs -> [Labels -> Asks]]
  /\ stored \subseteq Labels
  /\ skipped \in BOOLEAN

LEMMA IdleAsks ==
  Idle \in Asks /\ Idle.does = "nothing" /\ \A d \in Deeds : [Idle EXCEPT !.does = d] \in Asks
BY DEF Idle, Asks, Metas, Deeds

LEMMA GoesOnWorks ==
  ASSUME Typed, NEW j \in Jobs, NEW a \in Int, NEW r \in Rows, GoesOn(j, a, r)
  PROVE  jobs' \in [Jobs -> Works]
BY DEF Typed, GoesOn, Works

LEMMA GoesOnAt ==
  ASSUME Typed, NEW j \in Jobs, NEW a \in Int, NEW r \in Rows, GoesOn(j, a, r)
  PROVE  jobs'[j].at = a /\ jobs'[j].row = r /\ \A i \in Jobs \ {j} : jobs'[i] = jobs[i]
BY DEF Typed, GoesOn, Works

LEMMA TypeInit ==
  ASSUME NEW ls, NEW b, IndexInit(ls, b)
  PROVE  Typed
<1>1. Blank \in Rows
  BY DEF Blank, Rows
<1>2. [at |-> Unused, image |-> Blank, row |-> Blank, redo |-> {}] \in Works
  BY <1>1 DEF Works, Unused
<1> QED BY <1>1, <1>2, IdleAsks DEF IndexInit, Typed, Metas

\* The columns that are filled in are columns of the image.
LEMMA FilledType ==
  ASSUME Typed, NEW j \in Jobs, NEW k \in Following(j)
  PROVE  /\ Filled(j, k) \in Rows
         /\ Filled(j, k).text = jobs[j].row.text
         /\ Filled(j, k).cols = jobs[j].row.cols \cup {Derived[k]}
<1>1. k \in DOMAIN Derived /\ Derived[k] \in All
  BY DEF Following, Missing, All
<1>2. jobs[j].row \in Rows
  BY DEF Typed, Works
<1> QED BY <1>1, <1>2 DEF Filled, Rows

LEMMA MergedType ==
  ASSUME Typed, NEW j \in Jobs, NEW l \in Labels
  PROVE  /\ Merged(askers[j][l].read, l) \in [Labels -> Nat]
         /\ \A k \in Labels : Has(meta, k) \/ k = l => Merged(askers[j][l].read, l)[k] > 0
<1> DEFINE m == IF meta = NoMeta THEN askers[j][l].read ELSE meta
<1>1. m \in Metas
  BY DEF Typed, Asks
<1>2. m # NoMeta => m \in [Labels -> Nat]
  BY <1>1 DEF Metas
<1>3. meta # NoMeta => m = meta
  OBVIOUS
<1>4. Plus(m, l) \in [Labels -> Nat]
  BY <1>2 DEF Plus
<1>5. \A k \in Labels : Has(m, k) \/ k = l => Plus(m, l)[k] > 0
  BY <1>2 DEF Plus, Has
<1>6. \A k \in Labels : Has(meta, k) => Has(m, k)
  BY <1>3 DEF Has
<1> HIDE DEF m
<1>7. CASE l \in {"geo", "faces"} /\ Has(m, l)
  <2>1. Merged(askers[j][l].read, l) = m
    BY <1>7 DEF Merged, m
  <2> QED BY <1>2, <1>6, <1>7, <2>1 DEF Has
<1>8. CASE ~(l \in {"geo", "faces"} /\ Has(m, l))
  <2>1. Merged(askers[j][l].read, l) = Plus(m, l)
    BY <1>8 DEF Merged, m
  <2> QED BY <1>4, <1>5, <1>6, <2>1
<1> QED BY <1>7, <1>8

LEMMA TypeStep ==
  ASSUME Derived \in Seq(All), Typed, [IndexNext]_indexVars
  PROVE  Typed'
<1>0. DOMAIN Derived \subseteq Int /\ Done \in Int /\ Queued \in Int
  BY DEF Done, Behind, Queued
<1>1. ASSUME NEW j \in Jobs, NEW redo \in {{}} \cup {{c} : c \in All \ Soft}, IndexAlbum(j, redo)
      PROVE  Typed'
  <2>1. [at |-> Queued, image |-> row, row |-> row, redo |-> redo] \in Works
    BY DEF Works, Typed, Queued
  <2> QED BY <1>1, <2>1 DEF Typed, IndexAlbum, Publish, labels
<1>2. ASSUME NEW j \in Jobs, AddFile(j)
      PROVE  Typed'
  <2>1. Blank \in Rows
    BY DEF Blank, Rows
  <2>2. [at |-> Queued, image |-> Blank, row |-> Blank, redo |-> {}] \in Works
    BY <2>1 DEF Works, Queued
  <2> QED BY <1>2, <2>1, <2>2 DEF Typed, AddFile, Publish, Store, labels
<1>3. ASSUME NEW j \in Jobs, Start(j)
      PROVE  Typed'
  <2>1. jobs[j].image \in Rows /\ row \in Rows
    BY DEF Typed, Works
  <2>2. PICK r \in {row, jobs[j].image} : GoesOn(j, 1, r)
    BY <1>3 DEF Start, Reloaded
  <2>3. r \in Rows /\ 1 \in Int
    BY <2>1
  <2>4. jobs' \in [Jobs -> Works]
    BY <2>2, <2>3, GoesOnWorks
  <2> QED BY <1>3, <2>4 DEF Typed, Start, labels
<1>4. ASSUME NEW j \in Jobs, Ensure(j)
      PROVE  Typed'
  <2>1. PICK k \in Following(j) : GoesOn(j, k + 1, Filled(j, k)) /\ row' = Filled(j, k)
    BY <1>4 DEF Ensure, Carried, Store
  <2>2. Filled(j, k) \in Rows /\ k + 1 \in Int
    BY <1>0, FilledType DEF Following, Missing
  <2>3. jobs' \in [Jobs -> Works]
    BY <2>1, <2>2, GoesOnWorks
  <2> QED BY <1>4, <2>1, <2>2, <2>3 DEF Typed, Ensure, labels
<1>5. ASSUME NEW j \in Jobs, Error(j)
      PROVE  Typed'
  <2>1. PICK k \in Following(j) :
          \/ \E r \in {jobs[j].row, Filled(j, k)} : GoesOn(j, k + 1, r)
          \/ GoesOn(j, Done, jobs[j].row)
    BY <1>5 DEF Error, Carried
  <2>2. jobs[j].row \in Rows /\ Filled(j, k) \in Rows /\ k + 1 \in Int
    BY <1>0, FilledType DEF Following, Missing, Typed, Works
  <2>3. jobs' \in [Jobs -> Works]
    BY <1>0, <2>1, <2>2, GoesOnWorks
  <2> QED BY <1>5, <2>3 DEF Typed, Error, labels
<1>6. ASSUME NEW j \in Jobs, Finish(j)
      PROVE  Typed'
  <2>1. askers' = [askers EXCEPT ![j] =
          [l \in Labels |-> [Idle EXCEPT !.does = IF l \in enabled THEN "starts" ELSE @]]]
    BY <1>6 DEF Finish
  <2>2. \A l \in Labels : [Idle EXCEPT !.does = IF l \in enabled THEN "starts" ELSE @] \in Asks
    BY IdleAsks DEF Deeds
  <2>3. askers' \in [Jobs -> [Labels -> Asks]]
    BY <2>1, <2>2 DEF Typed
  <2>4. jobs[j].row \in Rows
    BY DEF Typed, Works
  <2>5. jobs' \in [Jobs -> Works]
    BY <1>0, <1>6, <2>4, GoesOnWorks DEF Finish
  <2> QED BY <1>6, <2>3, <2>5 DEF Typed, Finish
<1>7. ASSUME NEW j \in Jobs, NEW l \in Labels, Look(j, l)
      PROVE  Typed'
  <2>1. [does |-> "asks", read |-> meta] \in Asks
    BY DEF Asks, Typed, Deeds
  <2>2. askers' \in [Jobs -> [Labels -> Asks]]
    BY <1>7, <2>1, IdleAsks DEF Look, Typed
  <2> QED BY <1>7, <2>2 DEF Typed, Look
<1>8. ASSUME NEW j \in Jobs, NEW l \in Labels, Labelled(j, l)
      PROVE  Typed'
  <2>1. meta' \in Metas /\ stored' \subseteq Labels
    BY <1>8, MergedType DEF Typed, Labelled, Metas
  <2>2. askers' \in [Jobs -> [Labels -> Asks]]
    BY <1>8, IdleAsks DEF Labelled, Typed
  <2> QED BY <1>8, <2>1, <2>2 DEF Typed, Labelled
<1>9. ASSUME NEW j \in Jobs, NEW l \in Labels, NoAnswer(j, l)
      PROVE  Typed'
  <2>1. askers' \in [Jobs -> [Labels -> Asks]]
    BY <1>9, IdleAsks DEF NoAnswer, Typed
  <2> QED BY <1>9, <2>1 DEF Typed, NoAnswer
<1>10. ASSUME EditImage
       PROVE  Typed'
  BY <1>10 DEF Typed, EditImage, labels
<1>11. ASSUME NEW text \in Texts, Update(text)
       PROVE  Typed'
  <2>1. [form EXCEPT !.text = text] \in Rows
    BY <1>11 DEF Typed, Update, Rows
  <2> QED BY <1>11, <2>1 DEF Typed, Update, Store, labels
<1>12. ASSUME Restart
       PROVE  Typed'
  <2>1. jobs' \in [Jobs -> Works]
    BY <1>0, <1>12 DEF Restart, Typed, Works
  <2>2. askers' \in [Jobs -> [Labels -> Asks]]
    BY <1>12, IdleAsks DEF Restart
  <2> QED BY <1>12, <2>1, <2>2 DEF Typed, Restart
<1>13. CASE UNCHANGED indexVars
  BY <1>13 DEF Typed, indexVars
<1> QED BY <1>1, <1>2, <1>3, <1>4, <1>5, <1>6, <1>7, <1>8, <1>9, <1>10, <1>11, <1>12, <1>13
        DEF IndexNext
-----------------------------------------------------------------------------
(* Labels *)

\* The record stays a record of what is in the code: every row, job and label has its type.
THEOREM TypeOK ==
  ASSUME Derived \in Seq(All), NEW ls, NEW b
  PROVE  IndexSpec(ls, b) => []Typed
<1>1. IndexInit(ls, b) => Typed
  BY TypeInit
<1>2. Typed /\ [IndexNext]_indexVars => Typed'
  BY TypeStep
<1> QED BY <1>1, <1>2, PTL DEF IndexSpec

\* Only Labelled writes the metadata, and what it writes has all labels that were there: it merges
\* into the record as it is, not as the goroutine read it.
LEMMA LabelsStep ==
  ASSUME Derived \in Seq(All), Typed, LabelsKept, [IndexNext]_indexVars
  PROVE  LabelsKept'
<1>1. ASSUME NEW j \in Jobs, NEW l \in Labels, Labelled(j, l)
      PROVE  LabelsKept'
  <2>1. CASE UNCHANGED <<meta, stored>>
    BY <2>1 DEF LabelsKept, Has
  <2>2. CASE meta' = Merged(askers[j][l].read, l) /\ stored' = stored \cup {l}
    <3>1. \A k \in Labels : Has(meta, k) \/ k = l => meta'[k] > 0
      BY <2>2, MergedType
    <3>2. stored \subseteq Labels
      BY DEF Typed
    <3>3. meta' \in [Labels -> Nat] /\ l \in Labels
      BY <2>2, MergedType
    <3>4. meta' # NoMeta
      BY <3>3 DEF NoMeta
    <3> QED BY <2>2, <3>1, <3>2, <3>4 DEF LabelsKept, Has
  <2> QED BY <1>1, <2>1, <2>2 DEF Labelled
<1>2. ASSUME UNCHANGED <<meta, stored>>
      PROVE  LabelsKept'
  BY <1>2 DEF LabelsKept, Has
<1>3. \/ UNCHANGED <<meta, stored>>
      \/ \E j \in Jobs, l \in Labels : Labelled(j, l)
  BY DEF IndexNext, indexVars, labels, IndexAlbum, AddFile, Start, Ensure, Error, Finish, Look,
         NoAnswer, EditImage, Update, Restart
<1> QED BY <1>1, <1>2, <1>3

\* No goroutine loses the label of another, for any number of jobs and kinds of labels.
THEOREM LabelsStay ==
  ASSUME Derived \in Seq(All), NEW ls, NEW b
  PROVE  IndexSpec(ls, b) => []LabelsKept
<1>1. IndexInit(ls, b) => Typed /\ LabelsKept
  BY TypeInit DEF IndexInit, LabelsKept
<1>2. Typed /\ LabelsKept /\ [IndexNext]_indexVars => (Typed /\ LabelsKept)'
  BY TypeStep, LabelsStep
<1> QED BY <1>1, <1>2, PTL DEF IndexSpec
-----------------------------------------------------------------------------
(* The description *)

\* A running job that nobody has edited under has the description of the row.
TextInv == \A j \in Running \ overlapped : jobs[j].row.text = row.text

LEMMA DomainDerived ==
  ASSUME Derived \in Seq(All)
  PROVE  /\ DOMAIN Derived = 1..Len(Derived) /\ Len(Derived) \in Nat
         /\ Done \notin DOMAIN Derived /\ Queued \notin DOMAIN Derived
         /\ Behind = Len(Derived) + 1 /\ Done = Len(Derived) + 2
BY DEF Done, Behind, Queued

\* Whoever writes another description, marks all running jobs.
LEMMA StoreText ==
  ASSUME Typed, TextInv, NEW r, Store(r), Running' \subseteq Running,
         \A j \in Running' : jobs'[j].row.text = jobs[j].row.text
  PROVE  TextInv'
<1>1. CASE r.text = row.text
  BY <1>1 DEF Store, TextInv, Running, Typed, Works
<1>2. CASE r.text # row.text
  BY <1>2 DEF Store, TextInv, Running, Typed
<1> QED BY <1>1, <1>2

\* A job that goes on keeps the description it works with.
LEMMA TextStep ==
  ASSUME Derived \in Seq(All), Typed, TextInv, [IndexNext]_indexVars
  PROVE  TextInv'
<1>1. ASSUME NEW j \in Jobs, NEW redo, IndexAlbum(j, redo)
      PROVE  TextInv'
  BY <1>1, DomainDerived DEF IndexAlbum, Publish, TextInv, Running, Typed, Works
<1>2. ASSUME NEW j \in Jobs, AddFile(j)
      PROVE  TextInv'
  <2>1. jobs' = [jobs EXCEPT ![j] = [at |-> Queued, image |-> Blank, row |-> Blank, redo |-> {}]]
        /\ Store(Blank)
    BY <1>2 DEF AddFile, Publish
  <2>2. \A i \in Jobs \ {j} : jobs'[i] = jobs[i]
    BY <2>1 DEF Typed
  <2>3. jobs'[j].at = Queued
    BY <2>1 DEF Typed
  <2>4. Running' \subseteq Running /\ j \notin Running'
    BY <2>2, <2>3, DomainDerived DEF Running
  <2>5. \A i \in Running' : jobs'[i].row.text = jobs[i].row.text
    BY <2>2, <2>4 DEF Running
  <2> QED BY <2>1, <2>4, <2>5, StoreText
<1>3. ASSUME NEW j \in Jobs, Start(j)
      PROVE  TextInv'
  <2>1. PICK r \in {row, jobs[j].image} :
          /\ GoesOn(j, 1, r)
          /\ \/ r = row /\ overlapped' = overlapped \ {j}
             \/ overlapped' = overlapped \cup {j}
    BY <1>3 DEF Start, Reloaded
  <2>2. r \in Rows /\ 1 \in Int
    BY DEF Typed, Works
  <2>3. jobs'[j].row = r /\ \A i \in Jobs \ {j} : jobs'[i] = jobs[i]
    BY <2>1, <2>2, GoesOnAt
  <2>4. row' = row
    BY <1>3 DEF Start
  <2> QED BY <2>1, <2>3, <2>4 DEF TextInv, Running
<1>4. ASSUME NEW j \in Jobs, Ensure(j)
      PROVE  TextInv'
  <2>1. PICK k \in Following(j) : GoesOn(j, k + 1, Filled(j, k)) /\ Store(Filled(j, k))
    BY <1>4 DEF Ensure, Carried
  <2>2. Filled(j, k) \in Rows /\ Filled(j, k).text = jobs[j].row.text /\ k + 1 \in Int
    BY FilledType, DomainDerived DEF Following, Missing
  <2>3. jobs'[j].row = Filled(j, k) /\ \A i \in Jobs \ {j} : jobs'[i] = jobs[i]
    BY <2>1, <2>2, GoesOnAt
  <2>4. Running' \subseteq Running /\ \A i \in Running' : jobs'[i].row.text = jobs[i].row.text
    BY <1>4, <2>2, <2>3 DEF Running, Ensure
  <2> QED BY <2>1, <2>4, StoreText
<1>5. ASSUME NEW j \in Jobs, Error(j)
      PROVE  TextInv'
  <2>1. PICK k \in Following(j) :
          \/ \E r \in {jobs[j].row, Filled(j, k)} : GoesOn(j, k + 1, r)
          \/ GoesOn(j, Done, jobs[j].row)
    BY <1>5 DEF Error, Carried
  <2>2. /\ jobs[j].row \in Rows /\ Filled(j, k) \in Rows
        /\ Filled(j, k).text = jobs[j].row.text /\ k + 1 \in Int /\ Done \in Int
    BY FilledType, DomainDerived DEF Following, Missing, Typed, Works
  <2>3. jobs'[j].row.text = jobs[j].row.text /\ \A i \in Jobs \ {j} : jobs'[i] = jobs[i]
    <3>1. ASSUME NEW a \in Int, NEW r \in {jobs[j].row, Filled(j, k)}, GoesOn(j, a, r)
          PROVE  jobs'[j].row.text = jobs[j].row.text /\ \A i \in Jobs \ {j} : jobs'[i] = jobs[i]
      <4>1. r \in Rows /\ r.text = jobs[j].row.text
        BY <2>2
      <4> QED BY <3>1, <4>1, GoesOnAt
    <3> QED BY <2>1, <2>2, <3>1
  <2> QED BY <1>5, <2>3 DEF TextInv, Running, Error
<1>6. ASSUME NEW j \in Jobs, Finish(j)
      PROVE  TextInv'
  <2>1. GoesOn(j, Done, jobs[j].row) /\ jobs[j].row \in Rows /\ Done \in Int
    BY <1>6, DomainDerived DEF Finish, Typed, Works
  <2>2. jobs'[j].at = Done /\ \A i \in Jobs \ {j} : jobs'[i] = jobs[i]
    BY <2>1, GoesOnAt
  <2> QED BY <1>6, <2>2, DomainDerived DEF TextInv, Running, Finish
<1>7. ASSUME NEW text, Update(text)
      PROVE  TextInv'
  <2>1. Store([form EXCEPT !.text = text]) /\ jobs' = jobs
    BY <1>7 DEF Update
  <2>2. Running' = Running
    BY <2>1 DEF Running
  <2> QED BY <2>1, <2>2, StoreText
<1>8. ASSUME Restart
      PROVE  TextInv'
  <2>1. ASSUME NEW j \in Jobs
        PROVE  jobs'[j].at \notin DOMAIN Derived
    <3>1. jobs'[j].at = IF jobs[j].at \in 1..Behind THEN Queued ELSE jobs[j].at
      BY <1>8 DEF Restart, Typed, Works
    <3> QED BY <3>1, DomainDerived DEF Typed, Works
  <2> QED BY <2>1 DEF TextInv, Running
<1>9. ASSUME UNCHANGED <<row, jobs, overlapped>>
      PROVE  TextInv'
  BY <1>9 DEF TextInv, Running
<1>10. CASE \E j \in Jobs, l \in Labels : Look(j, l) \/ Labelled(j, l) \/ NoAnswer(j, l)
  BY <1>9, <1>10 DEF Look, Labelled, NoAnswer
<1>11. CASE EditImage \/ UNCHANGED indexVars
  BY <1>9, <1>11 DEF EditImage, indexVars
<1> QED BY <1>1, <1>2, <1>3, <1>4, <1>5, <1>6, <1>7, <1>8, <1>10, <1>11 DEF IndexNext

\* In a step that moves a job that nobody has edited under, the row keeps its description.
LEMMA TextAction ==
  ASSUME Derived \in Seq(All), Typed, TextInv, [IndexNext]_indexVars,
         NEW j \in Running \ overlapped, jobs'[j].at # jobs[j].at
  PROVE  row'.text = row.text
<1>1. ASSUME NEW i \in Jobs, Ensure(i)
      PROVE  row'.text = row.text
  <2>1. PICK k \in Following(i) : GoesOn(i, k + 1, Filled(i, k)) /\ row' = Filled(i, k)
    BY <1>1 DEF Ensure, Carried, Store
  <2>2. Filled(i, k) \in Rows /\ Filled(i, k).text = jobs[i].row.text /\ k + 1 \in Int
    BY FilledType, DomainDerived DEF Following, Missing
  <2>3. i = j
    BY <2>1, <2>2, GoesOnAt DEF Running
  <2> QED BY <2>1, <2>2, <2>3 DEF TextInv
<1>2. ASSUME NEW i \in Jobs, AddFile(i)
      PROVE  FALSE
  <2>1. j # i
    BY <1>2, DomainDerived DEF AddFile, Running, Unused
  <2>2. jobs'[j] = jobs[j]
    BY <1>2, <2>1 DEF AddFile, Publish, Typed, Running
  <2> QED BY <2>2
<1>3. \/ row' = row \/ jobs' = jobs
      \/ \E i \in Jobs : Ensure(i) \/ AddFile(i)
  BY DEF IndexNext, indexVars, labels, IndexAlbum, Start, Error, Finish, Look, Labelled,
         NoAnswer, EditImage, Update, Restart
<1> QED BY <1>1, <1>2, <1>3

\* Index keeps what an administrator has written before it read the row, for any number of jobs.
THEOREM TextKept ==
  ASSUME Derived \in Seq(All), NEW ls, NEW b
  PROVE  IndexSpec(ls, b) => IndexKeepsText
<1>1. IndexInit(ls, b) => Typed /\ TextInv
  <2>1. Unused \notin DOMAIN Derived
    BY DomainDerived DEF Unused
  <2>2. IndexInit(ls, b) => Running = {}
    BY <2>1 DEF IndexInit, Running
  <2> QED BY <2>2, TypeInit DEF TextInv
<1>2. Typed /\ TextInv /\ [IndexNext]_indexVars => (Typed /\ TextInv)'
  BY TypeStep, TextStep
<1>3. Typed /\ TextInv /\ [IndexNext]_indexVars =>
        [\A j \in Running \ overlapped :
           jobs'[j].at # jobs[j].at => row'.text = row.text]_indexVars
  BY TextAction
<1> QED BY <1>1, <1>2, <1>3, PTL DEF IndexSpec, IndexKeepsText
-----------------------------------------------------------------------------
(* The columns *)

\* Job j will fill in what the row misses.
Pending(j) ==
  \/ jobs[j].at = Queued
  \/ jobs[j].at \in 1..Behind /\ jobs[j].row.cols # All

\* A job has the columns that are before it.
Before ==
  \A j \in Jobs : jobs[j].at \in 1..Behind =>
    \A k \in DOMAIN Derived : k < jobs[j].at => Derived[k] \in jobs[j].row.cols

\* As long as the row is not complete, somebody is pending, unless nobody has published a job.
Cared ==
  \/ row.cols = All
  \/ \A j \in Jobs : jobs[j].at = Unused
  \/ \E j \in Jobs : Pending(j)

ReadyInv == skipped \/ (Before /\ Cared)

\* Nobody who publishes, restarts or leaves the jobs alone disturbs it, if the row is complete
\* or stays as it is.
LEMMA ReadyQuiet ==
  ASSUME Before, Cared, row' = row \/ row'.cols = All, UNCHANGED jobs
  PROVE  (Before /\ Cared)'
BY DEF Before, Cared, Pending

LEMMA ReadyPublish ==
  ASSUME Derived \in Seq(All), Typed, Before, NEW j \in Jobs, NEW r, NEW redo, Publish(j, r, redo)
  PROVE  (Before /\ Cared)'
<1>1. jobs'[j].at = Queued /\ \A i \in Jobs \ {j} : jobs'[i] = jobs[i]
  BY DEF Publish, Typed
<1>2. Before'
  BY <1>1, DomainDerived DEF Before, Queued
<1> QED BY <1>1, <1>2 DEF Cared, Pending

LEMMA ReadyStart ==
  ASSUME Derived \in Seq(All), Typed, Before, NEW j \in Jobs, GoesOn(j, 1, row), row' = row
  PROVE  (Before /\ Cared)'
<1>1. row \in Rows /\ 1 \in Int
  BY DEF Typed
<1>2. jobs'[j].at = 1 /\ jobs'[j].row = row /\ \A i \in Jobs \ {j} : jobs'[i] = jobs[i]
  BY <1>1, GoesOnAt
<1>3. Before'
  BY <1>2, DomainDerived DEF Before
<1>4. 1 \in 1..Behind
  BY DomainDerived
<1> QED BY <1>2, <1>3, <1>4 DEF Cared, Pending

\* What a job skips it has already.
LEMMA ReadyEnsure ==
  ASSUME Derived \in Seq(All), Typed, Before, NEW j \in Running, NEW k \in Following(j),
         GoesOn(j, k + 1, Filled(j, k)), row' = Filled(j, k)
  PROVE  (Before /\ Cared)'
<1>1. j \in Jobs /\ jobs[j].at \in DOMAIN Derived
  BY DEF Running
<1>2. k \in 1..Len(Derived) /\ Len(Derived) \in Nat /\ k + 1 \in Int /\ jobs[j].at \in 1..Behind
  BY <1>1, DomainDerived DEF Following, Missing
<1>3. Filled(j, k) \in Rows /\ Filled(j, k).cols = jobs[j].row.cols \cup {Derived[k]}
  BY <1>1, FilledType
<1>4. jobs'[j].at = k + 1 /\ jobs'[j].row = Filled(j, k)
      /\ \A i \in Jobs \ {j} : jobs'[i] = jobs[i]
  BY <1>1, <1>2, <1>3, GoesOnAt
<1>5. ASSUME NEW n \in DOMAIN Derived, n < k + 1
      PROVE  Derived[n] \in Filled(j, k).cols
  <2>1. n \in Int /\ Derived[n] \in All
    BY DomainDerived DEF All
  <2>2. CASE n = k
    BY <1>3, <2>2
  <2>3. CASE n < jobs[j].at
    BY <1>1, <1>2, <1>3, <2>3 DEF Before
  <2>4. CASE n >= jobs[j].at /\ n # k
    <3>1. n \notin Missing(j)
      BY <1>2, <1>5, <2>1, <2>4, DomainDerived DEF Following
    <3> QED BY <1>3, <2>1, <2>4, <3>1 DEF Missing
  <2> QED BY <1>1, <2>1, <2>2, <2>3, <2>4, DomainDerived
<1>6. Before'
  BY <1>4, <1>5 DEF Before
<1>7. k + 1 \in 1..Behind
  BY <1>2, DomainDerived
<1> QED BY <1>1, <1>4, <1>6, <1>7 DEF Cared, Pending

\* A job that finishes has all columns: it was not the one that the row waits for.
LEMMA ReadyFinish ==
  ASSUME Derived \in Seq(All), Typed, Before, Cared, NEW j \in Jobs, Finish(j)
  PROVE  (Before /\ Cared)'
<1>1. jobs[j].row \in Rows /\ jobs[j].at \in Int /\ Done \in Int /\ row' = row
  BY DomainDerived DEF Typed, Works, Finish
<1>2. jobs'[j].at = Done /\ \A i \in Jobs \ {j} : jobs'[i] = jobs[i]
  BY <1>1, GoesOnAt DEF Finish
<1>3. Before'
  BY <1>2, DomainDerived DEF Before
<1>4. jobs[j].at \in 1..Behind
  BY <1>1, DomainDerived DEF Finish
<1>5. ASSUME NEW n \in DOMAIN Derived
      PROVE  Derived[n] \in jobs[j].row.cols
  <2>1. n \in Int /\ Derived[n] \in All
    BY DomainDerived DEF All
  <2>2. CASE n < jobs[j].at
    BY <1>4, <2>2 DEF Before
  <2>3. CASE n >= jobs[j].at
    BY <2>1, <2>3 DEF Finish, Missing
  <2> QED BY <1>1, <2>1, <2>2, <2>3
<1>6. jobs[j].row.cols = All
  BY <1>1, <1>5 DEF Rows, All
<1>7. ~Pending(j) /\ jobs[j].at # Unused
  BY <1>4, <1>6, DomainDerived DEF Pending, Queued, Unused
<1> QED BY <1>1, <1>2, <1>3, <1>7 DEF Cared, Pending

LEMMA ReadyRestart ==
  ASSUME Derived \in Seq(All), Typed, Before, Cared, Restart
  PROVE  (Before /\ Cared)'
<1>1. \A j \in Jobs : jobs'[j].at = IF jobs[j].at \in 1..Behind THEN Queued ELSE jobs[j].at
  BY DEF Restart, Typed, Works
<1>2. Before'
  BY <1>1, DomainDerived DEF Before, Queued
<1>3. row' = row
  BY DEF Restart
<1>4. ASSUME NEW j \in Jobs, Pending(j)
      PROVE  Pending(j)'
  BY <1>1, <1>4 DEF Pending
<1>5. ASSUME NEW j \in Jobs, jobs[j].at = Unused
      PROVE  jobs'[j].at = Unused
  BY <1>1, <1>5, DomainDerived DEF Unused
<1> QED BY <1>2, <1>3, <1>4, <1>5 DEF Cared

LEMMA ReadyStep ==
  ASSUME Derived \in Seq(All), Typed, ReadyInv, [IndexNext]_indexVars
  PROVE  ReadyInv'
<1>1. skipped => skipped'
  BY DEF IndexNext, indexVars, labels, IndexAlbum, AddFile, Start, Ensure, Error, Finish, Look,
         Labelled, NoAnswer, EditImage, Update, Restart
<1> SUFFICES ASSUME ~skipped'
             PROVE  (Before /\ Cared)'
  BY DEF ReadyInv
<1>2. Before /\ Cared
  BY <1>1 DEF ReadyInv
<1>3. ASSUME NEW j \in Jobs, NEW redo, IndexAlbum(j, redo)
      PROVE  (Before /\ Cared)'
  BY <1>2, <1>3, ReadyPublish DEF IndexAlbum
<1>4. ASSUME NEW j \in Jobs, AddFile(j)
      PROVE  (Before /\ Cared)'
  BY <1>2, <1>4, ReadyPublish DEF AddFile
<1>5. ASSUME NEW j \in Jobs, Start(j)
      PROVE  (Before /\ Cared)'
  BY <1>2, <1>5, ReadyStart DEF Start, Reloaded
<1>6. ASSUME NEW j \in Jobs, Ensure(j)
      PROVE  (Before /\ Cared)'
  BY <1>2, <1>6, ReadyEnsure DEF Ensure, Carried, Store
<1>7. ASSUME NEW j \in Jobs, Finish(j)
      PROVE  (Before /\ Cared)'
  BY <1>2, <1>7, ReadyFinish
<1>8. ASSUME NEW text, Update(text)
      PROVE  (Before /\ Cared)'
  <2>1. form.cols = All /\ row' = [form EXCEPT !.text = text] /\ UNCHANGED jobs
    BY <1>8 DEF Update, Store
  <2>2. form \in Rows
    BY <1>8 DEF Update, Typed
  <2>3. row'.cols = All
    BY <2>1, <2>2 DEF Rows
  <2> QED BY <1>2, <2>1, <2>3, ReadyQuiet
<1>9. ASSUME UNCHANGED <<row, jobs>>
      PROVE  (Before /\ Cared)'
  BY <1>2, <1>9, ReadyQuiet
<1>10. CASE \E j \in Jobs, l \in Labels : Look(j, l) \/ Labelled(j, l) \/ NoAnswer(j, l)
  BY <1>9, <1>10 DEF Look, Labelled, NoAnswer
<1>11. CASE EditImage \/ UNCHANGED indexVars
  BY <1>9, <1>11 DEF EditImage, indexVars
<1>12. CASE Restart
  BY <1>2, <1>12, ReadyRestart
<1>13. CASE \E j \in Jobs : Error(j)
  BY <1>13 DEF Error
<1> QED BY <1>3, <1>4, <1>5, <1>6, <1>7, <1>8, <1>10, <1>11, <1>12, <1>13 DEF IndexNext

\* When the jobs are through, and no error was logged, the image has all columns, for any number
\* of jobs, edits, additions and restarts.
THEOREM Ready ==
  ASSUME Derived \in Seq(All), NEW ls, NEW b
  PROVE  IndexSpec(ls, b) => []ReadyAtRest
<1>1. IndexInit(ls, b) => Typed /\ ReadyInv
  <2>1. Unused \notin 1..Behind
    BY DomainDerived DEF Unused
  <2>2. IndexInit(ls, b) => \A j \in Jobs : jobs[j].at = Unused
    BY DEF IndexInit
  <2> QED BY <2>1, <2>2, TypeInit DEF ReadyInv, Before, Cared
<1>2. Typed /\ ReadyInv /\ [IndexNext]_indexVars => (Typed /\ ReadyInv)'
  BY TypeStep, ReadyStep
<1>3. ReadyInv => ReadyAtRest
  <2>1. Done # Unused /\ Done # Queued /\ Unused # Queued /\ Done \notin 1..Behind
        /\ Unused \notin 1..Behind
    BY DomainDerived DEF Unused, Queued
  <2> QED BY <2>1 DEF ReadyInv, Cared, Pending, ReadyAtRest
<1> QED BY <1>1, <1>2, <1>3, PTL DEF IndexSpec
=============================================================================
