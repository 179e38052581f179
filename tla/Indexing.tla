------------------------------ MODULE Indexing ------------------------------
(***************************************************************************)
(* The row and the metadata of one image under everybody who writes them:  *)
(* Index and its label goroutines (internal/infra/image/indexer.go), the   *)
(* form of the administrator (internal/usecase/control/edit_image.go,      *)
(* update_entity.go), uploads and directory imports that add an image that *)
(* is there already (internal/infra/files/processor.go), all through       *)
(* Ensure and Update of internal/infra/storage/hashed/shared.go.           *)
(*                                                                         *)
(* An index job reads the row once and then fills in one column after the  *)
(* other, with an UPDATE of all columns each time.  Up to ten jobs run at  *)
(* once, of one image too.  The goroutines it starts for labels ask a      *)
(* remote service and merge the answer into the metadata under the mutex   *)
(* of Ensure.                                                              *)
(*                                                                         *)
(* Abstracted.  The values of columns; thumbnails, exif and gps records.   *)
(* The description stands for all columns an administrator edits.          *)
(***************************************************************************)
EXTENDS Integers, Sequences, FiniteSets

CONSTANTS
  Derived,     \* filled in by Index, in this order
  Soft,        \* those whose errors Index only logs
  Labels,      \* kinds of labels
  Jobs,        \* index jobs of the image
  Texts        \* descriptions that an administrator enters

VARIABLES
  row,         \* [text, cols : columns that are filled in]
  jobs,        \* [Jobs -> [at, image : the payload, row : img, redo : columns that the flags clear]]
  form,        \* the row as the form of the administrator shows it
  meta,        \* [Labels -> how often], or NoMeta
  askers,      \* [Jobs \X Labels -> what the goroutine does, the record it read]
  enabled,     \* settings: kinds of labels
  overlapped,  \* history: jobs that the description was changed under
  skipped,     \* history: an error was logged, or a form without all columns was saved
  stored,      \* history: kinds that were stored
  chances      \* how many edits, faults, crashes and additions are left

indexVars == <<row, jobs, form, meta, askers, enabled, overlapped, skipped, stored, chances>>
labels == <<meta, askers, stored>>

All == {Derived[k] : k \in DOMAIN Derived}
NoText == "none"
Blank == [text |-> NoText, cols |-> {}]
NoMeta == << >>
NoForm == << >>

\* Where a job is: not published, in the queue, before a column, behind the last one, finished.
Unused == -1
Queued == 0
Behind == Len(Derived) + 1
Done == Behind + 1
Running == {j \in Jobs : jobs[j].at \in DOMAIN Derived}

Idle == [does |-> "nothing", read |-> NoMeta]

Use(what) == chances[what] > 0 /\ chances' = [chances EXCEPT ![what] = @ - 1]

\* UPDATE image SET all columns.
Store(r) ==
  /\ row' = r
  /\ overlapped' = IF r.text = row.text THEN overlapped ELSE overlapped \cup Running
-----------------------------------------------------------------------------
(* Who publishes jobs, and who edits *)

Publish(j, r, redo) ==
  jobs' = [jobs EXCEPT ![j] = [at |-> Queued, image |-> r, row |-> r, redo |-> redo]]

\* IndexAlbum, with flags.
IndexAlbum(j, redo) ==
  /\ jobs[j].at = Unused /\ Use("add")
  /\ Publish(j, row, redo)
  /\ UNCHANGED <<row, form, enabled, overlapped, skipped, labels>>

\* AddFile of an image that is there already: Ensure writes a row of path and size only.
AddFile(j) ==
  /\ jobs[j].at = Unused /\ Use("add")
  /\ Store(Blank)
  /\ Publish(j, Blank, {})
  /\ UNCHANGED <<form, enabled, skipped, labels>>

\* The administrator opens the form, and saves it: PUT /image.
EditImage ==
  /\ form = NoForm /\ Use("edit")
  /\ form' = row
  /\ UNCHANGED <<row, jobs, enabled, overlapped, skipped, labels>>

Update(text) ==
  /\ form # NoForm
  /\ form' = NoForm
  /\ Store([form EXCEPT !.text = text])
  /\ skipped' = (skipped \/ form.cols # All)
  /\ UNCHANGED <<jobs, enabled, labels, chances>>
-----------------------------------------------------------------------------
(* Index *)

\* Mutant: Index works on the image of the job.
ReloadNothing(j) == jobs[j].image

\* FindByHash: the row as it is now.
Reloaded(j) == row

\* Job j goes on with row r.
GoesOn(j, at, r) ==
  jobs' = [jobs EXCEPT ![j] = [at |-> at, image |-> @.image, row |-> r, redo |-> @.redo]]

\* A job starts: with the row; when it cannot be read, with the image of the job.
Start(j) ==
  /\ jobs[j].at = Queued
  /\ \/ /\ GoesOn(j, 1, Reloaded(j))
        /\ overlapped' = overlapped \ {j}
        /\ UNCHANGED <<skipped, chances>>
     \/ /\ Use("fault")
        /\ GoesOn(j, 1, jobs[j].image)
        /\ overlapped' = overlapped \cup {j}
        /\ skipped' = TRUE
  /\ UNCHANGED <<row, form, enabled, labels>>

\* The columns that are still to be filled in.
Missing(j) == {k \in DOMAIN Derived : /\ k >= jobs[j].at
                                      /\ Derived[k] \in (All \ jobs[j].row.cols) \cup jobs[j].redo}

\* The first of them.
Following(j) == {k \in Missing(j) : \A n \in Missing(j) : k <= n}

Filled(j, k) == [jobs[j].row EXCEPT !.cols = @ \cup {Derived[k]}]

\* Mutant: img is passed by value.
KeepRow(j, k) == jobs[j].row

\* img is a pointer: what comes next has the column too.
Carried(j, k) == Filled(j, k)

\* A column is worked out and all columns are written.
Ensure(j) ==
  /\ j \in Running
  /\ \E k \in Following(j) : GoesOn(j, k + 1, Carried(j, k)) /\ Store(Filled(j, k))
  /\ UNCHANGED <<form, enabled, skipped, labels, chances>>

\* An error: of some columns it is logged, and img may have the column if it was the UPDATE that
\* failed; of others it ends the job, which the broker archives and does not try again.
Error(j) ==
  /\ j \in Running /\ Use("fault")
  /\ \E k \in Following(j) :
       IF Derived[k] \in Soft
       THEN \E r \in {jobs[j].row, Carried(j, k)} : GoesOn(j, k + 1, r)
       ELSE GoesOn(j, Done, jobs[j].row)
  /\ skipped' = TRUE
  /\ UNCHANGED <<row, form, enabled, overlapped, labels>>

\* Nothing is left to fill in: the goroutines for labels start.
Finish(j) ==
  /\ jobs[j].at >= 1 /\ jobs[j].at <= Behind /\ Missing(j) = {}
  /\ GoesOn(j, Done, jobs[j].row)
  /\ askers' = [askers EXCEPT ![j] =
                 [l \in Labels |-> [Idle EXCEPT !.does = IF l \in enabled THEN "starts" ELSE @]]]
  /\ UNCHANGED <<row, form, meta, enabled, overlapped, skipped, stored, chances>>

\* The process ends: the broker delivers again what was not finished.
Restart ==
  /\ Use("crash")
  /\ jobs' = [j \in Jobs |-> [jobs[j] EXCEPT !.at = IF @ \in 1..Behind THEN Queued ELSE @]]
  /\ askers' = [j \in Jobs |-> [l \in Labels |-> Idle]]
  /\ UNCHANGED <<row, form, meta, enabled, overlapped, skipped, stored>>
-----------------------------------------------------------------------------
(* Labels *)

Has(m, l) == m # NoMeta /\ m[l] > 0

\* The goroutine reads the metadata: nothing to do if the label is there.
Look(j, l) ==
  /\ askers[j][l].does = "starts"
  /\ askers' = [askers EXCEPT ![j][l] =
                 IF Has(meta, l) THEN Idle ELSE [does |-> "asks", read |-> meta]]
  /\ UNCHANGED <<row, jobs, form, meta, enabled, overlapped, skipped, stored, chances>>

Plus(m, l) == [k \in Labels |-> (IF m = NoMeta THEN 0 ELSE m[k]) + (IF k = l THEN 1 ELSE 0)]

\* Mutant: Ensure without Prepare writes what was read.
MergedIntoRead(read, l) == Plus(read, l)

\* Prepare: the label is added to the record as it is now, faces and the place once.
Merged(read, l) ==
  LET m == IF meta = NoMeta THEN read ELSE meta IN
  IF l \in {"geo", "faces"} /\ Has(m, l) THEN m ELSE Plus(m, l)

\* The service has answered.  The goroutine of the place has not set the hash of a record that
\* it did not find: refused.
Labelled(j, l) ==
  /\ askers[j][l].does = "asks"
  /\ askers' = [askers EXCEPT ![j][l] = Idle]
  /\ IF l = "geo" /\ askers[j][l].read = NoMeta
     THEN UNCHANGED <<meta, stored>>
     ELSE meta' = Merged(askers[j][l].read, l) /\ stored' = stored \cup {l}
  /\ UNCHANGED <<row, jobs, form, enabled, overlapped, skipped, chances>>

\* The service, or a query, has failed.
NoAnswer(j, l) ==
  /\ askers[j][l].does # "nothing" /\ Use("fault")
  /\ askers' = [askers EXCEPT ![j][l] = Idle]
  /\ UNCHANGED <<row, jobs, form, meta, enabled, overlapped, skipped, stored>>
-----------------------------------------------------------------------------
\* The image was added and not indexed yet; ls are the labels that the settings enable, b is
\* what may happen.
IndexInit(ls, b) ==
  /\ row = Blank
  /\ jobs = [j \in Jobs |-> [at |-> Unused, image |-> Blank, row |-> Blank, redo |-> {}]]
  /\ form = NoForm
  /\ meta = NoMeta /\ askers = [j \in Jobs |-> [l \in Labels |-> Idle]]
  /\ enabled = ls
  /\ overlapped = {} /\ skipped = FALSE /\ stored = {}
  /\ chances = b

IndexNext ==
  \/ \E j \in Jobs : \/ \E redo \in {{}} \cup {{c} : c \in All \ Soft} : IndexAlbum(j, redo)
                     \/ AddFile(j) \/ Start(j) \/ Ensure(j) \/ Error(j) \/ Finish(j)
                     \/ \E l \in Labels : Look(j, l) \/ Labelled(j, l) \/ NoAnswer(j, l)
  \/ EditImage
  \/ \E text \in Texts : Update(text)
  \/ Restart
-----------------------------------------------------------------------------
(* Properties *)

\* A job changes the description only if somebody else changed it after the job had read the
\* row (TestIndexer_ReloadsCurrentImageBeforeUpdating, indexer_test.go:24, for jobs that were
\* published before the edit).
IndexKeepsText ==
  [][\A j \in Running \ overlapped :
       jobs'[j].at # jobs[j].at => row'.text = row.text]_indexVars

\* When all jobs have finished and no error was logged, the image is ready, with all columns,
\* however the jobs, additions of the same image and edits of complete rows were interleaved.
ReadyAtRest ==
  /\ \A j \in Jobs : jobs[j].at \in {Unused, Done}
  /\ \E j \in Jobs : jobs[j].at = Done
  /\ ~skipped
  => row.cols = All

\* No goroutine loses the label of another: a label that was stored stays.
LabelsKept == \A l \in stored : Has(meta, l)

=============================================================================
