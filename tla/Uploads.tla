------------------------------- MODULE Uploads -------------------------------
(***************************************************************************)
(* Uploads to an album: beforeUploadRequest of resources/static/           *)
(* album_extra.js in the browser, processUpload of                         *)
(* internal/infra/upload/tus.go and AddFile of                             *)
(* internal/infra/files/processor.go on the server.                        *)
(*                                                                         *)
(* Uppy (external) sends the chosen files one after the other.  When the   *)
(* last byte of a file is there, tusd (external) hands it to a goroutine   *)
(* that processes one file at a time; the answer to the browser waits      *)
(* until the goroutine has taken the file, not until it has processed it.  *)
(* An image that comes with thumbnails, files of the same name in folders  *)
(* called after their sizes, is announced with their sizes, and is indexed *)
(* when the last of them is stored.                                        *)
(*                                                                         *)
(* Abstracted.  Site files and GPX tracks; files that AddFile skips; the   *)
(* check of the collaboration key; what is in a file.                      *)
(***************************************************************************)
EXTENDS Integers, FiniteSets

CONSTANTS
  Photos,      \* names of images
  Sizes        \* of thumbnails

Image == "image"

ASSUME UploadsAssumption == Image \notin Sizes

VARIABLES
  chosen,      \* the files that Uppy has
  todo,        \* those that it has not sent
  event,       \* CompleteUploads: the file that waits to be taken, with its header
  work,        \* the file that is processed, with the step that comes next
  thumbWait,   \* [path -> [img, thumbsLeft]]
  rows,        \* images with a row in table image
  inAlbum,     \* images of the album
  thumbRows,   \* <<image, size>> in table thumb
  published,   \* images with an index job since they were processed last
  excused,     \* history: images that a fault or a crash kept from their index job
  disturbed,   \* history: a fault, a crash, or a thumbnail that was processed before its image
  trouble      \* how many rounds, faults and crashes are left

uploadVars == <<chosen, todo, event, work, thumbWait, rows, inAlbum, thumbRows, published, excused,
                disturbed, trouble>>
tables == <<rows, inAlbum, thumbRows>>

File(p, s) == [img |-> p, size |-> s]
Files == {File(p, s) : p \in Photos, s \in Sizes \cup {Image}}
NoFile == << >>
NoHash == "0"

Strike(what) == trouble[what] > 0 /\ trouble' = [trouble EXCEPT ![what] = @ - 1]
-----------------------------------------------------------------------------
(* The browser *)

\* beforeUploadRequest: the sizes that are announced with a file.
Expected(f) == IF f.size = Image THEN {s \in Sizes : File(f.img, s) \in chosen} ELSE {}

\* The file has arrived, by the last request.
Arrive(f) ==
  /\ event = NoFile
  /\ todo' = todo \ {f}
  /\ event' = [file |-> f, expected |-> Expected(f)]
  /\ UNCHANGED <<chosen, work, thumbWait, tables, published, excused, disturbed, trouble>>

\* The page is loaded again, files are chosen again.
Choose(files) ==
  /\ todo = {} /\ event = NoFile
  /\ Strike("round")
  /\ chosen' = files /\ todo' = files
  /\ UNCHANGED <<event, work, thumbWait, tables, published, excused, disturbed>>
-----------------------------------------------------------------------------
(* The server *)

\* The goroutine takes the next file.
Take ==
  /\ work = NoFile /\ event # NoFile
  /\ work' = [at |-> IF event.file.size = Image THEN "rename" ELSE "thumb",
              file |-> event.file, expected |-> event.expected]
  /\ event' = NoFile
  /\ IF event.file.size = Image
     THEN published' = published \ {event.file.img} /\ excused' = excused \ {event.file.img}
     ELSE UNCHANGED <<published, excused>>
  /\ UNCHANGED <<chosen, todo, thumbWait, tables, disturbed, trouble>>

\* Where a file would be in the album: its name and the hash of its content, whether of an
\* image or of a thumbnail.
FilePath(f) == [name |-> f.img, content |-> f]

NoWaiter == [img |-> NoHash, thumbsLeft |-> {}]
Waiter(path) == IF path \in DOMAIN thumbWait THEN thumbWait[path] ELSE NoWaiter

\* AddThumbnail: a record without a hash is refused (Add, shared.go:245-247), which is only
\* logged: AddThumbnail does not look at the Thumbnailer's error.
AddThumbnail(hash, size) == IF hash = NoHash THEN thumbRows ELSE thumbRows \cup {<<hash, size>>}

Thumbnail ==
  /\ work # NoFile /\ work.at = "thumb"
  /\ work' = NoFile
  /\ LET path == FilePath(work.file)
         tw == [Waiter(path) EXCEPT !.thumbsLeft = @ \ {work.file.size}]
     IN /\ thumbRows' = AddThumbnail(tw.img, work.file.size)
        /\ IF tw.thumbsLeft = {}
           THEN /\ thumbWait' = [q \in DOMAIN thumbWait \ {path} |-> thumbWait[q]]
                /\ published' = published \cup ({tw.img} \ {NoHash})
           ELSE thumbWait' = [thumbWait EXCEPT ![path] = tw] /\ UNCHANGED published
  /\ disturbed' = (disturbed \/ work.file.img \notin rows)
  /\ UNCHANGED <<chosen, todo, event, rows, inAlbum, excused, trouble>>

\* Mutant: every image waits for thumbnails, with none expected too.
WaitForThumbs(e) == TRUE

\* len(tw.thumbsLeft) > 0.
HasToWait(e) == e # {}

\* An image, step by step: its next step.
Step(at) ==
  /\ work # NoFile /\ work.at = at
  /\ UNCHANGED <<chosen, todo, event, thumbRows>>

GoOn(at, next) ==
  /\ Step(at)
  /\ work' = [work EXCEPT !.at = next]
  /\ UNCHANGED <<thumbWait, published, excused, disturbed, trouble>>

\* An error: it is only logged.
Fail ==
  /\ \E at \in {"rename", "ensure", "add", "changed", "index"} : Step(at)
  /\ work.at = "index" => ~HasToWait(work.expected)
  /\ Strike("fault")
  /\ work' = NoFile
  /\ excused' = excused \cup {work.file.img}
  /\ disturbed' = TRUE
  /\ UNCHANGED <<thumbWait, rows, inAlbum, published>>

Rename == GoOn("rename", "ensure") /\ UNCHANGED <<rows, inAlbum>>

EnsureImage ==
  /\ GoOn("ensure", "add")
  /\ rows' = rows \cup {work.file.img}
  /\ UNCHANGED inAlbum

AddImages ==
  /\ GoOn("add", "changed")
  /\ inAlbum' = inAlbum \cup {work.file.img}
  /\ UNCHANGED rows

\* AlbumChanged, deferred.
Announce == GoOn("changed", "index") /\ UNCHANGED <<rows, inAlbum>>

\* The image waits for its thumbnails, or its index job is published.
Index ==
  /\ Step("index")
  /\ work' = NoFile
  /\ IF HasToWait(work.expected)
     THEN /\ thumbWait' = [q \in DOMAIN thumbWait \cup {FilePath(work.file)} |->
                            IF q = FilePath(work.file)
                            THEN [img |-> work.file.img, thumbsLeft |-> work.expected]
                            ELSE thumbWait[q]]
          /\ UNCHANGED published
     ELSE published' = published \cup {work.file.img} /\ UNCHANGED thumbWait
  /\ UNCHANGED <<rows, inAlbum, excused, disturbed, trouble>>

\* The process ends.  A file that had arrived is complete for tusd: Uppy goes on with the next.
ServerStops ==
  /\ Strike("crash")
  /\ event' = NoFile /\ work' = NoFile /\ thumbWait' = << >>
  /\ excused' = excused \cup {thumbWait[q].img : q \in DOMAIN thumbWait}
                        \cup (IF work = NoFile THEN {} ELSE {work.file.img})
                        \cup (IF event = NoFile THEN {} ELSE {event.file.img})
  /\ disturbed' = TRUE
  /\ UNCHANGED <<chosen, todo, tables, published>>
-----------------------------------------------------------------------------
\* Files are chosen; b is what may happen then.
UploadInit(files, b) ==
  /\ chosen = files /\ todo = files
  /\ event = NoFile /\ work = NoFile /\ thumbWait = << >>
  /\ rows = {} /\ inAlbum = {} /\ thumbRows = {} /\ published = {}
  /\ excused = {} /\ disturbed = FALSE
  /\ trouble = b

UploadNext ==
  \/ \E f \in todo : Arrive(f)
  \/ \E files \in SUBSET Files : Choose(files)
  \/ Take \/ Thumbnail \/ Rename \/ EnsureImage \/ AddImages \/ Announce \/ Index
  \/ Fail \/ ServerStops
-----------------------------------------------------------------------------
(* Properties *)

Busy(p) ==
  \/ event # NoFile /\ event.file = File(p, Image)
  \/ work # NoFile /\ work.file = File(p, Image)

\* An image that was uploaded to the album is indexed, unless a fault or a crash came between:
\* it has an index job, or waits for a thumbnail that was announced and is yet to be stored,
\* for each time it was uploaded.
StoredIsIndexed ==
  \A p \in inAlbum :
    \/ Busy(p) \/ p \in published \cup excused
    \/ \E q \in DOMAIN thumbWait :
         /\ thumbWait[q].img = p /\ thumbWait[q].thumbsLeft # {}
         /\ \A s \in thumbWait[q].thumbsLeft : <<p, s>> \notin thumbRows

\* "Key is album-name:file-name" (tus.go:89): thumbnails that come after their image find its
\* record, and the image is released when all that was chosen was processed without trouble.
ThumbsReleaseImage ==
  todo = {} /\ event = NoFile /\ work = NoFile /\ ~disturbed => thumbWait = << >>

=============================================================================
