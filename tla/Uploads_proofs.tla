---------------------------- MODULE Uploads_proofs ----------------------------
(***************************************************************************)
(* Proofs about Uploads: for any images and sizes, any number of choices   *)
(* of files, faults and stops of the server.                               *)
(***************************************************************************)
EXTENDS Uploads, TLAPS

UploadSpec(files, b) == UploadInit(files, b) /\ [][UploadNext]_uploadVars

ImageSteps == {"rename", "ensure", "add", "changed", "index"}

Events == [file : Files, expected : SUBSET Sizes]

\* Only images take the steps of an image, and only they are announced with thumbnails.
Works == {w \in [at : ImageSteps \cup {"thumb"}, file : Files, expected : SUBSET Sizes] :
            w.at = "thumb" <=> w.file.size # Image}

Typed ==
  /\ chosen \subseteq Files /\ todo \subseteq Files
  /\ event = NoFile \/ event \in Events
  /\ work = NoFile \/ work \in Works

\* The record an image waits in is under its own name and its own hash: no thumbnail finds it.
UnderImages ==
  /\ \A q \in DOMAIN thumbWait :
       q.content.size = Image /\ thumbWait[q].img = q.name /\ q.content.img = q.name
  /\ thumbRows = {}

\* Who waits, waits for something.
Waiting(p) == \E q \in DOMAIN thumbWait : thumbWait[q].img = p /\ thumbWait[q].thumbsLeft # {}

Cared == \A p \in inAlbum : Busy(p) \/ p \in published \cup excused \/ Waiting(p)

UploadInv == Typed /\ UnderImages /\ Cared
-----------------------------------------------------------------------------
(* Files and places *)

\* A place that is taken is not free.
LEMMA Taken ==
  (\A w \in Works : w # NoFile) /\ (\A e \in Events : e # NoFile)
<1>1. DOMAIN NoFile = {}
  BY DEF NoFile
<1>2. ASSUME NEW w \in Works PROVE w # NoFile
  <2>1. DOMAIN w = {"at", "file", "expected"}
    BY DEF Works
  <2>2. QED  BY <1>1, <2>1
<1>3. ASSUME NEW e \in Events PROVE e # NoFile
  <2>1. DOMAIN e = {"file", "expected"}
    BY DEF Events
  <2>2. QED  BY <1>1, <2>1
<1>4. QED  BY <1>2, <1>3

\* A file of the size Image is the image itself.
LEMMA FileIs ==
  ASSUME NEW f \in Files
  PROVE  /\ f.size = Image => f = File(f.img, Image)
         /\ f.size \in Sizes \cup {Image} /\ f.img \in Photos
BY DEF Files, File

LEMMA FileParts ==
  \A p, s : File(p, s).img = p /\ File(p, s).size = s
BY DEF File

\* What the work is: a taken place, with the step of its file.
LEMMA AtWork ==
  ASSUME Typed, work # NoFile
  PROVE  /\ work \in Works /\ work.at \in ImageSteps \cup {"thumb"}
         /\ work.file \in Files /\ work.expected \in SUBSET Sizes
         /\ work.at = "thumb" <=> work.file.size # Image
BY DEF Typed, Works

\* An image goes on to its next step.
LEMMA NextStep ==
  ASSUME Typed, NEW at \in ImageSteps, NEW next \in ImageSteps, GoOn(at, next)
  PROVE  /\ work # NoFile /\ work' \in Works /\ work' # NoFile
         /\ work'.file = work.file /\ work.file = File(work.file.img, Image)
<1>1. work # NoFile /\ work.at = at /\ work' = [work EXCEPT !.at = next]
  BY DEF GoOn, Step
<1>2. at # "thumb" /\ next # "thumb"
  BY DEF ImageSteps
<1>3. work \in [at : ImageSteps \cup {"thumb"}, file : Files, expected : SUBSET Sizes]
      /\ work.file.size = Image
  BY <1>1, <1>2, AtWork DEF Works
<1>4. work' \in [at : ImageSteps \cup {"thumb"}, file : Files, expected : SUBSET Sizes]
      /\ work'.file = work.file /\ work'.at = next
  BY <1>1, <1>3
<1>5. work' \in Works
  BY <1>2, <1>3, <1>4 DEF Works
<1>6. work.file = File(work.file.img, Image)
  BY <1>3, FileIs, AtWork, <1>1
<1>7. QED  BY <1>1, <1>4, <1>5, <1>6, Taken
-----------------------------------------------------------------------------
(* Steps *)

LEMMA TypedStep ==
  ASSUME Typed, UploadNext
  PROVE  Typed'
<1>1. ASSUME NEW f \in todo, Arrive(f) PROVE Typed'
  <2>1. Expected(f) \in SUBSET Sizes
    BY DEF Expected
  <2>2. event' \in Events
    BY <1>1, <2>1 DEF Arrive, Events, Typed
  <2>3. QED  BY <1>1, <2>2 DEF Arrive, Typed
<1>2. ASSUME NEW files \in SUBSET Files, Choose(files) PROVE Typed'
  BY <1>2 DEF Choose, Typed
<1>3. ASSUME Take PROVE Typed'
  <2>1. event \in Events
    BY <1>3 DEF Take, Typed
  <2>2. event.file \in Files /\ event.expected \in SUBSET Sizes
    BY <2>1 DEF Events
  <2>3. work' \in Works
    BY <1>3, <2>2 DEF Take, Works, ImageSteps
  <2>4. QED  BY <1>3, <2>3 DEF Take, Typed
<1>4. ASSUME NEW at \in ImageSteps, NEW next \in ImageSteps, GoOn(at, next) PROVE Typed'
  BY <1>4, NextStep DEF GoOn, Step, Typed
<1>5. CASE Thumbnail
  BY <1>5 DEF Thumbnail, Typed
<1>6. CASE Index
  BY <1>6 DEF Index, Step, Typed
<1>7. CASE Fail
  BY <1>7 DEF Fail, Step, Typed
<1>8. CASE ServerStops
  BY <1>8 DEF ServerStops, Typed
<1>9. QED
  BY <1>1, <1>2, <1>3, <1>4, <1>5, <1>6, <1>7, <1>8
  DEF UploadNext, Rename, EnsureImage, AddImages, Announce, ImageSteps

\* A thumbnail never finds a record, and is refused.
LEMMA Refused ==
  ASSUME Typed, UnderImages, Thumbnail
  PROVE  /\ thumbRows' = thumbRows /\ published' = published
         /\ DOMAIN thumbWait' = DOMAIN thumbWait
         /\ \A q \in DOMAIN thumbWait : thumbWait'[q] = thumbWait[q]
<1>1. work.file.size # Image
  BY AtWork DEF Thumbnail
<1>2. FilePath(work.file) \notin DOMAIN thumbWait
  BY <1>1 DEF UnderImages, FilePath
<1>3. Waiter(FilePath(work.file)) = NoWaiter
  BY <1>2 DEF Waiter
<1>4. /\ [NoWaiter EXCEPT !.thumbsLeft = @ \ {work.file.size}].img = NoHash
      /\ [NoWaiter EXCEPT !.thumbsLeft = @ \ {work.file.size}].thumbsLeft = {}
  BY DEF NoWaiter
<1>5. thumbRows' = thumbRows
  BY <1>3, <1>4 DEF Thumbnail, AddThumbnail
<1>6. /\ thumbWait' = [q \in DOMAIN thumbWait \ {FilePath(work.file)} |-> thumbWait[q]]
      /\ published' = published \cup ({NoHash} \ {NoHash})
  BY <1>3, <1>4 DEF Thumbnail
<1>7. QED  BY <1>2, <1>5, <1>6

\* The record of an image that begins to wait.
LEMMA Waits ==
  ASSUME Typed, Index, HasToWait(work.expected)
  PROVE  /\ DOMAIN thumbWait' = DOMAIN thumbWait \cup {FilePath(work.file)}
         /\ thumbWait'[FilePath(work.file)].img = work.file.img
         /\ thumbWait'[FilePath(work.file)].thumbsLeft = work.expected
         /\ \A q \in DOMAIN thumbWait : q # FilePath(work.file) => thumbWait'[q] = thumbWait[q]
         /\ work.file = File(work.file.img, Image)
<1>1. work # NoFile /\ work.at = "index"
  BY DEF Index, Step
<1>2. work.file = File(work.file.img, Image)
  BY <1>1, AtWork, FileIs
<1>3. thumbWait' = [q \in DOMAIN thumbWait \cup {FilePath(work.file)} |->
                     IF q = FilePath(work.file)
                     THEN [img |-> work.file.img, thumbsLeft |-> work.expected]
                     ELSE thumbWait[q]]
  BY DEF Index
<1>4. QED  BY <1>2, <1>3

LEMMA UnderStep ==
  ASSUME Typed, UnderImages, UploadNext
  PROVE  UnderImages'
<1>1. CASE Thumbnail
  BY <1>1, Refused, Zenon DEF UnderImages
<1>2. CASE Index
  <2>1. CASE HasToWait(work.expected)
    <3>1. FilePath(work.file).name = work.file.img /\ FilePath(work.file).content = work.file
      BY DEF FilePath
    <3>2. work.file.size = Image
      BY <1>2, <2>1, Waits, FileParts
    <3>3. QED  BY <1>2, <2>1, <3>1, <3>2, Waits DEF UnderImages, Index, Step
  <2>2. CASE ~HasToWait(work.expected)
    BY <1>2, <2>2 DEF Index, Step, UnderImages
  <2>3. QED  BY <2>1, <2>2
<1>3. CASE ServerStops
  <2>1. DOMAIN thumbWait' = {}
    BY <1>3 DEF ServerStops
  <2>2. QED  BY <1>3, <2>1 DEF ServerStops, UnderImages, tables
<1>4. CASE Take \/ (\E f \in todo : Arrive(f)) \/ (\E files \in SUBSET Files : Choose(files))
  BY <1>4 DEF Take, Arrive, Choose, UnderImages, tables
<1>5. CASE Rename \/ EnsureImage \/ AddImages \/ Announce \/ Fail
  BY <1>5 DEF Rename, EnsureImage, AddImages, Announce, Fail, GoOn, Step, UnderImages
<1>6. QED  BY <1>1, <1>2, <1>3, <1>4, <1>5 DEF UploadNext
-----------------------------------------------------------------------------
(* Every image of the album is cared for *)

\* The steps of an image before its last.
LEMMA CaredOnTheWay ==
  ASSUME Typed, Cared, NEW at \in ImageSteps, NEW next \in ImageSteps, GoOn(at, next),
         inAlbum' \subseteq inAlbum \cup {work.file.img}
  PROVE  Cared'
<1>1. UNCHANGED <<event, thumbWait, published, excused>>
  BY DEF GoOn, Step
<1>2. \A p : Busy(p) => Busy(p)'
  BY <1>1, NextStep DEF Busy
<1>3. \A p : p = work.file.img => Busy(p)'
  BY NextStep DEF Busy
<1>4. \A p : Waiting(p) => Waiting(p)'
  BY <1>1 DEF Waiting
<1>5. QED  BY <1>1, <1>2, <1>3, <1>4 DEF Cared

LEMMA CaredTake ==
  ASSUME Typed, Cared, Take
  PROVE  Cared'
<1>1. event \in Events /\ event # NoFile /\ work = NoFile
  BY DEF Take, Typed
<1>2. event.file \in Files
  BY <1>1 DEF Events
<1>3. work'.file = event.file /\ work' # NoFile
  <2>1. DOMAIN work' = {"at", "file", "expected"} /\ DOMAIN NoFile = {}
    BY DEF Take, NoFile
  <2>2. QED  BY <2>1 DEF Take
<1>4. UNCHANGED <<thumbWait, inAlbum>>
  BY DEF Take, tables
<1>5. \A p : Busy(p) => Busy(p)'
  BY <1>1, <1>3, Taken DEF Busy
<1>6. \A p : Waiting(p) => Waiting(p)'
  BY <1>4 DEF Waiting
<1>7. ASSUME NEW p \in published \cup excused
      PROVE  p \in published' \cup excused' \/ Busy(p)'
  <2>1. CASE event.file.size = Image /\ p = event.file.img
    BY <2>1, <1>2, <1>3, FileIs, Taken DEF Busy
  <2>2. CASE ~(event.file.size = Image /\ p = event.file.img)
    BY <2>2 DEF Take
  <2>3. QED  BY <2>1, <2>2
<1>8. QED  BY <1>4, <1>5, <1>6, <1>7 DEF Cared

\* The last step: the image waits, or it has its job.
LEMMA CaredIndex ==
  ASSUME Typed, UnderImages, Cared, Index
  PROVE  Cared'
<1>1. UNCHANGED <<event, inAlbum, excused>> /\ work # NoFile /\ published \subseteq published'
  BY DEF Index, Step
<1>2. \A p : Busy(p) => Busy(p)' \/ p = work.file.img
  BY <1>1, FileParts DEF Busy
<1>3. CASE HasToWait(work.expected)
  <2>1. \A p : p = work.file.img => Waiting(p)'
    BY <1>3, Waits DEF Waiting, HasToWait
  <2>2. ASSUME NEW p, Waiting(p) PROVE Waiting(p)'
    <3>1. PICK q \in DOMAIN thumbWait : thumbWait[q].img = p /\ thumbWait[q].thumbsLeft # {}
      BY <2>2 DEF Waiting
    <3>2. CASE q = FilePath(work.file)
      <4>1. p = work.file.img
        BY <3>1, <3>2 DEF UnderImages, FilePath
      <4>2. QED  BY <4>1, <2>1
    <3>3. CASE q # FilePath(work.file)
      BY <1>3, <3>1, <3>3, Waits DEF Waiting
    <3>4. QED  BY <3>2, <3>3
  <2>3. QED  BY <1>1, <1>2, <2>1, <2>2 DEF Cared
<1>4. CASE ~HasToWait(work.expected)
  <2>1. UNCHANGED thumbWait /\ work.file.img \in published'
    BY <1>4 DEF Index
  <2>2. \A p : Waiting(p) => Waiting(p)'
    BY <2>1 DEF Waiting
  <2>3. QED  BY <1>1, <1>2, <2>1, <2>2 DEF Cared
<1>5. QED  BY <1>3, <1>4

LEMMA CaredStops ==
  ASSUME Cared, ServerStops
  PROVE  Cared'
<1>1. \A p : Busy(p) => p \in excused'
  BY FileParts DEF Busy, ServerStops
<1>2. \A p : Waiting(p) => p \in excused'
  BY DEF Waiting, ServerStops
<1>3. UNCHANGED <<inAlbum, published>> /\ excused \subseteq excused'
  BY DEF ServerStops, tables
<1>4. QED  BY <1>1, <1>2, <1>3 DEF Cared

LEMMA CaredStep ==
  ASSUME Typed, UnderImages, Cared, UploadNext
  PROVE  Cared'
<1>1. ASSUME NEW f \in todo, Arrive(f) PROVE Cared'
  <2>1. event = NoFile /\ UNCHANGED <<work, thumbWait, inAlbum, published, excused>>
    BY <1>1 DEF Arrive, tables
  <2>2. \A p : Busy(p) => Busy(p)'
    BY <2>1 DEF Busy
  <2>3. \A p : Waiting(p) => Waiting(p)'
    BY <2>1 DEF Waiting
  <2>4. QED  BY <2>1, <2>2, <2>3 DEF Cared
<1>2. ASSUME NEW files \in SUBSET Files, Choose(files) PROVE Cared'
  <2>1. UNCHANGED <<event, work, thumbWait, inAlbum, published, excused>>
    BY <1>2 DEF Choose, tables
  <2>2. QED  BY <2>1 DEF Cared, Busy, Waiting
<1>3. CASE Take
  BY <1>3, CaredTake
<1>4. CASE Thumbnail
  <2>1. /\ UNCHANGED <<event, inAlbum, published, excused>>
        /\ DOMAIN thumbWait' = DOMAIN thumbWait
        /\ \A q \in DOMAIN thumbWait : thumbWait'[q] = thumbWait[q]
    BY <1>4, Refused DEF Thumbnail
  <2>2. \A p : Busy(p) => Busy(p)'
    BY <1>4, <2>1, AtWork, FileParts DEF Busy, Thumbnail
  <2>3. \A p : Waiting(p) => Waiting(p)'
    BY <2>1 DEF Waiting
  <2>4. QED  BY <2>1, <2>2, <2>3 DEF Cared
<1>5. CASE Rename
  BY <1>5, CaredOnTheWay DEF Rename, ImageSteps
<1>6. CASE EnsureImage
  BY <1>6, CaredOnTheWay DEF EnsureImage, ImageSteps
<1>7. CASE AddImages
  BY <1>7, CaredOnTheWay DEF AddImages, ImageSteps
<1>8. CASE Announce
  BY <1>8, CaredOnTheWay DEF Announce, ImageSteps
<1>9. CASE Index
  BY <1>9, CaredIndex
<1>10. CASE Fail
  <2>1. UNCHANGED <<event, thumbWait, inAlbum, published>> /\ work # NoFile
        /\ excused' = excused \cup {work.file.img}
    BY <1>10 DEF Fail, Step
  <2>2. \A p : Busy(p) => Busy(p)' \/ p \in excused'
    BY <2>1, FileParts DEF Busy
  <2>3. \A p : Waiting(p) => Waiting(p)'
    BY <2>1 DEF Waiting
  <2>4. QED  BY <2>1, <2>2, <2>3 DEF Cared
<1>11. CASE ServerStops
  BY <1>11, CaredStops
<1>12. QED
  BY <1>1, <1>2, <1>3, <1>4, <1>5, <1>6, <1>7, <1>8, <1>9, <1>10, <1>11 DEF UploadNext
-----------------------------------------------------------------------------
(* The theorems *)

LEMMA Invariance ==
  ASSUME NEW files \in SUBSET Files, NEW b
  PROVE  UploadSpec(files, b) => []UploadInv
<1>1. UploadInit(files, b) => UploadInv
  <2>1. DOMAIN << >> = {}
    OBVIOUS
  <2>2. QED  BY <2>1 DEF UploadInit, UploadInv, Typed, UnderImages, Cared
<1>2. UploadInv /\ [UploadNext]_uploadVars => UploadInv'
  <2>1. SUFFICES ASSUME UploadInv, [UploadNext]_uploadVars PROVE UploadInv'
    OBVIOUS
  <2>2. CASE UploadNext
    BY <2>1, <2>2, TypedStep, UnderStep, CaredStep DEF UploadInv
  <2>3. CASE UNCHANGED uploadVars
    BY <2>1, <2>3
    DEF UploadInv, Typed, UnderImages, Cared, Busy, Waiting, uploadVars
  <2>4. QED  BY <2>1, <2>2, <2>3
<1>3. QED  BY <1>1, <1>2, PTL DEF UploadSpec

\* An image that was uploaded to the album is indexed, unless a fault or a crash came between
\* (processUpload and AddFile), whatever is chosen, in any order, any number of times.
THEOREM StoredIndexed ==
  ASSUME NEW files \in SUBSET Files, NEW b
  PROVE  UploadSpec(files, b) => []StoredIsIndexed
<1>1. UploadInv => StoredIsIndexed
  BY DEF UploadInv, Cared, UnderImages, Waiting, StoredIsIndexed
<1>2. QED  BY <1>1, Invariance, PTL

\* No thumbnail that is uploaded is ever stored, and so an image that is announced with
\* thumbnails is not released: the key of thumbWait holds the hash of the image, and the one
\* that is looked for is made with the hash of the thumbnail (tus.go:89).
THEOREM NoThumbnailStored ==
  ASSUME NEW files \in SUBSET Files, NEW b
  PROVE  UploadSpec(files, b) => [](thumbRows = {})
<1>1. UploadInv => thumbRows = {}
  BY DEF UploadInv, UnderImages
<1>2. QED  BY <1>1, Invariance, PTL

=============================================================================
