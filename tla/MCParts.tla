------------------------------ MODULE MCParts ------------------------------
(***************************************************************************)
(* The parts of the front end, and what the server does with images, for   *)
(* TLC.  They run in pages of their own, beside each other in one page, or *)
(* on the server, without a common variable, so that their interleavings   *)
(* say nothing: a behaviour is one of one part, the others stay as they    *)
(* are when a page is opened.                                              *)
(***************************************************************************)
EXTENDS AlbumPage, ViewStats, BackendCalls, ResultTable, Timeline, Uploads, Indexing, TLC

CONSTANT Parts    \* those that are checked

B == INSTANCE Backend

vars == <<pageVars, viewVars, callVars, tableVars, lineVars, uploadVars, indexVars>>
-----------------------------------------------------------------------------
MCGalleries == <<"main", "sub">>
MCTimes == ("main" :> (1 :> 10 @@ 2 :> 20 @@ 3 :> 30)) @@ ("sub" :> (1 :> 10 @@ 4 :> 25))

\* What happens to one page: enough of each for the hazards, not of all at once.
Scenarios ==
  {[move |-> 1, remove |-> 1, toggle |-> 0, open |-> 0],
   [move |-> 0, remove |-> 2, toggle |-> 0, open |-> 1],
   [move |-> 0, remove |-> 1, toggle |-> 1, open |-> 2],
   [move |-> 0, remove |-> 0, toggle |-> 3, open |-> 2]}

MCWidths == "i1" :> {2} @@ "i2" :> {}

MCCells == <<<<1, 2, 1>>, <<2, 1, 1>>, <<1, 1, 3>>, <<2, 2, 1>>>>
MCTerms == {{2}, {3}}

MCMethods == B!Methods

\* Files of the first upload.
Selections == {{File("p1", "image"), File("p1", "300w"), File("p2", "image")}}
OnUpload == [round |-> 1, fault |-> 1, crash |-> 1]
NoTrouble == [round |-> 0, fault |-> 0, crash |-> 0]

\* One image: edits while jobs run, or labels.
MCDerived == <<"dims", "blur", "phash">>
IndexCases ==
  {[labels |-> {}, may |-> [add |-> 2, edit |-> 1, fault |-> 1, crash |-> 0]],
   [labels |-> {}, may |-> [add |-> 2, edit |-> 0, fault |-> 0, crash |-> 1]],
   [labels |-> Labels, may |-> [add |-> 2, edit |-> 0, fault |-> 0, crash |-> 0]],
   [labels |-> Labels, may |-> [add |-> 1, edit |-> 0, fault |-> 1, crash |-> 1]]}
NoChances == [add |-> 0, edit |-> 0, fault |-> 0, crash |-> 0]

Nothing == [move |-> 0, remove |-> 0, toggle |-> 0, open |-> 0]

\* One part, the others with nothing to do.
Init ==
  \E part \in Parts :
    /\ \E s \in IF part = "page" THEN Scenarios ELSE {Nothing} :
         PageInit(IF part = "page" THEN MCTimes ELSE [a \in Albums |-> << >>], s)
    /\ ViewInit(part = "view")
    /\ CallInit(IF part = "call" THEN Ready ELSE NoCall)
    /\ TableInit(IF part = "table" THEN 2 ELSE 0)
    /\ IF part = "line" THEN LineInputs ELSE NoLine
    /\ \E files \in IF part = "upload" THEN Selections ELSE {{}} :
         UploadInit(files, IF part = "upload" THEN OnUpload ELSE NoTrouble)
    /\ \E c \in IF part = "index" THEN IndexCases ELSE {[labels |-> {}, may |-> NoChances]} :
         IndexInit(c.labels, c.may)

Next ==
  \/ PageNext /\ UNCHANGED <<viewVars, callVars, tableVars, lineVars, uploadVars, indexVars>>
  \/ ViewNext /\ UNCHANGED <<pageVars, callVars, tableVars, lineVars, uploadVars, indexVars>>
  \/ CallNext /\ UNCHANGED <<pageVars, viewVars, tableVars, lineVars, uploadVars, indexVars>>
  \/ TableNext /\ UNCHANGED <<pageVars, viewVars, callVars, lineVars, uploadVars, indexVars>>
  \/ LineNext /\ UNCHANGED <<pageVars, viewVars, callVars, tableVars, uploadVars, indexVars>>
  \/ UploadNext /\ UNCHANGED <<pageVars, viewVars, callVars, tableVars, lineVars, indexVars>>
  \/ IndexNext /\ UNCHANGED <<pageVars, viewVars, callVars, tableVars, lineVars, uploadVars>>

Spec == Init /\ [][Next]_vars

\* Images and thumbnails are measured by the same clock and otherwise apart: a behaviour is about
\* one or the other.
OneMeasured ==
  \/ visibleSince = << >> /\ visibleFor = << >> /\ lastFlush = 0
     /\ \A h \in Views : seen[h] = [done |-> 0, now |-> 0, fair |-> TRUE]
  \/ views = << >> /\ watched.img = NoView

=============================================================================
