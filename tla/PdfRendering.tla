------------------------------ MODULE PdfRendering ------------------------------
(***************************************************************************)
(* PDF thumbnails.  Each mounted thumbnail renders the first page of its   *)
(* document with pdfjs, awaiting the library, the document, the page and   *)
(* the painting in turn; it may be unmounted at any await.  The PdfThumb   *)
(* of the file cards goes through the global queue of Pdfrenderqueue.js,   *)
(* which lets MAX_CONCURRENT renders run; the PdfCanvasThumb of the upload *)
(* modal renders on its own.                                               *)
(***************************************************************************)
EXTENDS Naturals, Sequences, FiniteSets, SequencesExt

CONSTANTS
  PdfThumbs,        \* places on the page where a PdfThumb may be mounted
  PdfCanvasThumbs,  \* places where a PdfCanvasThumb may be mounted
  MAX_CONCURRENT,   \* renders the queue lets run (2)
  MaxMounts         \* bound: how often each place may be mounted

Thumbs == PdfThumbs \cup PdfCanvasThumbs

ASSUME ConstantsOK ==
  /\ PdfThumbs \cap PdfCanvasThumbs = {}
  /\ MAX_CONCURRENT \in Nat \ {0}
  /\ MaxMounts \in [Thumbs -> Nat]

\* The task of a thumbnail's n-th mount.
TasksOf(places) == UNION {{t} \X (1..MaxMounts[t]) : t \in places}
Tasks == TasksOf(Thumbs)
QueuedTasks == TasksOf(PdfThumbs)

VARIABLES
  mounts,     \* how often each thumbnail was mounted
  mounted,    \* the thumbnail is on the page
  rendered,   \* its page is painted
  failed,     \* its render failed
  lib,        \* pdfjsPromise, one in each of the two files
  active,     \* renders the queue has running
  queue,      \* tasks waiting, oldest first
  at,         \* the await each task is at
  cancelled,  \* its thumbnail is gone
  doc         \* its pdfjs document

vars == <<mounts, mounted, rendered, failed, lib, active, queue, at, cancelled, doc>>

Kinds == {"PdfThumb", "PdfCanvasThumb"}
Kind(t) == IF t \in PdfThumbs THEN "PdfThumb" ELSE "PdfCanvasThumb"
Running == {"lib", "doc", "page", "paint"}

TypeOK ==
  /\ mounts \in [Thumbs -> Nat]
  /\ \A t \in Thumbs : mounts[t] <= MaxMounts[t]
  /\ mounted \in [Thumbs -> BOOLEAN]
  /\ rendered \in [Thumbs -> BOOLEAN]
  /\ failed \in [Thumbs -> BOOLEAN]
  /\ lib \in [Kinds -> {"none", "loading", "ready", "broken"}]
  /\ active \in Nat
  /\ queue \in Seq(QueuedTasks)
  /\ at \in [Tasks -> {"new", "queued", "dropped", "settled"} \cup Running]
  /\ cancelled \in [Tasks -> BOOLEAN]
  /\ doc \in [Tasks -> {"none", "open", "destroyed"}]

Init ==
  /\ mounts = [t \in Thumbs |-> 0]
  /\ mounted = [t \in Thumbs |-> FALSE]
  /\ rendered = [t \in Thumbs |-> FALSE]
  /\ failed = [t \in Thumbs |-> FALSE]
  /\ lib = [k \in Kinds |-> "none"]
  /\ active = 0
  /\ queue = <<>>
  /\ at = [k \in Tasks |-> "new"]
  /\ cancelled = [k \in Tasks |-> FALSE]
  /\ doc = [k \in Tasks |-> "none"]

\* What the thumbnail looks like.
Shows(t) == IF failed[t] THEN "icon" ELSE IF rendered[t] THEN "page" ELSE "spinner"

-----------------------------------------------------------------------------
(* Mounting and unmounting. *)

\* getPdfJs: the first caller of a file starts the import, the rest share it.
getPdfJs(kind) == IF lib[kind] = "none" THEN [lib EXCEPT ![kind] = "loading"] ELSE lib

\* The effect of a PdfThumb calls enqueueRender: the task waits in line, and
\* next() starts the first in line if a slot is free.
MountPdfThumb(t) ==
  LET k == <<t, mounts[t] + 1>>
      line == Append(queue, k)
      Start == active < MAX_CONCURRENT IN
  /\ ~mounted[t]
  /\ mounts[t] < MaxMounts[t]
  /\ mounts' = [mounts EXCEPT ![t] = @ + 1]
  /\ mounted' = [mounted EXCEPT ![t] = TRUE]
  /\ rendered' = [rendered EXCEPT ![t] = FALSE]
  /\ failed' = [failed EXCEPT ![t] = FALSE]
  /\ active' = IF Start THEN active + 1 ELSE active
  /\ queue' = IF Start THEN Tail(line) ELSE line
  /\ at' = [j \in Tasks |-> IF Start /\ j = Head(line) THEN "lib"
                            ELSE IF j = k THEN "queued" ELSE at[j]]
  /\ lib' = IF Start THEN getPdfJs("PdfThumb") ELSE lib
  /\ UNCHANGED <<cancelled, doc>>

\* The effect of a PdfCanvasThumb starts at once.
MountPdfCanvasThumb(t) ==
  LET k == <<t, mounts[t] + 1>> IN
  /\ ~mounted[t]
  /\ mounts[t] < MaxMounts[t]
  /\ mounts' = [mounts EXCEPT ![t] = @ + 1]
  /\ mounted' = [mounted EXCEPT ![t] = TRUE]
  /\ rendered' = [rendered EXCEPT ![t] = FALSE]
  /\ failed' = [failed EXCEPT ![t] = FALSE]
  /\ at' = [at EXCEPT ![k] = "lib"]
  /\ lib' = getPdfJs("PdfCanvasThumb")
  /\ UNCHANGED <<active, queue, cancelled, doc>>

\* The line without task k (indexOf and splice).
Without(k) ==
  IF \E i \in DOMAIN queue : queue[i] = k
    THEN RemoveAt(queue, CHOOSE i \in DOMAIN queue : queue[i] = k)
    ELSE queue

\* The effect's cleanup: a waiting task leaves the line; a running one is
\* flagged, and PdfThumb, unlike PdfCanvasThumb, destroys its document at once.
Unmount(t) ==
  LET k == <<t, mounts[t]>> IN
  /\ mounted[t]
  /\ mounted' = [mounted EXCEPT ![t] = FALSE]
  /\ cancelled' = [cancelled EXCEPT ![k] = TRUE]
  /\ queue' = Without(k)
  /\ at' = [at EXCEPT ![k] = IF at[k] = "queued" THEN "dropped" ELSE at[k]]
  /\ doc' = IF t \in PdfThumbs /\ at[k] \in Running /\ doc[k] = "open"
              THEN [doc EXCEPT ![k] = "destroyed"] ELSE doc
  /\ UNCHANGED <<mounts, rendered, failed, lib, active>>

-----------------------------------------------------------------------------
(* A render. *)

\* Mutant: the task that came last starts first.
Settle_LastComesFirst(k) ==
  LET Queued == k \in QueuedTasks
      Start == Queued /\ queue # <<>> IN
  /\ active' = IF Queued /\ ~Start THEN active - 1 ELSE active
  /\ queue' = IF Start THEN SubSeq(queue, 1, Len(queue) - 1) ELSE queue
  /\ at' = [j \in Tasks |-> IF j = k THEN "settled"
                            ELSE IF Start /\ j = queue[Len(queue)] THEN "lib" ELSE at[j]]
  /\ doc' = IF doc[k] = "open" THEN [doc EXCEPT ![k] = "destroyed"] ELSE doc

\* The task is over: finally destroys the document, gives the slot back and
\* starts the next in line.
Settle(k) ==
  LET Queued == k \in QueuedTasks
      Start == Queued /\ queue # <<>> IN
  /\ active' = IF Queued /\ ~Start THEN active - 1 ELSE active
  /\ queue' = IF Start THEN Tail(queue) ELSE queue
  /\ at' = [j \in Tasks |-> IF j = k THEN "settled"
                            ELSE IF Start /\ j = Head(queue) THEN "lib" ELSE at[j]]
  /\ doc' = IF doc[k] = "open" THEN [doc EXCEPT ![k] = "destroyed"] ELSE doc

\* Mutant: a failure is not shown.
Catch_Silent(k) ==
  /\ UNCHANGED failed
  /\ Settle(k)
  /\ UNCHANGED <<rendered, mounts, mounted, lib, cancelled>>

\* catch: the failure shows unless the thumbnail is gone.
Catch(k) ==
  /\ failed' = IF cancelled[k] THEN failed ELSE [failed EXCEPT ![k[1]] = TRUE]
  /\ Settle(k)
  /\ UNCHANGED <<rendered, mounts, mounted, lib, cancelled>>

\* A resumed task whose thumbnail is gone returns.
GiveUp(k) ==
  /\ cancelled[k]
  /\ Settle(k)
  /\ UNCHANGED <<mounts, mounted, rendered, failed, lib, cancelled>>

\* The next await of a task whose thumbnail is still there.
Proceed(k, from, to) ==
  /\ at[k] = from
  /\ ~cancelled[k]
  /\ at' = [at EXCEPT ![k] = to]
  /\ UNCHANGED <<mounts, mounted, rendered, failed, lib, active, queue, cancelled>>

\* The import ends.  A failed one stays in pdfjsPromise.
LibraryLoads(kind) ==
  /\ lib[kind] = "loading"
  /\ \E end \in {"ready", "broken"} : lib' = [lib EXCEPT ![kind] = end]
  /\ UNCHANGED <<mounts, mounted, rendered, failed, active, queue, at, cancelled, doc>>

LibraryResolved(k) ==
  /\ at[k] = "lib"
  /\ \/ /\ lib[Kind(k[1])] = "ready"
        /\ \/ Proceed(k, "lib", "doc") /\ UNCHANGED doc
           \/ GiveUp(k)
     \/ /\ lib[Kind(k[1])] = "broken"
        /\ Catch(k)

DocumentResolved(k) ==
  /\ at[k] = "doc"
  /\ \/ /\ Proceed(k, "doc", "page")
        /\ doc' = [doc EXCEPT ![k] = "open"]
     \/ GiveUp(k)
     \/ Catch(k)

PageResolved(k) ==
  /\ at[k] = "page"
  /\ \/ Proceed(k, "page", "paint") /\ UNCHANGED doc
     \/ GiveUp(k)
     \/ Catch(k)

\* Mutant: the flag is not looked at after painting.
PaintResolved_Unasked(k) ==
  /\ at[k] = "paint"
  /\ \/ /\ cancelled[k] \in BOOLEAN
        /\ rendered' = [rendered EXCEPT ![k[1]] = TRUE]
        /\ Settle(k)
        /\ UNCHANGED <<mounts, mounted, failed, lib, cancelled>>
     \/ GiveUp(k)
     \/ Catch(k)

PaintResolved(k) ==
  /\ at[k] = "paint"
  /\ \/ /\ ~cancelled[k]
        /\ rendered' = [rendered EXCEPT ![k[1]] = TRUE]
        /\ Settle(k)
        /\ UNCHANGED <<mounts, mounted, failed, lib, cancelled>>
     \/ GiveUp(k)
     \/ Catch(k)

-----------------------------------------------------------------------------
Pdfjs(k) == LibraryResolved(k) \/ DocumentResolved(k) \/ PageResolved(k) \/ PaintResolved(k)

Next ==
  \/ \E t \in PdfThumbs : MountPdfThumb(t)
  \/ \E t \in PdfCanvasThumbs : MountPdfCanvasThumb(t)
  \/ \E t \in Thumbs : Unmount(t)
  \/ \E kind \in Kinds : LibraryLoads(kind)
  \/ \E k \in Tasks : Pdfjs(k)

Spec == Init /\ [][Next]_vars

\* pdfjs settles every promise it gives out.
FairSpec ==
  /\ Spec
  /\ \A kind \in Kinds : WF_vars(LibraryLoads(kind))
  /\ \A k \in Tasks : WF_vars(Pdfjs(k))

-----------------------------------------------------------------------------
(* Safety. *)

RunningTasks == {k \in QueuedTasks : at[k] \in Running}

\* active counts the renders that run, through every early return, failure and
\* cancellation, and never exceeds the limit (active++ and active-- of next in
\* Pdfrenderqueue.js).
SlotsConserved ==
  /\ active = Cardinality(RunningTasks)
  /\ active <= MAX_CONCURRENT

\* No slot is idle while a render waits: a lost call of next() would leave
\* thumbnails waiting although nothing runs (next in Pdfrenderqueue.js).
NoIdleSlot == queue # <<>> => active = MAX_CONCURRENT

\* The line holds exactly the waiting tasks, each once, and each of a thumbnail
\* that is on the page (the splice in enqueueRender's cancel function).
LineIsLive ==
  /\ \A i, j \in DOMAIN queue : queue[i] = queue[j] => i = j
  /\ \A k \in Tasks : at[k] = "queued" <=> \E i \in DOMAIN queue : queue[i] = k
  /\ \A i \in DOMAIN queue : LET k == queue[i] IN
       ~cancelled[k] /\ mounted[k[1]] /\ mounts[k[1]] = k[2]

\* A pdfjs document is open only while its task runs: whichever await the
\* thumbnail was unmounted at, the document is destroyed (pdfDoc.destroy in
\* Previewthumbnail.jsx and UploadModal.jsx).
NoDocumentLeaks == \A k \in Tasks : doc[k] = "open" => at[k] \in {"page", "paint"}

\* What a thumbnail shows comes from its own mount: a late answer to an earlier
\* mount's render never shows in this one (the cancelled flag).
ShowsItsOwnRender ==
  \A t \in Thumbs : (mounted[t] /\ Shows(t) # "spinner") =>
    at[<<t, mounts[t]>>] = "settled" /\ ~cancelled[<<t, mounts[t]>>]

\* A thumbnail's last mount is the one on the page, if any is: tasks of later
\* mounts are new, and those of earlier ones cancelled (the cleanup of the
\* effect runs before the effect does again).
LastMountIsLive ==
  /\ \A k \in Tasks : k[2] > mounts[k[1]] => at[k] = "new" /\ ~cancelled[k]
  /\ \A k \in Tasks : k[2] <= mounts[k[1]] /\ ~cancelled[k] =>
                        mounted[k[1]] /\ k[2] = mounts[k[1]]
  /\ \A t \in Thumbs : mounted[t] => mounts[t] > 0 /\ ~cancelled[<<t, mounts[t]>>]

\* The inductive invariant.
IInv ==
  /\ TypeOK
  /\ IsFiniteSet(RunningTasks)
  /\ LastMountIsLive
  /\ LineIsLive
  /\ SlotsConserved
  /\ NoIdleSlot
  /\ NoDocumentLeaks
  /\ ShowsItsOwnRender

-----------------------------------------------------------------------------
(* Refinement. *)

OverTasks == {k \in QueuedTasks : at[k] \in {"dropped", "settled"}}

Line == INSTANCE RenderLine WITH Task <- QueuedTasks, Limit <- MAX_CONCURRENT,
                                 line <- queue, busy <- RunningTasks, over <- OverTasks

\* Renders start in the order their thumbnails came, a free slot is taken at
\* once, and no render starts twice (Pdfrenderqueue.js as the module RenderLine).
ImplementsRenderLine == Line!Spec

-----------------------------------------------------------------------------
(* Liveness. *)

\* A thumbnail that stays on the page stops spinning (PdfThumb behind the queue
\* and PdfCanvasThumb beside it).
SpinnerEnds == \A t \in Thumbs : mounted[t] ~> (~mounted[t] \/ Shows(t) # "spinner")

=============================================================================
