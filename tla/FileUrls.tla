-------------------------------- MODULE FileUrls --------------------------------
(***************************************************************************)
(* The user's files in the browser: the list the files slice fetches, the  *)
(* thumbnails of the Files page and of the upload modal, the download URL  *)
(* each thumbnail asks for when it scrolls into view, and the cache of     *)
(* those URLs in sessionStorage.                                           *)
(*                                                                         *)
(* The two places are never on the screen together.  A FileCard of the     *)
(* Files page loads its URL with useInViewUrl: a debounce, a request it    *)
(* aborts when it unmounts, a retry button.  A FileThumbnail of the modal  *)
(* asks at once and its request outlives it.                               *)
(*                                                                         *)
(* A URL is the time the server signed it at.                              *)
(***************************************************************************)
EXTENDS Naturals, Sequences, FiniteSets, SequencesExt

CONSTANTS
  Files,
  Previewable,   \* files a FileCard fetches a URL for (isPreviewable)
  Thumbnailed,   \* files a FileThumbnail fetches a URL for
  Matching,      \* files whose name contains the text the user may search for
  TTL,           \* how long an entry of the cache is used (9 minutes)
  UrlLife,       \* how long the server's URL works (10 minutes)
  MaxNow,        \* bound: the clock
  MaxLists,      \* bound: list requests in flight, with the files that have requests
                 \* of thumbnails that are gone
  MaxLate,       \* bound: requests of a file's FileThumbnails that are gone
  Sent, Error,   \* a request not yet answered, and one answered with an error
  None

ConstantsOK ==
  /\ Previewable \subseteq Files
  /\ Thumbnailed \subseteq Files
  /\ Matching \subseteq Files
  /\ TTL \in Nat
  /\ UrlLife \in Nat
  /\ TTL < UrlLife
  /\ MaxNow \in Nat
  /\ MaxLists \in Nat
  /\ MaxLate \in Nat
  /\ {Sent, Error, None} \cap (0..MaxNow) = {}
  /\ None \notin {Sent, Error}

VARIABLES
  now,
  page,          \* what is on the screen
  alive,         \* the files the server has
  userFiles,     \* the slice's list
  loadingFiles,  \* the slice's flag
  lists,         \* list requests in flight
  confirm,       \* the "Delete all files?" modal
  deleting,      \* the delete-all request
  search,        \* the text in the search box, and after the debounce
  debouncedSearch,
  thumb,         \* the state of each file's thumbnail, None if there is none
  late,          \* requests of FileThumbnails that are gone, sent or answered
  cache,         \* sessionStorage's URLs
  outdated       \* history: the list was read before a deletion, or the
                 \* answer to a deletion was lost

list == <<userFiles, loadingFiles, lists, outdated>>
box == <<search, debouncedSearch>>
vars == <<now, page, alive, list, confirm, deleting, box, thumb, late, cache>>

Times == 0..MaxNow
\* A request for a URL: sent, answered with the URL, or answered with an error.
Request == {Sent, Error} \cup Times
\* fetched, watch and timer are useInViewUrl's fetchedRef, its observer and
\* its debounce; retried is history: the retry button was pressed.
Thumb == [url : Times \cup {None}, loading : BOOLEAN, error : BOOLEAN,
          fetched : BOOLEAN, watch : BOOLEAN, timer : BOOLEAN,
          retried : BOOLEAN, req : Request \cup {None}]
\* An entry of the cache; arrived is history: when it was written.
Entry == [url : Times, expiresAt : Nat, arrived : Times]
\* stale is history: the files were deleted since the list was read.
List == [files : (SUBSET Files) \cup {None}, stale : BOOLEAN]

TypeOK ==
  /\ now \in Times
  /\ page \in {"elsewhere", "files", "modal"}
  /\ alive \in SUBSET Files
  /\ userFiles \in SUBSET Files
  /\ loadingFiles \in BOOLEAN
  /\ lists \in Seq(List)
  /\ confirm \in BOOLEAN
  /\ deleting \in {"no", "sent", "served", "failed"}
  /\ search \in {"", "text"}
  /\ debouncedSearch \in {"", "text"}
  /\ thumb \in [Files -> Thumb \cup {None}]
  /\ late \in [Files -> SUBSET (Request \ {Error})]
  /\ cache \in [Files -> Entry \cup {None}]
  /\ outdated \in BOOLEAN

Init ==
  /\ now = 0
  /\ page = "elsewhere"
  /\ alive = Files
  /\ userFiles = {}
  /\ loadingFiles = FALSE
  /\ lists = <<>>
  /\ confirm = FALSE
  /\ deleting = "no"
  /\ search = ""
  /\ debouncedSearch = ""
  /\ thumb = [f \in Files |-> None]
  /\ late = [f \in Files |-> {}]
  /\ cache = [f \in Files |-> None]
  /\ outdated = FALSE

-----------------------------------------------------------------------------
(* urlCache.js *)

\* getCachedUrl: an entry past its time is not used.  (The call also deletes
\* it, which no later call can tell from finding it expired.)
getCachedUrl(f) ==
  IF cache[f] = None THEN None
  ELSE IF now > cache[f].expiresAt THEN None ELSE cache[f].url

\* Mutant: an entry is used as long as the URL it holds.
setCachedUrl_TooLong(f, url) ==
  cache' = [cache EXCEPT ![f] = [url |-> url, expiresAt |-> now + UrlLife, arrived |-> now]]

setCachedUrl(f, url) ==
  cache' = [cache EXCEPT ![f] = [url |-> url, expiresAt |-> now + TTL, arrived |-> now]]

removeCachedUrl(f) == cache' = [cache EXCEPT ![f] = None]

clearUrlCache == cache' = [f \in Files |-> None]

-----------------------------------------------------------------------------
(* What is mounted. *)

\* The cards of the Files page: those the search leaves.
processedFiles(files, text) == IF text # "" THEN files \cap Matching ELSE files

\* The thumbnails of the modal's first tab: all, and the skeletons of neither
\* place while the list loads.
FilesTab(loading, files) == IF loading THEN {} ELSE files

ShownFiles(pg, loading, files, text) ==
  CASE pg = "files" -> IF loading THEN {} ELSE processedFiles(files, text)
    [] pg = "modal" -> FilesTab(loading, files)
    [] OTHER -> {}

\* The files a place fetches a URL for.
Pictured(pg) == IF pg = "files" THEN Previewable ELSE Thumbnailed

\* A thumbnail as it mounts: with the cached URL if there is one, else, where
\* it would show something, watching for the scroll.
Fresh(f, pg) ==
  LET url == getCachedUrl(f) IN
  [url |-> url, loading |-> FALSE, error |-> FALSE, fetched |-> url # None,
   watch |-> url = None /\ f \in Pictured(pg),
   timer |-> FALSE, retried |-> FALSE, req |-> None]

\* What a FileCard shows: the spinner, the failure with its retry button, the
\* file, or that there is no preview.
CardShows(f) ==
  CASE thumb[f].loading -> "spinner"
    [] ~thumb[f].loading /\ thumb[f].error -> "retry"
    [] ~thumb[f].loading /\ ~thumb[f].error /\ thumb[f].url # None -> "file"
    [] OTHER -> "nothing"

\* A FileThumbnail shows the icon of the type where there is no picture, or
\* when it failed.
ThumbnailShows(f) ==
  CASE f \notin Thumbnailed -> "icon"
    [] f \in Thumbnailed /\ thumb[f].loading -> "spinner"
    [] f \in Thumbnailed /\ ~thumb[f].loading /\ thumb[f].error -> "icon"
    [] f \in Thumbnailed /\ ~thumb[f].loading /\ ~thumb[f].error /\ thumb[f].url # None -> "file"
    [] OTHER -> "nothing"

Shows(f) == IF page = "modal" THEN ThumbnailShows(f) ELSE CardShows(f)

\* Thumbnails mount and unmount as the screen changes.  A FileCard aborts its
\* request; that of a FileThumbnail goes on without it.
Remount(pg, loading, files, text) ==
  LET shown == ShownFiles(pg, loading, files, text)
      Gone(f) == thumb[f] # None /\ (f \notin shown \/ pg # page) IN
  /\ thumb' = [f \in Files |-> IF f \notin shown THEN None
                               ELSE IF thumb[f] = None \/ Gone(f) THEN Fresh(f, pg)
                               ELSE thumb[f]]
  /\ late' = [f \in Files |-> IF Gone(f) /\ page = "modal" /\ thumb[f].req # None
                                THEN late[f] \cup ({thumb[f].req} \ {Error}) ELSE late[f]]

\* fetchUserFiles: the list counts as loading until any answer comes.
fetchUserFiles ==
  /\ Len(lists) + Cardinality({f \in Files : late[f] # {}}) < MaxLists
  /\ lists' = Append(lists, [files |-> None, stale |-> FALSE])
  /\ loadingFiles' = TRUE

\* The Files page or the modal opens, and fetches the list.
Open(pg) ==
  /\ page = "elsewhere"
  /\ page' = pg
  /\ fetchUserFiles
  /\ search' = ""
  /\ debouncedSearch' = ""
  /\ confirm' = FALSE
  /\ Remount(pg, TRUE, userFiles, "")
  /\ UNCHANGED <<now, alive, userFiles, deleting, cache, outdated>>

Leave ==
  /\ page # "elsewhere"
  /\ page' = "elsewhere"
  /\ confirm' = FALSE
  /\ Remount("elsewhere", loadingFiles, userFiles, "")
  /\ UNCHANGED <<now, alive, list, deleting, box, cache>>

\* The socket's FILES_SHARED: there may be new files, and the list is fetched.
FilesShared ==
  /\ alive' = Files
  /\ fetchUserFiles
  /\ Remount(page, TRUE, userFiles, debouncedSearch)
  /\ UNCHANGED <<now, page, userFiles, confirm, deleting, box, cache, outdated>>

\* The server reads the files for a list request.
ListServed(i) ==
  /\ lists[i].files = None
  /\ lists' = [lists EXCEPT ![i].files = alive]
  /\ UNCHANGED <<now, page, alive, userFiles, loadingFiles, confirm, deleting, box,
                 thumb, late, cache, outdated>>

\* Mutant: the list is added to the one there is.
ListArrives_Appends(i) ==
  /\ lists[i].files # None
  /\ userFiles' = userFiles \cup lists[i].files
  /\ loadingFiles' = FALSE
  /\ lists' = RemoveAt(lists, i)
  /\ outdated' = lists[i].stale
  /\ Remount(page, FALSE, userFiles \cup lists[i].files, debouncedSearch)
  /\ UNCHANGED <<now, page, alive, confirm, deleting, box, cache>>

ListArrives(i) ==
  /\ lists[i].files # None
  /\ userFiles' = lists[i].files
  /\ loadingFiles' = FALSE
  /\ lists' = RemoveAt(lists, i)
  /\ outdated' = lists[i].stale
  /\ Remount(page, FALSE, lists[i].files, debouncedSearch)
  /\ UNCHANGED <<now, page, alive, confirm, deleting, box, cache>>

ListFails(i) ==
  /\ loadingFiles' = FALSE
  /\ lists' = RemoveAt(lists, i)
  /\ Remount(page, FALSE, userFiles, debouncedSearch)
  /\ UNCHANGED <<now, page, alive, userFiles, confirm, deleting, box, cache,
                 outdated>>

\* The user types into the search box, or clears it.
Type ==
  /\ page = "files"
  /\ ~loadingFiles
  /\ userFiles # {}
  /\ search' = IF search = "" THEN "text" ELSE ""
  /\ UNCHANGED <<now, page, alive, list, confirm, deleting, debouncedSearch, thumb,
                 late, cache>>

\* 400 ms later the cards follow.
SearchTimer ==
  /\ page = "files"
  /\ debouncedSearch # search
  /\ debouncedSearch' = search
  /\ Remount(page, loadingFiles, userFiles, search)
  /\ UNCHANGED <<now, page, alive, list, confirm, deleting, search, cache>>

-----------------------------------------------------------------------------
(* Delete all, and the trash button. *)

AskDeleteAll ==
  /\ page = "files"
  /\ userFiles # {}
  /\ ~confirm
  /\ confirm' = TRUE
  /\ UNCHANGED <<now, page, alive, list, deleting, box, thumb, late, cache>>

\* Cancel is disabled while the request is on its way.
CancelDeleteAll ==
  /\ confirm
  /\ deleting = "no"
  /\ confirm' = FALSE
  /\ UNCHANGED <<now, page, alive, list, deleting, box, thumb, late, cache>>

handleDeleteAll ==
  /\ confirm
  /\ deleting = "no"
  /\ deleting' = "sent"
  /\ UNCHANGED <<now, page, alive, list, confirm, box, thumb, late, cache>>

\* The server deletes the files, or fails; its answer may be lost.
DeleteServed ==
  /\ deleting = "sent"
  /\ \/ /\ alive' = {}
        /\ deleting' \in {"served", "failed"}
        /\ lists' = [i \in DOMAIN lists |-> [lists[i] EXCEPT !.stale = @ \/ lists[i].files # None]]
        /\ outdated' = TRUE
     \/ /\ deleting' = "failed"
        /\ UNCHANGED <<alive, lists, outdated>>
  /\ UNCHANGED <<now, page, userFiles, loadingFiles, confirm, box, thumb, late, cache>>

\* deleteAllFiles is fulfilled: the list is empty, so every card unmounts, and
\* the cache goes.
DeleteAnswered ==
  /\ deleting = "served"
  /\ deleting' = "no"
  /\ confirm' = FALSE
  /\ userFiles' = {}
  /\ outdated' = FALSE
  /\ clearUrlCache
  /\ Remount(page, loadingFiles, {}, debouncedSearch)
  /\ UNCHANGED <<now, page, alive, loadingFiles, lists, box>>

DeleteRefused ==
  /\ deleting = "failed"
  /\ deleting' = "no"
  /\ UNCHANGED <<now, page, alive, list, confirm, box, thumb, late, cache>>

\* The trash button of a card: it forgets the file's URL, and no more.
handleDelete(f) ==
  /\ page = "files"
  /\ thumb[f] # None
  /\ removeCachedUrl(f)
  /\ UNCHANGED <<now, page, alive, list, confirm, deleting, box, thumb, late>>

-----------------------------------------------------------------------------
(* A thumbnail's URL. *)

Idle == <<now, page, alive, list, confirm, deleting, box>>

\* A FileCard comes into view: the debounce starts.
CardEnters(f) ==
  /\ page = "files"
  /\ thumb[f] # None
  /\ thumb[f].watch
  /\ ~thumb[f].timer
  /\ thumb' = [thumb EXCEPT ![f].timer = TRUE]
  /\ UNCHANGED <<Idle, late, cache>>

\* It leaves before the debounce ends.  (Once the request is sent the observer
\* is disconnected: leaving the view does not abort it.)
CardLeaves(f) ==
  /\ page = "files"
  /\ thumb[f] # None
  /\ thumb[f].watch
  /\ thumb[f].timer
  /\ thumb' = [thumb EXCEPT ![f].timer = FALSE]
  /\ UNCHANGED <<Idle, late, cache>>

\* The thumbnail stops watching, and takes the cached URL or asks for one.
TakeOrAsk(f) ==
  LET url == getCachedUrl(f) IN
  thumb' = [thumb EXCEPT ![f] =
    [url |-> url, loading |-> url = None, error |-> FALSE, fetched |-> TRUE,
     watch |-> FALSE, timer |-> FALSE, retried |-> FALSE,
     req |-> IF url = None THEN Sent ELSE None]]

\* Mutant: the timer takes the cached URL but asks for none.
CardTimer_OnlyCached(f) ==
  /\ page = "files"
  /\ thumb[f] # None
  /\ thumb[f].timer
  /\ getCachedUrl(f) # None
  /\ TakeOrAsk(f)
  /\ UNCHANGED <<Idle, late, cache>>

\* 300 ms in view: nothing more if fetchedRef is set.
CardTimer(f) ==
  /\ page = "files"
  /\ thumb[f] # None
  /\ thumb[f].timer
  /\ IF thumb[f].fetched THEN thumb' = [thumb EXCEPT ![f].timer = FALSE] ELSE TakeOrAsk(f)
  /\ UNCHANGED <<Idle, late, cache>>

\* A FileThumbnail comes into view.
ThumbnailEnters(f) ==
  /\ page = "modal"
  /\ thumb[f] # None
  /\ thumb[f].watch
  /\ Cardinality(late[f]) < MaxLate
  /\ TakeOrAsk(f)
  /\ UNCHANGED <<Idle, late, cache>>

\* The server signs a URL for a file it has.
UrlServed(f) ==
  /\ thumb[f] # None
  /\ thumb[f].req = Sent
  /\ thumb' = [thumb EXCEPT ![f].req = IF f \in alive THEN now ELSE Error]
  /\ UNCHANGED <<Idle, late, cache>>

UrlArrives(f) ==
  /\ thumb[f] # None
  /\ thumb[f].req \in Times
  /\ setCachedUrl(f, thumb[f].req)
  /\ thumb' = [thumb EXCEPT ![f] = [@ EXCEPT !.url = thumb[f].req, !.loading = FALSE,
                                             !.req = None]]
  /\ UNCHANGED <<Idle, late>>

\* Mutant: a failure only ends the spinner.
UrlFails_Silent(f) ==
  /\ thumb[f] # None
  /\ thumb[f].req # None
  /\ thumb' = [thumb EXCEPT ![f] = [@ EXCEPT !.fetched = FALSE, !.loading = FALSE,
                                             !.req = None]]
  /\ UNCHANGED <<Idle, late, cache>>

\* An error, or the connection's.  A FileCard offers to retry; a FileThumbnail
\* shows that it failed.
UrlFails(f) ==
  /\ thumb[f] # None
  /\ thumb[f].req # None
  /\ thumb' = [thumb EXCEPT ![f] = [@ EXCEPT !.error = TRUE, !.fetched = FALSE,
                                             !.loading = FALSE, !.req = None]]
  /\ UNCHANGED <<Idle, late, cache>>

\* The retry button of a card whose URL failed.  Nothing it sets makes the
\* effect run again, so the card does not watch again.
retry(f) ==
  /\ page = "files"
  /\ thumb[f] # None
  /\ CardShows(f) = "retry"
  /\ thumb' = [thumb EXCEPT ![f] = [@ EXCEPT !.error = FALSE, !.url = None,
                                             !.fetched = FALSE, !.retried = TRUE]]
  /\ UNCHANGED <<Idle, late, cache>>

\* The request of a FileThumbnail that is gone, at the server.
LateServed(f) ==
  /\ Sent \in late[f]
  /\ f \in alive
  /\ late' = [late EXCEPT ![f] = (@ \ {Sent}) \cup {now}]
  /\ UNCHANGED <<Idle, thumb, cache>>

\* Answered, it fills the cache; failed, it leaves no trace.
LateArrives(f, url) ==
  /\ late' = [late EXCEPT ![f] = @ \ {url}]
  /\ IF url \in Times THEN setCachedUrl(f, url) ELSE UNCHANGED cache
  /\ UNCHANGED <<Idle, thumb>>

\* Time passes, however long an answer is on its way.
Tick ==
  /\ now < MaxNow
  /\ now' = now + 1
  /\ UNCHANGED <<page, alive, list, confirm, deleting, box, thumb, late, cache>>

-----------------------------------------------------------------------------
ListAnswer == \E i \in DOMAIN lists : ListServed(i) \/ ListArrives(i) \/ ListFails(i)

DeleteAnswer == DeleteServed \/ DeleteAnswered \/ DeleteRefused

UrlAnswer(f) == UrlServed(f) \/ UrlArrives(f) \/ UrlFails(f)

LateAnswer(f) == LateServed(f) \/ \E url \in late[f] : LateArrives(f, url)

User ==
  \/ \E pg \in {"files", "modal"} : Open(pg)
  \/ Leave
  \/ Type
  \/ AskDeleteAll \/ CancelDeleteAll \/ handleDeleteAll
  \/ \E f \in Files : \/ CardEnters(f) \/ CardLeaves(f) \/ ThumbnailEnters(f)
                      \/ retry(f) \/ handleDelete(f)

Next ==
  \/ ListAnswer
  \/ DeleteAnswer
  \/ \E f \in Files : UrlAnswer(f) \/ LateAnswer(f) \/ CardTimer(f)
  \/ SearchTimer
  \/ User
  \/ FilesShared
  \/ Tick

Spec == Init /\ [][Next]_vars

\* Requests are answered or fail, and timers fire.
Fairness ==
  /\ WF_vars(ListAnswer)
  /\ \A f \in Files : WF_vars(UrlAnswer(f)) /\ WF_vars(CardTimer(f))

FairSpec == Spec /\ Fairness

-----------------------------------------------------------------------------
(* Safety. *)

\* An answer that was on its way no longer than the minute by which the cache's
\* time is shorter than the URL's.
InTime(url, arrived) == arrived <= url + (UrlLife - TTL)

\* The cache hands out a URL that no longer works only if the answer that
\* brought it took longer than the safety minute: nothing in the code ends a
\* request that takes so long (TTL_MS in urlCache.js against the expiry the
\* server signs).
CacheServesWorkingUrls ==
  \A f \in Files : getCachedUrl(f) # None =>
    now <= getCachedUrl(f) + UrlLife \/ ~InTime(cache[f].url, cache[f].arrived)

\* It has its URL or a request under way, shows that it failed, or still watches
\* and will then fetch.
IsServed(t) == t.url # None \/ t.req # None \/ t.error \/ (t.watch /\ ~t.fetched)

\* A thumbnail that should show a picture is never left without one and without
\* a way to it, but for a card whose retry button was pressed: fetchedRef, the
\* observer and the error are set and reset together on every path that ends
\* without a URL (useInViewUrl and FileThumbnail).
NoStuckCard ==
  \A f \in Files : (thumb[f] # None /\ f \in Pictured(page)) =>
    IsServed(thumb[f]) \/ thumb[f].retried

\* What useInViewUrl says of retry, "clean re-fetch without dangling observers":
\* the card has its URL or a request, shows a failure, or will fetch again.
RetryFetchesAgain ==
  \A f \in Files : (thumb[f] # None /\ thumb[f].retried) => IsServed(thumb[f])

\* A thumbnail spins exactly while its own request is under way, whatever
\* unmounted, failed or was answered from the cache meanwhile (setLoading in
\* useInViewUrl and FileThumbnail, and what PreviewThumbnail makes of it).
SpinsWhileAsked ==
  \A f \in Files : thumb[f] # None => (Shows(f) = "spinner" <=> thumb[f].req # None)

\* What a thumbnail keeps about its request is true of the request (useInViewUrl
\* and FileThumbnail).
ThumbnailsSayWhatIsAsked == TypeOK /\ NoStuckCard /\ SpinsWhileAsked

\* A deleted file is listed only while the list on the screen was read before
\* the deletion: delete-all empties the list however lists and its answer are
\* interleaved, and the next list repairs one that came late
\* (fetchUserFiles.fulfilled and deleteAllFiles.fulfilled in FileSlices.js).
DeletedFilesShownOnlyOutdated == userFiles \subseteq alive \/ outdated

-----------------------------------------------------------------------------
(* Liveness. *)

\* The skeleton of the list goes away (loadingFiles in FileSlices.js).
ListLoadingEnds == loadingFiles ~> ~loadingFiles

\* A card in view gets its URL, an error, is taken off the screen, or leaves the
\* view and goes on watching; the debounce and the request never leave it
\* waiting (useInViewUrl).
CardInViewSettles ==
  \A f \in Files :
    (page = "files" /\ thumb[f] # None /\ thumb[f].timer) ~>
      (\/ thumb[f] = None
       \/ Shows(f) \in {"file", "retry", "icon"}
       \/ thumb[f].watch /\ ~thumb[f].timer)

\* The list and the thumbnails in view come to rest (FileSlices.js, useInViewUrl).
ScreenSettles == ListLoadingEnds /\ CardInViewSettles

=============================================================================
