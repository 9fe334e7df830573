-------------------------------- MODULE Library ---------------------------------
(***************************************************************************)
(* The files page and the history page of the dashboard.  Their modals     *)
(* push an entry on the browser's history so that Back closes them, and    *)
(* take it off with an asynchronous history.back().  The history page      *)
(* fetches the list of transfers and the transfer a modal shows; answers   *)
(* come in any order.  A behaviour stays on one page.                      *)
(***************************************************************************)
EXTENDS Naturals, Sequences, FiniteSets

CONSTANTS
  Cards,       \* file cards, of PDF files
  Transfers,   \* transfers of the history
  None,        \* no transfer
  Failed,      \* an error answer
  Pending,     \* no answer yet
  MaxOpens,    \* bound: modals opened
  MaxMoves,    \* bound: uses of the browser's Back and Forward
  MaxReloads,  \* bound: refetches of the file list
  MaxShares    \* bound: files shared while the history page shows

ASSUME ConstantsOK == {MaxOpens, MaxMoves, MaxReloads, MaxShares} \subseteq Nat

VARIABLES
  page,        \* "files" or "history"
  view,        \* how the files page shows the cards
  entries,     \* the browser's history from the page on: what pushed each entry
  pos,         \* the current entry; 0 is the page before
  queue,       \* traversals under way: of the user and of history.back()
  modals,      \* open modals: modalOpen and editOpen of the cards, and the
               \* transfer selected on the history page
  blob,        \* the PDF of the open preview
  list,        \* the history list: loading, how many shares it has, error
  lists,       \* requests for it under way
  transfer,    \* transfer_history, with its loading flag
  fetches,     \* requests for a transfer under way
  shares,      \* server: shares made so far
  zip,         \* the button Download ZIP
  count,       \* what the bounds count
  ghost        \* what the properties remember

browser == <<entries, pos, queue>>
vars == <<page, view, browser, modals, blob, list, lists, transfer, fetches, shares, zip,
          count, ghost>>

Kinds == {"preview", "edit", "history"}
Modal(kind, of) == [kind |-> kind, of |-> of]
Modals == [kind : {"preview", "edit"}, of : Cards] \cup [kind : {"history"}, of : Transfers]

TypeOK ==
  /\ page \in {"files", "history"}
  /\ view \in {"grid", "list"}
  /\ entries \in Seq({"page"} \cup Kinds) /\ entries # <<>> /\ Head(entries) = "page"
  /\ pos \in 0..Len(entries)
  /\ queue \in Seq({"back", "forward", "app"})
  /\ modals \subseteq Modals
  /\ blob \in {"none", "loading", "shown", "failed"}
  /\ list \in [loading : BOOLEAN, shares : 0..MaxShares]
  /\ lists \subseteq [n : Nat, got : (0..MaxShares) \cup {Pending, Failed}, asked : 0..MaxShares,
                    stale : BOOLEAN]
  /\ transfer \in [loading : BOOLEAN, shown : Transfers \cup {None}]
  /\ fetches \subseteq [n : Nat, of : Transfers, stale : BOOLEAN]
  /\ shares \in 0..MaxShares
  /\ zip \in [downloading : BOOLEAN, downloaded : BOOLEAN, requests : Nat, timers : Nat]
  /\ count \in [opens : Nat, moves : Nat, reloads : Nat, asked : Nat]
  /\ ghost \in [twoEdits : BOOLEAN, raced : BOOLEAN, forward : BOOLEAN, leftByApp : BOOLEAN,
                overtaken : BOOLEAN, listOvertaken : BOOLEAN, known : 0..MaxShares]

\* The history page asks for its list at once.
Init ==
  /\ page \in {"files", "history"}
  /\ view \in {"grid", "list"}
  /\ page = "history" => view = "list"
  /\ entries = <<"page">>
  /\ pos = 1
  /\ queue = <<>>
  /\ modals = {}
  /\ blob = "none"
  /\ list = [loading |-> page = "history", shares |-> 0]
  /\ lists = IF page = "history" THEN {[n |-> 0, got |-> Pending, asked |-> 0, stale |-> FALSE]}
             ELSE {}
  /\ transfer = [loading |-> FALSE, shown |-> None]
  /\ fetches = {}
  /\ shares = 0
  /\ zip = [downloading |-> FALSE, downloaded |-> FALSE, requests |-> 0, timers |-> 0]
  /\ count = [opens |-> 0, moves |-> 0, reloads |-> 0, asked |-> 0]
  /\ ghost = [twoEdits |-> FALSE, raced |-> FALSE, forward |-> FALSE, leftByApp |-> FALSE,
              overtaken |-> FALSE, listOvertaken |-> FALSE, known |-> 0]

OnPage == pos > 0
\* A modal that covers the page: the grid view renders no editor.
Covered == \E m \in modals : m.kind # "edit" \/ view = "list"
Selected == {m.of : m \in {x \in modals : x.kind = "history"}}
files == <<list, lists, transfer, fetches, shares, zip>>

-----------------------------------------------------------------------------
(* Modals and the browser's history. *)

\* The effect of a modal that opens pushes an entry, which drops those ahead.
Opens(m) ==
  /\ OnPage
  /\ ~Covered
  /\ m \notin modals
  /\ count.opens < MaxOpens
  /\ count' = [count EXCEPT !.opens = @ + 1]
  /\ modals' = modals \cup {m}
  /\ entries' = Append(SubSeq(entries, 1, pos), m.kind)
  /\ pos' = pos + 1
  /\ UNCHANGED <<page, view, queue>>

\* Mutant: the entry of a closed modal stays.
Closes_NoBack(ms, at, line) ==
  /\ modals' = modals \ ms
  /\ queue' = IF at \in DOMAIN entries THEN line ELSE <<>>
  /\ blob' = IF \E m \in ms : m.kind = "preview" THEN "none" ELSE blob

\* The cleanups of modals that close together: each whose kind is that of the
\* current entry calls history.back().  The entry is still the current one
\* when the next cleanup looks at it.
Closes(ms, at, line) ==
  /\ modals' = modals \ ms
  /\ queue' = line \o [i \in 1..Cardinality({m \in ms : m.kind = entries[at]}) |-> "app"]
  /\ blob' = IF \E m \in ms : m.kind = "preview" THEN "none" ELSE blob

\* A click on a card opens its preview, which fetches a PDF as a blob.
OpenPreview(c) ==
  /\ page = "files"
  /\ Opens(Modal("preview", c))
  /\ blob' = "loading"
  /\ ghost' = [ghost EXCEPT !.raced = @ \/ queue # <<>>]
  /\ UNCHANGED files

\* The pencil of a card.
OpenEditor(c) ==
  /\ page = "files"
  /\ Opens(Modal("edit", c))
  /\ ghost' = [ghost EXCEPT !.raced = @ \/ queue # <<>>,
                            !.twoEdits = @ \/ \E m \in modals : m.kind = "edit"]
  /\ UNCHANGED <<blob, files>>

\* Escape, a click beside the preview, or the close button of a modal.
CloseModal(m) ==
  /\ OnPage
  /\ m \in modals
  /\ m.kind = "edit" => view = "list" /\ \A x \in modals : x.kind = "edit"
  /\ Closes({m}, pos, queue)
  /\ ghost' = [ghost EXCEPT !.raced = @ \/ queue # <<>>]
  /\ UNCHANGED <<page, view, entries, pos, files, count>>

\* A refetch of the files unmounts every card with its modals.
ReloadFiles ==
  /\ page = "files"
  /\ OnPage
  /\ count.reloads < MaxReloads
  /\ count' = [count EXCEPT !.reloads = @ + 1]
  /\ Closes(modals, pos, queue)
  /\ ghost' = [ghost EXCEPT !.raced = @ \/ queue # <<>>,
                            !.forward = @ \/ Cardinality(modals) > 1]
  /\ UNCHANGED <<page, view, entries, pos, files>>

\* The buttons that switch between grid and list.
SetView(v) ==
  /\ page = "files"
  /\ OnPage
  /\ ~Covered
  /\ v # view
  /\ view' = v
  /\ UNCHANGED <<page, browser, modals, blob, files, count, ghost>>

\* The user's Back and Forward.
Move(way) ==
  /\ OnPage
  /\ count.moves < MaxMoves
  /\ count' = [count EXCEPT !.moves = @ + 1]
  /\ queue' = Append(queue, way)
  /\ ghost' = [ghost EXCEPT !.forward = @ \/ way = "forward", !.raced = @ \/ queue # <<>>]
  /\ UNCHANGED <<page, view, entries, pos, modals, blob, files>>

\* The browser makes the oldest traversal.  On the page, popstate closes every
\* open modal, and their cleanups look at the entry reached.
Traverse ==
  LET ahead == Head(queue) = "forward"
      to == IF ahead THEN pos + 1 ELSE pos - 1 IN
  /\ queue # <<>>
  /\ OnPage
  /\ \/ /\ to > Len(entries)
        /\ queue' = Tail(queue)
        /\ UNCHANGED <<pos, modals, blob, ghost>>
     \/ /\ to \in 1..Len(entries)
        /\ pos' = to
        /\ Closes(modals, to, Tail(queue))
        /\ UNCHANGED ghost
     \/ /\ to = 0
        /\ pos' = 0
        /\ queue' = <<>>
        /\ ghost' = [ghost EXCEPT !.leftByApp = Head(queue) = "app"]
        /\ UNCHANGED <<modals, blob>>
  /\ UNCHANGED <<page, view, entries, files, count>>

\* The preview shows its spinner; without the blob it would show the URL.
PreviewSpins == blob = "loading"

\* The PDF of the preview arrives, or not; an answer to a closed preview is
\* ignored.
BlobArrives ==
  /\ PreviewSpins
  /\ blob' \in {"shown", "failed"}
  /\ UNCHANGED <<page, view, browser, modals, files, count, ghost>>

-----------------------------------------------------------------------------
(* The history page. *)

\* fetchHistory.pending.
AskList ==
  /\ list' = [list EXCEPT !.loading = TRUE]
  /\ lists' = lists \cup {[n |-> count.asked + 1, got |-> Pending, asked |-> shares', stale |-> FALSE]}
  /\ count' = [count EXCEPT !.asked = @ + 1]

\* Files are shared, and FILES_SHARED makes the page fetch the list again.
FilesShared ==
  /\ page = "history"
  /\ OnPage
  /\ shares < MaxShares
  /\ shares' = shares + 1
  /\ AskList
  /\ UNCHANGED <<page, view, browser, modals, blob, transfer, fetches, zip, ghost>>

get_history(r) ==
  /\ r \in lists
  /\ r.got = Pending
  /\ \E got \in {shares, Failed} : lists' = (lists \ {r}) \cup {[r EXCEPT !.got = got]}
  /\ UNCHANGED <<page, view, browser, modals, blob, list, transfer, fetches, shares, zip,
                 count, ghost>>

\* fetchHistory.fulfilled and rejected: whichever answer comes sets the list.
ListArrives(r) ==
  /\ r \in lists
  /\ r.got # Pending
  /\ list' = [loading |-> FALSE, shares |-> IF r.got = Failed THEN list.shares ELSE r.got]
  /\ lists' = {IF x.n < r.n THEN [x EXCEPT !.stale = TRUE] ELSE x : x \in lists \ {r}}
  /\ ghost' = [ghost EXCEPT
       !.listOvertaken = IF r.got = Failed THEN @ ELSE r.stale,
       !.known = IF r.got # Failed /\ r.asked > @ THEN r.asked ELSE @]
  /\ UNCHANGED <<page, view, browser, modals, blob, transfer, fetches, shares, zip, count>>

\* Mutant: the transfer shown before is not cleared.
OpenTransfer_KeepsShown(t) ==
  /\ page = "history"
  /\ ~list.loading
  /\ Opens(Modal("history", t))
  /\ transfer' = [transfer EXCEPT !.loading = TRUE]
  /\ fetches' = {[x EXCEPT !.stale = TRUE] : x \in fetches} \cup
                 {[n |-> count.opens, of |-> t, stale |-> FALSE]}
  /\ ghost' = [ghost EXCEPT !.raced = @ \/ queue # <<>>, !.overtaken = FALSE]
  /\ UNCHANGED <<blob, list, lists, shares, zip>>

\* A click on a transfer opens its modal, which asks for it
\* (fetchHistoryByTransferID.pending).
OpenTransfer(t) ==
  /\ page = "history"
  /\ ~list.loading
  /\ Opens(Modal("history", t))
  /\ transfer' = [loading |-> TRUE, shown |-> None]
  /\ fetches' = {[x EXCEPT !.stale = TRUE] : x \in fetches} \cup
                 {[n |-> count.opens, of |-> t, stale |-> FALSE]}
  /\ ghost' = [ghost EXCEPT !.raced = @ \/ queue # <<>>, !.overtaken = FALSE]
  /\ UNCHANGED <<blob, list, lists, shares, zip>>

\* The answer sets transfer_history, whichever transfer is selected by now.
TransferArrives(r) ==
  /\ r \in fetches
  /\ fetches' = fetches \ {r}
  /\ \E ok \in BOOLEAN :
       /\ transfer' = [loading |-> FALSE, shown |-> IF ok THEN r.of ELSE transfer.shown]
       /\ ghost' = [ghost EXCEPT !.overtaken = IF ok THEN r.stale ELSE @]
  /\ UNCHANGED <<page, view, browser, modals, blob, list, lists, shares, zip, count>>

\* The modal shows a transfer, and its button says Download ZIP.
DownloadButton ==
  /\ OnPage /\ Selected # {}
  /\ ~transfer.loading /\ transfer.shown # None
  /\ ~zip.downloading /\ ~zip.downloaded

\* handleDownloadZip.  The modal component stays mounted when it is closed, and
\* so do its flags.
handleDownloadZip ==
  /\ DownloadButton
  /\ zip' = [zip EXCEPT !.downloading = TRUE, !.requests = @ + 1]
  /\ UNCHANGED <<page, view, browser, modals, blob, list, lists, transfer, fetches, shares,
                 count, ghost>>

ZipArrives ==
  /\ zip.requests > 0
  /\ \/ zip' = [downloading |-> FALSE, downloaded |-> TRUE, requests |-> zip.requests - 1,
                timers |-> zip.timers + 1]
     \/ zip' = [zip EXCEPT !.downloading = FALSE, !.requests = @ - 1]
  /\ UNCHANGED <<page, view, browser, modals, blob, list, lists, transfer, fetches, shares,
                 count, ghost>>

\* The timer of nine seconds.
MarkFades ==
  /\ zip.timers > 0
  /\ zip' = [zip EXCEPT !.downloaded = FALSE, !.timers = @ - 1]
  /\ UNCHANGED <<page, view, browser, modals, blob, list, lists, transfer, fetches, shares,
                 count, ghost>>

-----------------------------------------------------------------------------
ListAnswered == \E r \in lists : get_history(r) \/ ListArrives(r)
TransferAnswered == \E r \in fetches : TransferArrives(r)

Next ==
  \/ \E c \in Cards : OpenPreview(c) \/ OpenEditor(c)
  \/ \E m \in modals : CloseModal(m)
  \/ ReloadFiles
  \/ \E v \in {"grid", "list"} : SetView(v)
  \/ \E way \in {"back", "forward"} : Move(way)
  \/ Traverse \/ BlobArrives
  \/ FilesShared \/ ListAnswered
  \/ \E t \in Transfers : OpenTransfer(t)
  \/ TransferAnswered
  \/ handleDownloadZip \/ ZipArrives \/ MarkFades

Spec == Init /\ [][Next]_vars

-----------------------------------------------------------------------------
(* Safety. *)

\* No history.back() of a closing modal leaves the page: only the user's own
\* Back does, except when the pencil was used on two cards in the grid view,
\* where no editor shows, or when a modal opened or closed while a traversal
\* was under way (the cleanups in FileCard.jsx and History.jsx).
ModalsNeverLeaveThePage == ghost.leftByApp => ghost.twoEdits \/ ghost.raced

\* At rest, each open modal has its entry and there is no other above the page,
\* so that Back closes what is open and the next Back leaves (pushState and the
\* cleanups); Forward into a dropped entry and a refetch under two modals leave
\* entries behind.
EntriesMatchModals ==
  (OnPage /\ queue = <<>> /\ ~ghost.raced /\ ~ghost.forward /\ ~ghost.twoEdits) =>
    pos = 1 + Cardinality(modals)

\* Back closes the open modal and only the user leaves the page (FileCard.jsx
\* and History.jsx).
BackClosesModals == ModalsNeverLeaveThePage /\ EntriesMatchModals

\* The modal shows the transfer it was opened for, unless the answer for an
\* earlier one came after its own: transfer_history belongs to no request
\* (fetchHistoryByTransferID.fulfilled).
ShowsItsTransfer ==
  \A t \in Selected : transfer.shown \in {None, t} \/ ghost.overtaken

\* The list holds every share there was when an answered request was made,
\* unless an older answer came last (fetchHistory.fulfilled).
ListIsFresh == list.shares >= ghost.known \/ ghost.listOvertaken

\* One ZIP at a time, and the mark Downloaded is there exactly while its timer
\* runs, whatever modals were opened meanwhile (handleDownloadZip).
OneDownload ==
  /\ zip.requests = IF zip.downloading THEN 1 ELSE 0
  /\ zip.timers = IF zip.downloaded THEN 1 ELSE 0

\* What the history page shows is what was asked for last, up to overtaking, and
\* its button says what became of the download (HistorySlice.js, HistoryModal.jsx).
ShownIsNewest == TypeOK /\ ShowsItsTransfer /\ ListIsFresh /\ OneDownload

=============================================================================
