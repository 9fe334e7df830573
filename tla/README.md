# Sharexpress in TLA+

Sharexpress shares files between two people through a QR code: the receiver
owns the QR, the sender scans it, and a *sharing session* between the two lets
the sender upload to MinIO through presigned URLs and the receiver download.
A FastAPI service (two worker processes, `backend/Dockerfile`) keeps the
metadata in MongoDB, counters and one-time passwords in Redis, content in
MinIO; a React client drives it. No call to a store is part of a transaction,
every call is awaited, and the repository has no tests. What can go wrong is
therefore in the steps *between* two calls, and that is what the modules here
model: on the server a request is a record with a program counter that moves
from one database or storage call to the next; in the browser a click sends a
request, its answer runs a reducer later, and everything else may happen
in between.

Line references are to `src/`; short names such as `file_controller.py` and
`UploadModal.jsx` stand for their paths in `src/backend` and `src/frontend/src`.

## 1. Inventory

| Component | State | Operations | Interacts with | Hard behaviour | What makes it correct |
|---|---|---|---|---|---|
| **Sharing sessions** (`share_controller.py`, `sharing_token_middleware.py`) | `sharing_session` documents (unique per QR, sender, receiver; TTL on `expires_at`), the `x-sharing-token` cookie of each browser | create (rotate or insert), verify (expire or extend), use, revoke | QR documents, user names, every `/files` route | check and update are two calls; updates by token only; documents are revived; responses overwrite cookies out of order | a token has one holder; a token that stopped granting access never grants again; stale requests touch no newer grant; nothing abandoned stays |
| **Storage breaker** (`CircuitBreaker`, `UPLOAD_SEMAPHORE`, `async_retry` in `file_controller.py`) | state, failure count, last failure; ten permits; per process | enter, succeed, fail, probe, refuse | presigning, HEAD, download links | calls that began before a state change report after it; permits on every exit path | state and counter agree; permits conserved; the breaker closes when storage recovers |
| **Files** (`file_controller.py`, `file_routes.py`, `s3_config.py`) | `files` documents, objects in the bucket, presigned URLs | init, PUT, complete, delete, hard delete, share, retention cleaner | sessions, breaker, quota, history | two stores without a transaction; PUT at any time within ten minutes; swallowed errors; copies share one storage key; cleaners of two workers | a live document has content unless it was deleted on purpose; only the owner or retention deletes; a deleted file stays deleted; retention is enforced |
| **Upload engine** (`UploadModal.jsx`, `FileSlices.js`) | rows and their status, a queue of chunks, three workers, one `fileIndexOffset` per run | choose, clear, start, init, PUT, retry, report, close and reopen the modal | `/files/init-upload`, MinIO, `/files/complete-upload` | workers share the offset; answers are paired with files by position; XHR resolves on any status; the first failure ends the run for the user only | no file twice; "done" means reported; bytes go to their own key; every run ends |
| **File list, thumbnails' URLs, cache** (`FileSlices.js`, `Useinviewurl.js`, `urlCache.js`, `FileCard.jsx`) | the list and its flag, per thumbnail its URL, error and request, URLs in `sessionStorage` | refetch, search, delete all, enter and leave the viewport, retry, unmount | list and download routes | flags reset by hand on each path; answers cross deletions and unmounts; URLs age | no card stuck but after retry; a spinner means a request; no cached URL past its life but of a late answer; deleted files only on an outdated list |
| **PDF thumbnails and queue** (`Pdfrenderqueue.js`, `Previewthumbnail.jsx`, `UploadModal.jsx`) | `active`, `queue`; per thumbnail a task, its `cancelled` flag, its document | mount, unmount, four awaits | pdfjs | unmounting at any await; cancel races with start and end | slots conserved and never idle; first come, first served; documents destroyed; spinner ends |
| **Session page** (`ShareSessionSlice.js`, `Session.jsx`, `ActiveSession.jsx`, `QRuserInfoCard.jsx`) | the slice's flags and tokens, the session's files | connect, check, terminate, share, socket events | session routes, the socket | three thunks write the share token; lists overtake each other | one request owns the flag; files go to the session shown; a terminated session's panel goes |
| **QR codes, lookups, socket** (`App.jsx`, `QrSlice.js`, `socket.js`, `qr_controller.py`) | the user's code, the card of another person's, one WebSocket and its reconnection | ask for a code, search, scan, connect, reconnect, disconnect | QR routes, rooms | two askers; lookups overtake each other; close events come later than their cause | the card connects whom it names; the code shown works; one socket, none after disconnect |
| **Files page and history page** (`FileCard.jsx`, `History.jsx`, `HistoryModal.jsx`, `HistorySlice.js`) | the browser's history entries, open modals, the list of transfers, one transfer, the ZIP button | open, close, Back, Forward, reload, download | history routes | `history.back()` is asynchronous; answers carry no request | Back closes a modal and no modal leaves the page; a modal shows its transfer; one ZIP at a time |
| **Editors and their API** (`editor/*.jsx`, `edit_controller.py`) | text, flags, versions; paragraphs, undo history; a blob URL; `file_versions` and version objects | type, save, restore, retry, undo, redo, find and replace, close | edit routes, MinIO | load, restore and save beside each other; a save stops half way; `dirty` cleared by an older save | versions hold what was saved; nothing saved or typed is lost but in named cases |
| **Sign-in and account** (`Signin.jsx`, `authSlice.js`, `user_controller.py`, `OTP.py`) | transactions in Redis, the cookie, `auth` slice, the form | send, verify, who am I, rename, sign out | mail, guests | five thunks share one flag and one user; `/auth/me` makes guests; attempts are read, changed, written back | a code is for one address and one sign-in; the account shown is the cookie's |
| **Quota** (`QuotaManager`) | Redis counter with a 300 s TTL, filled from the database | check at init, increment at complete | files | no reservation between the two; refill races with increment | usage exceeds the quota only by what is in flight |
| **WebSocket rooms** (`ws_manager.py`) | rooms and a subscription task per room and process, `redis_active` | connect, disconnect, subscribe, publish | Redis pub/sub | sockets leave and enter while the task sends to a copy of the list; a call fails after Redis took it; the fallback is never undone | one subscription per room and process; whoever is in the room hears each event, once and in order, unless Redis fails |
| **ZIP stream** (`history_controller.py`) | a queue of ten chunks between a thread and a generator | produce, send | MinIO | a client that leaves while the producer is blocked | the thread ends |
| **Rate limiter and metrics, permission engine, indexes** | per-process windows; none; unique and TTL indexes | – | all routes | per process; a failed index is only logged | – |
| **Routes, layout, landing and legal pages, deployment** | – | – | – | – | rendering and configuration |

`PROJECT.json` lists the same components with their status, and under `hazards`
the places where this code is hard to test, with their lines. Where the code itself goes
wrong at such a place, no property can cover it: the hazard's note says so, and the property
beside it excepts just that case by name.

## 2. Modules

| Module | Models | Checked by | Proved in |
|---|---|---|---|
| `SharingSession` | sessions, cookies, requests of two workers, clock and TTL monitor | `MCSharingSession` | `SharingSessionProofs` |
| `SessionGrants` | abstract: what the session service promises about tokens | property `ImplementsGrants` | theorem `Refinement` |
| `CircuitBreaker` | the breaker, the semaphore and the retry decorator in one process | `MCCircuitBreaker` | `FileStoreProofs` |
| `FileStore` | documents and objects under uploads, shares, deletes, the cleaner | `MCFileStore` | `FileStoreProofs` |
| `UploadEngine` | the runs of the upload modal and their workers | `MCUploadEngine`, `MCFileScreens` | `UploadEngineProofs` |
| `PdfRendering` | the render queue and every await of a thumbnail | `MCPdfRendering` | `PdfRenderingProofs` |
| `RenderLine` | abstract: a line served in order, `Limit` at a time | property `ImplementsRenderLine` | theorem `Refinement` |
| `FileUrls` | the file list, the thumbnails' URLs and their cache | `MCFileScreens`, `MCFileUrls` | `PdfRenderingProofs` |
| `ClientSession` | a sharing session as the browser knows it | `MCBrowser` | `QrLinksProofs` |
| `QrLinks` | one's own code with its socket, somebody else's card | itself | `QrLinksProofs` |
| `Library` | modals against the browser's history; transfers and ZIP | `MCBrowser` | `PagesProofs` |
| `CodeEditor`, `DocxEditor`, `PdfEditor` | the three editors, the first two with their API | composed | `EditorsProofs` |
| `Editors` | `EditorRouter`: the three composed over shared `open`, `loading`, `saving`, `error` | `MCEditors` | `EditorsProofs` |
| `Login` | sign-in, sign-out, renaming, and the handlers that answer | `MCBrowser` | `PagesProofs` |
| `WsRooms` | a room's sockets, subscriptions and broadcasts in the two processes | itself | `WsRoomsProofs` |

`MCCircuitBreaker`, `MCClientSession`, `MCFileUrls` and `MCPages` instance their component under a
name (`Breaker!`, `Session!`, `Urls!`, `Account!`), give its properties names of their own and assume
its `ConstantsOK`; `MCClientSession` also names its variables anew (`files` is `sessionFiles`, `page` is
`sessionPage`). So TLC checks, and one module proves, two components that name things
alike: the breaker with the files it guards, the session page with the codes it is
opened from, the URLs with the thumbnails that show them, the account with the other pages.
`MCBrowser` (over `MCPages`) and `MCFileScreens` put components that share no variable side by side for TLC.

An operator `X_Reason` that stands before a definition `X` is a mutant: `X` changed
the way a plausible bug would. `X` never uses it. For each property of
each passing run, one mutant makes the run fail.

### SharingSession

`sessions` is the collection as a function on `Relation` (QR and sender; the
receiver is the QR's owner), which *is* the unique index on
`(qr_token, sender_ID, receiver_ID)`: the insert's duplicate error is
`CreateDuplicate`. `cookies` has the cookie of each browser, `identity` who is
logged in there (logging in or out leaves the sharing cookie alone), `reqs` the
requests in progress. Deadlines are kept as time left; `Tick` counts all down.

| Code | Actions |
|---|---|
| `create_session`: reads, draws `secrets.token_urlsafe` | `CreateStart` |
| … `find_one_and_update` on parties and names | `CreateRotate`, `CreateNoMatch` |
| … `insert_one` | `CreateInsert`, `CreateDuplicate` |
| … reads the QR again for the room | `CreateAnnounce`, `CreateQrGone` |
| `verify_x_sharing_token`: JWT and `find_one` | `VerifyStart` |
| … expired: `update_one` by token, 403 | `VerifyExpire` |
| … else: `update_one` by token, `set_sharing_cookie` | `VerifyExtend` |
| a guarded route; `terminate_session` | `Use`; `Terminate` |
| the response at the browser | `Receive` |
| worker dies, handler raises, response lost | `Abort` |
| logout/login, rename, a guest's new QR | `SwitchIdentity`, `Rename`, `DeleteQr` |
| MongoDB's TTL monitor | `TtlDelete` |

Three details the properties depend on: create's filter compares the *names* of
both parties, so that after a rename an existing document is not found and the
insert is refused; a cookie set on the dependency's `response` is sent only when
the route returns a value, not a `JSONResponse` of its own as the `/files`
routes do (`accepted` and `served`); `delete_cookie` names no domain and so misses
the production cookie (`Production`).

Abstracted: tokens are numbers in drawing order (they are unguessable and
unique); the JWT around the token is its expiry; permissions and device data
change no state that the properties see; the middleware's refusal for a wrong
party changes nothing and is the absence of a step.

`SessionGrants` is the promise: per relationship at most one token that grants
access, and a set of spent tokens. `Grant` replaces a relationship's token by one
never granted before, `Withdraw` ends it. The mapping reads `grant` off the
collection (the document's token if it would pass the middleware's filter) and
takes `spent` from the history variable `retired`.

### CircuitBreaker

One process's breaker with the calls of `_generate_presigned_url` (which hold a
permit of `UPLOAD_SEMAPHORE`) and those of HEAD and download links (which do
not). The lock is held only across code without an `await`, so entering
(`Enter`, `Probe`, `Refuse`) and reporting (`Succeed`, `Missing`, `Fail`) are single
steps, and the storage function between them is not protected. `Fail` ends the call
instead of retrying it: the breaker turns `ClientError` into `StorageError`,
which `async_retry` does not wait for. `Reset` reuses the slot for a later
request. `since` is followed up to one more than `Recovery`, beyond which the code
does not distinguish values.

### FileStore

`objects` is the bucket, `docs` the collection, `urls` the uploads whose presigned
PUT still works. An upload's key and `file_id` are one to one, so one number
stands for both; a copy has its own id and the original's key.

| Code | Actions |
|---|---|
| `init_upload` | `InitUpload` |
| the client's PUT, on time, repeated or late | `Put`, `UrlExpire` |
| `complete_upload`: request; HEAD of each; insert; `increment_usage` | `CompleteStart`, `CompleteHead`, `CompleteSave`, `CompleteCount`, `CompleteCountFails`, `CompleteUndone` |
| `_cleanup_storage`, `delete_many_from_storage`, one object at a time, errors swallowed | `Purge` |
| `DELETE /files/{id}` | `DeleteStart`, `Purge`, `Mark` |
| `cleanup_expired_files` | `CleanStart`, `Purge`, `Mark` |
| `delete_all_files_hard` | `WipeStart`, `Purge`, `WipeDrop` |
| `share_files_between_client` (one file) | `ShareStart`, `ShareCopy` |
| worker dies or the database raises | `Abort` |
| 30 days pass | `Age` |

Abstracted: names, sizes and types (validation refuses a request before any state
change); the breaker and the quota appear only as calls that may fail. `Age`
assumes that thirty days are longer than a URL's ten minutes, than a request
lasts and than a client goes on reporting an upload, and that a copy is younger
than its original. Clients complete the uploads *of their user*, under whatever session
the cookie is for by then (`Sender[origin[f]] = Sender[s]` in `CompleteStart`): that is the
browser's doing, the API takes the ids and keys it is given (`file_routes.py:97-118`). `UploadOwners`
follows from it, and so does `DeletionIsAuthorised`.

### UploadEngine

A file is the number of the row `addFiles` gave it. Each run has its own copy of
the rows (`chosen`), its `queue` of chunks and its `fileIndexOffset`, as
`handleUpload`'s closure has; `statusMap`, `uploading` and the rows belong to the
slice or to the opening of the modal (`mount`), so that a run whose modal was
closed (`home`) goes on and marks rows nobody connects with it any more.

| Code (`UploadModal.jsx`, `FileSlices.js`) | Actions |
|---|---|
| choosing or dropping files, clearing, closing and opening the modal | `addFiles`, `ClearAll`, `Close`, `Reopen` |
| `handleUpload`: chunks the rows, starts the workers | `handleUpload` |
| a worker's init-upload, answered (perhaps short) or refused | `InitAnswered`, `InitRefused` |
| its PUTs, three retries with a timer | `PutLoaded`, `PutErred`, `Retry` |
| complete-upload; the next chunk; the last worker's toast | `CompleteAnswered`, `CompleteRefused` |

A PUT's status is not looked at, as in `xhr.onload`; sizes matter only to `Valid`, the
places of a batch that are small enough. `Answers` are what `init_upload` may return
for a chunk: a URL for each file, or for some of them in their order, as it leaves out
the files it could not sign without saying which.

### PdfRendering and RenderLine

A task is a thumbnail's *n*-th mount. `at` is the await it is at: `queued`,
`library`, `document`, `page`, `paint`, then `settled` or `dropped`; `cancelled` is
the flag its effect's cleanup sets. `MountPdfThumb` is `enqueueRender` with the
start of the task if a slot is free; `MountPdfCanvasThumb` starts outside the
queue; `Unmount` is the cleanup with the queue's cancel function; each `…Resolved` is
one promise of pdfjs, resolved or (through `Catch`) rejected; `Settle` is the
`finally` with `active--` and `next()`. The two files import pdfjs on
their own (`lib`, per kind). `RenderLine` is what `Pdfrenderqueue.js` promises:
first come, first served, `Limit` at a time, nobody runs twice.

### FileUrls

A URL is the time it was signed. The Files page's cards (`useInViewUrl`:
`CardEnters`, `CardLeaves`, `CardTimer` for the debounce, `retry`) and the modal's thumbnails
(`FileThumbnail`: `ThumbnailEnters`) ask for URLs; `UrlServed`, `UrlArrives`,
`UrlFails` are the answer, `Late…` the answer to a thumbnail that is gone (its
request is not aborted). Time passes in `Tick` however long an answer is on its way, as no timeout ends
a request; an entry's `arrived` and a card's `retried` are history. `ListServed`, `ListArrives`, `ListFails` are the list,
`AskDeleteAll` to `DeleteRefused` the deletion of all, `FilesShared` the socket event
that refetches, `Type` and `SearchTimer` the search. Every change of what is on
the screen goes through `Remount`, which mounts and unmounts thumbnails. Sorting is
not distinguished from filtering.

### ClientSession

The slice `ses` is kept as the code keeps it, per person instead of per token.
`handleSessionCreate`, `handleTerminate`, `OpenSession`, `Reload` and
`handleShareSelected` send; `CreateArrives`/`Fails`, `RevokeServed`/`Arrives`/`Fails`,
`CheckServed`/…, `FilesArrive`/`Fail`, `ShareArrives` are the thunks' reducers in any
order; `Connected` and `FilesShared` come over the socket; `SessionEnds` is the
server's side (`SharingSession`), perhaps unheard. `Rerender` is what every change of
the slice or the page does: `Remount` mounts and unmounts the panel and the modals, and the effect of
`ActiveSession.jsx` fetches the session's files when what it wants changed (`Asked`). A list keeps whether
FILES_SHARED asked for it (`byEvent`), since the event may name another session than the panel's.

### QrLinks

`AppMounts` and `OpenQrPage` ask for the user's code (`GenerateQRCode`, answered from the
cache, from the database or by a new one: `CodeLookedUp`, `CodeMade`); App's
answer connects the socket (`CodeArrives` with `connectSocket`). `SocketOpens`,
`SocketCloses`, `Reconnect`, `disconnectSocket` are `socket.js` with its module-level
`socket`, timer and counter. `handleSearch`, `handleQRScan`, `clearReceiver` and
`LookupArrives`/`Fails` are the card. `CodeExpires` is a guest's TTL. Its server's side
is reduced to what a code request can find; `SharingSession` has the deletion of a
guest's code under a session.

### Library

`entries`, `pos` and `queue` are the browser's history with its traversals under way:
`Move` is the user's Back or Forward, a closing modal's cleanup adds an `app`
traversal (`Closes`), `Traverse` delivers one with its `popstate`. `OpenPreview`, `OpenEditor`
(the pencil), `CloseModal`, `ReloadFiles` and `SetView` are the Files page;
`OpenTransfer`, `TransferArrives`, `ListArrives`, `handleDownloadZip`, `ZipArrives`,
`MarkFades` the history page. `ghost` remembers what the properties except.

### Editors

`CodeEditor`: `fetchFileContent` and `fetchVersions` are requests, `Type` (also to the blank text) and
`handleReplace` edit, `Save`, `SaveByKey` (Ctrl+S, through what its listener last
captured: `keySees`) and `handleRollback` write. `SaveCounts` to `SaveUnlists` are
`save_text_content`'s steps at MongoDB and MinIO, `RollbackFinds` to `RollbackSizes` those of
`rollback_to_version`; `WriteFails` may end either before each, but for the deletion of an old version's
object, whose failure is swallowed (`SavePrunes`). Reads, lists and writes carry how many edits there were when the user
asked (`since`), and `ghost` remembers what the properties except. `DocxEditor`:
`useHistory` is `stack` and `idx`; `updateParagraph` (typing), `updateActive` (formatting), `addParagraphAfter`,
`deleteParagraph`, `handleFindReplace`, `handleUndo`, `handleRedo` edit; `Rebuilt` is what
the API makes of a document when it reads it (`get_docx_content`) and when it writes it (`save_docx`): it keeps of a
paragraph's format what `Written` says. `NewAfter` is the paragraph Enter makes, which takes over what `Inherited` says. `PdfEditor`: the three awaits of the viewer's fetch and its blob
URL. `Editors` composes them as `EditorRouter` does: one of them is open, and
they share the variables of that name.

### Login

`form` is the sign-in page's state, `user` and `loading` the slice's, `cookie` the
browser's, `asked` the requests under way with the cookie each carried. `SendOTP`,
`VerifyReads`, `VerifyWrites`, `fetch_user`, `update_user_name`, `Logout_user` are the
handlers (`Serves`), `SendArrives` to `LogoutFails` the reducers and what the page
does next (`Arrives`). Verification is two steps because `OTP.py` reads the
attempts and writes them back; `Expires` is the key's TTL. A code is named by its
transaction.

### WsRooms

The room of one QR code's owner in each process: `rooms` is the list of sockets, `pubsub_tasks`
the task that subscribes and broadcasts, named by the socket whose entering made it, `channel` what
Redis has queued for that subscription and `left` the sockets it has still to send its first message to.
The rooms share nothing but `redis_active`, so there is one.

| Code | Actions |
|---|---|
| `connect` after `accept`; `disconnect` with `task.cancel` | `connect`; `disconnect` |
| `_subscribe_to_redis_room`: `subscribe` | `Subscribed` |
| … a message; the awaits of the loop over `list(...)` | `Takes`; `SendsOn` |
| … an exception; a lost connection the client library restores | `SubscriptionFails`; `Reconnects` |
| `send_to_room`: `publish`, its failure | `send_to_room`, `Published`, `PublishFails` |
| … the broadcast to the process's own sockets | `SendsLocally` |

A publish that fails may have been taken (`doubtful`). A cancelled task unsubscribes later, but sends
nothing more, as the cancellation is raised at its next await; so it ends at once.

## 3. Runs

`Login`, `Library` and `ClientSession` share no variable, so one run (`browser`) checks the three: in a
behaviour one of them moves and the others stay as they began, which no property can tell from all
moving. So do `FileUrls` and `UploadEngine` in `file_screens`, whose fairness is that of `FileUrls` (nothing
fair can be done in the states it begins in, so it asks nothing of the other half).
All bounds are constants of a cfg. `CHECK_DEADLOCK FALSE` stands where the bounds let
a behaviour end; the breaker's run checks deadlock. Properties that belong
together are conjunctions of named parts; the parts are in parentheses.

| Run | Instance | Properties |
|---|---|---|
| `session` | 2 browsers, 2 users, 1 QR, 2 requests, 2 tokens, lease and cookie 1, production; symmetry | `OneHolder`, `RetiredIsFinal`, `RevokedIsDead`, `StaleWritesMiss`, `ImplementsGrants` |
| `session_live` | 1 browser, 1 request, renames, cookie 2, development; fair | `AbandonedSessionsEnd` |
| `breaker` | 3 presigns for 2 permits, 1 other call, threshold 2, 4 failures; fair | `ClosedBelowThreshold`, `PermitsConserved`, `ClosesAfterRecovery` |
| `files` | 2 users, 1 session, 2 requests, 1 cleaner, batch 1, 2 files; fair cleaner | `ContentUnlessPurged`, `DeletionIsAuthorised`, `TombstonesStay`, `RetentionIsEnforced` |
| `upload` | chunks of 1, 2 workers, 1 retry, up to 3 rows, chosen one by one or 3 at once of which one is too large, 2 runs, 2 openings, 1 failure; fair | `WorkersAreApart` (`NoFileTwice`, `OverlapOnlyAfterFailureOrClose`), `SaidDoneMeansDone` (`SuccessMeansReported`, `AllDoneMeansAllSent`), `EveryRunEnds` |
| `pdf` | 2 cards mounted twice, 1 thumbnail of the modal, 1 slot; fair | `ShowsItsOwnRender`, `ImplementsRenderLine`, `SpinnerEnds` |
| `file_screens` | 1 file with both kinds of thumbnail, search that hides it, TTL 0 below life 1, clock to 2, 2 lists, 1 late answer; or an upload in chunks of 2, 2 workers, 1 retry, up to 5 rows, 1 failure, short answers; fair | `ThumbnailsSayWhatIsAsked` (`NoStuckCard`, `SpinsWhileAsked`), `CacheServesWorkingUrls`, `DeletedFilesShownOnlyOutdated`, `ScreenSettles` (`ListLoadingEnds`, `CardInViewSettles`); `MispairedOnlyAfterShortAnswer`, `SaidDoneMeansDone` |
| `urls_retry` | the same instance of `FileUrls` | violated, as expected: `RetryFetchesAgain`, what `Useinviewurl.js` says of its `retry` |
| `qr_links` | 2 people, one without a code, 2 codes, 2 askers, 2 lookups, 2 sockets, 1 attempt; fair | `CardConnectsItsPerson`, `ShownCodeIsLive` (`ShownCodeWorks`, `ListensToShownCode`), `SocketsAreInHand` (`OneSocket`, `QuietAfterDisconnect`), `LinksSettle` (`LookupSettles`, `ReconnectionEnds`) |
| `editor` | 2 texts and the blank one, 2 versions kept, 1 edit, 2 writes, 1 retry; documents of up to 2 paragraphs in 2 styles beside the plain one, history 3, 3 edits, 2 saves | `EditorsAgree` (`CleanMeansSaved`, `HistoryIsAtTheDocument`, `BytesLiveWithTheViewer`), `TextIsKept` (`VersionsHoldWhatWasSaved`, `NewestVersionIsTheFile`, `BlankOnlyByIntent`, `EditsOverwrittenOnlyThen`) |
| `browser` | 2 addresses, 1 attempt, production, 5 acts of the person, their requests answered in any order; or 2 cards, 2 transfers, 2 openings, 2 uses of Back or Forward, 1 reload, 1 share; or 2 partners, 1 check, 2 lists, 1 share and 1 event in flight; symmetry of the partners | `SignedInIsShown` (`LoadingMeansAsked`, `AccountShownIsCurrent`), `CodesAreForOne` (`TransactionIsForTheShownEmail`, `CodesAreSpent`), `BackClosesModals` (`ModalsNeverLeaveThePage`, `EntriesMatchModals`), `ShownIsNewest` (`ShowsItsTransfer`, `ListIsFresh`, `OneDownload`), `RequestsAgree` (`OneSessionRequest`), `PanelIsOfItsSession` (`ShareTokenIsLive`, `WrongFilesOnlyFromElsewhere`), `TerminateHidesSession` |
| `rooms` | 2 processes, 2 sockets, 2 notifications, 1 failure of Redis; fair | `RoomHearsInOrder` (`OneSubscription`, `HeardAsPublished`, `TwiceOnlyIfDoubtful`), `EveryoneHears` |

Most type invariants are conjuncts of a property of their run (`ThumbnailsSayWhatIsAsked`, `ShownIsNewest`,
`EditorsAgree`, `SignedInIsShown`, `WorkersAreApart`, `RequestsAgree`, `RoomHearsInOrder`) and proved with it;
the others are proved by themselves (section 5).

Why the bounds suffice for the cases that matter. *Sessions*: two requests and two
tokens give every race the code has between a check and its update, as each
update is by one token or one relationship; renames, which change only which
branch of create is taken, are in `session_live`; the lease has the states fresh
and due. *Breaker*: three presigns for two permits make one wait; threshold 2 has
a count below, at and above it, and four failures leave room for those of calls
admitted before it opened. *Files*: two files with batch 1 give an original and
its copy, two uploads, and a backlog larger than a round. *Upload*: three rows in
chunks of one give two workers a third chunk, so that one of them goes back to the queue; five rows in
chunks of two are chunks of different sizes for them, so that the shared offset can be off (`file_screens`). *Thumbnails*: one slot for two thumbnails makes one
wait, two mounts let a late answer meet the next mount. *URLs*: TTL below life
by one keeps the code's minute between them, and the clock goes on for longer than it, so that answers
come later than that minute; a second file would share nothing
with the first but the list. *Session page*: every answer can overtake another
kind's, and two lists each other, whether the panel or an event asked for them. *Codes*: two
askers, two lookups, a reconnection beside a socket that is closing. *Library*: two
modals, two transfers, and a traversal under way while another starts. *Editors*:
two writes, the first of which also keeps the original, make one version more than is kept, so that
pruning happens; a history of three is trimmed by the third edit; of two styles one has a trait that
saving drops. *Login*: two addresses and five acts give
every pair of overtaking answers. *Rooms*: two sockets are in one process or in two; one may leave,
and empty the list, at every await of a broadcast to both; two notifications can change
places; after one failure one process is split off and the other is not. Beyond these bounds the proofs of section 5 cover
every invariant of the passing runs.

A property with an exception ("…`OnlyBy`…", "unless two requests raced") says that the
named cases are the only ones in which the code does otherwise; the history
variable of the exception (`short`, `disturbed`, `raced`, `late`, `byEvent`, `retried`, `arrived`, `ghost`, `seen`,
`crossed`, `mixed`) is set by the step that causes it and read by properties only. The
exceptions were found by TLC as counterexamples to the property without them.

### Where the code does something else than it says

Met while modelling, each visible in the definitions named:

- *Sessions.* Terminate answers "terminated successfully" (`share_controller.py:266`) also
  when a create rotated the token after the check and nothing was terminated
  (`Terminate`; the caller's own token is dead all the same: `RevokedIsDead`). "Extend the
  cookie age as well" (`sharing_token_middleware.py:97`) does not happen on routes that
  return a response object (`served`). A create revives a revoked or expired document
  although the comment speaks of an "existing active session" (`share_controller.py:125`). A
  request that read an expired lease marks the session EXPIRED after another one
  extended it (`sharing_token_middleware.py:66`).
- *Files.* "Failed after max attempts" (`file_controller.py:137`): a storage failure is
  tried once, because the breaker hides the exceptions the decorator waits for.
  "Failed to save file metadata" (620) when it was saved and its content deleted. The
  cleaner of "expired/orphaned files" (963) never looks for content without a document, and
  removes content a young copy still needs. A receiver's hard delete removes the
  sender's content, although "Only file sender can delete" (`file_routes.py:258`).
- *Thumbnails.* `retry` does not run the effect again although two comments say so
  (`Useinviewurl.js:25`, 167): the card shows nothing until it is mounted anew (run `urls_retry`, and the
  finding in `PROJECT.json`); leaving the viewport aborts nothing, contrary to the comment
  at 131; a card's URL outlives its expiry on the screen; the trash button only
  removes cached URLs; a refetch unmounts every card, an open editor's included.
- *Session page, codes.* Clearing the session keeps `session_id` and the results of the
  check; after a reload the sender is unknown; a refused revoke still disconnects the
  socket; a FILES_SHARED of another session puts that session's files in the panel (`socket.js:60-62`). "Regenerate" never makes a new code. With two requests for the code at
  once, the page may show one and the socket listen for another.
- *Library.* In the grid view the pencil opens no editor but pushes an entry, and two
  pencils then Back leave the page. Older answers overwrite newer ones.
- *Editors.* After pruning, the next version number (a count) is in use; a restore
  never prunes; Save after a failed first load empties the file; saving a document
  that did not load writes an empty one; a save clears `dirty` although something
  was edited meanwhile; what is typed while a restore is under way, and a Replace All during a load, is
  overwritten by the load that follows; `save_docx` drops formats behind "All changes saved"; a viewer
  closed before the bytes came keeps their URL for good.
- *Sign-in.* `/auth/me` answers a caller without a cookie as a guest, so the sign-in
  page sends guests away and the menu offers them to sign out; the cookie is
  deleted under the production domain only; "Change email" keeps the transaction of the
  earlier address; Continue sends a code for an invalid address too.

## 4. Fairness

Nothing is assumed of users, nor of workers that may die. What is assumed:

- `SharingSession`: weak fairness of `Tick` and of each `TtlDelete`: time passes
  and MongoDB's monitor runs each minute. Requests may hang, die or lose their response.
- `CircuitBreaker`: weak fairness of time and of each call's next step (the
  event loop runs what is ready, requests keep coming), strong fairness of
  `Acquire` (`asyncio.Semaphore` is first come, first served) and of `Succeed` (of a
  storage that answers, not every answer is a 404). The property's premise
  `<>[]healthy` is the only thing said of the storage.
- `FileStore`: weak fairness of `CleanStart` (the hourly loop of a running
  worker), strong fairness of the cleaner's `Purge` and `Mark` (the process or
  database does not fail in *every* round; `Abort` may interrupt any of them).
- `UploadEngine`: weak fairness of *some* worker's step: as long as a request is out or
  a timer set, one of them is answered, fails or fires (XHR and fetch always end).
- `PdfRendering`: weak fairness of `LibraryLoads` and of each task's next promise: pdfjs
  settles what it gives out, in success or failure.
- `FileUrls`: weak fairness of the answers (`ListAnswer`, `UrlAnswer`), each of which may be a
  failure, and of the debounce timer. Not of `DeleteAnswer` or the search timer.
- `QrLinks`: weak fairness of answers (`CodeAnswer`, `LookupAnswer`), of the reconnection
  timer, and of a socket that is connecting or closing; an open one may stay
  open for ever.

- `WsRooms`: weak fairness of each task's steps: its event loop runs it, and a send to
  a socket returns or raises. Not of publishing, entering or leaving.

`ClientSession`, `Library`, `Editors` and `Login` state safety only.

## 5. Proofs

Assumptions: each module's `ConstantsOK` (types of the constants; TLC evaluates it on
every run) and, for sessions and files, `NoneIsNothing` (the model value `None` is none of
the records). Apart from bounds being natural numbers, it says: that the modal can be opened once
(`UploadEngine`); that marks differ from what they stand beside (`Sent` from `None` in `ClientSession`;
`None` from `Sent` and `Error`, and all three from times, in `FileUrls`; JavaScript's `null` from an
answer in `Login`; the blank text from the texts of files and from the marks in
`CodeEditor`, where a file has a text to begin with); that a URL is dropped before it expires
(`TTL < UrlLife`: 9 and 10 minutes in the code); that the document editor keeps at least
one state (`HISTORY`, 50 in the code), that its documents are sequences of paragraphs, and that what
saving keeps of a format it keeps again (`Written`).

**Sessions** (`SharingSessionProofs`). The safety properties are not inductive: that
a retired token stays useless depends on where else it may be written. `IInv` adds
to `TypeOK`, by named parts:

- `DrawnTokens`: only numbers up to `issued` occur, so a new token is new everywhere;
- `PendingIsPrivate`: until its write, a create's token is nowhere else;
- `DocumentTokens`: a token is in one document, and is retired exactly when that
  document is inactive (`active` and `status` agree);
- `RequestTokens`: the token of a verified request authenticates its relationship
  or is retired, so that updates by token alone hit no other document;
- `Carriers`: requests and cookies that carry a token belong to one browser;
- `RevokedIsRetired`: as it says, for answers on the way.

Steps fall into groups with a lemma each: `QuietStep` (only the request or the
environment moves), `GrantStep` (rotate and insert write the request's token),
`VerifyStartReads`; then there is one lemma per part of `IInv`, and `Invariance`
joins them. From it follow `TypeCorrect`, `RetirementIsFinal`,
`TokensHaveOneHolder`, `RevokeKillsToken`, the action property
`StaleWritesAreHarmless` and `Refinement`: every step is a `Grant`, a `Withdraw` or
a stutter of `SessionGrants` (`GrantIsGrant`, `CloseIsWithdraw`, `CloseByToken`).

**Breaker** (in `FileStoreProofs`). `TypeOK`, `ClosedBelowThreshold` and
`PermitsConserved` are inductive together: `TypeCorrect`, `BreakerStateMatchesCount` and
`NoPermitLeaks` hold for any number of calls, threshold, timeout and permits.
`HoldersChange` says how a change of one call's `pc` changes the number of
holders.

**Files** (`FileStoreProofs`). `IInv` adds to `TypeOK`:

- `DrawnIds`: no document, origin or request refers to an id before it is drawn, so a
  shared copy never lands on an existing document;
- `UploadOwners`: a document of an upload belongs to who initialised it, however often it is
  removed and saved again, and in whichever session. Without it, a
  delete that checked the owner on one read could mark somebody else's document on
  the later write by `file_id`;
- `RequestFacts`: what a request carries is still true when it uses it (a completion's
  verified ids and a share's keys are in `Accounted`, the bucket or the deliberately
  deleted, which never shrinks; a delete's file is the caller's; a cleaner's are aged);
- `ContentUnlessPurged` itself.

`TypeOK` alone is not inductive here: that the document a completion saves has a
user as its owner needs `RequestFacts`. From `IInv` follow `TypeCorrect`, `ContentIsKept`,
`TombstonesAreFinal` and `DeletionsAreAuthorised`.

**Uploads** (`UploadEngineProofs`), for any files, chunk size, workers, retries, runs, openings and
failures. `SaidDoneMeansDone` and the others speak of what was reported in the end; why that is
right lies in what each worker holds on the way. `IInv` is `TypeOK`, `NoFileTwice`,
`OverlapOnlyAfterFailureOrClose`, `MispairedOnlyAfterShortAnswer`, and

- `ListsAreOnce`, `NewIsEmpty`, `FilesAreChosen`: no list has a file twice, a run that has not
  started has nothing, and one that has handles the files it was started with;
- `PutsAreOfChunk`: a worker's transfers are for files of its chunk, one for each, and all done and
  reported when it waits for complete-upload. So an answer that lets the worker drop its chunk
  drops nothing that is not reported;
- `FullAnswers`: unless an answer of the run was short, a transfer carries the file it is named for,
  and every file of a chunk has one;
- `ReportedIsOver`: a reported file is neither queued nor under way, hence not sent twice;
- `Covered`, `SuccessIsOver`: unless an answer was short, every chosen file is reported, in a
  worker's chunk or queued, and a run that succeeded has neither chunks nor queue;
- `OneAtHome`: an opening of the modal has one running run at most, and `uploading` says so, which is
  why the Upload button starts no second one;
- `Ticks`: the first run has ticked no more rows than it has sent files.

Cutting the files into chunks is `ChunkFacts` (every file in one chunk and in no other, by
arithmetic on `\div`), what an answer may hold `AnswerFacts`. Each action has a lemma: `StartStep`,
`AnswerStep`, `LoadStep`, `ErrStep`, `RetryStep`, `CompleteStep`, `StopStep` for what is refused
(`StopKeeps` for the worker that stops), `ScreenStep` for the user. `WorkersStayApart`,
`MispairingNeedsShortAnswer` and `SaidIsDone` follow. The last needs a count, because the workers
share one offset and tick each other's rows: which row is ticked says nothing about a file, but every
tick comes with a file not sent before, so as many ticks as rows mean as many files sent as were
chosen, and they are of the chosen ones (`TicksAreSent`).

**Thumbnails** (`PdfRenderingProofs`), for any number of thumbnails, mounts and slots.
`IInv` is `TypeOK`, that `RunningTasks` is finite, and

- `LastMountIsLive`: tasks of mounts that have not happened are untouched, those of
  earlier mounts are cancelled. It is what makes a task's flag and its thumbnail's
  state tell the same;
- `LineIsLive`: the queue holds the waiting tasks, each once, none cancelled. Without
  it a cancel function could take out somebody else's task;
- `SlotsConserved` and `NoIdleSlot`, each of which needs the other when a task settles:
  its slot goes to the head of the line or back to the pool;
- `NoDocumentLeaks` and `ShowsItsOwnRender`.

`SettleStep` and `UnmountStep` say what `finally` and the cleanup do to the line and to the
running tasks, `WithoutFacts` (on `RemoveAtFacts`, which four modules of proofs state for
themselves) what taking a task out of the line leaves; each action's proof cites them. From `Invariance` follow a
theorem for each part and `Refinement`: mounting is an arrival in `RenderLine`, unmounting
a departure, settling an end, all else a stutter (`MountArrives`, `UnmountLeaves`,
`SettleFinishes`).

**Session page** (in `QrLinksProofs`), for any people, requests, lists, shares and events. `IInv` is
`TypeOK`, `OneSessionRequest` (connect and terminate are not clicked while one is under way, and the
flag is up just then), `ShareTokenIsLive` (three thunks write the token that files are shared with; it is the
server's session's, unless that one ended unheard or is being revoked) and `PanelHasAsked`: the
newest list asked for is the one the panel wants, or an event's, still out and not
overtaken (`NewestIsWanted`), or it was answered (`NewestWasAnswered`). `WrongFilesOnlyFromElsewhere` is not
inductive without it, as the effect of `ActiveSession.jsx` asks in one step and the answer comes in a later one. `OneRequestOwnsTheFlag`,
`PanelAndSessionAgree` and the action property `TerminatedIsHidden` follow.

**Codes and socket** (`QrLinksProofs`), for any number of people, codes, requests and
sockets. `IInv` is `TypeOK`, `AppAsksOnce` (App has at most one request out, and no socket
before its answer: otherwise the answer would open a second one), `SocketIsCurrent`
(what lives is `socket`; a scheduled reconnection means every socket is free and attempts
are left; only `disconnectSocket` leaves sockets closing, and it uses the attempts up, which is
why their later close event schedules nothing) and `CardConnectsItsPerson`. The steps are
grouped as the state is, one lemma each: `CodeStep`, `SocketStep`, `CardStep`.
`CardsConnectTheirPerson` and `SocketsInHand` follow.

`ShownCodesAreLive` (theorem for `ShownCodeIsLive`) needs `LiveInv` beside it, which speaks only of
behaviours in which no two requests for the code raced: the requests are a first one or answered from
the cache (`FirstOrCached`), what they and the page carry are codes the server has given out
(`CodesAreOfServer`), and the socket's room is the code's (`RoomIsOfCode`). Asking, the server's two
steps and the answer have a lemma each (`AskKeepsLive`, `ServerKeepsLive`, `AnswerKeepsLive`).

**Rooms** (`WsRoomsProofs`), for any number of processes, sockets, notifications and failures.
`OneSubscription` alone is not inductive: that the last socket's leaving ends the *right* task needs
`TasksAreOfRooms` (a process's task was made there, and it has one while its list is not empty), and
that leaving empties the list only when nobody else is on it needs `SocketsAreListed` (`WithoutFacts`,
on `RemoveAtFacts`). `NewMadeNoTask` makes an entering socket's task a new one,
`SendersHaveEvents` makes `TypeOK` inductive. One lemma for entering (`EnteringKeeps`), one for leaving
(`LeavingKeeps`), one for failures (`FailuresKeep`); `TypeCorrect` and `RoomsListenOnce` follow.

`HeardAsPublished` and `TwiceOnlyIfDoubtful` compare sequences that are built up message by message.
Two more invariants carry them. `OnceInv`: no socket is twice on a list, on the copy the task sends
to or on that of a local broadcast, no event twice in a channel, and what a socket has heard was taken
by Redis or sent by its own process (`HeardOnce`). `InStep`, while Redis has not failed: a channel
holds the end of what was published, and what a socket has heard is a stretch of it that ends where its
process's task is reading, or one event further if the task has passed the socket in its copy
(`StepsAgree`). So the event a task sends on is the next one of every socket still in its copy.
`RoomsHearInOrder` joins the three.

**Thumbnails' URLs** (in `PdfRenderingProofs`), for any files, lists and time. `UrlsIInv` is `TypeOK` and

- `ThumbInv`: every thumbnail says what it asked (`ThumbnailsSay`): whether it has its URL, asks, failed
  or watches, and what its spinner means;
- `EntriesExpireFirst`: what the cache keeps it drops no later than the URL expires, if the answer came
  within the minute between `TTL` and `UrlLife`. The cache counts from the answer's arrival, so an entry of
  a later answer outlives its URL;
- `ListInv`: a list on its way knows whether a deletion overtook it.

A thumbnail's steps need `RemountKeeps`, which speaks for every change of what the screen shows.
`ThumbnailsSayTheTruth`, `CachedUrlsWork` and `DeletedFilesGo` follow.

**Files page and history page** (`PagesProofs`), for any cards, transfers and openings. `IInv` has two
halves.

- *Back closes modals* (`BackInv`). That no modal leaves the page is a statement about entries, while
  what happens is an order of traversals that the browser has still to make. `OneTraversal`: at most
  one is under way, and that of a closed modal has an entry to take off. `EntriesAreOfModals`: the
  entries up to the current one are the page's, then those of the open modals in the order they
  opened, then at most that of a modal just closed. Only with the three shapes spelled out
  is it known which modal the next `popstate` finds. `OnePerKind` excepts the pencil on two cards.
- *The newest answer is shown* (`HistoryInv`). `ListInv`: requests are ordered by what there was to
  list when they were sent, and one not overtaken asked for all that is known; `TransferInv`: a
  request that none follows is for the selected transfer; `ZipInv`.

`ModalSteps` sorts the actions by what they do to the modals and entries; `OpensKept`,
`CloseModalKept`, `MoveKept`, `TraverseKept` and `ReloadKept` are one of these each.

**Sign-in** (`PagesProofs`), for any addresses, attempts and steps of the person, in production or not.
`LoginIInv` is `LoginRequests`, `Shape`, `LoadingMeansAsked` and

- `AccountInv`: unless a sign-in, sign-out or rename passed a "who am I" on its way, each one under
  way carries the cookie of now and will be answered with what the server says now; whoever is shown is
  the cookie's account, or the guest without a cookie, and under the server's name unless a "who am I" is
  out or about to be. `AccountShownIsCurrent` speaks only
  of a page at rest, and is not inductive without what the answers hold;
- `MailInv`, `FormInv`: a transaction has one address; one request for a code of this visit to the form
  is out, for the address at the boxes, and with none out the transaction held is for that address;
- `CodesInv`: a transaction that nobody raced for has one reader at most, is gone once it
  was answered right, and the count in Redis, or the one its reader has read, is no less than the
  wrong answers. Nothing less bounds them, since the count is written back from the reader's copy;
- the count in `LoginRequests`: the number of the next request and the requests whose answer sends another
  one stay within twice the person's steps, so that ids stay within `Ids`.

`SignedInIsShown` (theorem `TheAccountIsShown`) and `CodesAreForOne` (`CodesWorkOnce`) follow. Sign-in
and the other pages share no variable: `EachOfTheTwo` takes the one that rests along.

**Editors** (`EditorsProofs`), for any texts, versions kept, edits, writes and documents. `IInv` says which editor
is open, that its invariant holds and, of the other two, what the properties need of the state they began
in (`CodeIdle`, `DocxIdle`, `PdfIdle`).

- *Text.* `VersionsInv`: with one write at a time versions are numbered up to their count, the write
  takes the next number, and the object of a version holds its text; `NewestInv`: the newest version is
  the file, or a write has just put another text there and knows which. It joins three places a save
  writes to in turn (version object, file, document), so it names the step a write is at.
  `BlankInv`: until a load failed or the user cleared the text only an editor that loads is blank, no
  file, version or read is, and the Ctrl+S listener knows of the loading; `LoadsInv`: with one load at a
  time, it and a restore under way were asked for after the last edit, unless one was made beside a
  restore or by Replace All in a load; `BudgetInv`: documents and those still to be
  inserted stay within the bound, which keeps version numbers in range.
- *Document.* `SavesInv` with `OneSave`: with one save at a time and no edit beside it, a save under way is of
  the document there is, and without one the stored document is the document, up to what saving
  drops, or the editor is dirty; `StackInv`: with nothing edited behind the spinner the index is in the undo history, at the
  document if that was not typed into. `PushFacts` says what recording does when the history is
  full, `RebuiltFacts` that saving twice saves the same.
- *PDF.* `BytesLiveWithTheViewer` is inductive with the shape of the three variables.

`EditorsAreRight` (`EditorsAgree`, with `HistoryFollows` for its `HistoryIsAtTheDocument`) and `NoTextIsLost`
(`TextIsKept`) follow. Lemmas for the page's steps (`ClientSteps`, `ClientKept`) and for the API's (`ServeFacts`,
`ServeKept`) are kept apart, as an API step leaves the page alone.

**Only model-checked**: liveness (`AbandonedSessionsEnd`, `ClosesAfterRecovery`,
`RetentionIsEnforced`, `EveryRunEnds`, `SpinnerEnds`, `ScreenSettles`, `LinksSettle`, `EveryoneHears`; fairness
and ENABLED are outside the prover's reach).

## 6. Not modelled, and why

- *Quota*: nothing reserves the space between check and increment, so the sum may
  exceed the quota by whatever is in flight; a property could only restate that. In
  `FileStore` it is a call that may fail.
- *WebSocket rooms*: that `redis_active` is set again, and the two processes' rooms joined, is
  not stated: nothing in the code is meant to restore it. A socket that sends what is not JSON
  makes its endpoint end without `disconnect`; the client sends JSON only (`socket.js`). `/share/connect` only sends.
- *ZIP stream*: the browser's end is in `Library`. The producing thread does block for good on
  its full queue when the client leaves.
- *Rate limiter and metrics*: counters under a lock, per process, that decide nothing that
  outlives a request. *Permission engine*: a pure check, taken as given by the routes.
- *Index creation*: a failure is only logged; the modules take the indexes as created.
- *A success in the closed state* does not reset the breaker's count; nothing in the
  repository says that the count is of consecutive failures.
- *Pagination of the document editor*: the heights it cuts pages by are measured in the browser after
  painting and kept by index (`Docxeditor.jsx:860-867`, 902-908), so what a page holds depends on the
  renders before it; no state another part reads.
- *Within modelled parts*: listing and history entries of a share, document toolbars that change
  only the look, tables and lists, PDF annotations (a route without a caller), Google
  sign-in (no caller in the client), mail, JWT and hashing (a token's uniqueness is
  assumed).
- *Landing and legal pages, styles, assets; docker and nginx configuration* (read for the
  number of processes): no state another part reads.

What could follow: `ZipStream` as a module of its own, with the file it leaves out when storage
fails; `FileStore`
composed with `SharingSession`, for what a stale session can still do to files.
