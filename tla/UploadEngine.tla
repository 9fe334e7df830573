------------------------------ MODULE UploadEngine ------------------------------
(***************************************************************************)
(* The browser's upload engine: handleUpload of the file modal with the    *)
(* files slice it reports to.  A run cuts the chosen files into chunks;    *)
(* its workers take chunks off one shared queue, ask the server for an     *)
(* upload URL per file, PUT the files, report them, and take the next      *)
(* chunk.  The runs of one modal, and those of a modal that was closed     *)
(* meanwhile, share the rows the user sees.                                *)
(*                                                                         *)
(* A chosen file is the number of the row addFiles gave it.                *)
(***************************************************************************)
EXTENDS Naturals, Sequences, FiniteSets

CONSTANTS
  CHUNK_SIZE,   \* files per init-upload request (30)
  CONCURRENCY,  \* workers of a run (3)
  MAX_RETRIES,  \* further tries of a failed PUT (3)
  MAX,          \* largest size accepted (20 MB)
  Batches,      \* what the user may drop or pick at once: sequences of sizes
  MaxRows,      \* bound: rows in the list
  MaxRuns,      \* bound: uploads started
  MaxMounts,    \* bound: times the modal is opened, the last not closed again
  MaxFailures   \* bound: requests and transfers that fail, again and again

ASSUME ConstantsOK ==
  /\ CHUNK_SIZE \in Nat \ {0}
  /\ CONCURRENCY \in Nat \ {0}
  /\ MAX_RETRIES \in Nat
  /\ MAX \in Nat
  /\ \A b \in Batches : b \in Seq(Nat)
  /\ MaxRows \in Nat
  /\ MaxRuns \in Nat
  /\ MaxMounts \in Nat \ {0}
  /\ MaxFailures \in Nat

Rows == 0..(MaxRows - 1)
Runs == 1..MaxRuns
Workers == 1..CONCURRENCY
Slots == Runs \X Workers

VARIABLES
  count,        \* Len(state.files): the rows of the list
  statusMap,    \* the status each row shows
  localFiles,   \* the modal's own File objects, by their rows
  uploading,    \* the modal's upload is in progress
  mount,        \* which opening of the modal this is
  open,         \* the modal is on the screen
  state,        \* of each run: not started, running, or how it ended
  home,         \* the opening of the modal a run was started from
  chosen,       \* the run's copy of localFiles
  queue,        \* the run's chunks no worker has taken
  fileIndexOffset, \* of each run, shared by its workers
  pc,           \* of each worker: the await it is at
  chunk,        \* the chunk a worker has taken
  puts,         \* the PUTs of that chunk
  reported,     \* <<run, name, file>>: what complete-upload was told is stored under
                \* the key made for name, and the file whose bytes were sent there
  failures,     \* how many requests and transfers have failed, again or not
  short,        \* history: runs with an init answer that left a file out
  disturbed     \* history: the first run's rows were replaced, or another run started

screen == <<count, statusMap, localFiles, uploading, mount, open>>
engine == <<state, home, chosen, queue, fileIndexOffset, pc, chunk, puts>>
vars == <<screen, engine, reported, failures, short, disturbed>>

\* One transfer: the file whose key it goes to, the file whose bytes are sent,
\* the row it reports to, and how far it is.
Put == [name : Rows, file : Rows, index : Nat,
        at : {"flight", "sleep", "done", "failed"}, tries : 0..MAX_RETRIES]

TypeOK ==
  /\ count \in 0..MaxRows
  /\ statusMap \in [Rows -> {"none", "uploading", "done"}]
  /\ localFiles \in Seq(Rows)
  /\ uploading \in BOOLEAN
  /\ mount \in 1..MaxMounts
  /\ open \in BOOLEAN
  /\ state \in [Runs -> {"new", "running", "succeeded", "failed"}]
  /\ home \in [Runs -> 0..MaxMounts]
  /\ chosen \in [Runs -> Seq(Rows)]
  /\ queue \in [Runs -> Seq(Seq(Rows))]
  /\ fileIndexOffset \in [Runs -> Nat]
  /\ pc \in [Slots -> {"idle", "init", "put", "complete", "ended", "failed"}]
  /\ chunk \in [Slots -> Seq(Rows)]
  /\ puts \in [Slots -> Seq(Put)]
  /\ reported \in SUBSET (Runs \X Rows \X Rows)
  /\ failures \in 0..MaxFailures
  /\ short \in SUBSET Runs
  /\ disturbed \in BOOLEAN

Init ==
  /\ count = 0
  /\ statusMap = [i \in Rows |-> "none"]
  /\ localFiles = <<>>
  /\ uploading = FALSE
  /\ mount = 1
  /\ open = TRUE
  /\ state = [r \in Runs |-> "new"]
  /\ home = [r \in Runs |-> 0]
  /\ chosen = [r \in Runs |-> <<>>]
  /\ queue = [r \in Runs |-> <<>>]
  /\ fileIndexOffset = [r \in Runs |-> 0]
  /\ pc = [s \in Slots |-> "idle"]
  /\ chunk = [s \in Slots |-> <<>>]
  /\ puts = [s \in Slots |-> <<>>]
  /\ reported = {}
  /\ failures = 0
  /\ short = {}
  /\ disturbed = FALSE

-----------------------------------------------------------------------------
(* The rows. *)

Started == {r \in Runs : state[r] # "new"}

\* setFiles: a new list, all its statuses forgotten.
setFiles(n) ==
  /\ count' = n
  /\ statusMap' = [i \in Rows |-> "none"]
  /\ disturbed' = (disturbed \/ Started # {})

\* setFileStatus for several rows at once.
Mark(rowsMarked, status) ==
  statusMap' = [i \in Rows |-> IF i \in rowsMarked THEN status ELSE statusMap[i]]

\* The row has its tick.
isDone(i) == statusMap[i] = "done"

hasPending == \E i \in 0..(count - 1) : ~isDone(i)

\* The upload tab of the modal, with its drop zone and its list.
UploadTab == open

\* The Upload button is there and works: some row is pending, nothing uploads.
UploadButton == open /\ count > 0 /\ hasPending /\ ~uploading

\* The places of the files of a batch that are not too large.
Valid(batch) == {i \in DOMAIN batch : batch[i] <= MAX}

\* The user drops files or picks them; those too large are refused, and a
\* batch of nothing else changes nothing.
addFiles(batch) ==
  LET n == Cardinality(Valid(batch)) IN
  /\ UploadTab
  /\ n > 0
  /\ count + n <= MaxRows
  /\ localFiles' = localFiles \o [i \in 1..n |-> count + i - 1]
  /\ setFiles(count + n)
  /\ UNCHANGED <<uploading, mount, open, engine, reported, short, failures>>

\* "Clear all": offered while the list is not empty and nothing uploads.
ClearAll ==
  /\ UploadTab
  /\ count > 0
  /\ ~uploading
  /\ localFiles' = <<>>
  /\ setFiles(0)
  /\ UNCHANGED <<uploading, mount, open, engine, reported, short, failures>>

\* The modal goes away with its state; the runs' promises do not, nor do the
\* rows, which the store keeps.
Close ==
  /\ open
  /\ mount < MaxMounts
  /\ open' = FALSE
  /\ localFiles' = <<>>
  /\ uploading' = FALSE
  /\ UNCHANGED <<count, statusMap, mount, engine, reported, short, disturbed, failures>>

Reopen ==
  /\ ~open
  /\ mount < MaxMounts
  /\ open' = TRUE
  /\ mount' = mount + 1
  /\ UNCHANGED <<count, statusMap, localFiles, uploading, engine, reported, short, disturbed, failures>>

-----------------------------------------------------------------------------
(* A run. *)

FilesOf(arr) == {arr[i] : i \in DOMAIN arr}

SmallerOf(a, b) == IF a <= b THEN a ELSE b

\* Cut a sequence into chunks of the given size, the last one maybe shorter.
chunkArray(arr, size) ==
  [k \in 1..((Len(arr) + size - 1) \div size) |->
    SubSeq(arr, (k - 1) * size + 1, SmallerOf(k * size, Len(arr)))]

\* The Upload button, enabled while some row is pending and nothing uploads.
\* Every worker at once takes its first chunk and asks for its URLs.
handleUpload(r) ==
  LET chunks == chunkArray(localFiles, CHUNK_SIZE)
      Takes(s) == s[1] = r /\ s[2] <= Len(chunks) IN
  /\ UploadButton
  /\ localFiles # <<>>
  /\ state[r] = "new"
  /\ \A q \in Runs : q < r => state[q] # "new"
  /\ uploading' = TRUE
  /\ disturbed' = (disturbed \/ Started # {})
  /\ state' = [state EXCEPT ![r] = "running"]
  /\ home' = [home EXCEPT ![r] = mount]
  /\ chosen' = [chosen EXCEPT ![r] = localFiles]
  /\ queue' = [queue EXCEPT ![r] =
                 SubSeq(chunks, SmallerOf(CONCURRENCY, Len(chunks)) + 1, Len(chunks))]
  /\ pc' = [s \in Slots |-> IF Takes(s) THEN "init"
                            ELSE IF s[1] = r THEN "ended" ELSE pc[s]]
  /\ chunk' = [s \in Slots |-> IF Takes(s) THEN chunks[s[2]] ELSE chunk[s]]
  /\ UNCHANGED <<count, statusMap, localFiles, mount, open, fileIndexOffset, puts,
                 reported, short, failures>>

\* The modal a run was started from is still there to be told.
AtHome(r) == open /\ home[r] = mount

\* A request or a transfer comes back with an error; only the bound stops it.
AFailure == failures < MaxFailures /\ failures' = failures + 1

\* A worker's rejection settles Promise.all, if nothing has settled it yet:
\* the modal reports the failure.  The other workers are not stopped.
Fail(r) ==
  /\ state' = [state EXCEPT ![r] = IF state[r] = "running" THEN "failed" ELSE state[r]]
  /\ uploading' = IF AtHome(r) /\ state[r] = "running" THEN FALSE ELSE uploading

\* The files of a chunk the server may sign URLs for: all of them, or fewer, in
\* their order.
Answers(c) ==
  {c} \cup UNION {{[i \in 1..n |-> c[place[i]]] :
                     place \in {p \in [1..n -> DOMAIN c] : \A i, j \in 1..n : i < j => p[i] < p[j]}} :
                  n \in 1..(Len(c) - 1)}

\* Mutant: the file is looked up by its row instead of its place in the chunk.
InitAnswered_ByRow(s, names) ==
  LET r == s[1]
      Row(i) == fileIndexOffset[r] + i - 1 IN
  /\ pc[s] = "init"
  /\ pc' = [pc EXCEPT ![s] = "put"]
  /\ puts' = [puts EXCEPT ![s] = [i \in 1..Len(names) |->
       [name |-> names[i], file |-> chosen[r][SmallerOf(Row(i) + 1, Len(chosen[r]))], index |-> Row(i),
        at |-> "flight", tries |-> 0]]]
  /\ Mark({Row(i) : i \in 1..Len(names)}, "uploading")
  /\ short' = IF Len(names) < Len(chunk[s]) THEN short \cup {r} ELSE short
  /\ UNCHANGED <<count, localFiles, uploading, mount, open, state, home, chosen,
                 queue, fileIndexOffset, chunk, reported, disturbed, failures>>

\* init-upload answers with URLs for the files it could sign; the engine pairs
\* them with the chunk's by position.
InitAnswered(s, names) ==
  LET r == s[1]
      Row(i) == fileIndexOffset[r] + i - 1 IN
  /\ pc[s] = "init"
  /\ pc' = [pc EXCEPT ![s] = "put"]
  /\ puts' = [puts EXCEPT ![s] = [i \in 1..Len(names) |->
       [name |-> names[i], file |-> chunk[s][i], index |-> Row(i),
        at |-> "flight", tries |-> 0]]]
  /\ Mark({Row(i) : i \in 1..Len(names)}, "uploading")
  /\ short' = IF Len(names) < Len(chunk[s]) THEN short \cup {r} ELSE short
  /\ UNCHANGED <<count, localFiles, uploading, mount, open, state, home, chosen,
                 queue, fileIndexOffset, chunk, reported, disturbed, failures>>

InitRefused(s) ==
  /\ AFailure
  /\ pc[s] = "init"
  /\ pc' = [pc EXCEPT ![s] = "failed"]
  /\ Fail(s[1])
  /\ UNCHANGED <<count, statusMap, localFiles, mount, open, home, chosen, queue,
                 fileIndexOffset, chunk, puts, reported, short, disturbed>>

AllDone(ps) == \A i \in DOMAIN ps : ps[i].at = "done"

\* xhr.onload resolves whatever the answer's status, so a PUT the storage
\* refused is done as well.  The last PUT of the chunk sends the report.
PutLoaded(s, i) ==
  LET p == puts[s][i] IN
  /\ p.at = "flight"
  /\ puts' = [puts EXCEPT ![s][i].at = "done"]
  /\ Mark({p.index}, "done")
  /\ IF pc[s] = "put" /\ AllDone(puts'[s])
       THEN /\ pc' = [pc EXCEPT ![s] = "complete"]
            /\ reported' = reported \cup {<<s[1], puts[s][j].name, puts[s][j].file>> :
                                       j \in DOMAIN puts[s]}
       ELSE UNCHANGED <<pc, reported>>
  /\ UNCHANGED <<count, localFiles, uploading, mount, open, state, home, chosen,
                 queue, fileIndexOffset, chunk, short, disturbed, failures>>

\* Mutant: the row is done once its transfer is over, failed or not.
PutErred_MarksDone(s, i) ==
  LET p == puts[s][i] IN
  /\ IF p.tries = 0 THEN AFailure ELSE UNCHANGED failures
  /\ p.at = "flight"
  /\ IF p.tries < MAX_RETRIES
       THEN /\ puts' = [puts EXCEPT ![s][i].at = "sleep"]
            /\ UNCHANGED <<pc, state, uploading>>
       ELSE /\ puts' = [puts EXCEPT ![s][i].at = "failed"]
            /\ pc' = [pc EXCEPT ![s] = "failed"]
            /\ Fail(s[1])
  /\ Mark({p.index}, "done")
  /\ UNCHANGED <<count, localFiles, mount, open, home, chosen, queue,
                 fileIndexOffset, chunk, reported, short, disturbed>>

\* Mutant: the last failure settles nothing.
PutErred_Silent(s, i) ==
  LET p == puts[s][i] IN
  /\ IF p.tries = 0 THEN AFailure ELSE UNCHANGED failures
  /\ p.at = "flight"
  /\ IF p.tries < MAX_RETRIES
       THEN /\ puts' = [puts EXCEPT ![s][i].at = "sleep"]
            /\ UNCHANGED <<pc, state, uploading>>
       ELSE /\ puts' = [puts EXCEPT ![s][i].at = "failed"]
            /\ UNCHANGED pc
            /\ UNCHANGED <<state, uploading>>
  /\ UNCHANGED <<count, statusMap, localFiles, mount, open, home, chosen, queue,
                 fileIndexOffset, chunk, reported, short, disturbed>>

\* xhr.onerror: sleep and try again, or give the chunk up.
PutErred(s, i) ==
  LET p == puts[s][i] IN
  /\ IF p.tries = 0 THEN AFailure ELSE UNCHANGED failures
  /\ p.at = "flight"
  /\ IF p.tries < MAX_RETRIES
       THEN /\ puts' = [puts EXCEPT ![s][i].at = "sleep"]
            /\ UNCHANGED <<pc, state, uploading>>
       ELSE /\ puts' = [puts EXCEPT ![s][i].at = "failed"]
            /\ pc' = [pc EXCEPT ![s] = "failed"]
            /\ Fail(s[1])
  /\ UNCHANGED <<count, statusMap, localFiles, mount, open, home, chosen, queue,
                 fileIndexOffset, chunk, reported, short, disturbed>>

\* The second's sleep is over: uploadWithRetry calls itself.
Retry(s, i) ==
  /\ puts[s][i].at = "sleep"
  /\ puts' = [puts EXCEPT ![s][i].at = "flight", ![s][i].tries = @ + 1]
  /\ UNCHANGED <<screen, state, home, chosen, queue, fileIndexOffset, pc, chunk,
                 reported, short, disturbed, failures>>

OthersEnded(s) == \A q \in Slots : (q[1] = s[1] /\ q # s) => pc[q] = "ended"

\* Mutant: the chunk a worker goes on with stays in the queue.
CompleteAnswered_KeepsHead(s) ==
  LET r == s[1]
      last == queue[r] = <<>> /\ OthersEnded(s) /\ state[r] = "running" IN
  /\ pc[s] = "complete"
  /\ fileIndexOffset' = [fileIndexOffset EXCEPT ![r] = @ + Len(chunk[s])]
  /\ puts' = [puts EXCEPT ![s] = <<>>]
  /\ IF queue[r] # <<>>
       THEN /\ chunk' = [chunk EXCEPT ![s] = Head(queue[r])]
            /\ pc' = [pc EXCEPT ![s] = "init"]
       ELSE /\ chunk' = [chunk EXCEPT ![s] = <<>>]
            /\ pc' = [pc EXCEPT ![s] = "ended"]
  /\ UNCHANGED queue
  /\ state' = IF last THEN [state EXCEPT ![r] = "succeeded"] ELSE state
  /\ uploading' = IF last /\ AtHome(r) THEN FALSE ELSE uploading
  /\ localFiles' = IF last /\ AtHome(r) THEN <<>> ELSE localFiles
  /\ UNCHANGED <<count, statusMap, mount, open, home, chosen, reported,
                 short, disturbed, failures>>

\* complete-upload answers: the offset moves on and the worker takes the next
\* chunk, or ends; the last to end makes the run a success, which empties the
\* modal's list of files.
CompleteAnswered(s) ==
  LET r == s[1]
      last == queue[r] = <<>> /\ OthersEnded(s) /\ state[r] = "running" IN
  /\ pc[s] = "complete"
  /\ fileIndexOffset' = [fileIndexOffset EXCEPT ![r] = @ + Len(chunk[s])]
  /\ puts' = [puts EXCEPT ![s] = <<>>]
  /\ IF queue[r] # <<>>
       THEN /\ chunk' = [chunk EXCEPT ![s] = Head(queue[r])]
            /\ queue' = [queue EXCEPT ![r] = Tail(queue[r])]
            /\ pc' = [pc EXCEPT ![s] = "init"]
       ELSE /\ chunk' = [chunk EXCEPT ![s] = <<>>]
            /\ pc' = [pc EXCEPT ![s] = "ended"]
            /\ UNCHANGED queue
  /\ state' = IF last THEN [state EXCEPT ![r] = "succeeded"] ELSE state
  /\ uploading' = IF last /\ AtHome(r) THEN FALSE ELSE uploading
  /\ localFiles' = IF last /\ AtHome(r) THEN <<>> ELSE localFiles
  /\ UNCHANGED <<count, statusMap, mount, open, home, chosen, reported,
                 short, disturbed, failures>>

CompleteRefused(s) ==
  /\ AFailure
  /\ pc[s] = "complete"
  /\ pc' = [pc EXCEPT ![s] = "failed"]
  /\ Fail(s[1])
  /\ UNCHANGED <<count, statusMap, localFiles, mount, open, home, chosen, queue,
                 fileIndexOffset, chunk, puts, reported, short, disturbed>>

-----------------------------------------------------------------------------
User ==
  \/ \E batch \in Batches : addFiles(batch)
  \/ ClearAll
  \/ Close
  \/ Reopen
  \/ \E r \in Runs : handleUpload(r)

Worker(s) ==
  \/ \E names \in Answers(chunk[s]) : InitAnswered(s, names)
  \/ InitRefused(s)
  \/ \E i \in DOMAIN puts[s] : \/ PutLoaded(s, i)
                               \/ PutErred(s, i)
                               \/ Retry(s, i)
  \/ CompleteAnswered(s)
  \/ CompleteRefused(s)

Next == User \/ \E s \in Slots : Worker(s)

Spec == Init /\ [][Next]_vars

\* As long as a request is out or a timer set, some of them is answered, fails or fires.
FairSpec == Spec /\ WF_vars(\E s \in Slots : Worker(s))

-----------------------------------------------------------------------------
(* Safety. *)

\* The shared queue hands every chunk to one worker: no file of a run is with
\* two workers, or with a worker and still queued, or queued twice
\* (handleUpload's queue.shift in UploadModal.jsx).
NoFileTwice ==
  \A r \in Runs :
    /\ \A j, k \in DOMAIN queue[r] :
         j # k => FilesOf(queue[r][j]) \cap FilesOf(queue[r][k]) = {}
    /\ \A v, w \in Workers :
         v # w => FilesOf(chunk[<<r, v>>]) \cap FilesOf(chunk[<<r, w>>]) = {}
    /\ \A w \in Workers : \A k \in DOMAIN queue[r] :
         FilesOf(chunk[<<r, w>>]) \cap FilesOf(queue[r][k]) = {}

Reported(r, f) == \E p \in reported : p[1] = r /\ p[2] = f

\* "All files uploaded" is said only when every chosen file was named to
\* complete-upload, unless the server left one out of an init answer
\* (handleUpload's Promise.all over the workers in UploadModal.jsx).
SuccessMeansReported ==
  \A r \in Runs : (state[r] = "succeeded" /\ r \notin short) =>
    \A f \in FilesOf(chosen[r]) : Reported(r, f)

\* The bytes of one file are sent to the key of another only in a run in which
\* init-upload answered for fewer files than it was asked about (file = chunk[i] against res.files[i] in UploadModal.jsx).
MispairedOnlyAfterShortAnswer ==
  \A p \in reported : p[2] # p[3] => p[1] \in short

Transferred(r, f) ==
  \/ Reported(r, f)
  \/ \E w \in Workers : \E i \in DOMAIN puts[<<r, w>>] :
       puts[<<r, w>>][i].name = f /\ puts[<<r, w>>][i].at = "done"

\* Although the workers share one offset and may mark each other's rows, rows
\* that are all done mean files that were all sent: the run marks one row per
\* file, so no row is left for a file not sent (statusMap and fileIndexOffset
\* in UploadModal.jsx, for a first run over all the rows).
AllDoneMeansAllSent ==
  \A r \in Runs :
    (state[r] # "new" /\ ~disturbed /\ Len(chosen[r]) = count /\ ~hasPending) =>
      \A f \in FilesOf(chosen[r]) : Transferred(r, f)

\* What the modal says is done is done: by its toast and by its ticks
\* (handleUpload in UploadModal.jsx).
SaidDoneMeansDone == SuccessMeansReported /\ AllDoneMeansAllSent

Busy(r) == \E w \in Workers : pc[<<r, w>>] \in {"init", "put", "complete"}

\* Two runs work at once only if the earlier one had already failed, or the
\* modal it was started from was closed (setUploading in handleUpload's finally,
\* and the disabled Upload button, in UploadModal.jsx).
OverlapOnlyAfterFailureOrClose ==
  \A q, r \in Runs : (q < r /\ Busy(q) /\ Busy(r)) =>
    state[q] = "failed" \/ home[q] < home[r]

\* Workers keep apart, within a run and across runs (handleUpload in UploadModal.jsx).
WorkersAreApart == TypeOK /\ NoFileTwice /\ OverlapOnlyAfterFailureOrClose

-----------------------------------------------------------------------------
(* Liveness. *)

\* Every upload ends by saying so: the modal does not stay at "Uploading..."
\* (handleUpload in UploadModal.jsx, when requests are answered or fail).
EveryRunEnds == []<>(\A r \in Runs : state[r] # "running")

=============================================================================
