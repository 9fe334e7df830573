------------------------------- MODULE CodeEditor -------------------------------
(***************************************************************************)
(* The text editor: CodeEditor.jsx in one browser tab, and the editor API  *)
(* behind it, which keeps numbered versions of a file beside the file.     *)
(* Loads, saves and restores run concurrently; the answers come in any     *)
(* order and any call may fail at any of its steps.                        *)
(***************************************************************************)
EXTENDS Naturals, FiniteSets

CONSTANTS
  Texts,         \* contents of a text file that are not empty
  Blank,         \* the empty text
  Original,      \* the text of the file when the editor opens
  Pending,       \* no answer yet
  Failed,        \* an error answer
  Gone,          \* an object that is not in the storage
  MAX_VERSIONS,  \* versions kept (10)
  MaxEdits,      \* bound: edits of the text
  MaxWrites,     \* bound: saves and restores
  MaxRetries,    \* bound: uses of the Retry button
  MaxAsks        \* bound: saves, restores and retries together

\* No answer and no missing object is taken for the empty text.
ConstantsOK ==
  /\ MaxWrites \in Nat
  /\ Original \in Texts
  /\ Blank \notin Texts \cup {Pending, Failed, Gone}

VARIABLES
  open,        \* the editor is on the screen
  content,     \* the text in the editor
  loading,     \* the flag of fetchFileContent
  saving,      \* the flag of handleSave
  error,       \* an error covers the text
  keySees,     \* saving and loading as the Ctrl+S listener captured them
  versions,    \* the versions listed
  restoring,   \* restoringVersionId, 0 when none
  reads,       \* fetches of the content under way
  lists,       \* fetches of the version list under way
  writes,      \* saves and restores under way
  asked,       \* how many of each the user has asked for
  file,        \* server: the file's object
  object,      \* server: the objects of the versions, by number in their key
  docs,        \* server: the file_versions collection
  inserted,    \* server: version documents ever inserted
  ghost        \* what the properties remember

vars == <<open, content, loading, saving, error, keySees, versions, restoring, reads,
          lists, writes, asked, file, object, docs, inserted, ghost>>
client == <<content, loading, saving, error, keySees, versions, restoring, reads, lists, asked>>
server == <<file, object, docs, inserted>>

Numbers == 1..(2 * MaxWrites + 1)
Docs == [id : 1..(2 * MaxWrites), no : Numbers, text : Texts \cup {Blank}]
SaveSteps == {"count", "copyFirst", "insertFirst", "putVersion", "putFile", "insert", "list",
              "prune", "unlist"}
RollbackSteps == {"find", "copyBack", "duplicate", "log", "size"}
Answers == {"ok", "failed"}

TypeOK ==
  /\ open \in BOOLEAN
  /\ content \in Texts \cup {Blank}
  /\ {loading, saving, error} \subseteq BOOLEAN
  /\ keySees \in [saving : BOOLEAN, loading : BOOLEAN]
  /\ versions \subseteq Docs
  /\ restoring \in {0} \cup {d.id : d \in Docs}
  /\ \A r \in reads : r.got \in Texts \cup {Blank, Pending, Failed} /\ r.chained \in BOOLEAN
  /\ \A l \in lists : l.chained \in BOOLEAN /\ (l.got \in {Pending, Failed} \/ l.got \subseteq Docs)
  /\ \A w \in writes : w.at \in SaveSteps \cup RollbackSteps \cup Answers
  /\ asked \in [{"edits", "writes", "retries", "reads", "lists"} -> Nat]
  /\ file \in Texts \cup {Blank}
  /\ object \in [Numbers -> Texts \cup {Blank, Gone}]
  /\ docs \subseteq Docs
  /\ inserted \in Nat
  /\ ghost \in [overwritten : BOOLEAN, twoLoads : BOOLEAN, besideRestore : BOOLEAN,
                replacedInLoad : BOOLEAN, cleared : BOOLEAN, loadFailed : BOOLEAN,
                twoWrites : BOOLEAN, unlisted : BOOLEAN, pruned : BOOLEAN]

\* fetchFileContent: the loading flag and the request, which the user asked for
\* after so many edits.  A restore waits for its reload (chained).
fetchFileContent(chained, since) ==
  /\ loading' = TRUE
  /\ error' = FALSE
  /\ reads' = reads \cup {[n |-> asked.reads + 1, got |-> Pending, chained |-> chained,
                           since |-> since]}

\* fetchVersions.
fetchVersions(chained) ==
  lists' = lists \cup {[n |-> asked.lists + 1, got |-> Pending, chained |-> chained]}

\* The listener of Ctrl+S is registered anew when the content changes, and then
\* captures the flags of that render.
Listen == keySees' = IF content' # content
                       THEN [saving |-> saving', loading |-> loading'] ELSE keySees

\* Opening the editor fetches the content and the versions.
Init ==
  /\ open = TRUE
  /\ content = Blank
  /\ loading = TRUE
  /\ saving = FALSE
  /\ error = FALSE
  /\ keySees = [saving |-> FALSE, loading |-> TRUE]
  /\ versions = {}
  /\ restoring = 0
  /\ reads = {[n |-> 1, got |-> Pending, chained |-> FALSE, since |-> 0]}
  /\ lists = {[n |-> 1, got |-> Pending, chained |-> FALSE]}
  /\ writes = {}
  /\ asked = [edits |-> 0, writes |-> 0, retries |-> 0, reads |-> 1, lists |-> 1]
  /\ file = Original
  /\ object = [k \in Numbers |-> Gone]
  /\ docs = {}
  /\ inserted = 0
  /\ ghost = [overwritten |-> FALSE, twoLoads |-> FALSE, besideRestore |-> FALSE,
              replacedInLoad |-> FALSE, cleared |-> FALSE, loadFailed |-> FALSE,
              twoWrites |-> FALSE, unlisted |-> FALSE, pruned |-> FALSE]

-----------------------------------------------------------------------------
(* The user. *)

\* The text is edited, in the text area or else by Replace All; a restore may be
\* under way, whose reload will bring another text.
Edited(text, typed) ==
  /\ open
  /\ asked.edits < MaxEdits
  /\ text # content
  /\ content' = text
  /\ asked' = [asked EXCEPT !.edits = @ + 1]
  /\ ghost' = [ghost EXCEPT !.cleared = @ \/ text = Blank,
                             !.besideRestore = @ \/ \E w \in writes : w.op = "rollback",
                             !.replacedInLoad = @ \/ (~typed /\ reads # {})]
  /\ UNCHANGED <<open, loading, saving, error, versions, restoring, reads, lists, writes>>
  /\ Listen
  /\ UNCHANGED server

\* The textarea is disabled while a load runs or an error shows.
Type(text) ==
  /\ ~loading
  /\ ~error
  /\ Edited(text, TRUE)

\* Replace All of the search bar changes what is there, whatever the flags are.
handleReplace(text) ==
  /\ content # Blank
  /\ Edited(text, FALSE)

\* A save or a restore is at work on the server.
ServerBusy == \E w \in writes : w.at \notin Answers

\* What is asked of the server, after so many edits: next is the number it will
\* write and drop are the versions it will prune.
Request(op, at, text, id) ==
  [n |-> asked.writes + 1, op |-> op, at |-> at, text |-> text, id |-> id, next |-> 0,
   drop |-> {}, since |-> asked.edits]

\* The bound on what the user asks for.
AskedLess == asked.writes + asked.retries < MaxAsks

\* handleSave with the flags of the render it was created in: those of the
\* button are current, those of Ctrl+S are of the last change of the content.
handleSave(sees) ==
  /\ open
  /\ ~sees.saving
  /\ ~sees.loading
  /\ asked.writes < MaxWrites /\ AskedLess
  /\ asked' = [asked EXCEPT !.writes = @ + 1]
  /\ saving' = TRUE
  /\ error' = FALSE
  /\ writes' = writes \cup {Request("save", "count", content, 0)}
  /\ ghost' = [ghost EXCEPT !.twoWrites = @ \/ ServerBusy]
  /\ UNCHANGED <<open, content, loading, keySees, versions, restoring, reads, lists>>
  /\ UNCHANGED server

\* The button, and the shortcut.
Save == handleSave([saving |-> saving, loading |-> loading])
SaveByKey == handleSave(keySees)

\* The list is sorted by descending number; its first entry is the latest.
Latest(vs) == CHOOSE d \in vs : \A e \in vs : e.no < d.no \/ (e.no = d.no /\ d.id <= e.id)

\* Restore, on any version but the latest, one at a time.
handleRollback(d) ==
  /\ open
  /\ restoring = 0
  /\ d \in versions
  /\ d # Latest(versions)
  /\ asked.writes < MaxWrites /\ AskedLess
  /\ asked' = [asked EXCEPT !.writes = @ + 1]
  /\ restoring' = d.id
  /\ error' = FALSE
  /\ writes' = writes \cup {Request("rollback", "find", d.text, d.id)}
  /\ ghost' = [ghost EXCEPT !.twoWrites = @ \/ ServerBusy]
  /\ UNCHANGED <<open, content, loading, saving, keySees, versions, reads, lists>>
  /\ UNCHANGED server

\* Retry, the button of the error panel, loads the content again.
Retry ==
  /\ open
  /\ error
  /\ asked.retries < MaxRetries /\ AskedLess
  /\ asked' = [asked EXCEPT !.retries = @ + 1, !.reads = @ + 1]
  /\ fetchFileContent(FALSE, asked.edits)
  /\ ghost' = [ghost EXCEPT !.twoLoads = @ \/ reads # {}]
  /\ UNCHANGED <<open, content, saving, keySees, versions, restoring, lists, writes>>
  /\ UNCHANGED server

\* The editor closes; what the server was asked to do goes on.
Close ==
  /\ open
  /\ open' = FALSE
  /\ reads' = {}
  /\ lists' = {}
  /\ UNCHANGED <<content, loading, saving, error, keySees, versions, restoring, writes, asked, ghost>>
  /\ UNCHANGED server

-----------------------------------------------------------------------------
(* The answers. *)

ContentArrives(r) ==
  /\ r \in reads
  /\ r.got # Pending
  /\ content' = IF r.got = Failed THEN content ELSE r.got
  /\ error' = (error \/ r.got = Failed)
  /\ loading' = FALSE
  /\ reads' = reads \ {r}
  /\ IF r.chained
       THEN fetchVersions(TRUE) /\ asked' = [asked EXCEPT !.lists = @ + 1]
       ELSE UNCHANGED <<lists, asked>>
  /\ ghost' = [ghost EXCEPT !.overwritten = @ \/ (r.got # Failed /\ r.since # asked.edits),
                             !.loadFailed = @ \/ r.got = Failed]
  /\ UNCHANGED <<open, saving, versions, restoring, writes>>
  /\ Listen
  /\ UNCHANGED server

VersionsArrive(l) ==
  /\ l \in lists
  /\ l.got # Pending
  /\ versions' = IF l.got = Failed THEN versions ELSE l.got
  /\ restoring' = IF l.chained THEN 0 ELSE restoring
  /\ lists' = lists \ {l}
  /\ UNCHANGED <<open, content, loading, saving, error, keySees, reads, writes, asked, ghost>>
  /\ UNCHANGED server

\* The answer to a save: the version list is fetched again.
SaveAnswered(w) ==
  /\ w \in writes
  /\ w.op = "save"
  /\ w.at \in Answers
  /\ writes' = writes \ {w}
  /\ IF ~open THEN UNCHANGED client
     ELSE /\ saving' = FALSE
          /\ error' = (error \/ w.at = "failed")
          /\ IF w.at = "ok"
               THEN fetchVersions(FALSE) /\ asked' = [asked EXCEPT !.lists = @ + 1]
               ELSE UNCHANGED <<lists, asked>>
          /\ UNCHANGED <<content, loading, keySees, versions, restoring, reads>>
  /\ UNCHANGED <<open, ghost>>
  /\ UNCHANGED server

\* The answer to a restore: the content and then the versions are fetched
\* again, and until then no other restore may start.
RollbackAnswered(w) ==
  /\ w \in writes
  /\ w.op = "rollback"
  /\ w.at \in Answers
  /\ writes' = writes \ {w}
  /\ \/ /\ open
        /\ w.at = "ok"
        /\ fetchFileContent(TRUE, w.since)
        /\ asked' = [asked EXCEPT !.reads = @ + 1]
        /\ ghost' = [ghost EXCEPT !.twoLoads = @ \/ reads # {}]
        /\ UNCHANGED <<content, saving, keySees, versions, restoring, lists>>
     \/ /\ open
        /\ w.at = "failed"
        /\ error' = TRUE
        /\ restoring' = 0
        /\ UNCHANGED <<content, loading, saving, keySees, versions, reads, lists, asked, ghost>>
     \/ /\ ~open
        /\ UNCHANGED client
        /\ UNCHANGED ghost
  /\ UNCHANGED open
  /\ UNCHANGED server

-----------------------------------------------------------------------------
(* The editor API. *)

get_text_content(r) ==
  /\ r \in reads
  /\ r.got = Pending
  /\ \E got \in {file, Failed} : reads' = (reads \ {r}) \cup {[r EXCEPT !.got = got]}
  /\ UNCHANGED <<open, content, loading, saving, error, keySees, versions, restoring,
                 lists, writes, asked, ghost>>
  /\ UNCHANGED server

get_version_history(l) ==
  /\ l \in lists
  /\ l.got = Pending
  /\ \E got \in {docs, Failed} : lists' = (lists \ {l}) \cup {[l EXCEPT !.got = got]}
  /\ UNCHANGED <<open, content, loading, saving, error, keySees, versions, restoring,
                 reads, writes, asked, ghost>>
  /\ UNCHANGED server

\* The request goes on to its next step.
Goes(w, to) == writes' = (writes \ {w}) \cup {[w EXCEPT !.at = to]}

\* insert_one: a new document of file_versions.
Insert(no, text) ==
  /\ docs' = docs \cup {[id |-> inserted + 1, no |-> no, text |-> text]}
  /\ inserted' = inserted + 1

\* count_documents gives the next number; the first edit makes version 1 of the
\* file as it is.
SaveCounts(w) ==
  /\ w.at = "count"
  /\ writes' = (writes \ {w}) \cup
       {IF docs = {} THEN [w EXCEPT !.at = "copyFirst", !.next = 2]
                     ELSE [w EXCEPT !.at = "putVersion", !.next = Cardinality(docs) + 1]}
  /\ UNCHANGED <<file, object, docs, inserted, ghost>>

SaveCopiesFirst(w) ==
  /\ w.at = "copyFirst"
  /\ object' = [object EXCEPT ![1] = file]
  /\ Goes(w, "insertFirst")
  /\ UNCHANGED <<file, docs, inserted, ghost>>

SaveInsertsFirst(w) ==
  /\ w.at = "insertFirst"
  /\ object[1] # Gone
  /\ Insert(1, object[1])
  /\ Goes(w, "putVersion")
  /\ UNCHANGED <<file, object, ghost>>

SavePutsVersion(w) ==
  /\ w.at = "putVersion"
  /\ object' = [object EXCEPT ![w.next] = w.text]
  /\ Goes(w, "putFile")
  /\ UNCHANGED <<file, docs, inserted, ghost>>

SavePutsFile(w) ==
  /\ w.at = "putFile"
  /\ file' = w.text
  /\ Goes(w, "insert")
  /\ UNCHANGED <<object, docs, inserted, ghost>>

SaveInserts(w) ==
  /\ w.at = "insert"
  /\ Insert(w.next, w.text)
  /\ Goes(w, "list")
  /\ ghost' = [ghost EXCEPT !.unlisted = FALSE]
  /\ UNCHANGED <<file, object>>

\* The lower number first, the older among equals.
Before(d, e) == d.no < e.no \/ (d.no = e.no /\ d.id <= e.id)
Lowest(vs) == CHOOSE d \in vs : \A e \in vs : Before(d, e)

\* The versions are listed, with more than MAX_VERSIONS the lowest to be dropped ...
SaveLists(w) ==
  LET old == {d \in docs : Cardinality({e \in docs : Before(d, e)}) > MAX_VERSIONS} IN
  /\ w.at = "list"
  /\ writes' = (writes \ {w}) \cup {IF old = {} THEN [w EXCEPT !.at = "ok"]
                                               ELSE [w EXCEPT !.at = "prune", !.drop = old]}
  /\ UNCHANGED <<file, object, docs, inserted, ghost>>

\* ... of each first the object, unless deleting it fails, which is only logged ...
SavePrunes(w) ==
  /\ w.at = "prune"
  /\ \/ object' = [object EXCEPT ![Lowest(w.drop).no] = Gone]
     \/ UNCHANGED object
  /\ ghost' = [ghost EXCEPT !.pruned = TRUE]
  /\ Goes(w, "unlist")
  /\ UNCHANGED <<file, docs, inserted>>

\* ... and then the document.
SaveUnlists(w) ==
  LET rest == w.drop \ {Lowest(w.drop)} IN
  /\ w.at = "unlist"
  /\ docs' = docs \ {Lowest(w.drop)}
  /\ writes' = (writes \ {w}) \cup
       {[w EXCEPT !.at = IF rest = {} THEN "ok" ELSE "prune", !.drop = rest]}
  /\ UNCHANGED <<file, object, inserted, ghost>>

\* rollback_to_version: the version must still be listed ...
RollbackFinds(w) ==
  /\ w.at = "find"
  /\ \/ /\ \E d \in docs : /\ d.id = w.id
                           /\ writes' = (writes \ {w}) \cup
                                {[w EXCEPT !.at = "copyBack", !.next = d.no]}
     \/ /\ ~\E d \in docs : d.id = w.id
        /\ Goes(w, "failed")
  /\ UNCHANGED <<file, object, docs, inserted, ghost>>

\* Mutant: a restore is not listed as a version.
RollbackCopiesBack_NoVersion(w) ==
  /\ w.at = "copyBack"
  /\ IF object[w.next] = Gone
       THEN Goes(w, "failed") /\ UNCHANGED file
       ELSE Goes(w, "ok") /\ file' = object[w.next]
  /\ UNCHANGED <<object, docs, inserted, ghost>>

\* ... its object is copied over the file ...
RollbackCopiesBack(w) ==
  /\ w.at = "copyBack"
  /\ IF object[w.next] = Gone
       THEN Goes(w, "failed") /\ UNCHANGED file
       ELSE Goes(w, "duplicate") /\ file' = object[w.next]
  /\ UNCHANGED <<object, docs, inserted, ghost>>

\* ... and to the key of the next number, counted only now ...
RollbackDuplicates(w) ==
  LET next == Cardinality(docs) + 1 IN
  /\ w.at = "duplicate"
  /\ object[w.next] # Gone
  /\ object' = [object EXCEPT ![next] = object[w.next]]
  /\ writes' = (writes \ {w}) \cup {[w EXCEPT !.at = "log", !.next = next, !.text = object[w.next]]}
  /\ UNCHANGED <<file, docs, inserted, ghost>>

\* ... and a document for it is inserted ...
RollbackLogs(w) ==
  /\ w.at = "log"
  /\ Insert(w.next, w.text)
  /\ Goes(w, "size")
  /\ ghost' = [ghost EXCEPT !.unlisted = FALSE]
  /\ UNCHANGED <<file, object>>

\* ... and the size of the file is read and written.
RollbackSizes(w) ==
  /\ w.at = "size"
  /\ Goes(w, "ok")
  /\ UNCHANGED <<file, object, docs, inserted, ghost>>

\* Any step may fail (permission, storage, database), but for the deletion of an
\* object: a 500, with what was done left as it is.  Between the file and the
\* document of its version the file holds a text that is not listed.
WriteFails(w) ==
  /\ w.at \notin Answers \cup {"prune"}
  /\ Goes(w, "failed")
  /\ ghost' = [ghost EXCEPT !.unlisted = @ \/ w.at \in {"insert", "duplicate", "log"}]
  /\ UNCHANGED <<file, object, docs, inserted>>

Serve(w) ==
  /\ w \in writes
  /\ \/ SaveCounts(w) \/ SaveCopiesFirst(w) \/ SaveInsertsFirst(w) \/ SavePutsVersion(w)
     \/ SavePutsFile(w) \/ SaveInserts(w) \/ SaveLists(w) \/ SavePrunes(w) \/ SaveUnlists(w)
     \/ RollbackFinds(w) \/ RollbackCopiesBack(w) \/ RollbackDuplicates(w) \/ RollbackLogs(w)
     \/ RollbackSizes(w)
     \/ WriteFails(w)
  /\ UNCHANGED <<open, content, loading, saving, error, keySees, versions, restoring,
                 reads, lists, asked>>

-----------------------------------------------------------------------------
Answered ==
  \/ \E r \in reads : get_text_content(r) \/ ContentArrives(r)
  \/ \E l \in lists : get_version_history(l) \/ VersionsArrive(l)
  \/ \E w \in writes : Serve(w) \/ SaveAnswered(w) \/ RollbackAnswered(w)

Next ==
  \/ \E text \in Texts \cup {Blank} : Type(text) \/ handleReplace(text)
  \/ Save \/ SaveByKey
  \/ \E d \in versions : handleRollback(d)
  \/ Retry \/ Close
  \/ Answered

=============================================================================
