-------------------------------- MODULE Editors ---------------------------------
(***************************************************************************)
(* EditorRouter: the pencil of a file card opens the editor of the file's  *)
(* extension.  One editor is open in a behaviour; the three share the      *)
(* variables open, loading, saving and error.                              *)
(***************************************************************************)
EXTENDS Naturals, Sequences, FiniteSets

CONSTANTS
  Texts, Blank, Original, Pending, Failed, Gone, MAX_VERSIONS, MaxEdits, MaxWrites, MaxRetries,
  MaxAsks,
  Words, EmptyText, Styles, Plain, Written, Inherited, HISTORY, Documents,
  MaxParas, MaxEditsDocx, MaxSaves

VARIABLES
  ext,  \* the kind of the file's extension
  open, loading, saving, error,
  content, keySees, versions, restoring, reads, lists, writes, asked, file, object, docs,
  inserted, ghost,
  load, storageKey, paragraphs, stack, idx, activeIdx, focusing, dirty, saved, saveError,
  fades, saves, done, stored, seen,
  fetch, blob, blobUrl

Code == INSTANCE CodeEditor
Docx == INSTANCE DocxEditor
Pdf == INSTANCE PdfEditor

\* What the two editors take for granted of their constants.
ASSUME CodeConstantsOK == Code!ConstantsOK
ASSUME DocxConstantsOK == Docx!ConstantsOK

codeVars == <<content, keySees, versions, restoring, reads, lists, writes, asked, file, object,
              docs, inserted, ghost>>
docxVars == <<load, storageKey, paragraphs, stack, idx, activeIdx, focusing, dirty, saved,
              saveError, fades, saves, done, stored, seen>>
pdfVars == <<fetch, blob, blobUrl>>
vars == <<ext, open, loading, saving, error, codeVars, docxVars, pdfVars>>

\* Each part of the state is of its type.
TypeOK ==
  /\ ext \in {"text", "docx", "pdf", "other"}
  /\ Code!TypeOK
  /\ Docx!TypeOK
  /\ Pdf!TypeOK

\* EditorRouter picks the editor; the variables of the others keep their first
\* values.
Init ==
  /\ ext \in {"text", "docx", "pdf", "other"}
  /\ Code!Init
  /\ Docx!Init
  /\ Pdf!Init
  /\ ext # "docx" => stored = <<>>

\* For other extensions there is a panel that can only be closed.
ClosePanel ==
  /\ ext = "other"
  /\ open
  /\ open' = FALSE
  /\ UNCHANGED <<ext, loading, saving, error, codeVars, docxVars, pdfVars>>

InText == ext = "text" /\ Code!Next /\ UNCHANGED <<ext, docxVars, pdfVars>>
InDocx == ext = "docx" /\ Docx!Next /\ UNCHANGED <<ext, codeVars, pdfVars>>
InPdf == ext = "pdf" /\ Pdf!Next /\ UNCHANGED <<ext, codeVars, docxVars>>

Next == InText \/ InDocx \/ InPdf \/ ClosePanel

Spec == Init /\ [][Next]_vars

-----------------------------------------------------------------------------
(* The text editor and its versions. *)

Writing == \E w \in writes : w.at \notin {"ok", "failed"}

\* Until the first version is pruned, and when no two writes ran at once, every
\* version can be restored to what was saved under it.  After pruning the next
\* number, a count, names an object that is in use (save_text_content).
VersionsHoldWhatWasSaved ==
  ~ghost.pruned /\ ~ghost.twoWrites => \A d \in docs : object[d.no] = d.text

\* The newest version is the file, and a restore is a version too, unless the
\* last write stopped after it wrote the file and before its version was listed:
\* the next write that is listed makes it true again, whatever failed before
\* (save_text_content and rollback_to_version).
NewestVersionIsTheFile ==
  (docs # {} /\ ~Writing /\ ~ghost.pruned /\ ~ghost.twoWrites /\ ~ghost.unlisted) =>
    \E d \in docs : d.text = file /\ \A e \in docs : e.no <= d.no

\* The blank text the editor starts with is saved only from the error panel: a
\* file is blank because the user cleared the text, or because a load failed and
\* the button was used then.  Before the first load answers neither the button
\* nor Ctrl+S saves, whatever flags its listener captured (handleSave in
\* CodeEditor.jsx).
BlankOnlyByIntent == file = Blank => ghost.cleared \/ ghost.loadFailed

\* An edit made after the user asked for a load is overwritten by that load only
\* when a restore was under way at some edit (its reload comes with its answer,
\* and the text area is not disabled until then), when Replace All was used
\* during a load, or when two loads ran at once, as when a restore starts before
\* the first load answers: the answer of one then enables the text area during
\* the other (fetchFileContent, handleRollback and handleReplace).
EditsOverwrittenOnlyThen ==
  ghost.overwritten => ghost.besideRestore \/ ghost.replacedInLoad \/ ghost.twoLoads

\* What was saved can be restored, the file is what was saved last, and neither a
\* blank text nor a late load replaces a text, each but in the cases its part
\* names (CodeEditor.jsx and edit_controller.py).
TextIsKept ==
  /\ VersionsHoldWhatWasSaved
  /\ NewestVersionIsTheFile
  /\ BlankOnlyByIntent
  /\ EditsOverwrittenOnlyThen

-----------------------------------------------------------------------------
(* The document editor. *)

\* Without unsaved changes the file holds the document on the screen, up to the
\* formats save_docx drops, unless an edit was made during a save, a second save
\* ran beside it or one was sent before the document was there: then the editor
\* closes without asking although the file differs (handleSave clears dirty when
\* it is answered, whatever was edited since), until the next edit made with no
\* save under way.
CleanMeansSaved ==
  (ext = "docx" /\ load.at = "done" /\ ~dirty
     /\ ~seen.editWhileSaving /\ ~seen.twoSaves /\ ~seen.hiddenSave) =>
    \/ Docx!Rebuilt(paragraphs) = Docx!Rebuilt(stored)
    \/ stored = <<>>

\* The history's index is at the document on the screen, whatever was pushed,
\* trimmed and stepped, unless something was typed since or edited before the
\* document came: undo shows the state before and redo the state after (push,
\* undo and redo of useHistory).
HistoryIsAtTheDocument ==
  ~seen.typed /\ ~seen.hiddenEdit =>
    idx < Len(stack) /\ stack[idx + 1] = paragraphs

-----------------------------------------------------------------------------
(* The PDF viewer. *)

\* The bytes of a document stay in memory only while the viewer is open, or when
\* it was closed before they arrived: then nothing revokes their URL, as the
\* cleanup has run (the effect of PDFEditor.jsx).
BytesLiveWithTheViewer == blob = "live" => open \/ ~blobUrl

\* What an editor says agrees with the file, its history with the document, and
\* what it holds lives no longer than the editor, each but in the cases its part
\* names (Editorrouter.jsx, Docxeditor.jsx and PDFEditor.jsx).
EditorsAgree == TypeOK /\ CleanMeansSaved /\ HistoryIsAtTheDocument /\ BytesLiveWithTheViewer

=============================================================================
