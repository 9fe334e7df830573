------------------------------- MODULE DocxEditor -------------------------------
(***************************************************************************)
(* The document editor: Docxeditor.jsx in one browser tab, and the content *)
(* and save routes of the editor API.  The toolbar and the shortcuts work  *)
(* while the document loads and after it failed to load; typing needs the  *)
(* pages on the screen.  Indices count from 0, as in the code.             *)
(***************************************************************************)
EXTENDS Naturals, Sequences, FiniteSets

CONSTANTS
  Words,        \* texts of a paragraph
  EmptyText,    \* the text of an empty paragraph
  Styles,       \* formats of a paragraph
  Plain,        \* the format of a new paragraph
  Written,      \* what the API keeps of a format: bold, italic and the size
  Inherited,    \* what a new paragraph takes of a format: the size, font and line height
  HISTORY,      \* states the undo history holds (50)
  Documents,    \* what the file may hold when it is opened
  MaxParas,     \* bound: paragraphs
  MaxEditsDocx, \* bound: edits, undos and redos
  MaxSaves      \* bound: saves

\* The history holds a state, a file paragraphs, and the bounds are numbers; what
\* the API kept of a format it keeps again.
ConstantsOK ==
  /\ HISTORY \in Nat \ {0}
  /\ {MaxParas, MaxEditsDocx, MaxSaves} \subseteq Nat
  /\ {Written, Inherited} \subseteq [Styles \cup {Plain} -> Styles \cup {Plain}]
  /\ \A style \in Styles \cup {Plain} : Written[Written[style]] = Written[style]
  /\ Documents \subseteq Seq([text : Words \cup {EmptyText}, style : Styles \cup {Plain}])

VARIABLES
  open,        \* the editor is on the screen
  loading,     \* the document is being loaded
  saving,      \* the flag of handleSave
  error,       \* loading failed
  load,        \* the await the load is at, and the content it brings
  storageKey,  \* the metadata has arrived
  paragraphs,  \* the document in the editor
  stack, idx,  \* useHistory
  activeIdx,   \* the selected paragraph
  focusing,    \* timers that will select a paragraph
  dirty, saved, saveError, \* flags of the status line
  fades,       \* timers that will clear saved
  saves,       \* saves under way
  done,        \* edits and saves so far
  stored,      \* server: the document in the file
  seen         \* what the properties remember

docxVars == <<load, storageKey, paragraphs, stack, idx, activeIdx, focusing, dirty, saved,
              saveError, fades, saves, done, stored, seen>>
vars == <<open, loading, saving, error, docxVars>>

Paras == [text : Words \cup {EmptyText}, style : Styles \cup {Plain}]
EMPTY_PARA == [text |-> EmptyText, style |-> Plain]

TypeOK ==
  /\ {open, loading, saving, error, storageKey, dirty, saved, saveError} \subseteq BOOLEAN
  /\ load.at \in {"meta", "content", "parsed", "done", "failed"}
  /\ paragraphs \in Seq(Paras) /\ paragraphs # <<>>
  /\ stack \in Seq(Seq(Paras)) /\ Len(stack) \in 1..HISTORY
  /\ idx \in 0..(HISTORY - 1)
  /\ activeIdx \in Nat
  /\ focusing \subseteq Nat
  /\ fades \in Nat
  /\ \A s \in saves : s.at \in {"sent", "ok", "failed"} /\ s.content \in Seq(Paras)
  /\ done \in [edits : 0..MaxEditsDocx, saves : 0..MaxSaves]
  /\ stored \in Seq(Paras)
  /\ seen \in [typed : BOOLEAN, hiddenEdit : BOOLEAN, hiddenSave : BOOLEAN,
               editWhileSaving : BOOLEAN, twoSaves : BOOLEAN]

\* Opening the editor starts the load.
Init ==
  /\ open = TRUE
  /\ loading = TRUE
  /\ saving = FALSE
  /\ error = FALSE
  /\ load = [at |-> "meta", content |-> <<>>]
  /\ storageKey = FALSE
  /\ paragraphs = <<EMPTY_PARA>>
  /\ stack = <<<<EMPTY_PARA>>>>
  /\ idx = 0
  /\ activeIdx = 0
  /\ focusing = {}
  /\ dirty = FALSE
  /\ saved = FALSE
  /\ saveError = FALSE
  /\ fades = 0
  /\ saves = {}
  /\ done = [edits |-> 0, saves |-> 0]
  /\ stored \in Documents
  /\ seen = [typed |-> FALSE, hiddenEdit |-> FALSE, hiddenSave |-> FALSE,
             editWhileSaving |-> FALSE, twoSaves |-> FALSE]

\* The pages are on the screen.
CanvasShown == open /\ ~loading /\ ~error

\* Paragraph i is on a page: it has a text area and a delete button.
Para(i) == CanvasShown /\ i < Len(paragraphs)

Max2(a, b) == IF a > b THEN a ELSE b
Min2(a, b) == IF a < b THEN a ELSE b

-----------------------------------------------------------------------------
(* useHistory. *)

\* push, in the render whose index is at: what follows at is dropped, and the
\* oldest state when there are too many; the index itself goes on by one.
Push(at, doc) ==
  LET next == Append(SubSeq(stack, 1, Min2(at + 1, Len(stack))), doc) IN
  /\ stack' = SubSeq(next, Max2(1, Len(next) - HISTORY + 1), Len(next))
  /\ idx' = Min2(idx + 1, HISTORY - 1)

\* An edit, undo or redo, which may happen while a save is under way and while
\* the document is not on the screen.
Edits ==
  /\ open
  /\ done.edits < MaxEditsDocx
  /\ done' = [done EXCEPT !.edits = @ + 1]
  /\ dirty' = TRUE
  /\ UNCHANGED <<open, loading, saving, error, load, storageKey, saveError, fades, saves, stored>>

Remember(typed) ==
  seen' = [typed |-> typed,
           hiddenEdit |-> seen.hiddenEdit \/ ~CanvasShown,
           hiddenSave |-> seen.hiddenSave /\ (saves # {} \/ load.at # "done"),
           editWhileSaving |-> saves # {},
           twoSaves |-> seen.twoSaves /\ saves # {}]

\* An edit that history.push records.
Record(doc) ==
  /\ Edits
  /\ paragraphs' = doc
  /\ Push(idx, doc)
  /\ Remember(FALSE)

\* Stepping to entry i of the stack; past its end there is nothing to show.
StepTo(i) ==
  /\ i < Len(stack)
  /\ Edits
  /\ paragraphs' = stack[i + 1]
  /\ Remember(FALSE)
  /\ UNCHANGED <<stack, activeIdx, focusing, saved>>

StepNowhere(i) ==
  /\ open
  /\ i >= Len(stack)
  /\ UNCHANGED <<open, loading, saving, error, load, storageKey, paragraphs, stack, activeIdx,
                 focusing, dirty, saved, saveError, fades, saves, done, stored, seen>>

\* Ctrl+Z works at the oldest state too, and shows it again.
handleUndo ==
  LET i == Max2(1, idx) - 1 IN
  /\ idx' = i
  /\ StepTo(i) \/ StepNowhere(i)

handleRedo ==
  /\ idx' = Min2(Len(stack) - 1, idx + 1)
  /\ StepTo(Min2(Len(stack) - 1, idx + 1))

-----------------------------------------------------------------------------
(* Editing. *)

\* The heading, font, size, marks, colour, alignment, indent and line height
\* that the toolbar sets are one format.
Styled(p, style) == [p EXCEPT !.style = style]

\* The toolbar and the shortcuts change the selected paragraph, if it exists.
updateActive(style) ==
  /\ Record([i \in DOMAIN paragraphs |->
               IF i = activeIdx + 1 THEN Styled(paragraphs[i], style) ELSE paragraphs[i]])
  /\ saved' = FALSE
  /\ UNCHANGED <<activeIdx, focusing>>

\* Typing in a paragraph is not recorded in the history.  Focusing it has
\* selected it.
updateParagraph(i, text) ==
  /\ Para(i)
  /\ paragraphs[i + 1].text # text
  /\ Edits
  /\ paragraphs' = [paragraphs EXCEPT ![i + 1].text = text]
  /\ activeIdx' = i
  /\ saved' = FALSE
  /\ Remember(TRUE)
  /\ UNCHANGED <<stack, idx, focusing>>

\* The delete button of a paragraph, or Backspace in an empty one.
deleteParagraph(i) ==
  /\ Para(i)
  /\ Len(paragraphs) > 1
  /\ Record(SubSeq(paragraphs, 1, i) \o SubSeq(paragraphs, i + 2, Len(paragraphs)))
  /\ activeIdx' = Min2(activeIdx, Len(paragraphs) - 2)
  /\ UNCHANGED <<focusing, saved>>

\* The paragraph that follows paragraph i, if it exists.
NewAfter(i) ==
  IF i < Len(paragraphs)
    THEN [EMPTY_PARA EXCEPT !.style = Inherited[paragraphs[i + 1].style]]
    ELSE EMPTY_PARA

\* Enter in paragraph i, or the toolbar's button after the selected one; a
\* timer will select the new paragraph.
addParagraphAfter(i) ==
  /\ i = activeIdx \/ Para(i)
  /\ Len(paragraphs) < MaxParas
  /\ Record(SubSeq(paragraphs, 1, Min2(i + 1, Len(paragraphs))) \o <<NewAfter(i)>>
            \o SubSeq(paragraphs, i + 2, Len(paragraphs)))
  /\ focusing' = focusing \cup {i + 1}
  /\ UNCHANGED <<activeIdx, saved>>

FocusMoves(i) ==
  /\ i \in focusing
  /\ focusing' = focusing \ {i}
  /\ activeIdx' = i
  /\ UNCHANGED <<open, loading, saving, error, load, storageKey, paragraphs, stack, idx, dirty,
                 saved, saveError, fades, saves, done, stored, seen>>

\* The matches that the panel counts, in the pages or in what is behind them.
findCount(find) == Cardinality({i \in DOMAIN paragraphs : paragraphs[i].text = find})

\* The button of the panel works when there is a match.
handleFindReplace(find, replace) ==
  /\ find # replace
  /\ findCount(find) # 0
  /\ Record([i \in DOMAIN paragraphs |->
               IF paragraphs[i].text = find THEN [paragraphs[i] EXCEPT !.text = replace]
               ELSE paragraphs[i]])
  /\ UNCHANGED <<activeIdx, focusing, saved>>

-----------------------------------------------------------------------------
(* Loading. *)

Loads(at) ==
  /\ load.at = at
  /\ open
  /\ UNCHANGED <<open, saving, activeIdx, focusing, dirty, saved, saveError, fades, saves, done,
                 stored, seen>>

MetadataArrives ==
  /\ Loads("meta")
  /\ load' = [load EXCEPT !.at = "content"]
  /\ storageKey' = TRUE
  /\ UNCHANGED <<loading, error, paragraphs, stack, idx>>

\* What the API makes of a document, when it reads and when it writes it: of a
\* paragraph the text, bold, italic and the size.
Rebuilt(doc) == [i \in DOMAIN doc |-> [doc[i] EXCEPT !.style = Written[doc[i].style]]]

get_docx_content ==
  /\ Loads("content")
  /\ load' = [at |-> "parsed", content |-> Rebuilt(stored)]
  /\ UNCHANGED <<loading, error, storageKey, paragraphs, stack, idx>>

\* The document is shown and recorded with the index of the first render.
DocumentArrives ==
  LET loaded == IF load.content = <<>> THEN <<EMPTY_PARA>> ELSE load.content IN
  /\ Loads("parsed")
  /\ load' = [at |-> "done", content |-> <<>>]
  /\ paragraphs' = loaded
  /\ Push(0, loaded)
  /\ loading' = FALSE
  /\ UNCHANGED <<error, storageKey>>

LoadFails ==
  /\ \E at \in {"meta", "content", "parsed"} : Loads(at)
  /\ load' = [at |-> "failed", content |-> <<>>]
  /\ error' = TRUE
  /\ loading' = FALSE
  /\ UNCHANGED <<storageKey, paragraphs, stack, idx>>

-----------------------------------------------------------------------------
(* Saving. *)

\* handleSave: the button is disabled while a save runs, Ctrl+S is not.
handleSave ==
  /\ open
  /\ storageKey
  /\ dirty
  /\ done.saves < MaxSaves
  /\ done' = [done EXCEPT !.saves = @ + 1]
  /\ saving' = TRUE
  /\ saveError' = FALSE
  /\ saves' = saves \cup {[n |-> done.saves, at |-> "sent", content |-> paragraphs]}
  /\ seen' = [seen EXCEPT !.hiddenSave = @ \/ load.at # "done",
                          !.twoSaves = @ \/ saves # {}]
  /\ UNCHANGED <<open, loading, error, load, storageKey, paragraphs, stack, idx, activeIdx,
                 focusing, dirty, saved, fades, stored>>

\* save_docx, refused, or failing before or after the object is written.
save_docx(s) ==
  /\ s \in saves
  /\ s.at = "sent"
  /\ \E stores \in BOOLEAN, end \in {"ok", "failed"} :
       /\ end = "ok" => stores
       /\ stored' = IF stores THEN Rebuilt(s.content) ELSE stored
       /\ saves' = (saves \ {s}) \cup {[s EXCEPT !.at = end]}
  /\ UNCHANGED <<open, loading, saving, error, load, storageKey, paragraphs, stack, idx,
                 activeIdx, focusing, dirty, saved, saveError, fades, done, seen>>

\* Mutant: the changes count as saved although the save failed.
SaveAnswered_CleanAnyway(s) ==
  /\ s \in saves
  /\ s.at # "sent"
  /\ saves' = saves \ {s}
  /\ saving' = FALSE
  /\ IF s.at = "ok"
       THEN /\ saved' = TRUE
            /\ dirty' = FALSE
            /\ fades' = fades + 1
            /\ UNCHANGED saveError
       ELSE /\ saveError' = TRUE
            /\ dirty' = FALSE
            /\ UNCHANGED <<saved, fades>>
  /\ UNCHANGED <<open, loading, error, load, storageKey, paragraphs, stack, idx, activeIdx,
                 focusing, done, stored, seen>>

SaveAnswered(s) ==
  /\ s \in saves
  /\ s.at # "sent"
  /\ saves' = saves \ {s}
  /\ saving' = FALSE
  /\ IF s.at = "ok"
       THEN /\ saved' = TRUE
            /\ dirty' = FALSE
            /\ fades' = fades + 1
            /\ UNCHANGED saveError
       ELSE /\ saveError' = TRUE
            /\ UNCHANGED <<saved, dirty, fades>>
  /\ UNCHANGED <<open, loading, error, load, storageKey, paragraphs, stack, idx, activeIdx,
                 focusing, done, stored, seen>>

\* The timer of three seconds; those of earlier saves are not cleared.
SavedFades ==
  /\ fades > 0
  /\ fades' = fades - 1
  /\ saved' = FALSE
  /\ UNCHANGED <<open, loading, saving, error, load, storageKey, paragraphs, stack, idx,
                 activeIdx, focusing, dirty, saveError, saves, done, stored, seen>>

\* Unsaved changes are asked about; the model leaves when the answer is yes.
handleClose ==
  /\ open
  /\ open' = FALSE
  /\ UNCHANGED <<loading, saving, error>>
  /\ UNCHANGED docxVars

-----------------------------------------------------------------------------
Answered ==
  \/ MetadataArrives \/ get_docx_content \/ DocumentArrives \/ LoadFails
  \/ \E s \in saves : save_docx(s) \/ SaveAnswered(s)
  \/ \E i \in focusing : FocusMoves(i)
  \/ SavedFades

Next ==
  \/ handleUndo \/ handleRedo
  \/ \E style \in Styles : updateActive(style)
  \/ \E i \in 0..(Len(paragraphs) - 1) :
       \/ \E text \in Words \cup {EmptyText} : updateParagraph(i, text)
       \/ deleteParagraph(i)
  \/ \E i \in 0..MaxParas : addParagraphAfter(i)
  \/ \E find \in Words, replace \in Words \cup {EmptyText} : handleFindReplace(find, replace)
  \/ handleSave \/ handleClose
  \/ Answered

=============================================================================
