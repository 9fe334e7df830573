------------------------------- MODULE PagesProofs --------------------------------
(***************************************************************************)
(* That the invariants of the files and history pages (Library) and of the *)
(* account's pages (Login) hold for every value of the constants: one      *)
(* inductive invariant for each, and PagesSpec takes the steps of both.    *)
(***************************************************************************)
EXTENDS MCPages, SequenceTheorems, FiniteSetTheorems, TLAPS

-----------------------------------------------------------------------------
(* The files and history pages: the inductive invariant. *)

\* An answer holds at least the shares there were when it was asked for; of two
\* requests the later asked when there were no fewer; and one that no later
\* answer has overtaken asked for all that is known.
ListInv ==
  /\ \A r \in lists :
       /\ r.n \in 0..count.asked /\ r.asked \in 0..shares
       /\ r.got \notin {Pending, Failed} => r.got \in r.asked..shares
       /\ ~r.stale => ghost.known <= r.asked
       /\ \A x \in lists : r.n <= x.n => r.asked <= x.asked
  /\ ghost.known <= shares

\* One transfer is selected at most, and a request for one that no later request
\* follows is for the transfer selected.
TransferInv ==
  /\ page = "history" => \A m \in modals : m.kind = "history"
  /\ \A m, x \in modals : m.kind = "history" => m = x
  /\ \A r \in fetches : ~r.stale => Selected \subseteq {r.of}

\* A download that runs is not marked as done.
ZipInv == ~(zip.downloading /\ zip.downloaded)

HistoryInv ==
  /\ ListInv /\ ListIsFresh
  /\ TransferInv /\ ShowsItsTransfer
  /\ ZipInv /\ OneDownload

\* Modals of one kind are the same, unless the pencil was used on two cards.
OnePerKind == ~ghost.twoEdits => \A m, x \in modals : m.kind = x.kind => m = x

\* One traversal at a time is under way, and one of a closed modal has an entry
\* to take off.
OneTraversal ==
  OnPage /\ ~ghost.raced /\ ~ghost.twoEdits =>
    /\ Len(queue) <= 1
    /\ queue = <<"app">> => pos >= 2

\* The entries up to the current one are the page's and those of the open modals,
\* in the order they opened, and that of a modal just closed.
Above == IF queue = <<"app">> THEN pos - 1 ELSE pos
EntriesAreOfModals ==
  OnPage /\ ~ghost.raced /\ ~ghost.forward /\ ~ghost.twoEdits =>
    /\ queue \in {<<>>, <<"app">>, <<"back">>}
    /\ \/ modals = {} /\ Above = 1
       \/ \E m \in Modals : modals = {m} /\ Above = 2 /\ entries[2] = m.kind
       \/ \E c, d \in Cards :
            /\ modals = {Modal("edit", c), Modal("preview", d)}
            /\ Above = 3 /\ pos = 3 /\ entries[2] = "edit" /\ entries[3] = "preview"

BackInv == OnePerKind /\ OneTraversal /\ ModalsNeverLeaveThePage /\ EntriesAreOfModals

IInv == TypeOK /\ IsFiniteSet(modals) /\ HistoryInv /\ BackInv

-----------------------------------------------------------------------------
(* What the steps share. *)

\* How many modals there are of a kind.
LEMMA CountFacts ==
  ASSUME NEW S, IsFiniteSet(S)
  PROVE  /\ Cardinality(S) \in Nat
         /\ Cardinality(S) = 0 <=> S = {}
         /\ (\A m, x \in S : m = x) => Cardinality(S) <= 1
  <1>1. Cardinality(S) \in Nat /\ (Cardinality(S) = 0 <=> S = {})
    BY FS_CardinalityType, FS_EmptySet
  <1>2. ASSUME \A m, x \in S : m = x, NEW m \in S
        PROVE  Cardinality(S) <= 1
    <2>1. S = {m}
      BY <1>2
    <2>2. QED
      BY <2>1, FS_Singleton
  <1>3. QED
    BY <1>1, <1>2

\* Two modals are two.
LEMMA PairCount ==
  ASSUME NEW a, NEW b, a # b
  PROVE  Cardinality({a, b}) = 2
  <1>1. IsFiniteSet({a}) /\ Cardinality({a}) = 1
    BY FS_Singleton
  <1>2. {a, b} = {a} \cup {b} /\ b \notin {a}
    OBVIOUS
  <1>3. QED
    BY <1>1, <1>2, FS_AddElement

\* The cleanups queue a traversal for every modal closed whose kind is that of
\* the entry they look at.
LEMMA ClosesFacts ==
  ASSUME TypeOK, IsFiniteSet(modals), NEW ms \in SUBSET modals, NEW at \in 1..Len(entries),
         NEW line \in Seq({"back", "forward", "app"}), Closes(ms, at, line)
  PROVE  /\ modals' = modals \ ms /\ IsFiniteSet(modals')
         /\ blob' \in {"none", blob}
         /\ \E n \in Nat :
              /\ queue' = line \o [i \in 1..n |-> "app"]
              /\ n = 0 <=> \A m \in ms : m.kind # entries[at]
              /\ (\A m, x \in ms : m.kind = x.kind => m = x) => n <= 1
         /\ queue' \in Seq({"back", "forward", "app"})
  <1> DEFINE S == {m \in ms : m.kind = entries[at]}
             apps == [i \in 1..Cardinality(S) |-> "app"]
  <1>1. IsFiniteSet(S) /\ IsFiniteSet(modals \ ms)
    BY FS_Subset
  <1>2. /\ Cardinality(S) \in Nat
        /\ Cardinality(S) = 0 <=> S = {}
        /\ (\A m, x \in S : m = x) => Cardinality(S) <= 1
    BY <1>1, CountFacts
  <1>3. /\ modals' = modals \ ms /\ queue' = line \o apps
        /\ blob' \in {"none", blob}
    BY DEF Closes
  <1>4. apps \in Seq({"back", "forward", "app"})
    BY <1>2
  <1>5. queue' \in Seq({"back", "forward", "app"})
    BY <1>3, <1>4
  <1>6. (\A m, x \in ms : m.kind = x.kind => m = x) => \A m, x \in S : m = x
    OBVIOUS
  <1>7. S = {} <=> \A m \in ms : m.kind # entries[at]
    OBVIOUS
  <1> HIDE DEF S
  <1>8. QED
    BY <1>1, <1>2, <1>3, <1>5, <1>6, <1>7

\* A modal that opens is put above the current entry.
LEMMA OpensFacts ==
  ASSUME TypeOK, IsFiniteSet(modals), NEW m \in Modals, Opens(m)
  PROVE  /\ modals' = modals \cup {m} /\ IsFiniteSet(modals') /\ modals' \subseteq Modals
         /\ entries' \in Seq({"page"} \cup Kinds) /\ entries' # <<>> /\ Head(entries') = "page"
         /\ pos' = pos + 1 /\ Len(entries') = pos + 1 /\ pos' \in 0..Len(entries')
         /\ entries'[pos + 1] = m.kind /\ \A i \in 1..pos : entries'[i] = entries[i]
         /\ OnPage /\ ~Covered /\ OnPage'
         /\ count' \in [opens : Nat, moves : Nat, reloads : Nat, asked : Nat]
         /\ count'.asked = count.asked
         /\ UNCHANGED <<page, view, queue>>
  <1> DEFINE below == SubSeq(entries, 1, pos)
  <1>1. /\ entries \in Seq({"page"} \cup Kinds) /\ entries # <<>> /\ entries[1] = "page"
        /\ pos \in 1..Len(entries) /\ Len(entries) \in Nat
    BY DEF TypeOK, Opens, OnPage
  <1>2. /\ below \in Seq({"page"} \cup Kinds) /\ Len(below) = pos
        /\ \A i \in 1..pos : below[i] = entries[i]
    BY <1>1, SubSeqProperties
  <1>3. m.kind \in Kinds
    BY DEF Modals, Kinds
  <1>4. /\ modals' = modals \cup {m} /\ entries' = Append(below, m.kind) /\ pos' = pos + 1
        /\ count' = [count EXCEPT !.opens = @ + 1]
        /\ OnPage /\ ~Covered /\ UNCHANGED <<page, view, queue>>
    BY DEF Opens
  <1> HIDE DEF below
  <1>5. /\ entries' \in Seq({"page"} \cup Kinds) /\ Len(entries') = pos + 1
        /\ entries'[pos + 1] = m.kind /\ \A i \in 1..pos : entries'[i] = entries[i]
    BY <1>1, <1>2, <1>3, <1>4
  <1>6. entries'[1] = "page" /\ entries' # <<>> /\ Head(entries') = entries'[1]
    BY <1>1, <1>5
  <1>7. IsFiniteSet(modals') /\ modals' \subseteq Modals
    BY <1>4, FS_AddElement DEF TypeOK
  <1>8. /\ count' \in [opens : Nat, moves : Nat, reloads : Nat, asked : Nat]
        /\ count'.asked = count.asked
    <2>1. count \in [opens : Nat, moves : Nat, reloads : Nat, asked : Nat]
      BY DEF TypeOK
    <2>2. QED
      BY ONLY <1>4, <2>1
  <1>9. pos' \in 0..Len(entries') /\ OnPage'
    BY <1>1, <1>4, <1>5 DEF OnPage
  <1>10. QED
    BY <1>4, <1>5, <1>6, <1>7, <1>8, <1>9

Ghosts == [twoEdits : BOOLEAN, raced : BOOLEAN, forward : BOOLEAN, leftByApp : BOOLEAN,
           overtaken : BOOLEAN, listOvertaken : BOOLEAN, known : 0..MaxShares]

Requests == [n : Nat, got : (0..MaxShares) \cup {Pending, Failed}, asked : 0..MaxShares,
             stale : BOOLEAN]

ZipTypes == [downloading : BOOLEAN, downloaded : BOOLEAN, requests : Nat, timers : Nat]

\* What a step does to the modals, and to the browser's history below them.
ModalsStep ==
  /\ modals' \subseteq Modals /\ IsFiniteSet(modals')
  /\ entries' \in Seq({"page"} \cup Kinds) /\ entries' # <<>> /\ Head(entries') = "page"
  /\ pos' \in 0..Len(entries')
  /\ queue' \in Seq({"back", "forward", "app"})
  /\ blob' \in {"none", "loading", "shown", "failed"}
  /\ view' \in {"grid", "list"} /\ page' = page
  /\ count' \in [opens : Nat, moves : Nat, reloads : Nat, asked : Nat]
  /\ ghost' \in Ghosts

\* The steps of the modals keep their types.
LEMMA ModalSteps ==
  ASSUME TypeOK, IsFiniteSet(modals),
         \/ \E c \in Cards : OpenPreview(c) \/ OpenEditor(c)
         \/ \E t \in Transfers : OpenTransfer(t)
         \/ \E m \in modals : CloseModal(m)
         \/ ReloadFiles
         \/ \E v \in {"grid", "list"} : SetView(v)
         \/ \E way \in {"back", "forward"} : Move(way)
         \/ Traverse \/ BlobArrives
  PROVE  ModalsStep
  <1>0. /\ modals \subseteq Modals /\ IsFiniteSet(modals)
        /\ entries \in Seq({"page"} \cup Kinds) /\ entries # <<>> /\ Head(entries) = "page"
        /\ pos \in 0..Len(entries)
        /\ queue \in Seq({"back", "forward", "app"})
        /\ blob \in {"none", "loading", "shown", "failed"}
        /\ view \in {"grid", "list"} /\ page \in {"files", "history"}
        /\ count \in [opens : Nat, moves : Nat, reloads : Nat, asked : Nat]
        /\ ghost \in Ghosts
    BY DEF TypeOK, Ghosts
  <1>1. ASSUME NEW c \in Cards, OpenPreview(c)
        PROVE  ModalsStep
    <2>1. Modal("preview", c) \in Modals
      BY DEF Modal, Modals
    <2>2. Opens(Modal("preview", c)) /\ blob' = "loading"
          /\ ghost' = [ghost EXCEPT !.raced = @ \/ queue # <<>>]
      BY <1>1 DEF OpenPreview
    <2>3. ghost' \in Ghosts
      BY <1>0, <2>2 DEF Ghosts
    <2>4. QED
      BY <1>0, <2>1, <2>2, <2>3, OpensFacts DEF ModalsStep
  <1>2. ASSUME NEW c \in Cards, OpenEditor(c)
        PROVE  ModalsStep
    <2>1. Modal("edit", c) \in Modals
      BY DEF Modal, Modals
    <2>2. Opens(Modal("edit", c)) /\ blob' = blob
          /\ ghost' = [ghost EXCEPT !.raced = @ \/ queue # <<>>,
                            !.twoEdits = @ \/ \E m \in modals : m.kind = "edit"]
      BY <1>2 DEF OpenEditor
    <2>3. ghost' \in Ghosts
      BY <1>0, <2>2 DEF Ghosts
    <2>4. QED
      BY <1>0, <2>1, <2>2, <2>3, OpensFacts DEF ModalsStep
  <1>3. ASSUME NEW t \in Transfers, OpenTransfer(t)
        PROVE  ModalsStep
    <2>1. Modal("history", t) \in Modals
      BY DEF Modal, Modals
    <2>2. Opens(Modal("history", t)) /\ blob' = blob
          /\ ghost' = [ghost EXCEPT !.raced = @ \/ queue # <<>>, !.overtaken = FALSE]
      BY <1>3 DEF OpenTransfer
    <2>3. ghost' \in Ghosts
      BY <1>0, <2>2 DEF Ghosts
    <2>4. QED
      BY <1>0, <2>1, <2>2, <2>3, OpensFacts DEF ModalsStep
  <1>4. ASSUME NEW m \in modals, CloseModal(m)
        PROVE  ModalsStep
    <2>1. /\ Closes({m}, pos, queue) /\ pos \in 1..Len(entries)
          /\ ghost' = [ghost EXCEPT !.raced = @ \/ queue # <<>>]
          /\ UNCHANGED <<page, view, entries, pos, count>>
      BY <1>0, <1>4 DEF CloseModal, OnPage
    <2>2. ghost' \in Ghosts
      BY <1>0, <2>1 DEF Ghosts
    <2>3. modals' = modals \ {m} /\ IsFiniteSet(modals') /\ blob' \in {"none", blob}
          /\ queue' \in Seq({"back", "forward", "app"})
      BY <1>0, <2>1, ClosesFacts
    <2>4. QED
      BY <1>0, <2>1, <2>2, <2>3 DEF ModalsStep
  <1>5. CASE ReloadFiles
    <2>1. /\ Closes(modals, pos, queue) /\ pos \in 1..Len(entries)
          /\ ghost' = [ghost EXCEPT !.raced = @ \/ queue # <<>>,
                            !.forward = @ \/ Cardinality(modals) > 1]
          /\ count' = [count EXCEPT !.reloads = @ + 1]
          /\ UNCHANGED <<page, view, entries, pos>>
      BY <1>0, <1>5 DEF ReloadFiles, OnPage
    <2>2. ghost' \in Ghosts
      BY <1>0, <2>1 DEF Ghosts
    <2>5. count' \in [opens : Nat, moves : Nat, reloads : Nat, asked : Nat]
      <3>1. count' = [count EXCEPT !.reloads = @ + 1]
        BY <2>1
      <3>2. count \in [opens : Nat, moves : Nat, reloads : Nat, asked : Nat]
        BY <1>0
      <3>3. QED
        BY ONLY <3>1, <3>2
    <2>3. modals' = {} /\ IsFiniteSet(modals') /\ blob' \in {"none", blob}
          /\ queue' \in Seq({"back", "forward", "app"})
      BY <1>0, <2>1, ClosesFacts
    <2>4. QED
      BY <1>0, <2>1, <2>2, <2>3, <2>5 DEF ModalsStep
  <1>6. ASSUME NEW v \in {"grid", "list"}, SetView(v)
        PROVE  ModalsStep
    BY <1>0, <1>6 DEF SetView, ModalsStep, browser
  <1>7. ASSUME NEW way \in {"back", "forward"}, Move(way)
        PROVE  ModalsStep
    <2>1. /\ queue' = Append(queue, way)
          /\ ghost' = [ghost EXCEPT !.forward = @ \/ way = "forward", !.raced = @ \/ queue # <<>>]
          /\ count' = [count EXCEPT !.moves = @ + 1]
          /\ UNCHANGED <<page, view, entries, pos, modals, blob>>
      BY <1>7 DEF Move
    <2>2. ghost' \in Ghosts
      BY <1>0, <2>1 DEF Ghosts
    <2>5. count' \in [opens : Nat, moves : Nat, reloads : Nat, asked : Nat]
      <3>1. count' = [count EXCEPT !.moves = @ + 1]
        BY <2>1
      <3>2. count \in [opens : Nat, moves : Nat, reloads : Nat, asked : Nat]
        BY <1>0
      <3>3. QED
        BY ONLY <3>1, <3>2
    <2>3. queue' \in Seq({"back", "forward", "app"})
      BY <1>0, <1>7, <2>1
    <2>4. QED
      BY <1>0, <2>1, <2>2, <2>3, <2>5 DEF ModalsStep
  <1>8. CASE Traverse
    <2>0. Tail(queue) \in Seq({"back", "forward", "app"}) /\ queue # <<>>
      BY <1>0, <1>8 DEF Traverse
    <2> DEFINE to == IF Head(queue) = "forward" THEN pos + 1 ELSE pos - 1
    <2>1. CASE to > Len(entries)
      <3>1. /\ queue' = Tail(queue)
            /\ UNCHANGED <<page, view, entries, pos, modals, blob, count, ghost>>
        BY <1>0, <1>8, <2>1 DEF Traverse
      <3>2. QED
        BY <1>0, <2>0, <3>1 DEF ModalsStep
    <2>2. CASE to \in 1..Len(entries)
      <3>1. /\ Closes(modals, to, Tail(queue)) /\ pos' = to /\ ghost' = ghost
            /\ UNCHANGED <<page, view, entries, count>>
        BY <1>0, <1>8, <2>2 DEF Traverse
      <3>2. modals' = {} /\ IsFiniteSet(modals') /\ blob' \in {"none", blob}
            /\ queue' \in Seq({"back", "forward", "app"})
        BY <1>0, <2>0, <2>2, <3>1, ClosesFacts
      <3>3. QED
        BY <1>0, <2>2, <3>1, <3>2 DEF ModalsStep
    <2>3. CASE to = 0
      <3>1. /\ pos' = 0 /\ queue' = <<>>
            /\ ghost' = [ghost EXCEPT !.leftByApp = Head(queue) = "app"]
            /\ UNCHANGED <<page, view, entries, modals, blob, count>>
        BY <1>0, <1>8, <2>3 DEF Traverse
      <3>2. ghost' \in Ghosts
        BY <1>0, <3>1 DEF Ghosts
      <3>3. QED
        BY <1>0, <3>1, <3>2 DEF ModalsStep
    <2>4. to \in Nat
      BY <1>0, <1>8 DEF Traverse, OnPage
    <2>5. to > Len(entries) \/ to \in 1..Len(entries) \/ to = 0
      BY <1>0, <2>4
    <2>6. QED
      BY <2>1, <2>2, <2>3, <2>5
  <1>9. CASE BlobArrives
    BY <1>0, <1>9 DEF BlobArrives, ModalsStep, browser
  <1>10. QED
    BY <1>1, <1>2, <1>3, <1>4, <1>5, <1>6, <1>7, <1>8, <1>9

\* The steps of the history page keep their types.
LEMMA TypeStep ==
  ASSUME TypeOK, IsFiniteSet(modals), Next
  PROVE  TypeOK' /\ IsFiniteSet(modals')
  <1>0. /\ modals \subseteq Modals /\ IsFiniteSet(modals)
        /\ entries \in Seq({"page"} \cup Kinds) /\ entries # <<>> /\ Head(entries) = "page"
        /\ pos \in 0..Len(entries)
        /\ queue \in Seq({"back", "forward", "app"})
        /\ blob \in {"none", "loading", "shown", "failed"}
        /\ view \in {"grid", "list"} /\ page \in {"files", "history"}
        /\ count \in [opens : Nat, moves : Nat, reloads : Nat, asked : Nat]
        /\ ghost \in Ghosts
    BY DEF TypeOK, Ghosts
  <1> DEFINE Answered ==
        /\ list \in [loading : BOOLEAN, shares : 0..MaxShares]
        /\ lists \subseteq Requests
        /\ transfer \in [loading : BOOLEAN, shown : Transfers \cup {None}]
        /\ fetches \subseteq [n : Nat, of : Transfers, stale : BOOLEAN]
        /\ shares \in 0..MaxShares
        /\ zip \in [downloading : BOOLEAN, downloaded : BOOLEAN, requests : Nat, timers : Nat]
  <1>a. Answered
    BY DEF TypeOK, Requests
  <1>1. ASSUME ModalsStep, Answered'
        PROVE  TypeOK' /\ IsFiniteSet(modals')
    BY <1>0, <1>1 DEF ModalsStep, TypeOK, Ghosts, Requests
  <1>2. ASSUME files' = files
        PROVE  Answered'
    BY <1>2, <1>a DEF files
  <1>3. ASSUME UNCHANGED <<page, view, browser, modals, blob, count, ghost>>
        PROVE  ModalsStep
    BY <1>0, <1>3 DEF ModalsStep, browser
  <1> HIDE DEF Answered
  <1>4. CASE \/ \E c \in Cards : OpenPreview(c) \/ OpenEditor(c)
             \/ \E m \in modals : CloseModal(m)
             \/ ReloadFiles
             \/ \E v \in {"grid", "list"} : SetView(v)
             \/ \E way \in {"back", "forward"} : Move(way)
             \/ Traverse \/ BlobArrives
    <2>1. files' = files
      BY <1>4 DEF OpenPreview, OpenEditor, CloseModal, ReloadFiles, SetView, Move, Traverse,
                  BlobArrives, files
    <2>2. QED
      BY <1>1, <1>2, <1>4, <2>1, ModalSteps
  <1>5. ASSUME NEW t \in Transfers, OpenTransfer(t)
        PROVE  TypeOK' /\ IsFiniteSet(modals')
    <2>1. /\ transfer' = [loading |-> TRUE, shown |-> None]
          /\ fetches' = {[x EXCEPT !.stale = TRUE] : x \in fetches} \cup
                        {[n |-> count.opens, of |-> t, stale |-> FALSE]}
          /\ UNCHANGED <<list, lists, shares, zip>>
      BY <1>5 DEF OpenTransfer
    <2>2. \A x \in fetches : [x EXCEPT !.stale = TRUE] \in [n : Nat, of : Transfers, stale : BOOLEAN]
      <3>1. ASSUME NEW x \in [n : Nat, of : Transfers, stale : BOOLEAN]
            PROVE  [x EXCEPT !.stale = TRUE] \in [n : Nat, of : Transfers, stale : BOOLEAN]
        OBVIOUS
      <3>2. QED
        BY <1>a, <3>1 DEF Answered
    <2>3. [n |-> count.opens, of |-> t, stale |-> FALSE] \in [n : Nat, of : Transfers, stale : BOOLEAN]
      BY <1>0
    <2>4. fetches' \subseteq [n : Nat, of : Transfers, stale : BOOLEAN]
      BY <2>1, <2>2, <2>3
    <2>5. transfer' \in [loading : BOOLEAN, shown : Transfers \cup {None}]
      BY <2>1
    <2>6. Answered'
      BY <1>a, <2>1, <2>4, <2>5 DEF Answered
    <2>7. QED
      BY <1>1, <1>5, <2>6, ModalSteps
  <1>6. CASE FilesShared
    <2>1. /\ shares' = shares + 1 /\ shares < MaxShares
          /\ list' = [list EXCEPT !.loading = TRUE]
          /\ lists' = lists \cup {[n |-> count.asked + 1, got |-> Pending, asked |-> shares',
                                  stale |-> FALSE]}
          /\ count' = [count EXCEPT !.asked = @ + 1]
          /\ UNCHANGED <<page, view, browser, modals, blob, transfer, fetches, zip, ghost>>
      BY <1>6 DEF FilesShared, AskList
    <2>2. shares' \in 0..MaxShares
      BY <1>a, <2>1, ConstantsOK DEF Answered, ConstantsOK
    <2>3. list' \in [loading : BOOLEAN, shares : 0..MaxShares]
      BY <1>a, <2>1 DEF Answered
    <2>4. lists' \subseteq Requests
      <3>1. [n |-> count.asked + 1, got |-> Pending, asked |-> shares', stale |-> FALSE] \in Requests
        BY <1>0, <2>2 DEF Requests
      <3>2. QED
        BY <1>a, <2>1, <3>1 DEF Answered
    <2>5. Answered'
      BY <1>a, <2>1, <2>2, <2>3, <2>4 DEF Answered
    <2>6. count' \in [opens : Nat, moves : Nat, reloads : Nat, asked : Nat]
      <3>1. count' = [count EXCEPT !.asked = @ + 1]
        BY <2>1
      <3>2. count \in [opens : Nat, moves : Nat, reloads : Nat, asked : Nat]
        BY <1>0
      <3>3. QED
        BY ONLY <3>1, <3>2
    <2>7. ModalsStep
      BY <1>0, <2>1, <2>6 DEF ModalsStep, browser
    <2>8. QED
      BY <1>1, <2>5, <2>7
  <1>7. ASSUME NEW r \in lists, get_history(r)
        PROVE  TypeOK' /\ IsFiniteSet(modals')
    <2>1. PICK got \in {shares, Failed} : lists' = (lists \ {r}) \cup {[r EXCEPT !.got = got]}
      BY <1>7 DEF get_history
    <2>2. /\ UNCHANGED <<list, transfer, fetches, shares, zip>>
          /\ UNCHANGED <<page, view, browser, modals, blob, count, ghost>>
      BY <1>7 DEF get_history
    <2>3. /\ [r EXCEPT !.got = got] \in Requests
          /\ got \in (0..MaxShares) \cup {Failed}
      BY <1>a, <2>1 DEF Answered, Requests
    <2>4. Answered'
      BY <1>a, <2>1, <2>2, <2>3 DEF Answered
    <2>5. QED
      BY <1>1, <1>3, <2>2, <2>4
  <1>8. ASSUME NEW r \in lists, ListArrives(r)
        PROVE  TypeOK' /\ IsFiniteSet(modals')
    <2>1. /\ list' = [loading |-> FALSE, shares |-> IF r.got = Failed THEN list.shares ELSE r.got]
          /\ lists' = {IF x.n < r.n THEN [x EXCEPT !.stale = TRUE] ELSE x : x \in lists \ {r}}
          /\ ghost' = [ghost EXCEPT
               !.listOvertaken = IF r.got = Failed THEN @ ELSE r.stale,
               !.known = IF r.got # Failed /\ r.asked > @ THEN r.asked ELSE @]
          /\ r.got # Pending
          /\ UNCHANGED <<page, view, browser, modals, blob, transfer, fetches, shares, zip, count>>
      BY <1>8 DEF ListArrives
    <2>2. r \in Requests /\ \A x \in lists : x \in Requests
      BY <1>a DEF Answered
    <2>3. lists' \subseteq Requests
      <3>1. \A x \in lists : [x EXCEPT !.stale = TRUE] \in Requests
        BY <2>2 DEF Requests
      <3>2. QED
        BY <2>1, <2>2, <3>1
    <2>4. list' \in [loading : BOOLEAN, shares : 0..MaxShares]
      BY <1>a, <2>1, <2>2 DEF Answered, Requests
    <2>5. Answered'
      BY <1>a, <2>1, <2>3, <2>4 DEF Answered
    <2>6. ghost' \in Ghosts
      BY <1>0, <2>1, <2>2 DEF Ghosts, Requests
    <2>7. ModalsStep
      BY <1>0, <2>1, <2>6 DEF ModalsStep, browser
    <2>8. QED
      BY <1>1, <2>5, <2>7
  <1>9. ASSUME NEW r \in fetches, TransferArrives(r)
        PROVE  TypeOK' /\ IsFiniteSet(modals')
    <2>1. PICK ok \in BOOLEAN :
            /\ transfer' = [loading |-> FALSE, shown |-> IF ok THEN r.of ELSE transfer.shown]
            /\ ghost' = [ghost EXCEPT !.overtaken = IF ok THEN r.stale ELSE @]
      BY <1>9 DEF TransferArrives
    <2>2. /\ fetches' = fetches \ {r}
          /\ UNCHANGED <<page, view, browser, modals, blob, list, lists, shares, zip, count>>
      BY <1>9 DEF TransferArrives
    <2>3. r.of \in Transfers /\ r.stale \in BOOLEAN
      BY <1>a DEF Answered
    <2>4. Answered'
      BY <1>a, <2>1, <2>2, <2>3 DEF Answered
    <2>5. ghost' \in Ghosts
      BY <1>0, <2>1, <2>3 DEF Ghosts
    <2>6. ModalsStep
      BY <1>0, <2>2, <2>5 DEF ModalsStep, browser
    <2>7. QED
      BY <1>1, <2>4, <2>6
  <1>10. CASE handleDownloadZip \/ ZipArrives \/ MarkFades
    <2>1. zip' \in [downloading : BOOLEAN, downloaded : BOOLEAN, requests : Nat, timers : Nat]
      <3>0. zip \in [downloading : BOOLEAN, downloaded : BOOLEAN, requests : Nat, timers : Nat]
        BY <1>a DEF Answered
      <3>1. \/ zip' = [zip EXCEPT !.downloading = TRUE, !.requests = @ + 1]
            \/ zip.requests > 0 /\ zip' = [downloading |-> FALSE, downloaded |-> TRUE,
                                           requests |-> zip.requests - 1, timers |-> zip.timers + 1]
            \/ zip.requests > 0 /\ zip' = [zip EXCEPT !.downloading = FALSE, !.requests = @ - 1]
            \/ zip.timers > 0 /\ zip' = [zip EXCEPT !.downloaded = FALSE, !.timers = @ - 1]
        BY <1>10 DEF handleDownloadZip, ZipArrives, MarkFades
      <3>2. /\ [zip EXCEPT !.downloading = TRUE, !.requests = @ + 1] \in ZipTypes
            /\ zip.requests > 0 => [zip EXCEPT !.downloading = FALSE, !.requests = @ - 1] \in ZipTypes
            /\ zip.timers > 0 => [zip EXCEPT !.downloaded = FALSE, !.timers = @ - 1] \in ZipTypes
            /\ zip.requests > 0 => [downloading |-> FALSE, downloaded |-> TRUE,
                                    requests |-> zip.requests - 1, timers |-> zip.timers + 1] \in ZipTypes
        <4>1. ASSUME zip.requests > 0  PROVE zip.requests - 1 \in Nat
          BY <3>0, <4>1
        <4>2. ASSUME zip.timers > 0  PROVE zip.timers - 1 \in Nat
          BY <3>0, <4>2
        <4>3. zip.requests + 1 \in Nat /\ zip.timers + 1 \in Nat
          BY <3>0
        <4>4. QED
          BY ONLY <3>0, <4>1, <4>2, <4>3 DEF ZipTypes
      <3>3. QED
        BY <3>1, <3>2 DEF ZipTypes
    <2>2. /\ UNCHANGED <<page, view, browser, modals, blob, count, ghost>>
          /\ UNCHANGED <<list, lists, transfer, fetches, shares>>
      BY <1>10 DEF handleDownloadZip, ZipArrives, MarkFades
    <2>3. Answered'
      BY <1>a, <2>1, <2>2 DEF Answered
    <2>4. QED
      BY <1>1, <1>3, <2>2, <2>3
  <1>11. QED
    BY <1>4, <1>5, <1>6, <1>7, <1>8, <1>9, <1>10 DEF Next, ListAnswered, TransferAnswered

-----------------------------------------------------------------------------
(* The history page's list and its button. *)

\* A step that leaves the requests for the list alone.
LEMMA ListFrame ==
  ASSUME ListInv, ListIsFresh,
         UNCHANGED <<list, lists, shares>>, count'.asked = count.asked,
         ghost'.known = ghost.known, ghost'.listOvertaken = ghost.listOvertaken
  PROVE  ListInv' /\ ListIsFresh'
  BY DEF ListInv, ListIsFresh

\* An answer that no later one has overtaken holds all that is known, and one
\* that comes late is known to.
LEMMA ListKept ==
  ASSUME TypeOK, ListInv, ListIsFresh, Next
  PROVE  ListInv' /\ ListIsFresh'
  <1>0. /\ lists \subseteq Requests /\ shares \in 0..MaxShares /\ ghost.known \in 0..MaxShares
        /\ count \in [opens : Nat, moves : Nat, reloads : Nat, asked : Nat]
        /\ ghost \in Ghosts /\ MaxShares \in Nat
        /\ list \in [loading : BOOLEAN, shares : 0..MaxShares]
    BY ConstantsOK DEF TypeOK, Requests, Ghosts, ConstantsOK
  <1>1. CASE \/ \E c \in Cards : OpenPreview(c) \/ OpenEditor(c)
             \/ \E t \in Transfers : OpenTransfer(t)
             \/ \E m \in modals : CloseModal(m)
             \/ ReloadFiles
             \/ \E v \in {"grid", "list"} : SetView(v)
             \/ \E way \in {"back", "forward"} : Move(way)
             \/ Traverse \/ BlobArrives
             \/ \E r \in fetches : TransferArrives(r)
             \/ handleDownloadZip \/ ZipArrives \/ MarkFades
    <2>1. UNCHANGED <<list, lists, shares>>
      BY <1>1 DEF OpenPreview, OpenEditor, OpenTransfer, CloseModal, ReloadFiles, SetView, Move,
                  Traverse, BlobArrives, TransferArrives, handleDownloadZip, ZipArrives,
                  MarkFades, files
    <2>2. count'.asked = count.asked
      BY <1>0, <1>1 DEF OpenPreview, OpenEditor, OpenTransfer, Opens, CloseModal, ReloadFiles,
                  SetView, Move, Traverse, BlobArrives, TransferArrives, handleDownloadZip,
                  ZipArrives, MarkFades
    <2>3. ghost'.known = ghost.known /\ ghost'.listOvertaken = ghost.listOvertaken
      BY <1>0, <1>1 DEF OpenPreview, OpenEditor, OpenTransfer, CloseModal, ReloadFiles, SetView,
                  Move, Traverse, BlobArrives, TransferArrives, handleDownloadZip, ZipArrives,
                  MarkFades, Ghosts
    <2>4. QED
      BY <2>1, <2>2, <2>3, ListFrame
  <1>2. CASE FilesShared
    <2> DEFINE new == [n |-> count.asked + 1, got |-> Pending, asked |-> shares + 1, stale |-> FALSE]
    <2>1. /\ shares' = shares + 1 /\ lists' = lists \cup {new} /\ ghost' = ghost
          /\ list' = [list EXCEPT !.loading = TRUE]
          /\ count' = [count EXCEPT !.asked = @ + 1]
      BY <1>2 DEF FilesShared, AskList
    <2>2. count'.asked = count.asked + 1 /\ list'.shares = list.shares
      BY <1>0, <2>1
    <2>3. ASSUME NEW r \in lists'
          PROVE  /\ r.n \in 0..count'.asked /\ r.asked \in 0..shares'
                 /\ r.got \notin {Pending, Failed} => r.got \in r.asked..shares'
                 /\ ~r.stale => ghost'.known <= r.asked
                 /\ \A x \in lists' : r.n <= x.n => r.asked <= x.asked
      <3>1. CASE r = new
        BY <1>0, <2>1, <2>2, <3>1 DEF ListInv
      <3>2. CASE r \in lists
        <4>1. r \in Requests /\ r.n <= count.asked /\ r.asked <= shares
          BY <1>0, <3>2 DEF ListInv, Requests
        <4>2. r.n <= new.n /\ r.asked <= new.asked
          BY <1>0, <4>1 DEF Requests
        <4>3. QED
          BY <1>0, <2>1, <2>2, <3>2, <4>1, <4>2 DEF ListInv, Requests
      <3>3. QED
        BY <2>1, <3>1, <3>2
    <2>4. ghost'.known <= shares'
      BY <1>0, <2>1 DEF ListInv
    <2>5. QED
      BY <2>1, <2>2, <2>3, <2>4 DEF ListInv, ListIsFresh
  <1>3. ASSUME NEW q \in lists, get_history(q)
        PROVE  ListInv' /\ ListIsFresh'
    <2>1. PICK got \in {shares, Failed} : lists' = (lists \ {q}) \cup {[q EXCEPT !.got = got]}
      BY <1>3 DEF get_history
    <2> DEFINE new == [q EXCEPT !.got = got]
    <2>2. new.n = q.n /\ new.asked = q.asked /\ new.stale = q.stale /\ new.got = got
      BY <1>0 DEF Requests
    <2>3. UNCHANGED <<list, shares, count, ghost>>
      BY <1>3 DEF get_history
    <2> HIDE DEF new
    <2>4. \A x \in lists' : \E y \in lists : x.n = y.n /\ x.asked = y.asked /\ x.stale = y.stale
                                  /\ (x.got = y.got \/ x.got \in {shares, Failed})
      BY <2>1, <2>2 DEF new
    <2>5. QED
      BY <1>0, <2>3, <2>4 DEF ListInv, ListIsFresh, Requests
  <1>4. ASSUME NEW q \in lists, ListArrives(q)
        PROVE  ListInv' /\ ListIsFresh'
    <2> DEFINE known == IF q.got # Failed /\ q.asked > ghost.known THEN q.asked ELSE ghost.known
    <2>1. /\ list' = [loading |-> FALSE, shares |-> IF q.got = Failed THEN list.shares ELSE q.got]
          /\ lists' = {IF x.n < q.n THEN [x EXCEPT !.stale = TRUE] ELSE x : x \in lists \ {q}}
          /\ ghost' = [ghost EXCEPT
               !.listOvertaken = IF q.got = Failed THEN @ ELSE q.stale,
               !.known = known]
          /\ q.got # Pending
          /\ UNCHANGED <<shares, count>>
      BY <1>4 DEF ListArrives
    <2>2. /\ ghost'.known = known
          /\ ghost'.listOvertaken = IF q.got = Failed THEN ghost.listOvertaken ELSE q.stale
          /\ list'.shares = IF q.got = Failed THEN list.shares ELSE q.got
      BY <1>0, <2>1 DEF Ghosts
    <2>3. \A x \in lists' : \E y \in lists :
            /\ x.n = y.n /\ x.asked = y.asked /\ x.got = y.got
            /\ ~x.stale => ~y.stale /\ y.n >= q.n
      <3>1. \A y \in lists : /\ [y EXCEPT !.stale = TRUE].n = y.n
                             /\ [y EXCEPT !.stale = TRUE].asked = y.asked
                             /\ [y EXCEPT !.stale = TRUE].got = y.got
                             /\ [y EXCEPT !.stale = TRUE].stale
                             /\ y.n \in Nat /\ q.n \in Nat
        BY <1>0 DEF Requests
      <3>2. TAKE x \in lists'
      <3>3. PICK y \in lists \ {q} : x = IF y.n < q.n THEN [y EXCEPT !.stale = TRUE] ELSE y
        BY <2>1
      <3>4. CASE y.n < q.n
        BY <3>1, <3>3, <3>4
      <3>5. CASE ~(y.n < q.n)
        BY <3>1, <3>3, <3>5
      <3>6. QED
        BY <3>4, <3>5
    <2>4. /\ known \in 0..shares /\ known >= ghost.known
          /\ \A y \in lists : ~y.stale /\ y.n >= q.n => known <= y.asked
      BY <1>0 DEF ListInv, Requests
    <2>5. ListInv'
      BY <1>0, <2>1, <2>2, <2>3, <2>4 DEF ListInv, Requests
    <2>6. ListIsFresh'
      <3>1. CASE q.got = Failed
        BY <2>2, <3>1 DEF ListIsFresh
      <3>2. CASE q.got # Failed
        BY <1>0, <2>1, <2>2, <3>2 DEF ListIsFresh, ListInv, Requests
      <3>3. QED
        BY <3>1, <3>2
    <2>7. QED
      BY <2>5, <2>6
  <1>5. QED
    BY <1>1, <1>2, <1>3, <1>4 DEF Next, ListAnswered, TransferAnswered

\* The button has one request or one timer.
LEMMA ZipKept ==
  ASSUME TypeOK, ZipInv, OneDownload, Next
  PROVE  ZipInv' /\ OneDownload'
  <1>0. zip \in [downloading : BOOLEAN, downloaded : BOOLEAN, requests : Nat, timers : Nat]
    BY DEF TypeOK
  <1>1. CASE zip' = zip
    BY <1>1 DEF ZipInv, OneDownload
  <1>2. CASE handleDownloadZip \/ ZipArrives \/ MarkFades
    <2>1. \/ /\ ~zip.downloading /\ ~zip.downloaded
             /\ zip' = [zip EXCEPT !.downloading = TRUE, !.requests = @ + 1]
          \/ /\ zip.requests > 0
             /\ \/ zip' = [downloading |-> FALSE, downloaded |-> TRUE,
                           requests |-> zip.requests - 1, timers |-> zip.timers + 1]
                \/ zip' = [zip EXCEPT !.downloading = FALSE, !.requests = @ - 1]
          \/ zip.timers > 0 /\ zip' = [zip EXCEPT !.downloaded = FALSE, !.timers = @ - 1]
      BY <1>2 DEF handleDownloadZip, DownloadButton, ZipArrives, MarkFades
    <2>2. CASE ~zip.downloading /\ ~zip.downloaded /\
               zip' = [zip EXCEPT !.downloading = TRUE, !.requests = @ + 1]
      BY <1>0, <2>2 DEF ZipInv, OneDownload
    <2>3. CASE zip.requests > 0 /\ zip' = [downloading |-> FALSE, downloaded |-> TRUE,
                           requests |-> zip.requests - 1, timers |-> zip.timers + 1]
      BY <1>0, <2>3 DEF ZipInv, OneDownload
    <2>4. CASE zip.requests > 0 /\ zip' = [zip EXCEPT !.downloading = FALSE, !.requests = @ - 1]
      BY <1>0, <2>4 DEF ZipInv, OneDownload
    <2>5. CASE zip.timers > 0 /\ zip' = [zip EXCEPT !.downloaded = FALSE, !.timers = @ - 1]
      BY <1>0, <2>5 DEF ZipInv, OneDownload
    <2>6. QED
      BY <2>1, <2>2, <2>3, <2>4, <2>5
  <1>3. zip' = zip \/ handleDownloadZip \/ ZipArrives \/ MarkFades
    BY DEF Next, ListAnswered, TransferAnswered, OpenPreview, OpenEditor, OpenTransfer, CloseModal,
           ReloadFiles, SetView, Move, Traverse, BlobArrives, FilesShared, get_history, ListArrives,
           TransferArrives, files
  <1>4. QED
    BY <1>1, <1>2, <1>3

-----------------------------------------------------------------------------
(* The modals. *)

\* What is open once a modal of the page opens.
LEMMA OpenFacts ==
  ASSUME TypeOK, IsFiniteSet(modals), TransferInv,
         NEW m \in Modals, m.kind = "history" <=> page = "history", Opens(m)
  PROVE  /\ \A x \in modals : x.kind = "edit" /\ view = "grid"
         /\ m.kind = "history" => modals = {}
         /\ modals' = modals \cup {m}
  <1>1. modals \subseteq Modals /\ view \in {"grid", "list"}
    BY DEF TypeOK
  <1>2. ~Covered /\ modals' = modals \cup {m}
    BY DEF Opens
  <1>3. \A x \in modals : x.kind = "edit" /\ view = "grid"
    BY <1>1, <1>2 DEF Covered
  <1>4. m.kind = "history" => modals = {}
    BY <1>3 DEF TransferInv
  <1>5. QED
    BY <1>2, <1>3, <1>4

\* What steps but those that open a modal leave open.
LEMMA ClosedFacts ==
  ASSUME Next, \A c \in Cards : ~OpenPreview(c) /\ ~OpenEditor(c),
         \A t \in Transfers : ~OpenTransfer(t)
  PROVE  modals' \subseteq modals /\ page' = page
  BY DEF Next, CloseModal, Closes, ReloadFiles, SetView, Move, Traverse, BlobArrives, FilesShared,
         AskList, ListAnswered, TransferAnswered, get_history, ListArrives, TransferArrives,
         handleDownloadZip, ZipArrives, MarkFades, browser

\* The request that no later one follows is for the transfer selected.
LEMMA TransferKept ==
  ASSUME TypeOK, IsFiniteSet(modals), TransferInv, ShowsItsTransfer, Next
  PROVE  TransferInv' /\ ShowsItsTransfer'
  <1>0. /\ modals \subseteq Modals /\ page \in {"files", "history"}
        /\ fetches \subseteq [n : Nat, of : Transfers, stale : BOOLEAN]
        /\ transfer \in [loading : BOOLEAN, shown : Transfers \cup {None}]
        /\ ghost \in Ghosts
    BY DEF TypeOK, Ghosts
  <1>1. ASSUME NEW m \in Modals, m.kind \in {"preview", "edit"}, page = "files", Opens(m),
               UNCHANGED <<transfer, fetches>>, ghost'.overtaken = ghost.overtaken
        PROVE  TransferInv' /\ ShowsItsTransfer'
    <2>1. /\ \A x \in modals : x.kind = "edit"
          /\ modals' = modals \cup {m} /\ page' = page
      BY <1>1, OpenFacts DEF Opens
    <2>2. Selected = {} /\ Selected' = {}
      BY <1>1, <2>1 DEF Selected
    <2>3. QED
      BY <1>1, <2>1, <2>2 DEF TransferInv, ShowsItsTransfer
  <1>2. ASSUME NEW c \in Cards, OpenPreview(c) \/ OpenEditor(c)
        PROVE  TransferInv' /\ ShowsItsTransfer'
    <2>1. Modal("preview", c) \in Modals /\ Modal("edit", c) \in Modals
          /\ Modal("preview", c).kind = "preview" /\ Modal("edit", c).kind = "edit"
      BY DEF Modal, Modals
    <2>2. /\ page = "files" /\ (Opens(Modal("preview", c)) \/ Opens(Modal("edit", c)))
          /\ UNCHANGED <<transfer, fetches>> /\ ghost'.overtaken = ghost.overtaken
      BY <1>0, <1>2 DEF OpenPreview, OpenEditor, files, Ghosts
    <2>3. QED
      BY <1>1, <2>1, <2>2
  <1>3. ASSUME NEW t \in Transfers, OpenTransfer(t)
        PROVE  TransferInv' /\ ShowsItsTransfer'
    <2> DEFINE m == Modal("history", t)
    <2>1. m \in Modals /\ m.kind = "history" /\ m.of = t
      BY DEF Modal, Modals
    <2>2. /\ page = "history" /\ Opens(m) /\ page' = page
          /\ transfer' = [loading |-> TRUE, shown |-> None]
          /\ fetches' = {[x EXCEPT !.stale = TRUE] : x \in fetches} \cup
                        {[n |-> count.opens, of |-> t, stale |-> FALSE]}
      BY <1>3 DEF OpenTransfer, Opens
    <2> HIDE DEF m
    <2>3. modals' = {m}
      BY <2>1, <2>2, OpenFacts
    <2>4. Selected' = {t}
      BY <2>1, <2>3 DEF Selected
    <2>5. \A x \in fetches : [x EXCEPT !.stale = TRUE].stale
      BY <1>0
    <2>6. ASSUME NEW r \in fetches', ~r.stale  PROVE  r.of = t
      <3>1. CASE r = [n |-> count.opens, of |-> t, stale |-> FALSE]
        BY <3>1
      <3>2. CASE \E x \in fetches : r = [x EXCEPT !.stale = TRUE]
        BY <2>5, <2>6, <3>2
      <3>3. QED
        BY <2>2, <3>1, <3>2
    <2>7. QED
      BY <2>1, <2>2, <2>3, <2>4, <2>6 DEF TransferInv, ShowsItsTransfer
  <1>4. ASSUME \A c \in Cards : ~OpenPreview(c) /\ ~OpenEditor(c),
               \A t \in Transfers : ~OpenTransfer(t)
        PROVE  TransferInv' /\ ShowsItsTransfer'
    <2>1. modals' \subseteq modals /\ page' = page
      BY <1>4, ClosedFacts
    <2>2. Selected' \subseteq Selected
      BY <2>1 DEF Selected
    <2>3. \A m, x \in modals : m.kind = "history" => m = x
      BY DEF TransferInv
    <2>4. ASSUME NEW r \in fetches, TransferArrives(r)
          PROVE  ShowsItsTransfer' /\ fetches' \subseteq fetches
      <3>1. PICK ok \in BOOLEAN :
              /\ transfer' = [loading |-> FALSE, shown |-> IF ok THEN r.of ELSE transfer.shown]
              /\ ghost' = [ghost EXCEPT !.overtaken = IF ok THEN r.stale ELSE @]
        BY <2>4 DEF TransferArrives
      <3>2. ghost'.overtaken = IF ok THEN r.stale ELSE ghost.overtaken
        BY <1>0, <3>1 DEF Ghosts
      <3>3. modals' = modals
        BY <2>4 DEF TransferArrives
      <3>4. ~r.stale => Selected \subseteq {r.of}
        BY DEF TransferInv
      <3>5. ShowsItsTransfer'
        BY <2>2, <3>1, <3>2, <3>4 DEF ShowsItsTransfer
      <3>6. QED
        BY <2>4, <3>5 DEF TransferArrives
    <2>5. ASSUME \A r \in fetches : ~TransferArrives(r)
          PROVE  ShowsItsTransfer' /\ fetches' \subseteq fetches
      <3>1. transfer' = transfer /\ fetches' = fetches /\ ghost'.overtaken = ghost.overtaken
        BY <1>0, <1>4, <2>5 DEF Next, CloseModal, ReloadFiles, SetView, Move, Traverse,
             BlobArrives, FilesShared, ListAnswered, TransferAnswered, get_history, ListArrives,
             handleDownloadZip, ZipArrives, MarkFades, files, Ghosts
      <3>2. QED
        BY <2>2, <3>1 DEF ShowsItsTransfer
    <2>6. ShowsItsTransfer' /\ fetches' \subseteq fetches
      BY <2>4, <2>5
    <2>7. QED
      BY <2>1, <2>2, <2>6 DEF TransferInv
  <1>5. QED
    BY <1>2, <1>3, <1>4

-----------------------------------------------------------------------------
(* The browser's history. *)

\* A step that leaves the modals and the entries alone.
LEMMA BackFrame ==
  ASSUME BackInv, UNCHANGED <<entries, pos, queue, modals>>,
         ghost'.twoEdits = ghost.twoEdits, ghost'.raced = ghost.raced,
         ghost'.forward = ghost.forward, ghost'.leftByApp = ghost.leftByApp
  PROVE  BackInv'
  BY DEF BackInv, OnePerKind, OneTraversal, ModalsNeverLeaveThePage, EntriesAreOfModals, Above,
         OnPage

\* The traversals that modals which close queue, when none is under way.
LEMMA CloseQueue ==
  ASSUME TypeOK, IsFiniteSet(modals), NEW ms \in SUBSET modals, NEW at \in 1..Len(entries),
         Closes(ms, at, <<>>), \A m, x \in ms : m.kind = x.kind => m = x
  PROVE  /\ (\E m \in ms : m.kind = entries[at]) => queue' = <<"app">>
         /\ (\A m \in ms : m.kind # entries[at]) => queue' = <<>>
         /\ queue' = <<"app">> => at >= 2
         /\ queue' \in {<<>>, <<"app">>}
  <1>1. PICK n \in Nat : /\ queue' = <<>> \o [i \in 1..n |-> "app"]
                         /\ n = 0 <=> \A m \in ms : m.kind # entries[at]
                         /\ n <= 1
    <2>1. <<>> \in Seq({"back", "forward", "app"})
      OBVIOUS
    <2>2. \E n \in Nat : /\ queue' = <<>> \o [i \in 1..n |-> "app"]
                         /\ n = 0 <=> \A m \in ms : m.kind # entries[at]
                         /\ (\A m, x \in ms : m.kind = x.kind => m = x) => n <= 1
      BY <2>1, ClosesFacts
    <2>3. QED
      BY <2>2
  <1>2. n = 0 => queue' = <<>>
    BY <1>1
  <1>3. n = 1 => queue' = <<"app">>
    BY <1>1
  <1>4. n = 0 \/ n = 1
    BY <1>1
  <1>5. <<"app">> # <<>>
    OBVIOUS
  <1>6. ASSUME at = 1, NEW m \in ms
        PROVE  m.kind # entries[at]
    <2>1. entries[1] = "page" /\ modals \subseteq Modals
      BY DEF TypeOK
    <2>2. QED
      BY <1>6, <2>1 DEF Modals
  <1>7. QED
    BY <1>1, <1>2, <1>3, <1>4, <1>5, <1>6

\* A modal opens.
LEMMA OpensKept ==
  ASSUME TypeOK, IsFiniteSet(modals), TransferInv, BackInv,
         NEW m \in Modals, m.kind = "history" <=> page = "history", Opens(m),
         ghost'.raced = (ghost.raced \/ queue # <<>>), ghost'.forward = ghost.forward,
         ghost'.leftByApp = ghost.leftByApp,
         ghost'.twoEdits = (ghost.twoEdits \/ (m.kind = "edit" /\ \E x \in modals : x.kind = "edit")),
         ghost \in Ghosts
  PROVE  BackInv'
  <1>1. /\ \A x \in modals : x.kind = "edit" /\ view = "grid"
        /\ m.kind = "history" => modals = {}
        /\ modals' = modals \cup {m}
    BY OpenFacts
  <1>2. /\ pos' = pos + 1 /\ entries'[pos + 1] = m.kind /\ queue' = queue
        /\ \A i \in 1..pos : entries'[i] = entries[i]
        /\ OnPage /\ pos \in Nat
    BY OpensFacts DEF TypeOK
  <1>3. ~ghost'.twoEdits => ~ghost.twoEdits /\ \A x \in modals : x.kind # m.kind
    BY <1>1
  <1>4. ~ghost'.raced => ~ghost.raced /\ queue = <<>>
    OBVIOUS
  <1>5. OnePerKind'
    BY <1>1, <1>3 DEF BackInv, OnePerKind
  <1>6. OneTraversal'
    BY <1>2, <1>4 DEF OneTraversal
  <1>7. ModalsNeverLeaveThePage'
    BY DEF BackInv, ModalsNeverLeaveThePage, Ghosts
  <1>8. ASSUME ~ghost'.raced, ~ghost'.forward, ~ghost'.twoEdits
        PROVE  /\ queue' = <<>>
               /\ \/ modals' = {m} /\ pos' = 2 /\ entries'[2] = m.kind
                  \/ \E c, d \in Cards :
                       /\ modals' = {Modal("edit", c), Modal("preview", d)}
                       /\ pos' = 3 /\ entries'[2] = "edit" /\ entries'[3] = "preview"
    <2>1. /\ ~ghost.raced /\ ~ghost.forward /\ ~ghost.twoEdits /\ queue = <<>> /\ queue' = <<>>
          /\ Above = pos
      BY <1>2, <1>3, <1>4, <1>8 DEF Above
    <2>2. \/ modals = {} /\ pos = 1
          \/ \E x \in Modals : modals = {x} /\ pos = 2 /\ entries[2] = x.kind
          \/ \E c, d \in Cards : modals = {Modal("edit", c), Modal("preview", d)}
      BY <1>2, <2>1 DEF BackInv, EntriesAreOfModals
    <2>3. CASE modals = {} /\ pos = 1
      BY <1>1, <1>2, <2>1, <2>3
    <2>4. ASSUME NEW x \in Modals, modals = {x}, pos = 2, entries[2] = x.kind
          PROVE  \E c, d \in Cards :
                       /\ modals' = {Modal("edit", c), Modal("preview", d)}
                       /\ pos' = 3 /\ entries'[2] = "edit" /\ entries'[3] = "preview"
      <3>1. x.kind = "edit" /\ m.kind = "preview"
        BY <1>1, <1>3, <1>8, <2>4 DEF Modals
      <3>2. x.of \in Cards /\ m.of \in Cards /\ x = Modal("edit", x.of) /\ m = Modal("preview", m.of)
        BY <3>1 DEF Modals, Modal
      <3>3. /\ modals' = {Modal("edit", x.of), Modal("preview", m.of)}
            /\ pos' = 3 /\ entries'[2] = "edit" /\ entries'[3] = "preview"
        BY <1>1, <1>2, <2>4, <3>1, <3>2
      <3>4. QED
        BY <3>2, <3>3
    <2>5. ASSUME NEW c \in Cards, NEW d \in Cards, modals = {Modal("edit", c), Modal("preview", d)}
          PROVE  FALSE
      BY <1>1, <2>5 DEF Modal
    <2>6. QED
      BY <2>1, <2>2, <2>3, <2>4, <2>5
  <1>9. EntriesAreOfModals'
    <2>1. queue' = <<>> => Above' = pos'
      BY DEF Above
    <2>2. QED
      BY <1>8, <2>1 DEF EntriesAreOfModals
  <1>10. QED
    BY <1>5, <1>6, <1>7, <1>9 DEF BackInv

\* A modal closes.
LEMMA CloseModalKept ==
  ASSUME TypeOK, IsFiniteSet(modals), BackInv, NEW m \in modals, CloseModal(m)
  PROVE  BackInv'
  <1>1. /\ Closes({m}, pos, queue) /\ pos \in 1..Len(entries) /\ pos \in Nat
        /\ ghost' = [ghost EXCEPT !.raced = @ \/ queue # <<>>]
        /\ UNCHANGED <<entries, pos>> /\ OnPage
        /\ m.kind = "edit" => \A x \in modals : x.kind = "edit"
        /\ ghost \in Ghosts
    BY DEF CloseModal, OnPage, TypeOK, Ghosts
  <1>2. /\ ghost'.twoEdits = ghost.twoEdits /\ ghost'.raced = (ghost.raced \/ queue # <<>>)
        /\ ghost'.forward = ghost.forward /\ ghost'.leftByApp = ghost.leftByApp
    BY <1>1 DEF Ghosts
  <1>3. modals' = modals \ {m}
    BY <1>1 DEF Closes
  <1>4. OnePerKind' /\ ModalsNeverLeaveThePage'
    BY <1>1, <1>2, <1>3 DEF BackInv, OnePerKind, ModalsNeverLeaveThePage, Ghosts
  <1>5. ASSUME ~ghost'.raced
        PROVE  /\ ~ghost.raced /\ queue = <<>>
               /\ m.kind = entries[pos] => queue' = <<"app">>
               /\ m.kind # entries[pos] => queue' = <<>>
               /\ queue' = <<"app">> => pos >= 2
               /\ queue' \in {<<>>, <<"app">>}
    <2>1. ~ghost.raced /\ queue = <<>>
      BY <1>2, <1>5
    <2>2. Closes({m}, pos, <<>>)
      BY <1>1, <2>1
    <2>3. {m} \in SUBSET modals /\ \A y, x \in {m} : y.kind = x.kind => y = x
      OBVIOUS
    <2> DEFINE ms == {m}
    <2> HIDE DEF ms
    <2>4. /\ (\E x \in ms : x.kind = entries[pos]) => queue' = <<"app">>
          /\ (\A x \in ms : x.kind # entries[pos]) => queue' = <<>>
          /\ queue' = <<"app">> => pos >= 2
          /\ queue' \in {<<>>, <<"app">>}
      <3>1. ms \in SUBSET modals /\ Closes(ms, pos, <<>>) /\ \A y, x \in ms : y.kind = x.kind => y = x
        BY <2>2, <2>3 DEF ms
      <3>2. QED
        BY <1>1, <3>1, CloseQueue
    <2>5. QED
      BY <2>1, <2>4 DEF ms
  <1>6. OneTraversal'
    <2>1. Len(<<>>) <= 1 /\ Len(<<"app">>) <= 1
      OBVIOUS
    <2>2. QED
      BY <1>1, <1>5, <2>1 DEF OneTraversal
  <1>7. ASSUME ~ghost'.raced, ~ghost'.forward, ~ghost'.twoEdits
        PROVE  /\ queue' = <<"app">>
               /\ \/ modals' = {} /\ pos = 2
                  \/ \E x \in Modals : modals' = {x} /\ pos = 3 /\ entries[2] = x.kind
    <2>1. /\ ~ghost.raced /\ ~ghost.forward /\ ~ghost.twoEdits /\ queue = <<>> /\ Above = pos
      BY <1>2, <1>5, <1>7 DEF Above
    <2>2. \/ \E x \in Modals : modals = {x} /\ pos = 2 /\ entries[2] = x.kind
          \/ \E c, d \in Cards :
               /\ modals = {Modal("edit", c), Modal("preview", d)}
               /\ pos = 3 /\ entries[2] = "edit" /\ entries[3] = "preview"
      BY <1>1, <2>1 DEF BackInv, EntriesAreOfModals
    <2>3. ASSUME NEW x \in Modals, modals = {x}, pos = 2, entries[2] = x.kind
          PROVE  queue' = <<"app">> /\ modals' = {}
      BY <1>3, <1>5, <1>7, <2>3
    <2>4. ASSUME NEW c \in Cards, NEW d \in Cards,
                 modals = {Modal("edit", c), Modal("preview", d)},
                 pos = 3, entries[2] = "edit", entries[3] = "preview"
          PROVE  queue' = <<"app">> /\ \E x \in Modals : modals' = {x} /\ entries[2] = x.kind
      <3>1. /\ Modal("edit", c) # Modal("preview", d)
            /\ Modal("edit", c).kind = "edit" /\ Modal("preview", d).kind = "preview"
            /\ Modal("edit", c) \in Modals
        BY DEF Modal, Modals
      <3>2. m = Modal("preview", d)
        BY <1>1, <2>4, <3>1
      <3>3. modals' = {Modal("edit", c)}
        BY <1>3, <2>4, <3>1, <3>2
      <3>4. QED
        BY <1>5, <1>7, <2>4, <3>1, <3>2, <3>3
    <2>5. QED
      BY <2>2, <2>3, <2>4
  <1>8. EntriesAreOfModals'
    <2>1. queue' = <<"app">> => Above' = pos' - 1
      BY DEF Above
    <2>2. QED
      BY <1>1, <1>7, <2>1 DEF EntriesAreOfModals
  <1>9. QED
    BY <1>4, <1>6, <1>8 DEF BackInv

\* A refetch closes every modal.
LEMMA ReloadKept ==
  ASSUME TypeOK, IsFiniteSet(modals), BackInv, ReloadFiles
  PROVE  BackInv'
  <1>1. /\ Closes(modals, pos, queue) /\ pos \in 1..Len(entries) /\ pos \in Nat
        /\ ghost' = [ghost EXCEPT !.raced = @ \/ queue # <<>>,
                                  !.forward = @ \/ Cardinality(modals) > 1]
        /\ UNCHANGED <<entries, pos>> /\ OnPage
        /\ ghost \in Ghosts
    BY DEF ReloadFiles, OnPage, TypeOK, Ghosts
  <1>2. /\ ghost'.twoEdits = ghost.twoEdits /\ ghost'.raced = (ghost.raced \/ queue # <<>>)
        /\ ghost'.forward = (ghost.forward \/ Cardinality(modals) > 1)
        /\ ghost'.leftByApp = ghost.leftByApp
    BY <1>1 DEF Ghosts
  <1>3. modals' = {}
    BY <1>1 DEF Closes
  <1>4. OnePerKind' /\ ModalsNeverLeaveThePage'
    BY <1>1, <1>2, <1>3 DEF BackInv, OnePerKind, ModalsNeverLeaveThePage, Ghosts
  <1>5. ASSUME ~ghost'.raced, ~ghost'.twoEdits
        PROVE  /\ ~ghost.raced /\ queue = <<>>
               /\ (\E m \in modals : m.kind = entries[pos]) => queue' = <<"app">>
               /\ (\A m \in modals : m.kind # entries[pos]) => queue' = <<>>
               /\ queue' = <<"app">> => pos >= 2
               /\ queue' \in {<<>>, <<"app">>}
    <2>1. ~ghost.raced /\ queue = <<>> /\ ~ghost.twoEdits
      BY <1>2, <1>5
    <2>2. Closes(modals, pos, <<>>)
      BY <1>1, <2>1
    <2>3. modals \in SUBSET modals /\ \A m, x \in modals : m.kind = x.kind => m = x
      BY <2>1 DEF BackInv, OnePerKind
    <2>4. QED
      BY <1>1, <2>1, <2>2, <2>3, CloseQueue
  <1>6. OneTraversal'
    <2>1. Len(<<>>) <= 1 /\ Len(<<"app">>) <= 1
      OBVIOUS
    <2>2. QED
      BY <1>1, <1>5, <2>1 DEF OneTraversal
  <1>7. ASSUME ~ghost'.raced, ~ghost'.forward, ~ghost'.twoEdits
        PROVE  (queue' = <<>> /\ pos = 1) \/ (queue' = <<"app">> /\ pos = 2)
    <2>1. /\ ~ghost.raced /\ ~ghost.forward /\ ~ghost.twoEdits /\ queue = <<>> /\ Above = pos
          /\ ~(Cardinality(modals) > 1)
      <3>1. ~ghost.forward /\ ~(Cardinality(modals) > 1) /\ ~ghost.twoEdits
        BY <1>2, <1>7
      <3>2. ~ghost.raced /\ queue = <<>>
        BY <1>5, <1>7
      <3>3. queue # <<"app">>
        BY <3>2
      <3>4. Above = pos
        BY <3>3 DEF Above
      <3>5. QED
        BY <3>1, <3>2, <3>4
    <2>2. \/ modals = {} /\ pos = 1
          \/ \E x \in Modals : modals = {x} /\ pos = 2 /\ entries[2] = x.kind
          \/ \E c, d \in Cards : modals = {Modal("edit", c), Modal("preview", d)}
      BY <1>1, <2>1 DEF BackInv, EntriesAreOfModals
    <2>3. ASSUME NEW c \in Cards, NEW d \in Cards, modals = {Modal("edit", c), Modal("preview", d)}
          PROVE  FALSE
      <3>1. Modal("edit", c) # Modal("preview", d)
        BY DEF Modal
      <3>2. Cardinality(modals) = 2
        BY <2>3, <3>1, PairCount
      <3>3. QED
        BY <2>1, <3>2
    <2>4. ASSUME NEW x \in Modals, modals = {x}, pos = 2, entries[2] = x.kind
          PROVE  queue' = <<"app">>
      <3>1. \E m \in modals : m.kind = entries[pos]
        BY <2>4
      <3>2. QED
        BY <1>5, <1>7, <3>1
    <2>5. ASSUME modals = {}  PROVE queue' = <<>>
      BY <1>5, <1>7, <2>5
    <2>6. CASE modals = {} /\ pos = 1
      BY <2>5, <2>6
    <2>7. CASE \E x \in Modals : modals = {x} /\ pos = 2 /\ entries[2] = x.kind
      BY <2>4, <2>7
    <2>8. QED
      BY <2>2, <2>3, <2>6, <2>7
  <1>8. EntriesAreOfModals'
    <2>1. /\ queue' = <<"app">> => Above' = pos' - 1
          /\ queue' = <<>> => Above' = pos'
      BY DEF Above
    <2>2. QED
      BY <1>1, <1>3, <1>7, <2>1 DEF EntriesAreOfModals
  <1>9. QED
    BY <1>4, <1>6, <1>8 DEF BackInv

\* The user asks for a traversal.
LEMMA MoveKept ==
  ASSUME TypeOK, BackInv, NEW way \in {"back", "forward"}, Move(way)
  PROVE  BackInv'
  <1>1. /\ queue' = Append(queue, way)
        /\ ghost' = [ghost EXCEPT !.forward = @ \/ way = "forward", !.raced = @ \/ queue # <<>>]
        /\ UNCHANGED <<entries, pos, modals>> /\ ghost \in Ghosts
    BY DEF Move, TypeOK, Ghosts
  <1>2. /\ ghost'.twoEdits = ghost.twoEdits /\ ghost'.raced = (ghost.raced \/ queue # <<>>)
        /\ ghost'.forward = (ghost.forward \/ way = "forward")
        /\ ghost'.leftByApp = ghost.leftByApp
    BY <1>1 DEF Ghosts
  <1>3. OnePerKind' /\ ModalsNeverLeaveThePage'
    BY <1>1, <1>2 DEF BackInv, OnePerKind, ModalsNeverLeaveThePage, Ghosts
  <1>4. ASSUME ~ghost'.raced
        PROVE  ~ghost.raced /\ queue = <<>> /\ queue' = <<way>>
    <2>1. ~ghost.raced /\ queue = <<>>
      BY <1>2, <1>4
    <2>2. Append(<<>>, way) = <<way>>
      OBVIOUS
    <2>3. QED
      BY <1>1, <2>1, <2>2
  <1>5. Len(<<way>>) <= 1 /\ <<way>> # <<"app">>
    OBVIOUS
  <1>6. OneTraversal'
    BY <1>4, <1>5 DEF OneTraversal
  <1>7. ASSUME ~ghost'.raced, ~ghost'.forward
        PROVE  queue' = <<"back">> /\ Above' = Above
    <2>1. queue = <<>> /\ queue' = <<"back">>
      BY <1>2, <1>4, <1>7
    <2>2. <<>> # <<"app">> /\ <<"back">> # <<"app">>
      OBVIOUS
    <2>3. QED
      BY <1>1, <2>1, <2>2 DEF Above
  <1>8. EntriesAreOfModals'
    BY <1>1, <1>2, <1>4, <1>7 DEF BackInv, EntriesAreOfModals, OnPage
  <1>9. QED
    BY <1>3, <1>6, <1>8 DEF BackInv

\* The browser makes a traversal.
LEMMA TraverseKept ==
  ASSUME TypeOK, IsFiniteSet(modals), BackInv, Traverse
  PROVE  BackInv'
  <1> DEFINE to == IF Head(queue) = "forward" THEN pos + 1 ELSE pos - 1
  <1>1. /\ queue # <<>> /\ OnPage /\ entries' = entries
        /\ queue \in Seq({"back", "forward", "app"}) /\ pos \in 1..Len(entries)
        /\ Len(entries) \in Nat /\ entries[1] = "page" /\ modals \subseteq Modals
        /\ ghost \in Ghosts
    <2>1. queue # <<>> /\ OnPage /\ entries' = entries
      BY DEF Traverse
    <2>2. /\ queue \in Seq({"back", "forward", "app"}) /\ pos \in 0..Len(entries)
          /\ entries \in Seq({"page"} \cup Kinds) /\ entries # <<>> /\ Head(entries) = "page"
          /\ modals \subseteq Modals /\ ghost \in Ghosts
      BY DEF TypeOK, Ghosts
    <2>3. Len(entries) \in Nat /\ entries[1] = "page"
      BY <2>2
    <2>4. QED
      BY <2>1, <2>2, <2>3 DEF OnPage
  <1>2. ASSUME ~ghost.raced, ~ghost.twoEdits
        PROVE  /\ Tail(queue) = <<>>
               /\ queue = <<Head(queue)>>
               /\ Head(queue) = "app" => pos >= 2
               /\ \A m, x \in modals : m.kind = x.kind => m = x
    <2>1. Len(queue) <= 1 /\ (queue = <<"app">> => pos >= 2)
      BY <1>1, <1>2 DEF BackInv, OneTraversal
    <2>2. Len(queue) = 1
      <3>1. Len(queue) \in Nat \ {0}
        BY <1>1, EmptySeq
      <3>2. Len(queue) <= 1
        BY <2>1
      <3>3. QED
        BY ONLY <3>1, <3>2
    <2>3. queue = <<Head(queue)>> /\ Tail(queue) = <<>>
      <3>1. /\ Head(queue) \in {"back", "forward", "app"}
            /\ Tail(queue) \in Seq({"back", "forward", "app"})
            /\ Len(Tail(queue)) = 0
        BY <1>1, <2>2, HeadTailProperties
      <3>2. Tail(queue) = <<>>
        BY <3>1, EmptySeq
      <3>3. /\ <<Head(queue)>> \in Seq({"back", "forward", "app"})
            /\ Len(<<Head(queue)>>) = 1 /\ <<Head(queue)>>[1] = Head(queue)
        BY <3>1
      <3>4. queue[1] = Head(queue)
        BY <1>1
      <3>5. queue = <<Head(queue)>>
        BY ONLY <1>1, <2>2, <3>3, <3>4, SeqEqual
      <3>6. QED
        BY <3>2, <3>5
    <2>4. QED
      BY <1>2, <2>1, <2>3 DEF BackInv, OnePerKind
  <1>3. CASE to > Len(entries)
    <2>1. /\ queue' = Tail(queue) /\ Head(queue) = "forward"
          /\ UNCHANGED <<pos, modals, ghost>>
      BY <1>1, <1>3 DEF Traverse
    <2>2. OneTraversal'
      <3>1. Len(<<>>) <= 1 /\ <<>> # <<"app">>
        OBVIOUS
      <3>2. QED
        BY <1>2, <2>1, <3>1 DEF OneTraversal
    <2>3. EntriesAreOfModals'
      <3>1. queue \notin {<<>>, <<"app">>, <<"back">>}
        BY <1>1, <2>1
      <3>2. QED
        BY <1>1, <2>1, <3>1 DEF BackInv, EntriesAreOfModals, OnPage
    <2>4. QED
      BY <2>1, <2>2, <2>3 DEF BackInv, OnePerKind, ModalsNeverLeaveThePage
  <1>4. CASE to \in 1..Len(entries)
    <2>1. /\ Closes(modals, to, Tail(queue)) /\ pos' = to /\ ghost' = ghost
      BY <1>1, <1>4 DEF Traverse
    <2>2. modals' = {}
      BY <2>1 DEF Closes
    <2>3. ASSUME ~ghost.raced, ~ghost.twoEdits
          PROVE  /\ (\E m \in modals : m.kind = entries[to]) => queue' = <<"app">>
                 /\ (\A m \in modals : m.kind # entries[to]) => queue' = <<>>
                 /\ queue' = <<"app">> => to >= 2
                 /\ queue' \in {<<>>, <<"app">>}
      <3>1. Closes(modals, to, <<>>) /\ modals \in SUBSET modals
        BY <1>2, <2>1, <2>3
      <3>2. \A m, x \in modals : m.kind = x.kind => m = x
        BY <1>2, <2>3
      <3> HIDE DEF to
      <3>3. QED
        BY <1>4, <3>1, <3>2, CloseQueue
    <2>4. OneTraversal'
      <3>1. Len(<<>>) <= 1 /\ Len(<<"app">>) <= 1
        OBVIOUS
      <3>2. QED
        BY <2>1, <2>3, <3>1 DEF OneTraversal
    <2>5. ASSUME ~ghost.raced, ~ghost.forward, ~ghost.twoEdits
          PROVE  (queue' = <<>> /\ pos' = 1) \/ (queue' = <<"app">> /\ pos' = 2)
      <3>1. /\ queue \in {<<"app">>, <<"back">>}
            /\ \/ modals = {} /\ Above = 1
               \/ \E x \in Modals : modals = {x} /\ Above = 2 /\ entries[2] = x.kind
               \/ \E c, d \in Cards :
                    /\ modals = {Modal("edit", c), Modal("preview", d)}
                    /\ Above = 3 /\ pos = 3 /\ entries[2] = "edit" /\ entries[3] = "preview"
        BY <1>1, <2>5 DEF BackInv, EntriesAreOfModals
      <3>2. Head(queue) # "forward" /\ to = pos - 1
        BY <3>1
      <3>3. /\ queue = <<"app">> => Above = pos - 1
            /\ queue = <<"back">> => Above = pos
        BY DEF Above
      <3>4. CASE modals = {} /\ Above = 1
        <4>1. queue' = <<>>
          BY <2>3, <2>5, <3>4
        <4>2. queue = <<"back">> => to = 0
          BY <3>2, <3>3, <3>4
        <4>3. queue = <<"app">> => to = 1
          BY <1>1, <3>2, <3>3, <3>4
        <4>4. QED
          <5>1. to # 0 /\ pos' = to
            BY <1>4, <2>1
          <5>2. to = 1
            BY <3>1, <4>2, <4>3, <5>1
          <5>3. QED
            BY <4>1, <5>1, <5>2
      <3>5. ASSUME NEW x \in Modals, modals = {x}, Above = 2, entries[2] = x.kind
            PROVE  (queue' = <<>> /\ pos' = 1) \/ (queue' = <<"app">> /\ pos' = 2)
        <4>1. x.kind # "page"
          BY DEF Modals
        <4>2. CASE queue = <<"app">>
          BY <1>1, <1>4, <2>1, <2>3, <2>5, <3>2, <3>3, <3>5, <4>2
        <4>3. CASE queue = <<"back">>
          <5>1. to = 1
            BY <1>1, <3>2, <3>3, <3>5, <4>3
          <5>2. QED
            <6>1. \A m \in modals : m.kind # entries[to]
              BY <1>1, <3>5, <4>1, <5>1
            <6>2. QED
              <7>1. queue' = <<>>
                BY <2>3, <2>5, <6>1
              <7>2. pos' = 1
                BY <2>1, <5>1
              <7>3. QED
                BY <7>1, <7>2
        <4>4. QED
          BY <3>1, <4>2, <4>3
      <3>6. ASSUME NEW c \in Cards, NEW d \in Cards,
                   modals = {Modal("edit", c), Modal("preview", d)},
                   Above = 3, pos = 3, entries[2] = "edit"
            PROVE  queue' = <<"app">> /\ pos' = 2
        <4>1. Modal("edit", c).kind = "edit" /\ Modal("edit", c) \in modals
          BY <3>6 DEF Modal
        <4>2. to = 2
          BY <3>2, <3>6
        <4>3. QED
          BY <2>1, <2>3, <2>5, <3>6, <4>1, <4>2
      <3>7. QED
        BY <3>1, <3>4, <3>5, <3>6
    <2>6. EntriesAreOfModals'
      <3>1. /\ queue' = <<"app">> => Above' = pos' - 1
            /\ queue' = <<>> => Above' = pos'
        BY DEF Above
      <3>2. QED
        BY <2>1, <2>2, <2>5, <3>1 DEF EntriesAreOfModals
    <2>7. QED
      BY <2>1, <2>2, <2>4, <2>6 DEF BackInv, OnePerKind, ModalsNeverLeaveThePage
  <1>5. CASE to = 0
    <2>1. /\ pos' = 0 /\ modals' = modals
          /\ ghost' = [ghost EXCEPT !.leftByApp = Head(queue) = "app"]
      BY <1>1, <1>5 DEF Traverse
    <2>2. /\ ghost'.twoEdits = ghost.twoEdits /\ ghost'.raced = ghost.raced
          /\ ghost'.leftByApp = (Head(queue) = "app")
      BY <1>1, <2>1 DEF Ghosts
    <2>3. ModalsNeverLeaveThePage'
      <3>1. ASSUME ~ghost.raced, ~ghost.twoEdits, Head(queue) = "app"
            PROVE  FALSE
        <4>1. pos >= 2 /\ to = pos - 1
          BY <1>2, <3>1
        <4>2. QED
          BY <1>1, <1>5, <4>1
      <3>2. QED
        BY <2>2, <3>1 DEF ModalsNeverLeaveThePage
    <2>4. ~OnPage'
      BY <2>1 DEF OnPage
    <2>5. QED
      BY <2>1, <2>2, <2>3, <2>4 DEF BackInv, OnePerKind, OneTraversal, EntriesAreOfModals
  <1>6. to \in Nat
    BY <1>1
  <1>7. to > Len(entries) \/ to \in 1..Len(entries) \/ to = 0
    BY <1>1, <1>6
  <1>8. QED
    BY <1>3, <1>4, <1>5, <1>7

\* Every step keeps the entries those of the modals.
LEMMA BackKept ==
  ASSUME TypeOK, IsFiniteSet(modals), TransferInv, BackInv, Next
  PROVE  BackInv'
  <1>0. ghost \in Ghosts /\ modals \subseteq Modals
    BY DEF TypeOK, Ghosts
  <1>1. ASSUME NEW c \in Cards, OpenPreview(c)
        PROVE  BackInv'
    <2>1. Modal("preview", c) \in Modals /\ Modal("preview", c).kind = "preview"
      BY DEF Modal, Modals
    <2>2. /\ page = "files" /\ Opens(Modal("preview", c))
          /\ ghost' = [ghost EXCEPT !.raced = @ \/ queue # <<>>]
      BY <1>1 DEF OpenPreview
    <2>3. QED
      BY <1>0, <2>1, <2>2, OpensKept DEF Ghosts
  <1>2. ASSUME NEW c \in Cards, OpenEditor(c)
        PROVE  BackInv'
    <2>1. Modal("edit", c) \in Modals /\ Modal("edit", c).kind = "edit"
      BY DEF Modal, Modals
    <2>2. /\ page = "files" /\ Opens(Modal("edit", c))
          /\ ghost' = [ghost EXCEPT !.raced = @ \/ queue # <<>>,
                            !.twoEdits = @ \/ \E m \in modals : m.kind = "edit"]
      BY <1>2 DEF OpenEditor
    <2>3. QED
      BY <1>0, <2>1, <2>2, OpensKept DEF Ghosts
  <1>3. ASSUME NEW t \in Transfers, OpenTransfer(t)
        PROVE  BackInv'
    <2>1. Modal("history", t) \in Modals /\ Modal("history", t).kind = "history"
      BY DEF Modal, Modals
    <2>2. /\ page = "history" /\ Opens(Modal("history", t))
          /\ ghost' = [ghost EXCEPT !.raced = @ \/ queue # <<>>, !.overtaken = FALSE]
      BY <1>3 DEF OpenTransfer
    <2>3. QED
      BY <1>0, <2>1, <2>2, OpensKept DEF Ghosts
  <1>4. CASE \/ \E m \in modals : CloseModal(m)
             \/ ReloadFiles
             \/ \E way \in {"back", "forward"} : Move(way)
             \/ Traverse
    BY <1>4, CloseModalKept, ReloadKept, MoveKept, TraverseKept
  <1>5. CASE \/ \E v \in {"grid", "list"} : SetView(v)
             \/ BlobArrives \/ FilesShared \/ ListAnswered \/ TransferAnswered
             \/ handleDownloadZip \/ ZipArrives \/ MarkFades
    <2>1. UNCHANGED <<entries, pos, queue, modals>>
      BY <1>5 DEF SetView, BlobArrives, FilesShared, ListAnswered, TransferAnswered, get_history,
                  ListArrives, TransferArrives, handleDownloadZip, ZipArrives, MarkFades, browser
    <2>2. /\ ghost'.twoEdits = ghost.twoEdits /\ ghost'.raced = ghost.raced
          /\ ghost'.forward = ghost.forward /\ ghost'.leftByApp = ghost.leftByApp
      BY <1>0, <1>5 DEF SetView, BlobArrives, FilesShared, ListAnswered, TransferAnswered,
           get_history, ListArrives, TransferArrives, handleDownloadZip, ZipArrives, MarkFades,
           Ghosts
    <2>3. QED
      BY <2>1, <2>2, BackFrame
  <1>6. QED
    BY <1>1, <1>2, <1>3, <1>4, <1>5 DEF Next

\* At rest, there is an entry for each modal.
LEMMA EntriesCounted ==
  ASSUME TypeOK, BackInv
  PROVE  EntriesMatchModals
  <1> SUFFICES ASSUME OnPage, queue = <<>>, ~ghost.raced, ~ghost.forward, ~ghost.twoEdits
               PROVE  pos = 1 + Cardinality(modals)
    BY DEF EntriesMatchModals
  <1>1. Above = pos
    BY DEF Above
  <1>2. \/ modals = {} /\ pos = 1
        \/ \E m \in Modals : modals = {m} /\ pos = 2
        \/ \E c, d \in Cards : modals = {Modal("edit", c), Modal("preview", d)} /\ pos = 3
    BY <1>1 DEF BackInv, EntriesAreOfModals
  <1>3. Cardinality({}) = 0 /\ \A m \in Modals : Cardinality({m}) = 1
    BY FS_EmptySet, FS_Singleton
  <1>4. \A c, d \in Cards : Cardinality({Modal("edit", c), Modal("preview", d)}) = 2
    BY PairCount DEF Modal
  <1>5. QED
    BY <1>2, <1>3, <1>4


\* It is inductive.
LEMMA FilesInvariant ==
  /\ Init => IInv
  /\ IInv /\ [Next]_vars => IInv'
  <1>1. Init => IInv
    <2> SUFFICES ASSUME Init  PROVE  IInv
      OBVIOUS
    <2>1. TypeOK
      <3>1. <<"page">> \in Seq({"page"} \cup Kinds) /\ <<"page">> # <<>> /\ Head(<<"page">>) = "page"
            /\ 1 \in 0..Len(<<"page">>) /\ <<>> \in Seq({"back", "forward", "app"})
        OBVIOUS
      <3>2. 0 \in 0..MaxShares
        BY ConstantsOK DEF ConstantsOK
      <3>3. /\ page \in {"files", "history"} /\ view \in {"grid", "list"} /\ modals \subseteq Modals
            /\ blob \in {"none", "loading", "shown", "failed"}
            /\ entries = <<"page">> /\ pos = 1 /\ queue = <<>>
        BY DEF Init
      <3>4. /\ list \in [loading : BOOLEAN, shares : 0..MaxShares]
            /\ transfer \in [loading : BOOLEAN, shown : Transfers \cup {None}]
            /\ fetches = {} /\ shares \in 0..MaxShares
            /\ zip \in [downloading : BOOLEAN, downloaded : BOOLEAN, requests : Nat, timers : Nat]
            /\ count \in [opens : Nat, moves : Nat, reloads : Nat, asked : Nat]
        BY <3>2 DEF Init
      <3>5. ghost \in Ghosts
        BY <3>2 DEF Init, Ghosts
      <3>6. lists \subseteq Requests
        <4>1. [n |-> 0, got |-> Pending, asked |-> 0, stale |-> FALSE] \in Requests
          BY <3>2 DEF Requests
        <4>2. lists \in {{[n |-> 0, got |-> Pending, asked |-> 0, stale |-> FALSE]}, {}}
          BY DEF Init
        <4>3. QED
          BY <4>1, <4>2
      <3>7. QED
        BY <3>1, <3>3, <3>4, <3>5, <3>6 DEF TypeOK, Ghosts, Requests
    <2>2. IsFiniteSet(modals)
      BY FS_EmptySet DEF Init
    <2>3. HistoryInv
      BY DEF Init, HistoryInv, ListInv, ListIsFresh, TransferInv, ShowsItsTransfer, Selected,
             ZipInv,
             OneDownload
    <2>4. BackInv
      BY DEF Init, BackInv, OnePerKind, OneTraversal, ModalsNeverLeaveThePage, EntriesAreOfModals,
             Above
    <2>5. QED
      BY <2>1, <2>2, <2>3, <2>4 DEF IInv
  <1>2. IInv /\ [Next]_vars => IInv'
    <2> SUFFICES ASSUME IInv, [Next]_vars  PROVE  IInv'
      OBVIOUS
    <2>1. CASE Next
      <3>1. TypeOK' /\ IsFiniteSet(modals')
        BY <2>1, TypeStep DEF IInv
      <3>2. HistoryInv'
        BY <2>1, ListKept, TransferKept, ZipKept DEF IInv, HistoryInv
      <3>3. BackInv'
        BY <2>1, BackKept DEF IInv, HistoryInv
      <3>4. QED
        BY <3>1, <3>2, <3>3 DEF IInv
    <2>2. CASE UNCHANGED vars
      <3>1. UNCHANGED <<page, view, entries, pos, queue, modals, blob, list, lists, transfer, fetches,
                        shares, zip, count, ghost>>
        BY <2>2 DEF vars, browser
      <3>2. TypeOK' /\ IsFiniteSet(modals')
        BY <3>1 DEF IInv, TypeOK
      <3>3. HistoryInv'
        BY <3>1 DEF IInv, HistoryInv, ListInv, ListIsFresh, TransferInv, ShowsItsTransfer, Selected,
                    ZipInv, OneDownload
      <3>4. BackInv'
        BY <3>1, BackFrame DEF IInv
      <3>5. QED
        BY <3>2, <3>3, <3>4 DEF IInv
    <2>3. QED
      BY <2>1, <2>2
  <1>3. QED
    BY <1>1, <1>2

\* What is shown is the newest answer, by the inductive invariant.
LEMMA ShownIsNewestFollows == IInv => ShownIsNewest
  BY DEF IInv, HistoryInv, ShownIsNewest

\* The entries of the history are of the open modals, by the inductive invariant.
LEMMA BackClosesModalsFollows == IInv => BackClosesModals
  BY EntriesCounted DEF IInv, BackInv, BackClosesModals


-----------------------------------------------------------------------------
(* The inductive invariant. *)

Cookies == Emails \cup {Null}
Tries == [txn : Account!Ids \cup {Null}, code : Account!Ids \cup {Wrong}]

\* What a request of each kind asks, and what its answer is.
Me(r) ==
  /\ r.kind = "me" /\ r.state # "read" /\ r.heard /\ ~r.form
  /\ r.answer \in Account!Users \cup {Null}
Send(r) == r.kind = "send" /\ r.state # "read" /\ r.what \in Cookies
Verify(r) ==
  /\ r.kind = "verify" /\ r.what \in Tries
  /\ r.state = "read" => r.answer \in 0 .. MAX_ATTEMPTS
  /\ r.state = "done" => r.answer \in Cookies
Update(r) == r.kind = "update" /\ r.state # "read" /\ r.what \in Account!Names \cup {Null}
Logout(r) == r.kind = "logout" /\ r.state # "read"

RequestOK(r) ==
  /\ DOMAIN r = {"kind", "what", "cookie", "state", "answer", "heard", "form"}
  /\ r.cookie \in Cookies /\ r.state \in {"sent", "read", "done"}
  /\ r.heard \in BOOLEAN /\ r.form \in BOOLEAN
  /\ r.state = "sent" => r.answer = Null
  /\ r.state = "done" => r.heard
  /\ r.form => r.heard
  /\ Me(r) \/ Send(r) \/ Verify(r) \/ Update(r) \/ Logout(r)

\* Requests that are answered by another one: with them, the person's steps bound
\* how many there are.
Twice == {i \in DOMAIN asked : asked[i].heard /\ asked[i].kind \in {"verify", "update"}}

LoginRequests ==
  /\ next \in Nat /\ next >= 2 /\ DOMAIN asked \subseteq 1 .. (next - 1)
  /\ IsFiniteSet(DOMAIN asked)
  /\ \A i \in DOMAIN asked : RequestOK(asked[i]) /\ (asked[i].form => route = "signin")
  /\ did \in 0 .. MaxActs
  /\ next + Cardinality(Twice) <= 2 * did + 2

Forms == [step : {"email", "otp"}, email : Cookies, txn : Account!Ids \cup {Null},
          code : Account!Ids \cup {Wrong, Null}, boxes : {"six", "fewer"}]
Pages == {"home", "signin", "dashboard", "profile"}

Shape ==
  /\ route \in Pages
  /\ form \in Forms
  /\ user = Null \/ user \in Account!Users
  /\ loading \in BOOLEAN
  /\ cookie \in Cookies
  /\ otps \subseteq [txn : Account!Ids, attempts : 0 .. MAX_ATTEMPTS]
  /\ name \in [Emails -> Account!Names]
  /\ mails \subseteq [txn : Account!Ids, email : Emails]
  /\ crossed \in BOOLEAN /\ mixed \in BOOLEAN
  /\ guesses \in [Account!Ids -> [right : Nat, wrong : Nat]]

\* What the server says of an account.
Says(c) == IF c = Null THEN [id |-> Guest, name |-> "old"] ELSE [id |-> c, name |-> name[c]]

\* Unless the state changed under a "who am I", every one carries the cookie of now
\* and is answered with what the server says now; and whoever is shown is the account
\* of the cookie or the guest, the name the server's unless a "who am I" is to follow.
AskingMe == {i \in DOMAIN asked : asked[i].kind = "me"}
Saved == {i \in DOMAIN asked : /\ asked[i].kind = "update" /\ asked[i].heard
                               /\ asked[i].state = "done" /\ asked[i].answer # Null}
AccountInv ==
  ~mixed =>
    /\ \A i \in AskingMe : /\ asked[i].cookie = cookie
                           /\ asked[i].answer \in {Null, Says(cookie)}
    /\ user # Null =>
         /\ user.id = Says(cookie).id
         /\ user.name = Says(cookie).name \/ AskingMe # {} \/ Saved # {}

\* Each transaction has one address, and a code is mailed for the address asked.
MailInv ==
  /\ \A m, x \in mails : m.txn = x.txn => m = x
  /\ \A m \in mails : m.txn < next
  /\ \A i \in DOMAIN asked : asked[i].kind = "send" =>
       /\ asked[i].state = "sent" => \A m \in mails : m.txn # i
       /\ asked[i].state = "done" /\ asked[i].answer # Null =>
            asked[i].answer = i /\ [txn |-> i, email |-> asked[i].what] \in mails

\* Of this visit to the form one request for a code is under way, for the address
\* shown at the boxes; with none, the transaction held is for that address.
OfTheForm == {i \in DOMAIN asked : asked[i].kind = "send" /\ asked[i].form}
FormInv ==
  ~crossed =>
    /\ \A i, j \in OfTheForm : i = j
    /\ form.step = "otp" =>
         /\ \A i \in OfTheForm : asked[i].what = form.email
         /\ form.txn # Null /\ OfTheForm = {} => [txn |-> form.txn, email |-> form.email] \in mails

\* A transaction that one verification at most has read: it is gone once it was
\* answered right, and its count is what was answered wrong.
Readers(t) == {i \in DOMAIN asked : asked[i].state = "read" /\ asked[i].what.txn = t}
CodesInv ==
  /\ \A o \in otps : \E m \in mails : m.txn = o.txn
  /\ \A i \in DOMAIN asked : asked[i].state = "read" => \E m \in mails : m.txn = asked[i].what.txn
  /\ \A t \in Account!Ids : (\A m \in mails : m.txn # t) => guesses[t].right = 0 /\ guesses[t].wrong = 0
  /\ \A t \in Account!Ids \ raced :
       /\ \A i, j \in Readers(t) : i = j
       /\ \A o \in otps : o.txn = t => guesses[t].right = 0 /\ guesses[t].wrong <= o.attempts
       /\ \A i \in Readers(t) : guesses[t].right = 0 /\ guesses[t].wrong <= asked[i].answer
       /\ guesses[t].right <= 1 /\ guesses[t].wrong <= MAX_ATTEMPTS

LoginIInv == LoginRequests /\ Shape /\ Account!LoadingMeansAsked /\ AccountInv /\ MailInv /\ FormInv /\ CodesInv

-----------------------------------------------------------------------------
(* What steps do to the requests under way. *)

\* The same request, perhaps of a form that is gone.
Same(s, r) ==
  /\ DOMAIN s = DOMAIN r
  /\ s.kind = r.kind /\ s.what = r.what /\ s.cookie = r.cookie /\ s.state = r.state
  /\ s.answer = r.answer /\ s.heard = r.heard /\ s.form \in BOOLEAN /\ (s.form => r.form)

\* A step of the browser: some requests are answered, one may be sent.
Client(gone, new) ==
  /\ gone \subseteq DOMAIN asked
  /\ DOMAIN asked' = (DOMAIN asked \ gone) \cup new
  /\ \/ new = {} /\ next' = next
     \/ new = {next} /\ next' = next + 1
  /\ \A j \in DOMAIN asked \ gone :
       /\ Same(asked'[j], asked[j]) /\ (asked'[j].form => route' = "signin")
       /\ form' = Account!Blank \/ asked'[j].form = asked[j].form
  /\ \A j \in new :
       /\ RequestOK(asked'[j]) /\ asked'[j].state = "sent" /\ asked'[j].heard
       /\ asked'[j].cookie = cookie' /\ (asked'[j].form => route' = "signin")
  /\ UNCHANGED <<Account!server, mails, raced, guesses>>

\* A request that differs only in who hears it is as well formed.
LEMMA SameOK ==
  ASSUME NEW r, NEW s, RequestOK(r), Same(s, r)
  PROVE  RequestOK(s)
  BY DEF RequestOK, Same, Me, Send, Verify, Update, Logout

\* Sending adds one request under the next number.
LEMMA SendingFacts ==
  ASSUME NEW rs, NEW r
  PROVE  /\ DOMAIN Account!Sending(rs, r) = DOMAIN rs \cup {next}
         /\ Account!Sending(rs, r)[next] = r
         /\ \A j \in DOMAIN rs : j # next => Account!Sending(rs, r)[j] = rs[j]
  BY DEF Account!Sending

\* A request that is over is gone, and the others are as they were.
LEMMA OverFacts ==
  ASSUME NEW i
  PROVE  DOMAIN Account!Over(i) = DOMAIN asked \ {i} /\ \A j \in DOMAIN asked \ {i} : Account!Over(i)[j] = asked[j]
  BY DEF Account!Over

\* The requests of a form that leaves the page are heard by nobody.
LEMMA OrphanedFacts ==
  ASSUME NEW rs, NEW p, \A j \in DOMAIN rs : RequestOK(rs[j])
  PROVE  /\ DOMAIN Account!Orphaned(rs, p) = DOMAIN rs
         /\ \A j \in DOMAIN rs : /\ Same(Account!Orphaned(rs, p)[j], rs[j])
                                 /\ p # "signin" => ~Account!Orphaned(rs, p)[j].form
                                 /\ p = "signin" => Account!Orphaned(rs, p)[j] = rs[j]
  <1>1. CASE p = "signin"
    BY <1>1 DEF Account!Orphaned, Same, RequestOK
  <1>2. CASE p # "signin"
    <2>1. Account!Orphaned(rs, p) = [j \in DOMAIN rs |-> [rs[j] EXCEPT !.form = FALSE]]
      BY <1>2 DEF Account!Orphaned
    <2>2. ASSUME NEW j \in DOMAIN rs
          PROVE  Same([rs[j] EXCEPT !.form = FALSE], rs[j]) /\ ~[rs[j] EXCEPT !.form = FALSE].form
      BY DEF Same, RequestOK
    <2>3. QED
      BY <1>2, <2>1, <2>2
  <1>3. QED
    BY <1>1, <1>2

\* The requests that are sent.
LEMMA WhoAmIOK ==
  ASSUME NEW c \in Cookies
  PROVE  /\ RequestOK(Account!WhoAmI(c)) /\ Account!WhoAmI(c).kind = "me"
         /\ Account!WhoAmI(c).state = "sent"
         /\ Account!WhoAmI(c).heard /\ Account!WhoAmI(c).cookie = c /\ ~Account!WhoAmI(c).form
         /\ Account!WhoAmI(c).answer = Null
  BY DEF Account!WhoAmI, RequestOK, Me

\* A request is well formed as it is sent.
LEMMA RequestSent ==
  ASSUME NEW kind, NEW what, cookie \in Cookies,
         \/ kind = "send" /\ what \in Cookies
         \/ kind = "verify" /\ what \in Tries
         \/ kind = "update" /\ what \in Account!Names \cup {Null}
         \/ kind = "logout"
  PROVE  /\ RequestOK(Account!Request(kind, what)) /\ Account!Request(kind, what).kind = kind
         /\ Account!Request(kind, what).what = what /\ Account!Request(kind, what).state = "sent"
         /\ Account!Request(kind, what).heard /\ Account!Request(kind, what).cookie = cookie
         /\ Account!Request(kind, what).form <=> route = "signin"
         /\ Account!Request(kind, what).answer = Null
  BY DEF Account!Request, RequestOK, Send, Verify, Update, Logout

\* A step that answers one request.
LEMMA OverStep ==
  ASSUME LoginRequests, NEW i \in DOMAIN asked, asked' = Account!Over(i), next' = next, route' = route,
         UNCHANGED <<Account!server, mails, raced, guesses>>
  PROVE  Client({i}, {}) /\ \A j \in DOMAIN asked \ {i} : asked'[j] = asked[j]
  <1>1. DOMAIN asked' = DOMAIN asked \ {i} /\ \A j \in DOMAIN asked \ {i} : asked'[j] = asked[j]
    BY OverFacts
  <1>2. \A j \in DOMAIN asked : Same(asked[j], asked[j])
    BY DEF LoginRequests, RequestOK, Same
  <1>3. QED
    BY <1>1, <1>2 DEF Client, LoginRequests

\* A step that sends a request.
LEMMA AskStep ==
  ASSUME LoginRequests, Shape, NEW kind, NEW what, Account!Asks(kind, what), UNCHANGED <<route, cookie>>,
         UNCHANGED <<Account!server, mails, raced, guesses>>,
         \/ kind = "send" /\ what \in Cookies
         \/ kind = "verify" /\ what \in Tries
         \/ kind = "update" /\ what \in Account!Names \cup {Null}
         \/ kind = "logout"
  PROVE  /\ Client({}, {next}) /\ asked'[next] = Account!Request(kind, what)
         /\ \A j \in DOMAIN asked : asked'[j] = asked[j]
  <1>1. asked' = Account!Sending(asked, Account!Request(kind, what)) /\ next' = next + 1
    BY DEF Account!Asks
  <1>2. next \notin DOMAIN asked
    BY DEF LoginRequests
  <1>3. /\ DOMAIN asked' = DOMAIN asked \cup {next} /\ asked'[next] = Account!Request(kind, what)
        /\ \A j \in DOMAIN asked : asked'[j] = asked[j]
    BY <1>1, <1>2, SendingFacts
  <1>4. \A j \in DOMAIN asked : Same(asked[j], asked[j])
    BY DEF LoginRequests, RequestOK, Same
  <1>5. /\ RequestOK(asked'[next]) /\ asked'[next].state = "sent" /\ asked'[next].heard
        /\ asked'[next].cookie = cookie' /\ (asked'[next].form <=> route = "signin")
    BY <1>3, RequestSent DEF Shape
  <1>6. QED
    BY <1>1, <1>3, <1>4, <1>5 DEF Client, LoginRequests

\* A step that answers one request and may leave the form.
LEMMA LeaveStep ==
  ASSUME LoginRequests, NEW gone \in SUBSET DOMAIN asked, NEW rs,
         DOMAIN rs = DOMAIN asked \ gone, \A j \in DOMAIN rs : rs[j] = asked[j],
         asked' = Account!Orphaned(rs, route'), next' = next, form' = Account!FormOn(route'),
         UNCHANGED <<Account!server, mails, raced, guesses>>
  PROVE  Client(gone, {})
  <1>1. \A j \in DOMAIN rs : RequestOK(rs[j])
    BY DEF LoginRequests
  <1>2. /\ DOMAIN asked' = DOMAIN asked \ gone
        /\ \A j \in DOMAIN asked \ gone : /\ Same(asked'[j], asked[j])
                                          /\ route' # "signin" => ~asked'[j].form
                                          /\ route' = "signin" => asked'[j] = asked[j]
    BY <1>1, OrphanedFacts
  <1>3. route' # "signin" => form' = Account!Blank
    BY DEF Account!FormOn
  <1>4. QED
    BY <1>2, <1>3 DEF Client

\* A step that answers one request and asks who the person is.
LEMMA ThenStep ==
  ASSUME LoginRequests, Shape, NEW i \in DOMAIN asked, NEW rs,
         DOMAIN rs = DOMAIN asked \ {i},
         \A j \in DOMAIN rs : /\ Same(rs[j], asked[j]) /\ (rs[j].form => route' = "signin")
                              /\ form' = Account!Blank \/ rs[j].form = asked[j].form,
         cookie' \in Cookies, asked' = Account!Sending(rs, Account!WhoAmI(cookie')), next' = next + 1,
         UNCHANGED <<Account!server, mails, raced, guesses>>
  PROVE  /\ Client({i}, {next}) /\ asked'[next] = Account!WhoAmI(cookie')
         /\ \A j \in DOMAIN rs : asked'[j] = rs[j]
  <1>1. next \notin DOMAIN rs
    BY DEF LoginRequests
  <1>2. /\ DOMAIN asked' = DOMAIN rs \cup {next} /\ asked'[next] = Account!WhoAmI(cookie')
        /\ \A j \in DOMAIN rs : asked'[j] = rs[j]
    BY <1>1 DEF Account!Sending
  <1>3. /\ RequestOK(asked'[next]) /\ asked'[next].state = "sent" /\ asked'[next].heard
        /\ asked'[next].cookie = cookie' /\ ~asked'[next].form
    BY <1>2, WhoAmIOK
  <1>4. QED
    BY <1>2, <1>3 DEF Client

\* A page opened afresh.
LEMMA ReloadStep ==
  ASSUME LoginRequests, Shape, NEW p \in Pages, Account!Reload(p)
  PROVE  /\ DOMAIN asked' = {j \in DOMAIN asked : asked[j].state # "done" /\ asked[j].kind \in Account!Lasting}
                            \cup {next}
         /\ asked'[next] = Account!WhoAmI(cookie)
         /\ \A j \in DOMAIN asked' : j # next =>
              /\ RequestOK(asked'[j]) /\ ~asked'[j].heard /\ ~asked'[j].form
              /\ asked'[j].kind = asked[j].kind /\ asked'[j].what = asked[j].what
              /\ asked'[j].state = asked[j].state /\ asked'[j].answer = asked[j].answer
  <1>1. asked' = Account!Sending(Account!Unheard, Account!WhoAmI(cookie))
    BY DEF Account!Reload
  <1>2. DOMAIN Account!Unheard = {j \in DOMAIN asked : asked[j].state # "done" /\ asked[j].kind \in Account!Lasting}
    BY DEF Account!Unheard
  <1>3. ASSUME NEW j \in DOMAIN Account!Unheard
        PROVE  /\ RequestOK(Account!Unheard[j]) /\ ~Account!Unheard[j].heard
               /\ ~Account!Unheard[j].form
               /\ Account!Unheard[j].kind = asked[j].kind /\ Account!Unheard[j].what = asked[j].what
               /\ Account!Unheard[j].state = asked[j].state
               /\ Account!Unheard[j].answer = asked[j].answer
    <2>1. Account!Unheard[j] = [asked[j] EXCEPT !.heard = FALSE, !.form = FALSE]
      BY <1>2 DEF Account!Unheard
    <2>2. /\ RequestOK(asked[j]) /\ asked[j].state # "done"
          /\ asked[j].kind \in {"send", "verify", "update"}
      BY <1>2 DEF LoginRequests, Account!Lasting
    <2>3. /\ DOMAIN Account!Unheard[j] = DOMAIN asked[j] /\ ~Account!Unheard[j].heard
          /\ ~Account!Unheard[j].form
          /\ Account!Unheard[j].heard \in BOOLEAN /\ Account!Unheard[j].form \in BOOLEAN
          /\ Account!Unheard[j].kind = asked[j].kind /\ Account!Unheard[j].what = asked[j].what
          /\ Account!Unheard[j].state = asked[j].state
          /\ Account!Unheard[j].answer = asked[j].answer
          /\ Account!Unheard[j].cookie = asked[j].cookie
      BY <2>1, <2>2 DEF RequestOK
    <2>4. RequestOK(Account!Unheard[j])
      BY <2>2, <2>3 DEF RequestOK, Me, Send, Verify, Update, Logout
    <2>5. QED
      BY <2>3, <2>4
  <1>4. next \notin DOMAIN Account!Unheard
    BY <1>2 DEF LoginRequests
  <1>5. /\ DOMAIN asked' = DOMAIN Account!Unheard \cup {next}
        /\ asked'[next] = Account!WhoAmI(cookie)
        /\ \A j \in DOMAIN Account!Unheard : asked'[j] = Account!Unheard[j]
    <2> DEFINE rs == Account!Unheard
               r == Account!WhoAmI(cookie)
    <2>1. asked' = Account!Sending(rs, r) /\ next \notin DOMAIN rs
      BY <1>1, <1>4
    <2> HIDE DEF rs, r
    <2>2. /\ DOMAIN asked' = DOMAIN rs \cup {next} /\ asked'[next] = r
          /\ \A j \in DOMAIN rs : asked'[j] = rs[j]
      BY <2>1, SendingFacts
    <2>3. QED
      BY <2>2 DEF rs, r
  <1>6. QED
    BY <1>2, <1>3, <1>5

\* How many requests are answered twice.
LEMMA TwiceFacts ==
  ASSUME LoginRequests, NEW S, S \subseteq Twice \cup {next}
  PROVE  /\ IsFiniteSet(S) /\ Cardinality(S) \in Nat /\ Cardinality(Twice) \in Nat
         /\ Cardinality(S) <= Cardinality(Twice) + 1
         /\ S \subseteq Twice => Cardinality(S) <= Cardinality(Twice)
         /\ \A i \in Twice : S \subseteq Twice \ {i} => Cardinality(S) + 1 <= Cardinality(Twice)
  <1>1. IsFiniteSet(Twice) /\ Cardinality(Twice) \in Nat
    BY FS_Subset, FS_CardinalityType DEF LoginRequests, Twice
  <1>2. /\ IsFiniteSet(Twice \cup {next}) /\ Cardinality(Twice \cup {next}) \in Nat
        /\ Cardinality(Twice \cup {next}) <= Cardinality(Twice) + 1
    BY <1>1, FS_AddElement, FS_CardinalityType
  <1>3. /\ IsFiniteSet(S) /\ Cardinality(S) \in Nat
        /\ Cardinality(S) <= Cardinality(Twice \cup {next})
    BY <1>2, FS_Subset, FS_CardinalityType
  <1>4. S \subseteq Twice => Cardinality(S) <= Cardinality(Twice)
    BY <1>1, FS_Subset
  <1>5. ASSUME NEW i \in Twice, S \subseteq Twice \ {i}
        PROVE  Cardinality(S) + 1 <= Cardinality(Twice)
    <2>1. IsFiniteSet(Twice \ {i}) /\ Cardinality(Twice \ {i}) = Cardinality(Twice) - 1
      BY <1>1, FS_RemoveElement
    <2>2. Cardinality(S) <= Cardinality(Twice \ {i})
      BY <1>5, <2>1, FS_Subset
    <2>3. QED
      BY <1>1, <1>3, <2>1, <2>2
  <1>6. QED
    BY <1>1, <1>2, <1>3, <1>4, <1>5

\* What the person's steps bound.
Counted(gone, new) ==
  \/ did' = did + 1 /\ did' <= MaxActs
  \/ did' = did /\ new = {}
  \/ did' = did /\ new = {next} /\ asked'[next].kind = "me" /\ \E i \in gone : i \in Twice

\* What the browser does keeps the requests and their count.
LEMMA ClientRequests ==
  ASSUME LoginRequests, NEW gone, NEW new, Client(gone, new), Counted(gone, new)
  PROVE  LoginRequests'
  <1>1. /\ next' \in Nat /\ next' >= 2 /\ DOMAIN asked' \subseteq 1 .. (next' - 1)
        /\ IsFiniteSet(DOMAIN asked')
    <2>1. IsFiniteSet(DOMAIN asked \ gone)
      BY FS_Subset DEF LoginRequests
    <2>2. CASE new = {} /\ next' = next
      BY <2>1, <2>2 DEF LoginRequests, Client
    <2>3. CASE new = {next} /\ next' = next + 1
      BY <2>1, <2>3, FS_AddElement DEF LoginRequests, Client
    <2>4. QED
      BY <2>2, <2>3 DEF Client
  <1>2. ASSUME NEW j \in DOMAIN asked'
        PROVE  RequestOK(asked'[j]) /\ (asked'[j].form => route' = "signin")
    <2>1. CASE j \in new
      BY <2>1 DEF Client
    <2>2. CASE j \in DOMAIN asked \ gone
      <3>1. RequestOK(asked[j]) /\ Same(asked'[j], asked[j])
        BY <2>2 DEF LoginRequests, Client
      <3>2. QED
        BY <2>2, <3>1, SameOK DEF Client
    <2>3. QED
      BY <2>1, <2>2 DEF Client
  <1>3. did' \in 0 .. MaxActs
    BY AccountConstantsOK DEF LoginRequests, Counted, Account!ConstantsOK
  <1>4. \A j \in Twice' : j \in new \/ j \in Twice \ gone
    BY DEF Client, Twice, Same
  <1>5. next' + Cardinality(Twice') <= 2 * did' + 2
    <2>1. Twice' \subseteq Twice \cup {next}
      BY <1>4 DEF Client
    <2> DEFINE S == Twice'
    <2>2. /\ Cardinality(S) \in Nat /\ Cardinality(Twice) \in Nat
          /\ Cardinality(S) <= Cardinality(Twice) + 1
          /\ S \subseteq Twice => Cardinality(S) <= Cardinality(Twice)
          /\ \A i \in Twice : S \subseteq Twice \ {i} => Cardinality(S) + 1 <= Cardinality(Twice)
      <3> HIDE DEF S
      <3>1. S \subseteq Twice \cup {next}
        BY <2>1 DEF S
      <3>2. QED
        BY <3>1, TwiceFacts
    <2>3. /\ next \in Nat /\ did \in Nat /\ next + Cardinality(Twice) <= 2 * did + 2
      BY AccountConstantsOK DEF LoginRequests, Account!ConstantsOK
    <2>4. next' \in {next, next + 1} /\ (new = {} => next' = next)
      BY DEF Client
    <2>5. new = {} => S \subseteq Twice
      BY <1>4
    <2>6. CASE did' = did + 1
      BY <2>2, <2>3, <2>4, <2>5, <2>6 DEF Client
    <2>7. CASE did' = did /\ new = {}
      BY <2>2, <2>3, <2>4, <2>5, <2>7
    <2>8. ASSUME did' = did, new = {next}, asked'[next].kind = "me", NEW i \in gone, i \in Twice
          PROVE  next' + Cardinality(S) <= 2 * did' + 2
      <3>1. S \subseteq Twice \ {i}
        BY <1>4, <2>8 DEF Twice
      <3>2. Cardinality(S) + 1 <= Cardinality(Twice)
        BY <2>2, <2>8, <3>1
      <3>3. QED
        BY <2>2, <2>3, <2>4, <2>8, <3>2
    <2>9. QED
      BY <2>6, <2>7, <2>8 DEF Counted
  <1>6. QED
    BY <1>1, <1>2, <1>3, <1>5 DEF LoginRequests

\* What the browser does leaves the mails alone.
LEMMA ClientMails ==
  ASSUME LoginRequests, Shape, MailInv, NEW gone, NEW new, Client(gone, new)
  PROVE  MailInv'
  <1>1. /\ mails' = mails /\ next \in Nat /\ next' >= next
    BY DEF Client, LoginRequests
  <1>2. ASSUME NEW j \in DOMAIN asked', asked'[j].kind = "send"
        PROVE  /\ asked'[j].state = "sent" => \A m \in mails : m.txn # j
               /\ asked'[j].state = "done" /\ asked'[j].answer # Null =>
                    asked'[j].answer = j /\ [txn |-> j, email |-> asked'[j].what] \in mails
    <2>1. CASE j \in new
      BY <2>1 DEF Client, MailInv, LoginRequests
    <2>2. CASE j \in DOMAIN asked \ gone
      BY <1>2, <2>2 DEF Client, MailInv, Same
    <2>3. QED
      BY <2>1, <2>2 DEF Client
  <1>3. \A m \in mails : m.txn < next'
    <2>1. CASE next' = next
      BY <2>1 DEF MailInv
    <2>2. CASE next' = next + 1
      <3>1. \A m \in mails : m.txn \in Nat /\ m.txn < next
        BY AccountConstantsOK DEF MailInv, Shape, Account!Ids, Account!ConstantsOK
      <3>2. QED
        BY <2>2, <3>1 DEF LoginRequests
    <2>3. QED
      BY <2>1, <2>2 DEF Client
  <1>4. QED
    BY <1>1, <1>2, <1>3 DEF MailInv

\* Fewer verifications that have read, and nothing else.
LEMMA FewerReaders ==
  ASSUME CodesInv, UNCHANGED <<otps, mails, raced, guesses>>,
         \A j \in DOMAIN asked' : asked'[j].state = "read" =>
            /\ j \in DOMAIN asked /\ asked[j].state = "read"
            /\ asked'[j].what = asked[j].what /\ asked'[j].answer = asked[j].answer
  PROVE  CodesInv'
  <1>1. \A t : Readers(t)' \subseteq Readers(t) /\ \A i \in Readers(t)' : asked'[i].answer = asked[i].answer
    BY DEF Readers
  <1>2. \A i \in DOMAIN asked' : asked'[i].state = "read" => \E m \in mails : m.txn = asked'[i].what.txn
    BY DEF CodesInv
  <1>3. QED
    BY <1>1, <1>2 DEF CodesInv

\* What the browser does leaves the codes and their guesses alone.
LEMMA ClientCodes ==
  ASSUME CodesInv, NEW gone, NEW new, Client(gone, new)
  PROVE  CodesInv'
  <1>1. \A j \in DOMAIN asked' : asked'[j].state = "read" =>
            /\ j \in DOMAIN asked /\ asked[j].state = "read"
            /\ asked'[j].what = asked[j].what /\ asked'[j].answer = asked[j].answer
    BY DEF Client, Same
  <1>2. UNCHANGED <<otps, mails, raced, guesses>>
    BY DEF Client, Account!server
  <1>3. QED
    BY <1>1, <1>2, FewerReaders

\* A step that leaves the account, the form's code and who asks alone.
LEMMA ClientAccount ==
  ASSUME AccountInv, NEW gone, NEW new, Client(gone, new), UNCHANGED <<user, cookie, mixed>>,
         \A i \in gone : i \notin AskingMe \cup Saved,
         \A i \in new : asked'[i].kind # "me"
  PROVE  AccountInv'
  <1>1. name' = name
    BY DEF Client, Account!server
  <1>2. AskingMe' \subseteq AskingMe /\ \A i \in AskingMe' : /\ asked'[i].cookie = asked[i].cookie
                                                          /\ asked'[i].answer = asked[i].answer
    BY DEF Client, Same, AskingMe
  <1>3. AskingMe \subseteq AskingMe' /\ Saved \subseteq Saved'
    BY DEF Client, Same, AskingMe, Saved
  <1>4. Says(cookie)' = Says(cookie)
    BY <1>1 DEF Says
  <1>5. QED
    BY <1>1, <1>2, <1>3, <1>4 DEF AccountInv

\* The form keeps its transaction, unless it asks for another or is blank.
LEMMA ClientForm ==
  ASSUME FormInv, NEW gone, NEW new, Client(gone, new), crossed' = crossed,
         \A i \in new : asked'[i].kind # "send",
         \/ form' = Account!Blank
         \/ form'.step = "email"
         \/ /\ form'.step = form.step /\ form'.email = form.email /\ form'.txn = form.txn
            /\ \A i \in gone : i \notin OfTheForm
  PROVE  FormInv'
  <1>1. OfTheForm' \subseteq OfTheForm /\ \A i \in OfTheForm' : asked'[i].what = asked[i].what
    BY DEF Client, Same, OfTheForm
  <1>2. mails' = mails
    BY DEF Client
  <1>3. form' = Account!Blank => form'.step = "email"
    BY DEF Account!Blank
  <1>4. CASE form'.step = "email"
    BY <1>1, <1>4 DEF FormInv
  <1>5. CASE /\ form' # Account!Blank
             /\ form'.step = form.step /\ form'.email = form.email /\ form'.txn = form.txn
             /\ \A i \in gone : i \notin OfTheForm
    <2>1. OfTheForm \subseteq OfTheForm'
      BY <1>5 DEF Client, Same, OfTheForm
    <2>2. QED
      BY <1>1, <1>2, <1>5, <2>1 DEF FormInv
  <1>6. QED
    BY <1>3, <1>4, <1>5

\* The flag goes up with a request and stays up while it is under way.
LEMMA ClientLoading ==
  ASSUME Account!LoadingMeansAsked, Shape, NEW gone, NEW new, Client(gone, new),
         \/ ~loading'
         \/ new # {}
         \/ gone = {} /\ loading' = loading
  PROVE  Account!LoadingMeansAsked'
  <1>1. CASE ~loading'
    BY <1>1 DEF Account!LoadingMeansAsked
  <1>2. CASE new # {}
    <2>1. next \in Account!Heard'
      BY <1>2 DEF Client, Account!Heard
    <2>2. QED
      BY <2>1 DEF Account!LoadingMeansAsked
  <1>3. CASE gone = {} /\ loading' = loading
    <2>1. Account!Heard \subseteq Account!Heard'
      BY <1>3 DEF Client, Same, Account!Heard
    <2>2. QED
      BY <1>3, <2>1 DEF Account!LoadingMeansAsked
  <1>4. QED
    BY <1>1, <1>2, <1>3

-----------------------------------------------------------------------------
(* The person. *)

\* What a step of the person does but to ask for a code.
PersonStep(new) ==
  /\ Client({}, new) /\ did' = did + 1 /\ did' <= MaxActs
  /\ UNCHANGED <<user, cookie, mixed, crossed>>
  /\ route' \in Pages /\ form' \in Forms
  /\ (new = {} /\ loading' = loading) \/ (new = {next} /\ loading')
  /\ loading' \in BOOLEAN
  /\ \A j \in new : asked'[j].kind \in {"verify", "logout", "update"}
  /\ \/ form' = Account!Blank
     \/ form'.step = "email"
     \/ form'.step = form.step /\ form'.email = form.email /\ form'.txn = form.txn

\* The form starts with an address to enter.
LEMMA BlankForm == Account!Blank \in Forms /\ Account!Blank.step = "email"
  BY DEF Account!Blank, Forms, Cookies

\* What the user does sends one request at most, and counts.
LEMMA PersonSteps ==
  ASSUME LoginRequests, Shape,
         \/ \E p \in {"home", "signin", "dashboard", "profile"} : Account!Go(p)
         \/ \E e \in Emails \cup {Null} : Account!EditEmail(e)
         \/ Account!ChangeEmail
         \/ \E c \in Account!Codes \cup {Null} : Account!handleOTPChange(c) \/ Account!handlePaste(c)
         \/ Account!handleVerifyOTP
         \/ Account!handleLogout
         \/ \E n \in Account!Names \cup {Null} : Account!handleUpdateChanges(n)
  PROVE  \E new : PersonStep(new)
  <1>0. /\ route \in Pages /\ form \in Forms /\ loading \in BOOLEAN /\ cookie \in Cookies
        /\ mails \subseteq [txn : Account!Ids, email : Emails]
        /\ did \in Nat /\ MaxActs \in Nat
    BY AccountConstantsOK DEF Shape, LoginRequests, Account!ConstantsOK
  <1>1. ASSUME asked' = asked, next' = next, route' = route, UNCHANGED <<Account!server, mails, raced, guesses>>
        PROVE  Client({}, {})
    BY <1>1 DEF Client, LoginRequests, Same, RequestOK
  <1>2. ASSUME NEW p \in Pages, Account!Go(p)
        PROVE  PersonStep({})
    <2>1. /\ p # route /\ route' = Account!Shown(p, user) /\ form' = Account!FormOn(route')
          /\ asked' = Account!Orphaned(asked, route') /\ next' = next /\ Account!Acts
          /\ UNCHANGED <<user, loading, cookie, Account!server, mails, crossed, mixed, raced, guesses>>
      BY <1>2 DEF Account!Go, Account!ghosts
    <2>2. route' \in Pages
      BY <2>1 DEF Account!Shown, Pages
    <2>3. form' = Account!Blank
      BY <2>1 DEF Account!FormOn, Account!Shown
    <2>4. Client({}, {})
      BY <2>1, LeaveStep
    <2>5. QED
      BY <1>0, <2>1, <2>2, <2>3, <2>4, BlankForm DEF PersonStep, Account!Acts
  <1>3. CASE \/ \E e \in Emails \cup {Null} : Account!EditEmail(e)
             \/ Account!ChangeEmail
             \/ \E c \in Account!Codes \cup {Null} : Account!handleOTPChange(c) \/ Account!handlePaste(c)
    <2>1. /\ asked' = asked /\ next' = next /\ route' = route /\ Account!Acts
          /\ UNCHANGED <<user, loading, cookie, Account!server, mails, crossed, mixed, raced, guesses>>
      BY <1>3 DEF Account!EditEmail, Account!ChangeEmail, Account!handleOTPChange,
                  Account!handlePaste, Account!ghosts
    <2>2. Client({}, {})
      BY <1>1, <2>1
    <2>3. \A c \in Account!Codes \cup {Null} : c \in Account!Ids \cup {Wrong, Null}
      BY <1>0 DEF Account!Codes
    <2>4. /\ form' \in Forms
          /\ \/ form'.step = "email"
             \/ form'.step = form.step /\ form'.email = form.email /\ form'.txn = form.txn
      <3>1. ASSUME NEW e \in Cookies, Account!EditEmail(e)
            PROVE  form' \in Forms /\ form'.step = "email"
        BY <1>0, <3>1 DEF Account!EditEmail, Account!EmailStep, Forms
      <3>2. ASSUME Account!ChangeEmail
            PROVE  form' \in Forms /\ form'.step = "email"
        BY <1>0, <3>2 DEF Account!ChangeEmail, Forms
      <3>3. ASSUME NEW c \in Account!Ids \cup {Wrong, Null}, Account!handleOTPChange(c) \/ Account!handlePaste(c)
            PROVE  /\ form' \in Forms
                   /\ form'.step = form.step /\ form'.email = form.email /\ form'.txn = form.txn
        BY <1>0, <3>3 DEF Account!handleOTPChange, Account!handlePaste, Forms
      <3>4. QED
        BY <1>3, <2>3, <3>1, <3>2, <3>3 DEF Cookies
    <2>5. PersonStep({})
      BY <1>0, <2>1, <2>2, <2>4 DEF PersonStep, Account!Acts
    <2>6. QED
      BY <2>5
  <1>4. ASSUME NEW kind, NEW what, Account!Asks(kind, what), Account!Acts, UNCHANGED <<route, form, user, cookie, Account!server, Account!ghosts>>,
               loading' = TRUE,
               \/ kind = "verify" /\ what \in Tries
               \/ kind = "update" /\ what \in Account!Names \cup {Null}
               \/ kind = "logout"
        PROVE  PersonStep({next})
    <2>1. Client({}, {next}) /\ asked'[next] = Account!Request(kind, what)
      BY <1>4, AskStep DEF Account!ghosts
    <2>2. Account!Request(kind, what).kind = kind
      BY DEF Account!Request
    <2>3. QED
      BY <1>0, <1>4, <2>1, <2>2 DEF PersonStep, Account!Acts, Account!ghosts
  <1>5. CASE Account!handleVerifyOTP
    <2>1. [txn |-> form.txn, code |-> form.code] \in Tries
      BY <1>0, <1>5 DEF Account!handleVerifyOTP, Tries, Forms
    <2>2. QED
      BY <1>4, <1>5, <2>1 DEF Account!handleVerifyOTP
  <1>6. CASE Account!handleLogout
    BY <1>4, <1>6 DEF Account!handleLogout
  <1>7. ASSUME NEW n \in Account!Names \cup {Null}, Account!handleUpdateChanges(n)
        PROVE  PersonStep({next})
    BY <1>4, <1>7 DEF Account!handleUpdateChanges
  <1>8. QED
    BY <1>2, <1>3, <1>5, <1>6, <1>7 DEF Pages

\* What the user does keeps the inductive invariant.
LEMMA PersonKept ==
  ASSUME LoginIInv, NEW new, PersonStep(new)
  PROVE  LoginIInv'
  <1>1. /\ Client({}, new) /\ did' = did + 1 /\ did' <= MaxActs
        /\ UNCHANGED <<user, cookie, mixed, crossed>>
        /\ route' \in Pages /\ form' \in Forms /\ loading' \in BOOLEAN
        /\ \A j \in new : asked'[j].kind \in {"verify", "logout", "update"}
    BY DEF PersonStep
  <1>2. LoginRequests'
    BY <1>1, ClientRequests DEF LoginIInv, Counted
  <1>3. Shape'
    BY <1>1 DEF LoginIInv, Shape, Client, Account!server
  <1>4. MailInv' /\ CodesInv'
    BY <1>1, ClientMails, ClientCodes DEF LoginIInv
  <1>5. AccountInv'
    BY <1>1, ClientAccount DEF LoginIInv
  <1>6. FormInv'
    BY <1>1, ClientForm DEF LoginIInv, PersonStep
  <1>7. Account!LoadingMeansAsked'
    BY <1>1, ClientLoading DEF LoginIInv, PersonStep
  <1>8. QED
    BY <1>2, <1>3, <1>4, <1>5, <1>6, <1>7 DEF LoginIInv

\* A code is asked for.
LEMMA SendKept ==
  ASSUME LoginIInv, Account!handleSendOTP
  PROVE  LoginIInv'
  <1>0. LoginRequests /\ Shape /\ route = "signin" /\ form.step = "email" /\ form \in Forms /\ did \in Nat
        /\ form.email \in Cookies /\ MaxActs \in Nat
    BY AccountConstantsOK DEF LoginIInv, Account!handleSendOTP, Account!EmailStep, Shape, Forms,
                              LoginRequests, Account!ConstantsOK
  <1>1. /\ Account!Asks("send", form.email) /\ loading' = TRUE /\ Account!Acts
        /\ form' = IF form.email = Null THEN form ELSE [form EXCEPT !.step = "otp"]
        /\ crossed' = (crossed \/ \E i \in Account!Asking("send") : asked[i].form)
        /\ UNCHANGED <<route, user, cookie, Account!server, mails, mixed, raced, guesses>>
    BY DEF Account!handleSendOTP
  <1>2. /\ Client({}, {next}) /\ asked'[next] = Account!Request("send", form.email)
        /\ \A j \in DOMAIN asked : asked'[j] = asked[j]
    BY <1>0, <1>1, AskStep
  <1>3. /\ Account!Request("send", form.email).kind = "send"
        /\ Account!Request("send", form.email).what = form.email
        /\ Account!Request("send", form.email).form
    BY <1>0 DEF Account!Request
  <1>4. /\ form' \in Forms /\ form'.email = form.email /\ form'.txn = form.txn
        /\ form.email = Null => form'.step = "email"
    BY <1>0, <1>1 DEF Forms
  <1>5. DOMAIN asked' = DOMAIN asked \cup {next}
    BY <1>2 DEF Client
  <1>6. LoginRequests'
    <2>1. did' = did + 1 /\ did' <= MaxActs
      BY <1>0, <1>1 DEF Account!Acts
    <2>2. QED
      BY <1>0, <1>2, <2>1, ClientRequests DEF Counted
  <1>7. Shape'
    BY <1>0, <1>1, <1>4 DEF Shape, Account!server
  <1>8. MailInv' /\ CodesInv'
    BY <1>2, ClientMails, ClientCodes DEF LoginIInv
  <1>9. AccountInv'
    BY <1>1, <1>2, <1>3, ClientAccount DEF LoginIInv
  <1>10. Account!LoadingMeansAsked'
    BY <1>1, <1>2, ClientLoading DEF LoginIInv
  <1>11. FormInv'
    <2> SUFFICES ASSUME ~crossed'
                 PROVE  /\ \A i, j \in OfTheForm' : i = j
                        /\ \A i \in OfTheForm' : asked'[i].what = form'.email
                        /\ OfTheForm' # {}
      BY DEF FormInv
    <2>1. ~\E i \in DOMAIN asked : asked[i].kind = "send" /\ asked[i].form
      BY <1>1 DEF Account!Asking, Account!Heard, LoginIInv, LoginRequests, RequestOK
    <2>2. OfTheForm' = {next}
      BY <1>2, <1>3, <1>5, <2>1 DEF OfTheForm
    <2>3. QED
      BY <1>2, <1>3, <1>4, <2>2
  <1>12. QED
    BY <1>6, <1>7, <1>8, <1>9, <1>10, <1>11 DEF LoginIInv

\* A page is opened afresh.
LEMMA LoginReloadKept ==
  ASSUME LoginIInv, NEW p \in Pages, Account!Reload(p)
  PROVE  LoginIInv'
  <1>0. LoginRequests /\ Shape /\ cookie \in Cookies /\ did \in Nat /\ next \in Nat
    BY AccountConstantsOK DEF LoginIInv, Shape, LoginRequests, Account!ConstantsOK
  <1> DEFINE kept == {j \in DOMAIN asked : asked[j].state # "done" /\ asked[j].kind \in Account!Lasting}
  <1>1. /\ route' = p /\ form' = Account!Blank /\ user' = Null /\ loading' = TRUE
        /\ next' = next + 1
        /\ did' = did + 1 /\ did' <= MaxActs /\ mixed' = FALSE
        /\ UNCHANGED <<cookie, Account!server, mails, crossed, raced, guesses>>
    BY <1>0, AccountConstantsOK DEF Account!Reload, Account!Acts, Account!ConstantsOK
  <1>2. /\ DOMAIN asked' = kept \cup {next} /\ asked'[next] = Account!WhoAmI(cookie)
        /\ \A j \in DOMAIN asked' : j # next =>
              /\ RequestOK(asked'[j]) /\ ~asked'[j].heard /\ ~asked'[j].form
              /\ asked'[j].kind = asked[j].kind /\ asked'[j].what = asked[j].what
              /\ asked'[j].state = asked[j].state /\ asked'[j].answer = asked[j].answer
    BY <1>0, ReloadStep
  <1>3. /\ RequestOK(Account!WhoAmI(cookie)) /\ Account!WhoAmI(cookie).kind = "me"
        /\ Account!WhoAmI(cookie).state = "sent"
        /\ Account!WhoAmI(cookie).heard /\ Account!WhoAmI(cookie).cookie = cookie
        /\ ~Account!WhoAmI(cookie).form
        /\ Account!WhoAmI(cookie).answer = Null
    BY <1>0, WhoAmIOK
  <1>4. Twice' = {}
    BY <1>2, <1>3 DEF Twice
  <1>5. LoginRequests'
    <2>1. IsFiniteSet(kept) /\ IsFiniteSet(kept \cup {next})
      BY <1>0, FS_Subset, FS_AddElement DEF LoginRequests
    <2>2. Cardinality(Twice') = 0
      BY <1>4, FS_EmptySet
    <2>3. Cardinality(Twice) \in Nat
      BY <1>0, TwiceFacts
    <2>4. next' + Cardinality(Twice') <= 2 * did' + 2
      BY <1>0, <1>1, <2>2, <2>3 DEF LoginRequests
    <2>5. \A j \in DOMAIN asked' : RequestOK(asked'[j]) /\ ~asked'[j].form
      BY <1>2, <1>3
    <2>6. next' >= 2 /\ DOMAIN asked' \subseteq 1 .. (next' - 1)
      BY <1>0, <1>1, <1>2 DEF LoginRequests
    <2>7. QED
      BY <1>0, <1>1, <1>2, <2>1, <2>4, <2>5, <2>6, AccountConstantsOK DEF LoginRequests,
         Account!ConstantsOK
  <1>6. Shape'
    BY <1>0, <1>1, BlankForm DEF Shape, Account!server
  <1>7. Account!LoadingMeansAsked'
    BY <1>2, <1>3 DEF Account!LoadingMeansAsked, Account!Heard
  <1>8. AccountInv'
    <2>1. AskingMe' \subseteq {next}
      BY <1>2, <1>3 DEF AskingMe, Account!Lasting
    <2>2. QED
      BY <1>1, <1>2, <1>3, <2>1 DEF AccountInv
  <1>9. MailInv'
    <2>1. \A m \in mails : m.txn < next'
      BY <1>0, <1>1, AccountConstantsOK DEF LoginIInv, MailInv, Shape, Account!Ids,
                                            Account!ConstantsOK
    <2>2. ASSUME NEW j \in DOMAIN asked', asked'[j].kind = "send"
          PROVE  /\ asked'[j].state # "done"
                 /\ asked'[j].state = "sent" => \A m \in mails : m.txn # j
      <3>1. j # next /\ j \in kept
        BY <1>2, <1>3, <2>2
      <3>2. asked[j].kind = "send" /\ asked[j].state = asked'[j].state /\ asked[j].state # "done"
        BY <1>2, <2>2, <3>1
      <3>3. QED
        BY <3>1, <3>2 DEF LoginIInv, MailInv
    <2>3. QED
      BY <1>1, <2>1, <2>2 DEF LoginIInv, MailInv
  <1>10. FormInv'
    <2>1. OfTheForm' = {}
      BY <1>2, <1>3 DEF OfTheForm
    <2>2. QED
      BY <1>1, <2>1, BlankForm DEF FormInv
  <1>11. CodesInv'
    BY <1>1, <1>2, <1>3, FewerReaders DEF LoginIInv, Account!server
  <1>12. QED
    BY <1>5, <1>6, <1>7, <1>8, <1>9, <1>10, <1>11 DEF LoginIInv

-----------------------------------------------------------------------------
(* The server. *)

\* There are numbers enough for the requests.
LEMMA InIds ==
  ASSUME LoginRequests
  PROVE  /\ DOMAIN asked \subseteq Account!Ids /\ \A i \in DOMAIN asked : i < next
         /\ next \in 2 .. (2 * MaxActs + 2)
  <1>1. /\ next \in Nat /\ next >= 2 /\ did \in 0 .. MaxActs /\ MaxActs \in Nat
        /\ next + Cardinality(Twice) <= 2 * did + 2
        /\ DOMAIN asked \subseteq 1 .. (next - 1)
    BY AccountConstantsOK DEF LoginRequests, Account!ConstantsOK
  <1>2. Cardinality(Twice) \in Nat
    BY TwiceFacts
  <1>3. next \in 2 .. (2 * MaxActs + 2)
    BY <1>1, <1>2
  <1>4. QED
    BY <1>1, <1>3 DEF Account!Ids

\* An answer on its way, of what the request asked.
Answered(i, a) ==
  /\ DOMAIN asked' \subseteq DOMAIN asked
  /\ \A j \in DOMAIN asked : j # i => j \in DOMAIN asked' /\ asked'[j] = asked[j]
  /\ i \in DOMAIN asked' <=> asked[i].heard
  /\ i \in DOMAIN asked' =>
       /\ asked'[i].state = "done" /\ asked'[i].answer = a /\ asked'[i].kind = asked[i].kind
       /\ asked'[i].what = asked[i].what /\ asked'[i].cookie = asked[i].cookie
       /\ asked'[i].heard = asked[i].heard /\ asked'[i].form = asked[i].form
       /\ DOMAIN asked'[i] = DOMAIN asked[i]

\* The server answers one request and leaves the others alone.
LEMMA AnsweringFacts ==
  ASSUME LoginRequests, NEW i \in DOMAIN asked, NEW a, Account!Answering(i, a)
  PROVE  Answered(i, a)
  <1>1. RequestOK(asked[i])
    BY DEF LoginRequests
  <1>2. CASE asked[i].heard
    <2>1. asked' = [asked EXCEPT ![i].state = "done", ![i].answer = a]
      BY <1>2 DEF Account!Answering
    <2>2. /\ DOMAIN asked' = DOMAIN asked /\ \A j \in DOMAIN asked : j # i => asked'[j] = asked[j]
          /\ asked'[i] = [asked[i] EXCEPT !.state = "done", !.answer = a]
      BY <2>1
    <2>3. DOMAIN asked[i] = {"kind", "what", "cookie", "state", "answer", "heard", "form"}
      BY <1>1 DEF RequestOK
    <2>4. /\ asked'[i].state = "done" /\ asked'[i].answer = a /\ asked'[i].kind = asked[i].kind
          /\ asked'[i].what = asked[i].what /\ asked'[i].cookie = asked[i].cookie
          /\ asked'[i].heard = asked[i].heard /\ asked'[i].form = asked[i].form
          /\ DOMAIN asked'[i] = DOMAIN asked[i]
      BY <2>2, <2>3
    <2>5. QED
      BY <1>2, <2>2, <2>4 DEF Answered
  <1>3. CASE ~asked[i].heard
    <2>1. asked' = Account!Over(i)
      BY <1>3 DEF Account!Answering
    <2>2. DOMAIN asked' = DOMAIN asked \ {i} /\ \A j \in DOMAIN asked \ {i} : asked'[j] = asked[j]
      BY <2>1, OverFacts
    <2>3. QED
      BY <1>3, <2>2 DEF Answered
  <1>4. QED
    BY <1>2, <1>3

\* What an answer leaves as it was.
LEMMA AnsweredKept ==
  ASSUME LoginIInv, NEW i \in DOMAIN asked, NEW a, Answered(i, a), asked[i].state # "done",
         UNCHANGED <<Account!client, next, crossed>>, mails \subseteq mails',
         asked[i].kind = "me" => a \in Account!Users,
         asked[i].kind = "verify" => a \in Cookies
  PROVE  LoginRequests' /\ Account!LoadingMeansAsked' /\ FormInv'
  <1>0. LoginRequests /\ UNCHANGED <<route, form, loading, did>>
    BY DEF LoginIInv, Account!client
  <1>1. ASSUME NEW j \in DOMAIN asked'
        PROVE  RequestOK(asked'[j]) /\ (asked'[j].form => route' = "signin")
    <2>1. CASE j # i
      BY <1>0, <2>1 DEF Answered, LoginRequests
    <2>2. CASE j = i
      <3>1. RequestOK(asked[i]) /\ (asked[i].form => route = "signin") /\ asked[i].heard
        BY <1>0, <2>2 DEF Answered, LoginRequests
      <3>2. /\ asked'[i].state = "done" /\ asked'[i].answer = a /\ asked'[i].kind = asked[i].kind
            /\ asked'[i].what = asked[i].what /\ asked'[i].cookie = asked[i].cookie
            /\ asked'[i].heard = asked[i].heard /\ asked'[i].form = asked[i].form
            /\ DOMAIN asked'[i] = DOMAIN asked[i]
        BY <2>2 DEF Answered
      <3>3. RequestOK(asked'[i])
        BY <3>1, <3>2 DEF RequestOK, Me, Send, Verify, Update, Logout
      <3>4. QED
        BY <1>0, <2>2, <3>1, <3>2, <3>3
    <2>3. QED
      BY <2>1, <2>2
  <1>2. LoginRequests'
    <2>1. Twice' \subseteq Twice
      BY DEF Twice, Answered
    <2> DEFINE S == Twice'
    <2>2. Cardinality(S) <= Cardinality(Twice) /\ Cardinality(S) \in Nat /\ Cardinality(Twice) \in Nat
      <3> HIDE DEF S
      <3>1. S \subseteq Twice /\ S \subseteq Twice \cup {next}
        BY <2>1 DEF S
      <3>2. QED
        BY <1>0, <3>1, TwiceFacts
    <2>3. next' + Cardinality(Twice') <= 2 * did' + 2
      BY <1>0, <2>2, AccountConstantsOK DEF LoginRequests, Account!ConstantsOK
    <2>4. IsFiniteSet(DOMAIN asked')
      BY <1>0, FS_Subset DEF LoginRequests, Answered
    <2>5. DOMAIN asked' \subseteq 1 .. (next - 1)
      BY <1>0 DEF LoginRequests, Answered
    <2>6. QED
      BY <1>0, <1>1, <2>3, <2>4, <2>5 DEF LoginRequests
  <1>3. Account!LoadingMeansAsked'
    <2>1. Account!Heard \subseteq Account!Heard'
      BY DEF Account!Heard, Answered
    <2>2. QED
      BY <1>0, <2>1 DEF LoginIInv, Account!LoadingMeansAsked
  <1>4. FormInv'
    <2>1. \A j \in DOMAIN asked : asked[j].form => asked[j].heard
      BY <1>0 DEF LoginRequests, RequestOK
    <2>2. OfTheForm' = OfTheForm /\ \A j \in OfTheForm : asked'[j].what = asked[j].what
      BY <2>1 DEF OfTheForm, Answered
    <2>3. QED
      BY <1>0, <2>2 DEF LoginIInv, FormInv
  <1>5. QED
    BY <1>2, <1>3, <1>4

\* An answer that leaves the accounts alone, and is not about one.
LEMMA AnsweredAccount ==
  ASSUME LoginIInv, NEW i \in DOMAIN asked, NEW a, Answered(i, a), asked[i].state # "done",
         asked[i].kind # "me", UNCHANGED <<user, cookie, mixed, name>>
  PROVE  AccountInv'
  <1>1. AskingMe' = AskingMe /\ \A j \in AskingMe : asked'[j] = asked[j]
    BY DEF AskingMe, Answered
  <1>2. Saved \subseteq Saved'
    BY DEF Saved, Answered
  <1>3. Says(cookie)' = Says(cookie)
    BY DEF Says
  <1>4. QED
    BY <1>1, <1>2, <1>3 DEF LoginIInv, AccountInv

\* An answer after which no more is mailed.
LEMMA AnsweredMails ==
  ASSUME LoginIInv, NEW i \in DOMAIN asked, NEW a, Answered(i, a),
         asked[i].kind = "send" => a = Null, UNCHANGED <<mails, next>>
  PROVE  MailInv'
  <1>1. ASSUME NEW j \in DOMAIN asked', asked'[j].kind = "send"
        PROVE  /\ asked'[j].state = "sent" => \A m \in mails : m.txn # j
               /\ asked'[j].state = "done" /\ asked'[j].answer # Null =>
                    asked'[j].answer = j /\ [txn |-> j, email |-> asked'[j].what] \in mails
    <2>1. CASE j = i
      BY <1>1, <2>1 DEF Answered
    <2>2. CASE j # i
      BY <1>1, <2>2 DEF Answered, LoginIInv, MailInv
    <2>3. QED
      BY <2>1, <2>2
  <1>2. QED
    BY <1>1 DEF LoginIInv, MailInv

\* An answer that writes no code keeps what is known of the codes.
LEMMA AnsweredCodes ==
  ASSUME LoginIInv, NEW i \in DOMAIN asked, NEW a, Answered(i, a), UNCHANGED <<otps, mails, raced, guesses>>
  PROVE  CodesInv'
  <1>1. \A j \in DOMAIN asked' : asked'[j].state = "read" =>
            /\ j \in DOMAIN asked /\ asked[j].state = "read"
            /\ asked'[j].what = asked[j].what /\ asked'[j].answer = asked[j].answer
    BY DEF Answered
  <1>2. QED
    BY <1>1, FewerReaders DEF LoginIInv

\* Signing out and "who am I".
LEMMA AnswerKept ==
  ASSUME LoginIInv, NEW i \in DOMAIN asked, Account!fetch_user(i) \/ Account!Logout_user(i)
  PROVE  LoginIInv'
  <1>0. LoginRequests /\ Shape /\ RequestOK(asked[i])
    BY DEF LoginIInv, LoginRequests
  <1>1. PICK a : Account!Answering(i, a) /\ (asked[i].kind = "me" => a = Says(asked[i].cookie))
    BY DEF Account!fetch_user, Account!Logout_user, Says
  <1>2. /\ Answered(i, a) /\ asked[i].state = "sent" /\ asked[i].kind \in {"me", "logout"}
        /\ UNCHANGED <<Account!client, next, Account!server, Account!ghosts>>
    BY <1>0, <1>1, AnsweringFacts DEF Account!fetch_user, Account!Logout_user
  <1>3. UNCHANGED <<route, form, user, loading, cookie, did, otps, name, mails, crossed, mixed, raced, guesses>>
    BY <1>2 DEF Account!client, Account!server, Account!ghosts
  <1>4. asked[i].kind = "me" => a \in Account!Users
    BY <1>0, <1>1 DEF RequestOK, Says, Account!Users, Shape, Account!Names, Cookies
  <1>5. LoginRequests' /\ Account!LoadingMeansAsked' /\ FormInv'
    BY <1>2, <1>3, <1>4, AnsweredKept
  <1>6. Shape'
    BY <1>0, <1>3 DEF Shape
  <1>7. MailInv' /\ CodesInv'
    BY <1>2, <1>3, AnsweredMails, AnsweredCodes
  <1>8. AccountInv'
    <2>1. CASE asked[i].kind = "logout"
      BY <1>2, <1>3, <2>1, AnsweredAccount
    <2>2. CASE asked[i].kind = "me"
      <3>1. Says(cookie)' = Says(cookie)
        BY <1>3 DEF Says
      <3>2. /\ AskingMe' = AskingMe /\ asked'[i].answer = Says(asked[i].cookie)
            /\ asked'[i].cookie = asked[i].cookie
            /\ \A j \in AskingMe : j # i => asked'[j] = asked[j]
        BY <1>0, <1>1, <1>2, <2>2 DEF AskingMe, Answered, RequestOK, Me, Send, Verify, Update,
                                      Logout
      <3>3. Saved' = Saved
        BY <1>2, <2>2 DEF Saved, Answered
      <3>4. QED
        BY <1>3, <2>2, <3>1, <3>2, <3>3 DEF LoginIInv, AccountInv, AskingMe
    <2>3. QED
      BY <1>2, <2>1, <2>2
  <1>9. QED
    BY <1>5, <1>6, <1>7, <1>8 DEF LoginIInv

\* A code is mailed, or refused.
LEMMA SendOTPKept ==
  ASSUME LoginIInv, NEW i \in DOMAIN asked, Account!SendOTP(i)
  PROVE  LoginIInv'
  <1>0. /\ LoginRequests /\ Shape /\ RequestOK(asked[i]) /\ asked[i].kind = "send"
        /\ asked[i].state = "sent"
        /\ i \in Account!Ids /\ i < next
        /\ asked[i].what \in Cookies
    BY InIds DEF LoginIInv, LoginRequests, Account!SendOTP, RequestOK, Me, Send, Verify, Update,
                 Logout
  <1>1. PICK a : /\ Account!Answering(i, a) /\ a \in {Null, i}
                 /\ \/ UNCHANGED <<otps, mails>> /\ a = Null
                    \/ /\ asked[i].what # Null
                       /\ otps' = otps \cup {[txn |-> i, attempts |-> 0]}
                       /\ mails' = mails \cup {[txn |-> i, email |-> asked[i].what]}
    <2>1. CASE asked[i].cookie # Null \/ asked[i].what = Null
      BY <2>1 DEF Account!SendOTP
    <2>2. CASE ~(asked[i].cookie # Null \/ asked[i].what = Null)
      <3>1. PICK mailed \in BOOLEAN : Account!Answering(i, IF mailed THEN i ELSE Null)
        BY <2>2 DEF Account!SendOTP
      <3>2. Account!Answering(i, i) \/ Account!Answering(i, Null)
        BY <3>1
      <3>3. QED
        BY <2>2, <3>2 DEF Account!SendOTP
    <2>3. QED
      BY <2>1, <2>2
  <1>2. /\ Answered(i, a)
        /\ UNCHANGED <<Account!client, next, name, crossed, mixed, raced, guesses>>
    BY <1>0, <1>1, AnsweringFacts DEF Account!SendOTP
  <1>3. UNCHANGED <<route, form, user, loading, cookie, did>>
    BY <1>2 DEF Account!client
  <1>4. \/ UNCHANGED <<otps, mails>> /\ a = Null
        \/ /\ otps' = otps \cup {[txn |-> i, attempts |-> 0]} /\ asked[i].what \in Emails
           /\ mails' = mails \cup {[txn |-> i, email |-> asked[i].what]}
    BY <1>0, <1>1 DEF Cookies
  <1>5. mails \subseteq mails'
    BY <1>4
  <1>6. LoginRequests' /\ Account!LoadingMeansAsked' /\ FormInv'
    BY <1>0, <1>2, <1>3, <1>5, AnsweredKept
  <1>7. AccountInv'
    BY <1>0, <1>2, <1>3, AnsweredAccount
  <1>8. CASE UNCHANGED <<otps, mails>> /\ a = Null
    <2>1. Shape' /\ MailInv' /\ CodesInv'
      BY <1>0, <1>2, <1>3, <1>8, AnsweredMails, AnsweredCodes DEF Shape
    <2>2. QED
      BY <1>6, <1>7, <2>1 DEF LoginIInv
  <1>9. CASE /\ otps' = otps \cup {[txn |-> i, attempts |-> 0]} /\ asked[i].what \in Emails
             /\ mails' = mails \cup {[txn |-> i, email |-> asked[i].what]}
    <2> DEFINE mail == [txn |-> i, email |-> asked[i].what]
               otp == [txn |-> i, attempts |-> 0]
    <2>0. mail.txn = i /\ otp.txn = i /\ otp.attempts = 0 /\ mail \in [txn : Account!Ids, email : Emails]
      BY <1>0, <1>9
    <2>1. \A m \in mails : m.txn # i
      BY <1>0 DEF LoginIInv, MailInv
    <2>2. otp \in [txn : Account!Ids, attempts : 0 .. MAX_ATTEMPTS]
      BY <1>0, AccountConstantsOK DEF Account!ConstantsOK
    <2> HIDE DEF mail, otp
    <2>3. mails' = mails \cup {mail} /\ otps' = otps \cup {otp}
      BY <1>9 DEF mail, otp
    <2>4. Shape'
      BY <1>0, <1>2, <1>3, <2>0, <2>2, <2>3 DEF Shape
    <2>5. MailInv'
      <3>1. \A m, x \in mails' : m.txn = x.txn => m = x
        BY <2>0, <2>1, <2>3 DEF LoginIInv, MailInv
      <3>2. \A m \in mails' : m.txn < next'
        BY <1>0, <1>2, <2>0, <2>3 DEF LoginIInv, MailInv
      <3>3. ASSUME NEW j \in DOMAIN asked', asked'[j].kind = "send"
            PROVE  /\ asked'[j].state = "sent" => \A m \in mails' : m.txn # j
                   /\ asked'[j].state = "done" /\ asked'[j].answer # Null =>
                        asked'[j].answer = j /\ [txn |-> j, email |-> asked'[j].what] \in mails'
        <4>1. CASE j = i
          BY <1>1, <1>2, <2>3, <4>1 DEF Answered, mail
        <4>2. CASE j # i
          BY <1>2, <2>0, <2>3, <3>3, <4>2 DEF Answered, LoginIInv, MailInv
        <4>3. QED
          BY <4>1, <4>2
      <3>4. QED
        BY <3>1, <3>2, <3>3 DEF MailInv
    <2>6. CodesInv'
      <3>1. guesses[i].right = 0 /\ guesses[i].wrong = 0
        BY <1>0, <2>1 DEF LoginIInv, CodesInv
      <3>2. \A t : Readers(t)' \subseteq Readers(t)
        BY <1>2 DEF Readers, Answered
      <3>3. \A t : \A j \in Readers(t)' : asked'[j].answer = asked[j].answer
        BY <1>2 DEF Readers, Answered
      <3>4. \A o \in otps' : \E m \in mails' : m.txn = o.txn
        BY <2>0, <2>3 DEF LoginIInv, CodesInv
      <3>5. \A j \in DOMAIN asked' : asked'[j].state = "read" => \E m \in mails' : m.txn = asked'[j].what.txn
        BY <1>2, <2>3 DEF LoginIInv, CodesInv, Answered
      <3>6. \A t \in Account!Ids : \A o \in otps' : o.txn = t /\ t \notin raced =>
               guesses[t].right = 0 /\ guesses[t].wrong <= o.attempts
        BY <2>0, <2>3, <3>1 DEF LoginIInv, CodesInv
      <3>7. \A t \in Account!Ids : (\A m \in mails' : m.txn # t) => guesses[t].right = 0 /\ guesses[t].wrong = 0
        BY <2>3 DEF LoginIInv, CodesInv
      <3>8. QED
        BY <1>2, <3>2, <3>3, <3>4, <3>5, <3>6, <3>7 DEF LoginIInv, CodesInv
    <2>7. QED
      BY <1>6, <1>7, <2>4, <2>5, <2>6 DEF LoginIInv
  <1>10. QED
    BY <1>4, <1>8, <1>9

\* A name is saved, or refused.
LEMMA UpdateKept ==
  ASSUME LoginIInv, NEW i \in DOMAIN asked, Account!update_user_name(i)
  PROVE  LoginIInv'
  <1>0. /\ LoginRequests /\ Shape /\ RequestOK(asked[i]) /\ asked[i].kind = "update"
        /\ asked[i].state = "sent"
        /\ asked[i].what \in Account!Names \cup {Null} /\ asked[i].cookie \in Cookies
    BY DEF LoginIInv, LoginRequests, Account!update_user_name, RequestOK, Me, Send, Verify,
           Update, Logout
  <1>1. PICK a : /\ Account!Answering(i, a)
                 /\ \/ a = Null /\ UNCHANGED <<name, mixed>>
                    \/ /\ a = "saved" /\ asked[i].cookie # Null /\ asked[i].what # Null
                       /\ name' = [name EXCEPT ![asked[i].cookie] = asked[i].what]
                       /\ mixed' = (mixed \/ Account!Asking("me") # {} \/ ~asked[i].heard)
    BY DEF Account!update_user_name
  <1>2. /\ Answered(i, a)
        /\ UNCHANGED <<Account!client, next, otps, mails, crossed, raced, guesses>>
    BY <1>0, <1>1, AnsweringFacts DEF Account!update_user_name
  <1>3. UNCHANGED <<route, form, user, loading, cookie, did>>
    BY <1>2 DEF Account!client
  <1>4. LoginRequests' /\ Account!LoadingMeansAsked' /\ FormInv'
    BY <1>0, <1>2, <1>3, AnsweredKept
  <1>5. MailInv' /\ CodesInv'
    BY <1>0, <1>2, AnsweredMails, AnsweredCodes
  <1>6. name' \in [Emails -> Account!Names] /\ mixed' \in BOOLEAN
    BY <1>0, <1>1 DEF Shape, Cookies
  <1>7. Shape'
    BY <1>0, <1>2, <1>3, <1>6 DEF Shape
  <1>8. CASE a = Null /\ UNCHANGED <<name, mixed>>
    BY <1>0, <1>2, <1>3, <1>4, <1>5, <1>7, <1>8, AnsweredAccount DEF LoginIInv
  <1>9. CASE a = "saved" /\ mixed' = (mixed \/ Account!Asking("me") # {} \/ ~asked[i].heard)
    <2>1. AccountInv'
      <3> SUFFICES ASSUME ~mixed'  PROVE  AccountInv'
        BY DEF AccountInv
      <3>1. ~mixed /\ Account!Asking("me") = {} /\ asked[i].heard
        BY <1>9
      <3>2. AskingMe = {}
        BY <1>0, <3>1 DEF AskingMe, Account!Asking, Account!Heard, LoginRequests, RequestOK, Me,
                          Send, Verify, Update, Logout
      <3>3. AskingMe' = {}
        BY <1>2, <3>2 DEF AskingMe, Answered
      <3>4. i \in Saved'
        BY <1>0, <1>2, <1>9, <3>1, AccountConstantsOK DEF Saved, Answered, Account!ConstantsOK
      <3>5. Says(cookie).id' = Says(cookie).id
        BY <1>3 DEF Says
      <3>6. QED
        BY <1>3, <3>1, <3>3, <3>4, <3>5 DEF LoginIInv, AccountInv
    <2>2. QED
      BY <1>4, <1>5, <1>7, <2>1 DEF LoginIInv
  <1>10. QED
    BY <1>1, <1>8, <1>9

\* A verification reads, or is refused.
LEMMA ReadsKept ==
  ASSUME LoginIInv, NEW i \in DOMAIN asked, Account!VerifyReads(i)
  PROVE  LoginIInv'
  <1>0. /\ LoginRequests /\ Shape /\ RequestOK(asked[i]) /\ asked[i].kind = "verify"
        /\ asked[i].state = "sent"
        /\ asked[i].what \in Tries
    BY DEF LoginIInv, LoginRequests, Account!VerifyReads, RequestOK, Me, Send, Verify, Update,
           Logout
  <1> DEFINE txn == asked[i].what.txn
             found == {o \in otps : o.txn = txn}
             together == \E j \in DOMAIN asked : asked[j].state = "read" /\ asked[j].what.txn = txn
  <1>1. UNCHANGED <<Account!client, next, Account!server, mails, crossed, mixed, guesses>>
    BY DEF Account!VerifyReads
  <1>2. UNCHANGED <<route, form, user, loading, cookie, did, next, otps, name, mails, crossed, mixed, guesses>>
    BY <1>1 DEF Account!client, Account!server
  <1>3. Shape'
    BY <1>0, <1>2 DEF Shape
  <1>4. CASE Account!Answering(i, Null) /\ raced' = raced
    <2>1. Answered(i, Null)
      BY <1>0, <1>4, AnsweringFacts
    <2>2. LoginRequests' /\ Account!LoadingMeansAsked' /\ FormInv'
      BY <1>0, <1>1, <2>1, AnsweredKept DEF Cookies
    <2>3. MailInv' /\ CodesInv' /\ AccountInv'
      BY <1>0, <1>2, <1>4, <2>1, AnsweredMails, AnsweredCodes, AnsweredAccount
    <2>4. QED
      BY <1>3, <2>2, <2>3 DEF LoginIInv
  <1>5. ASSUME NEW o \in otps, o.txn = txn,
               asked' = [asked EXCEPT ![i].state = "read", ![i].answer = o.attempts],
               raced' = IF together THEN raced \cup {txn} ELSE raced
        PROVE  LoginIInv'
    <2>0. DOMAIN asked[i] = {"kind", "what", "cookie", "state", "answer", "heard", "form"}
      BY <1>0 DEF RequestOK
    <2>1. /\ DOMAIN asked' = DOMAIN asked /\ \A j \in DOMAIN asked : j # i => asked'[j] = asked[j]
          /\ asked'[i] = [asked[i] EXCEPT !.state = "read", !.answer = o.attempts]
      BY <1>5
    <2>2. /\ asked'[i].state = "read" /\ asked'[i].answer = o.attempts /\ asked'[i].kind = "verify"
          /\ asked'[i].what = asked[i].what /\ asked'[i].cookie = asked[i].cookie
          /\ asked'[i].heard = asked[i].heard /\ asked'[i].form = asked[i].form
          /\ DOMAIN asked'[i] = DOMAIN asked[i]
      BY <1>0, <2>0, <2>1
    <2>a. \A j \in DOMAIN asked :
            /\ asked'[j].kind = asked[j].kind /\ asked'[j].form = asked[j].form
            /\ asked'[j].heard = asked[j].heard /\ asked'[j].what = asked[j].what
            /\ j # i => asked'[j] = asked[j]
      <3> SUFFICES ASSUME NEW j \in DOMAIN asked
                   PROVE  /\ asked'[j].kind = asked[j].kind /\ asked'[j].form = asked[j].form
                          /\ asked'[j].heard = asked[j].heard /\ asked'[j].what = asked[j].what
                          /\ j # i => asked'[j] = asked[j]
        OBVIOUS
      <3>1. CASE j = i
        BY <1>0, <2>2, <3>1
      <3>2. CASE j # i
        BY <2>1, <3>2
      <3>3. QED
        BY <3>1, <3>2
    <2>3. o.attempts \in 0 .. MAX_ATTEMPTS /\ txn \in Account!Ids
      BY <1>0, <1>5 DEF Shape
    <2>4. RequestOK(asked'[i])
      BY <1>0, <2>2, <2>3 DEF RequestOK, Me, Send, Verify, Update, Logout
    <2>5. LoginRequests'
      <3>1. Twice' = Twice
        BY <1>0, <2>1, <2>2 DEF Twice
      <3>2. \A j \in DOMAIN asked' : RequestOK(asked'[j]) /\ (asked'[j].form => route' = "signin")
        BY <1>0, <1>2, <2>1, <2>2, <2>4 DEF LoginRequests
      <3>3. QED
        BY <1>0, <1>2, <2>1, <3>1, <3>2 DEF LoginRequests
    <2>6. Account!LoadingMeansAsked'
      <3>1. Account!Heard' = Account!Heard
        BY <2>1, <2>2 DEF Account!Heard
      <3>2. QED
        BY <1>2, <3>1 DEF LoginIInv, Account!LoadingMeansAsked
    <2>7. FormInv'
      <3>1. OfTheForm' = OfTheForm /\ \A j \in OfTheForm : asked'[j].what = asked[j].what
        BY <2>1, <2>a DEF OfTheForm
      <3>2. QED
        BY <1>2, <3>1 DEF LoginIInv, FormInv
    <2>8. AccountInv'
      <3>1. AskingMe' = AskingMe /\ i \notin AskingMe
        BY <1>0, <2>1, <2>a DEF AskingMe
      <3>2. \A j \in AskingMe : asked'[j] = asked[j]
        BY <2>a, <3>1 DEF AskingMe
      <3>3. Saved \subseteq Saved'
        BY <1>0, <2>1, <2>a DEF Saved
      <3>4. Says(cookie)' = Says(cookie)
        BY <1>2 DEF Says
      <3>5. QED
        BY <1>2, <3>1, <3>2, <3>3, <3>4 DEF LoginIInv, AccountInv
    <2>9. MailInv'
      <3>1. ASSUME NEW j \in DOMAIN asked', asked'[j].kind = "send"
            PROVE  j \in DOMAIN asked /\ asked'[j] = asked[j]
        BY <1>0, <2>1, <2>a, <3>1
      <3>2. QED
        BY <1>2, <3>1 DEF LoginIInv, MailInv
    <2>10. CodesInv'
      <3>1. \A j \in DOMAIN asked' : asked'[j].state = "read" => \E m \in mails' : m.txn = asked'[j].what.txn
        BY <1>2, <1>5, <2>1, <2>2 DEF LoginIInv, CodesInv
      <3>2. \A t : Readers(t)' = IF t = txn THEN Readers(t) \cup {i} ELSE Readers(t)
        <4>1. TAKE t
        <4>2. i \in Readers(t)' <=> t = txn
          BY <2>1, <2>2 DEF Readers
        <4>3. i \notin Readers(t)
          BY <1>0 DEF Readers
        <4>4. \A j : j # i => (j \in Readers(t)' <=> j \in Readers(t))
          BY <2>1 DEF Readers
        <4>5. QED
          BY <4>2, <4>3, <4>4
      <3>3. raced \subseteq raced' /\ (txn \notin raced' => Readers(txn) = {})
        BY <1>5 DEF Readers
      <3> HIDE DEF txn, together, found
      <3>4. ASSUME NEW t \in Account!Ids \ raced'
            PROVE  /\ \A k, j \in Readers(t)' : k = j
                   /\ \A k \in Readers(t)' : guesses[t].right = 0 /\ guesses[t].wrong <= asked'[k].answer
        <4>1. t \in Account!Ids \ raced
          BY <3>3
        <4>2. CASE t = txn
          <5>1. Readers(t)' = {i}
            BY <3>2, <3>3, <4>2
          <5>2. guesses[t].right = 0 /\ guesses[t].wrong <= o.attempts
            BY <1>5, <4>1, <4>2 DEF LoginIInv, CodesInv
          <5>3. QED
            BY <2>2, <5>1, <5>2
        <4>3. CASE t # txn
          <5>1. Readers(t)' = Readers(t)
            BY <3>2, <4>3
          <5>2. i \notin Readers(t) /\ \A j \in Readers(t) : asked'[j] = asked[j]
            BY <1>0, <2>1 DEF Readers
          <5>3. QED
            BY <4>1, <5>1, <5>2 DEF LoginIInv, CodesInv
        <4>4. QED
          BY <4>2, <4>3
      <3>5. QED
        BY <1>2, <3>1, <3>3, <3>4 DEF LoginIInv, CodesInv
    <2>11. QED
      BY <1>3, <2>5, <2>6, <2>7, <2>8, <2>9, <2>10 DEF LoginIInv
  <1>6. CASE ~(Account!Answering(i, Null) /\ raced' = raced)
    <2>1. /\ found # {}
          /\ asked' = [asked EXCEPT ![i].state = "read",
                                    ![i].answer = (CHOOSE o \in found : TRUE).attempts]
          /\ raced' = IF together THEN raced \cup {txn} ELSE raced
      BY <1>6 DEF Account!VerifyReads
    <2>2. (CHOOSE o \in found : TRUE) \in found
      BY <2>1
    <2>3. QED
      BY <1>5, <2>1, <2>2
  <1>7. QED
    BY <1>4, <1>6

\* What counting a right, or a wrong, code leaves.
LEMMA TallyFacts ==
  ASSUME guesses \in [Account!Ids -> [right : Nat, wrong : Nat]], NEW t \in Account!Ids
  PROVE  /\ Account!Tally(t, "right") =>
              /\ guesses' \in [Account!Ids -> [right : Nat, wrong : Nat]]
              /\ \A u \in Account!Ids : u # t => guesses'[u] = guesses[u]
              /\ guesses'[t].right = guesses[t].right + 1 /\ guesses'[t].wrong = guesses[t].wrong
         /\ Account!Tally(t, "wrong") =>
              /\ guesses' \in [Account!Ids -> [right : Nat, wrong : Nat]]
              /\ \A u \in Account!Ids : u # t => guesses'[u] = guesses[u]
              /\ guesses'[t].right = guesses[t].right /\ guesses'[t].wrong = guesses[t].wrong + 1
  <1>0. guesses[t] \in [right : Nat, wrong : Nat]
    OBVIOUS
  <1>1. ASSUME Account!Tally(t, "right")
        PROVE  /\ guesses' \in [Account!Ids -> [right : Nat, wrong : Nat]]
               /\ \A u \in Account!Ids : u # t => guesses'[u] = guesses[u]
               /\ guesses'[t].right = guesses[t].right + 1 /\ guesses'[t].wrong = guesses[t].wrong
    <2> DEFINE h == [guesses[t] EXCEPT !["right"] = @ + 1]
    <2>1. h \in [right : Nat, wrong : Nat] /\ h.right = guesses[t].right + 1 /\ h.wrong = guesses[t].wrong
      BY ONLY <1>0
    <2>2. guesses' = [guesses EXCEPT ![t] = h]
      BY <1>1 DEF Account!Tally
    <2> HIDE DEF h
    <2>3. QED
      BY <2>1, <2>2
  <1>2. ASSUME Account!Tally(t, "wrong")
        PROVE  /\ guesses' \in [Account!Ids -> [right : Nat, wrong : Nat]]
               /\ \A u \in Account!Ids : u # t => guesses'[u] = guesses[u]
               /\ guesses'[t].right = guesses[t].right /\ guesses'[t].wrong = guesses[t].wrong + 1
    <2> DEFINE h == [guesses[t] EXCEPT !["wrong"] = @ + 1]
    <2>1. h \in [right : Nat, wrong : Nat] /\ h.right = guesses[t].right /\ h.wrong = guesses[t].wrong + 1
      BY ONLY <1>0
    <2>2. guesses' = [guesses EXCEPT ![t] = h]
      BY <1>2 DEF Account!Tally
    <2> HIDE DEF h
    <2>3. QED
      BY <2>1, <2>2
  <1>3. QED
    BY <1>1, <1>2

\* A verification decides on what it read.
LEMMA WritesKept ==
  ASSUME LoginIInv, NEW i \in DOMAIN asked, Account!VerifyWrites(i)
  PROVE  LoginIInv'
  <1>a. PICK t : t = asked[i].what.txn
    OBVIOUS
  <1>0. /\ LoginRequests /\ Shape /\ RequestOK(asked[i]) /\ asked[i].kind = "verify"
        /\ asked[i].state = "read"
        /\ asked[i].what \in Tries /\ asked[i].answer \in 0 .. MAX_ATTEMPTS
    BY DEF LoginIInv, LoginRequests, Account!VerifyWrites, RequestOK, Me, Send, Verify, Update,
           Logout
  <1>1. PICK mail \in mails : mail.txn = t
    BY <1>0, <1>a DEF LoginIInv, CodesInv
  <1>2. t \in Account!Ids /\ Account!EmailOf(t) \in Emails
    <2>1. mails \subseteq [txn : Account!Ids, email : Emails]
      BY <1>0 DEF Shape
    <2>2. (CHOOSE m \in mails : m.txn = t) \in mails
      BY <1>1
    <2>3. QED
      BY <1>1, <2>1, <2>2 DEF Account!EmailOf
  <1>3. PICK a \in Cookies :
          /\ Account!Answering(i, a)
          /\ \/ asked[i].answer >= MAX_ATTEMPTS /\ otps' = Account!Removed(t) /\ guesses' = guesses
             \/ asked[i].answer < MAX_ATTEMPTS /\ otps' = Account!Removed(t) /\ Account!Tally(t, "right")
             \/ /\ asked[i].answer < MAX_ATTEMPTS
                /\ otps' = Account!Rewritten(t, asked[i].answer + 1) /\ Account!Tally(t, "wrong")
    <2>1. Null \in Cookies /\ Account!EmailOf(t) \in Cookies
      BY <1>2 DEF Cookies
    <2>2. CASE asked[i].answer >= MAX_ATTEMPTS /\ otps' = Account!Removed(t) /\ Account!Answering(i, Null) /\ guesses' = guesses
      BY <2>1, <2>2
    <2>3. CASE /\ asked[i].answer < MAX_ATTEMPTS /\ otps' = Account!Removed(t) /\ Account!Tally(t, "right")
               /\ \E open \in BOOLEAN : Account!Answering(i, IF open THEN Account!EmailOf(t) ELSE Null)
      <3>1. Account!Answering(i, Account!EmailOf(t)) \/ Account!Answering(i, Null)
        BY <2>3
      <3>2. QED
        BY <2>1, <2>3, <3>1
    <2>4. CASE /\ asked[i].answer < MAX_ATTEMPTS
               /\ otps' = Account!Rewritten(t, asked[i].answer + 1) /\ Account!Tally(t, "wrong")
               /\ Account!Answering(i, Null)
      BY <2>1, <2>4
    <2>5. QED
      BY <1>a, <2>2, <2>3, <2>4 DEF Account!VerifyWrites
  <1>4. /\ Answered(i, a) /\ UNCHANGED <<Account!client, next, name, mails, crossed, mixed, raced>>
    BY <1>0, <1>3, AnsweringFacts DEF Account!VerifyWrites
  <1>5. UNCHANGED <<route, form, user, loading, cookie, did>>
    BY <1>4 DEF Account!client
  <1>6. LoginRequests' /\ Account!LoadingMeansAsked' /\ FormInv'
    BY <1>0, <1>3, <1>4, <1>5, AnsweredKept
  <1>7. AccountInv' /\ MailInv'
    BY <1>0, <1>4, <1>5, AnsweredAccount, AnsweredMails
  <1> DEFINE g == guesses[t]
  <1>8. g \in [right : Nat, wrong : Nat]
    BY <1>0, <1>2 DEF Shape
  <1>9. /\ guesses' \in [Account!Ids -> [right : Nat, wrong : Nat]]
        /\ \A u \in Account!Ids : u # t => guesses'[u] = guesses[u]
        /\ \/ guesses' = guesses
           \/ guesses'[t].right = g.right + 1 /\ guesses'[t].wrong = g.wrong
           \/ guesses'[t].right = g.right /\ guesses'[t].wrong = g.wrong + 1
    <2>1. guesses \in [Account!Ids -> [right : Nat, wrong : Nat]]
      BY <1>0 DEF Shape
    <2>2. CASE guesses' = guesses
      BY <2>1, <2>2
    <2>3. CASE Account!Tally(t, "right")
      BY <1>2, <2>1, <2>3, TallyFacts
    <2>4. CASE Account!Tally(t, "wrong")
      BY <1>2, <2>1, <2>4, TallyFacts
    <2>5. QED
      BY <1>3, <2>2, <2>3, <2>4
  <1>10. MAX_ATTEMPTS \in Nat /\ asked[i].answer \in Nat
    BY <1>0, AccountConstantsOK DEF Account!ConstantsOK
  <1>11. /\ \A o \in otps' : o.txn # t => o \in otps
         /\ otps' \subseteq [txn : Account!Ids, attempts : 0 .. MAX_ATTEMPTS]
         /\ \A o \in otps' : o.txn = t => asked[i].answer < MAX_ATTEMPTS /\ o.attempts = asked[i].answer + 1
    <2>1. CASE otps' = Account!Removed(t)
      BY <1>0, <2>1 DEF Account!Removed, Shape
    <2>2. CASE asked[i].answer < MAX_ATTEMPTS /\ otps' = Account!Rewritten(t, asked[i].answer + 1)
      <3>1. asked[i].answer + 1 \in 0 .. MAX_ATTEMPTS
        BY <1>0, <1>10, <2>2
      <3>2. [txn |-> t, attempts |-> asked[i].answer + 1] \in [txn : Account!Ids, attempts : 0 .. MAX_ATTEMPTS]
        BY <1>2, <3>1
      <3>3. QED
        BY <1>0, <2>2, <3>2 DEF Account!Rewritten, Shape
    <2>3. QED
      BY <1>3, <2>1, <2>2
  <1>12. Shape'
    BY <1>0, <1>4, <1>5, <1>9, <1>11 DEF Shape
  <1>13. /\ i \in Readers(t) /\ \A u : Readers(u)' \subseteq Readers(u) \ {i}
         /\ \A u : \A j \in Readers(u)' : asked'[j] = asked[j]
    BY <1>0, <1>a, <1>4 DEF Readers, Answered
  <1>14. CodesInv'
    <2>1. \A o \in otps' : \E m \in mails' : m.txn = o.txn
      BY <1>1, <1>4, <1>11 DEF LoginIInv, CodesInv
    <2>2. \A j \in DOMAIN asked' : asked'[j].state = "read" => \E m \in mails' : m.txn = asked'[j].what.txn
      BY <1>4 DEF LoginIInv, CodesInv, Answered
    <2>3. \A u \in Account!Ids : (\A m \in mails' : m.txn # u) => guesses'[u].right = 0 /\ guesses'[u].wrong = 0
      <3>1. TAKE u \in Account!Ids
      <3>2. CASE u = t
        BY <1>1, <1>4, <3>2
      <3>3. CASE u # t
        BY <1>4, <1>9, <3>3 DEF LoginIInv, CodesInv
      <3>4. QED
        BY <3>2, <3>3
    <2>4. ASSUME NEW u \in Account!Ids \ raced', u # t
          PROVE  /\ \A k, j \in Readers(u)' : k = j
                 /\ \A o \in otps' : o.txn = u => guesses'[u].right = 0 /\ guesses'[u].wrong <= o.attempts
                 /\ \A k \in Readers(u)' : guesses'[u].right = 0 /\ guesses'[u].wrong <= asked'[k].answer
                 /\ guesses'[u].right <= 1 /\ guesses'[u].wrong <= MAX_ATTEMPTS
      <3>1. u \in Account!Ids \ raced /\ guesses'[u] = guesses[u]
        BY <1>4, <1>9, <2>4
      <3>2. \A o \in otps' : o.txn = u => o \in otps
        BY <1>11, <2>4
      <3>3. QED
        BY <1>13, <3>1, <3>2 DEF LoginIInv, CodesInv
    <2>5. ASSUME t \notin raced'
          PROVE  /\ Readers(t)' = {}
                 /\ \A o \in otps' : o.txn = t => guesses'[t].right = 0 /\ guesses'[t].wrong <= o.attempts
                 /\ guesses'[t].right <= 1 /\ guesses'[t].wrong <= MAX_ATTEMPTS
      <3>1. t \in Account!Ids \ raced
        BY <1>2, <1>4, <2>5
      <3>2. /\ \A k, j \in Readers(t) : k = j
            /\ g.right = 0 /\ g.wrong <= asked[i].answer
            /\ g.right <= 1 /\ g.wrong <= MAX_ATTEMPTS
        BY <1>13, <3>1 DEF LoginIInv, CodesInv
      <3>3. Readers(t)' = {}
        BY <1>13, <3>2
      <3>4. CASE asked[i].answer >= MAX_ATTEMPTS /\ guesses' = guesses
        BY <1>10, <1>11, <3>2, <3>3, <3>4
      <3>5. CASE asked[i].answer < MAX_ATTEMPTS /\ otps' = Account!Removed(t) /\ Account!Tally(t, "right")
        <4>1. guesses'[t].right = 1 /\ guesses'[t].wrong = g.wrong
          <5>1. guesses \in [Account!Ids -> [right : Nat, wrong : Nat]]
            BY <1>0 DEF Shape
          <5>2. guesses'[t].right = g.right + 1 /\ guesses'[t].wrong = g.wrong
            BY <1>2, <3>5, <5>1, TallyFacts
          <5>3. QED
            BY <3>2, <5>2
        <4>2. \A o \in otps' : o.txn # t
          BY <3>5 DEF Account!Removed
        <4>3. QED
          BY <3>2, <3>3, <4>1, <4>2
      <3>6. CASE asked[i].answer < MAX_ATTEMPTS /\ Account!Tally(t, "wrong")
        <4>1. guesses'[t].right = g.right /\ guesses'[t].wrong = g.wrong + 1
          <5>1. guesses \in [Account!Ids -> [right : Nat, wrong : Nat]]
            BY <1>0 DEF Shape
          <5>2. QED
            BY <1>2, <3>6, <5>1, TallyFacts
        <4>2. g.wrong + 1 <= asked[i].answer + 1 /\ g.wrong + 1 <= MAX_ATTEMPTS
          BY <1>8, <1>10, <3>2, <3>6
        <4>3. QED
          BY <1>11, <3>2, <3>3, <4>1, <4>2
      <3>7. QED
        BY <1>3, <3>4, <3>5, <3>6
    <2>6. ASSUME NEW u \in Account!Ids \ raced'
          PROVE  /\ \A k, j \in Readers(u)' : k = j
                 /\ \A o \in otps' : o.txn = u => guesses'[u].right = 0 /\ guesses'[u].wrong <= o.attempts
                 /\ \A k \in Readers(u)' : guesses'[u].right = 0 /\ guesses'[u].wrong <= asked'[k].answer
                 /\ guesses'[u].right <= 1 /\ guesses'[u].wrong <= MAX_ATTEMPTS
      <3>1. CASE u # t
        BY <2>4, <3>1
      <3>2. CASE u = t
        <4>1. Readers(u)' = {}
          BY <2>5, <3>2
        <4>2. QED
          BY <2>5, <3>2, <4>1
      <3>3. QED
        BY <3>1, <3>2
    <2>7. QED
      BY <2>1, <2>2, <2>3, <2>6 DEF CodesInv
  <1>15. QED
    BY <1>6, <1>7, <1>12, <1>14 DEF LoginIInv

\* A transaction expires.
LEMMA ExpiresKept ==
  ASSUME LoginIInv, NEW o \in otps, Account!Expires(o)
  PROVE  LoginIInv'
  <1>1. /\ otps' \subseteq otps
        /\ UNCHANGED <<route, form, user, loading, cookie, did, asked, next, name, mails, crossed, mixed,
                       raced, guesses>>
    BY DEF Account!Expires, Account!client, Account!ghosts
  <1>2. LoginRequests'
    BY <1>1 DEF LoginIInv, LoginRequests, Twice
  <1>3. Shape' /\ Account!LoadingMeansAsked'
    BY <1>1 DEF LoginIInv, Shape, Account!LoadingMeansAsked, Account!Heard
  <1>4. AccountInv' /\ MailInv' /\ FormInv'
    BY <1>1 DEF LoginIInv, AccountInv, AskingMe, Saved, Says, MailInv, FormInv, OfTheForm
  <1>5. CodesInv'
    <2>1. \A t : Readers(t)' = Readers(t)
      BY <1>1 DEF Readers
    <2>2. QED
      BY <1>1, <2>1 DEF LoginIInv, CodesInv
  <1>6. QED
    BY <1>2, <1>3, <1>4, <1>5 DEF LoginIInv

-----------------------------------------------------------------------------
(* Answers. *)

\* An answer that only lowers the flag.
LEMMA FailsKept ==
  ASSUME LoginIInv, NEW i \in DOMAIN asked, Account!VerifyFails(i) \/ Account!UpdateFails(i) \/ Account!LogoutFails(i)
  PROVE  LoginIInv'
  <1>0. /\ LoginRequests /\ Shape /\ asked[i].kind \in {"verify", "update", "logout"}
        /\ mixed \in BOOLEAN
    BY DEF LoginIInv, Account!VerifyFails, Account!UpdateFails, Account!LogoutFails, Shape
  <1>1. /\ loading' = FALSE /\ asked' = Account!Over(i)
        /\ UNCHANGED <<route, form, user, cookie, next, did, Account!server, mails, crossed, raced, guesses>>
        /\ mixed' \in BOOLEAN
        /\ mixed' = mixed \/ (mixed' /\ asked[i].kind = "update")
        /\ ~mixed' => ~mixed /\ i \notin Saved
    BY <1>0 DEF Account!VerifyFails, Account!UpdateFails, Account!LogoutFails, Account!ghosts, Saved
  <1>2. Client({i}, {})
    BY <1>0, <1>1, OverStep
  <1>3. i \notin AskingMe /\ i \notin OfTheForm
    BY <1>0 DEF AskingMe, OfTheForm
  <1>4. LoginRequests'
    BY <1>0, <1>1, <1>2, ClientRequests DEF Counted
  <1>5. Shape'
    BY <1>0, <1>1 DEF Shape, Account!server
  <1>6. MailInv' /\ CodesInv' /\ Account!LoadingMeansAsked'
    BY <1>1, <1>2, ClientMails, ClientCodes, ClientLoading DEF LoginIInv
  <1>7. FormInv'
    BY <1>1, <1>2, <1>3, ClientForm DEF LoginIInv
  <1>8. AccountInv'
    <2>1. CASE mixed'
      BY <2>1 DEF AccountInv
    <2>2. CASE ~mixed'
      BY <1>0, <1>1, <1>2, <1>3, <2>2, ClientAccount DEF LoginIInv
    <2>3. QED
      BY <2>1, <2>2
  <1>9. QED
    BY <1>4, <1>5, <1>6, <1>7, <1>8 DEF LoginIInv

\* The answer to a request for a code.
LEMMA SendArrivesKept ==
  ASSUME LoginIInv, NEW i \in DOMAIN asked, Account!SendArrives(i)
  PROVE  LoginIInv'
  <1>0. /\ LoginRequests /\ Shape /\ asked[i].kind = "send" /\ form \in Forms /\ RequestOK(asked[i])
        /\ i \in Account!Ids /\ asked[i].heard
    BY InIds DEF LoginIInv, Account!SendArrives, Shape, LoginRequests
  <1>1. PICK a \in {asked[i].answer, Null} :
          form' = IF asked[i].form THEN [form EXCEPT !.txn = a] ELSE form
    BY DEF Account!SendArrives
  <1>2. /\ loading' = FALSE /\ asked' = Account!Over(i)
        /\ UNCHANGED <<route, user, cookie, next, did, Account!server, mails, crossed, mixed, raced, guesses>>
    BY DEF Account!SendArrives, Account!ghosts
  <1>3. a # Null => a = i /\ [txn |-> i, email |-> asked[i].what] \in mails
    BY <1>0 DEF LoginIInv, MailInv, RequestOK, Me, Send, Verify, Update, Logout
  <1>4. /\ form' \in Forms /\ form'.step = form.step /\ form'.email = form.email
        /\ asked[i].form => form'.txn = a
        /\ ~asked[i].form => form'.txn = form.txn
    BY <1>0, <1>1, <1>3 DEF Forms
  <1>5. Client({i}, {}) /\ \A j \in DOMAIN asked \ {i} : asked'[j] = asked[j]
    BY <1>0, <1>2, OverStep
  <1>6. i \notin AskingMe /\ i \notin Saved
    BY <1>0 DEF AskingMe, Saved
  <1>7. LoginRequests'
    BY <1>0, <1>2, <1>5, ClientRequests DEF Counted
  <1>8. Shape'
    BY <1>0, <1>2, <1>4 DEF Shape, Account!server
  <1>9. MailInv' /\ CodesInv' /\ Account!LoadingMeansAsked'
    BY <1>2, <1>5, ClientMails, ClientCodes, ClientLoading DEF LoginIInv
  <1>10. AccountInv'
    BY <1>2, <1>5, <1>6, ClientAccount DEF LoginIInv
  <1>11. FormInv'
    <2>1. CASE ~asked[i].form
      <3>1. i \notin OfTheForm
        BY <2>1 DEF OfTheForm
      <3>2. QED
        BY <1>2, <1>4, <1>5, <2>1, <3>1, ClientForm DEF LoginIInv
    <2>2. CASE asked[i].form
      <3>1. i \in OfTheForm
        BY <1>0, <2>2 DEF OfTheForm
      <3>2. OfTheForm' \subseteq OfTheForm \ {i}
        BY <1>5 DEF OfTheForm, Client
      <3>3. ~crossed => OfTheForm = {i} /\ OfTheForm' = {}
        BY <3>1, <3>2 DEF LoginIInv, FormInv
      <3>4. ~crossed /\ form.step = "otp" => asked[i].what = form.email
        BY <3>1 DEF LoginIInv, FormInv
      <3>5. QED
        BY <1>2, <1>3, <1>4, <2>2, <3>3, <3>4 DEF FormInv
    <2>3. QED
      BY <2>1, <2>2
  <1>12. QED
    BY <1>7, <1>8, <1>9, <1>10, <1>11 DEF LoginIInv

\* After these answers nobody is shown.
LEMMA NobodyShown ==
  ASSUME LoginIInv, user' = Null, mixed' = (mixed \/ Account!Asking("me") # {}),
         \A i \in DOMAIN asked' : asked'[i].kind = "me" =>
            \/ i \in DOMAIN asked /\ asked[i].kind = "me"
            \/ asked'[i].cookie = cookie' /\ asked'[i].answer = Null
  PROVE  AccountInv'
  <1>1. ~mixed' => AskingMe = {}
    BY DEF LoginIInv, AskingMe, Account!Asking, Account!Heard, LoginRequests, RequestOK, Me, Send,
           Verify, Update, Logout
  <1>2. QED
    BY <1>1 DEF AccountInv, AskingMe

\* Somebody signs in.
LEMMA SignInKept ==
  ASSUME LoginIInv, NEW i \in DOMAIN asked, Account!VerifyArrives(i)
  PROVE  LoginIInv'
  <1>0. /\ LoginRequests /\ Shape /\ asked[i].kind = "verify" /\ asked[i].heard
        /\ asked[i].answer \in Cookies
    BY DEF LoginIInv, Account!VerifyArrives, LoginRequests, RequestOK, Me, Send, Verify, Update,
           Logout
  <1>1. /\ cookie' = asked[i].answer /\ user' = Null /\ loading' = TRUE /\ route' = "dashboard"
        /\ form' = Account!Blank /\ next' = next + 1
        /\ asked' = Account!Sending(Account!Orphaned(Account!Over(i), "dashboard"), Account!WhoAmI(cookie'))
        /\ mixed' = (mixed \/ Account!Asking("me") # {})
        /\ UNCHANGED <<did, Account!server, mails, crossed, raced, guesses>>
    BY DEF Account!VerifyArrives
  <1> DEFINE rs == Account!Orphaned(Account!Over(i), "dashboard")
  <1>2. DOMAIN Account!Over(i) = DOMAIN asked \ {i} /\ \A j \in DOMAIN asked \ {i} : Account!Over(i)[j] = asked[j]
    BY OverFacts
  <1>3. \A j \in DOMAIN Account!Over(i) : RequestOK(Account!Over(i)[j])
    BY <1>0, <1>2 DEF LoginRequests
  <1>4. /\ DOMAIN rs = DOMAIN asked \ {i}
        /\ \A j \in DOMAIN rs : Same(rs[j], asked[j]) /\ ~rs[j].form
    BY <1>2, <1>3, OrphanedFacts
  <1>5. cookie' \in Cookies
    BY <1>0, <1>1
  <1> HIDE DEF rs
  <1>6. asked' = Account!Sending(rs, Account!WhoAmI(cookie'))
    BY <1>1 DEF rs
  <1>7. Client({i}, {next}) /\ asked'[next] = Account!WhoAmI(cookie') /\ \A j \in DOMAIN rs : asked'[j] = rs[j]
    BY <1>0, <1>1, <1>4, <1>5, <1>6, ThenStep
  <1>8. Account!WhoAmI(cookie').kind = "me" /\ Account!WhoAmI(cookie').cookie = cookie' /\ Account!WhoAmI(cookie').answer = Null
    BY DEF Account!WhoAmI
  <1>9. i \in Twice
    BY <1>0 DEF Twice
  <1>10. LoginRequests'
    BY <1>0, <1>1, <1>7, <1>8, <1>9, ClientRequests DEF Counted
  <1>11. Shape'
    BY <1>0, <1>1, <1>5, BlankForm DEF Shape, Account!server, Pages
  <1>12. MailInv' /\ CodesInv' /\ Account!LoadingMeansAsked'
    BY <1>7, ClientMails, ClientCodes, ClientLoading DEF LoginIInv
  <1>13. FormInv'
    BY <1>1, <1>7, <1>8, ClientForm DEF LoginIInv
  <1>14. AccountInv'
    <2>1. ASSUME NEW j \in DOMAIN asked', asked'[j].kind = "me"
          PROVE  \/ j \in DOMAIN asked /\ asked[j].kind = "me"
                 \/ asked'[j].cookie = cookie' /\ asked'[j].answer = Null
      BY <1>4, <1>7, <1>8, <2>1 DEF Client, Same
    <2>2. QED
      BY <1>1, <2>1, NobodyShown
  <1>15. QED
    BY <1>10, <1>11, <1>12, <1>13, <1>14 DEF LoginIInv

\* A new name is saved.
LEMMA SavedKept ==
  ASSUME LoginIInv, NEW i \in DOMAIN asked, Account!UpdateArrives(i)
  PROVE  LoginIInv'
  <1>0. /\ LoginRequests /\ Shape /\ asked[i].kind = "update" /\ asked[i].heard
        /\ cookie \in Cookies
    BY DEF LoginIInv, Account!UpdateArrives, LoginRequests, Shape
  <1>1. /\ user' = (IF user = Null THEN user ELSE [user EXCEPT !.name = Null])
        /\ loading' = TRUE /\ next' = next + 1
        /\ asked' = Account!Sending(Account!Over(i), Account!WhoAmI(cookie'))
        /\ UNCHANGED <<route, form, cookie, did, Account!server, mails, crossed, mixed, raced, guesses>>
    BY DEF Account!UpdateArrives, Account!ghosts
  <1>2. DOMAIN Account!Over(i) = DOMAIN asked \ {i} /\ \A j \in DOMAIN asked \ {i} : Account!Over(i)[j] = asked[j]
    BY OverFacts
  <1>3. \A j \in DOMAIN Account!Over(i) : /\ Same(Account!Over(i)[j], asked[j]) /\ (Account!Over(i)[j].form => route' = "signin")
                                          /\ form' = Account!Blank \/ Account!Over(i)[j].form = asked[j].form
    BY <1>0, <1>1, <1>2 DEF LoginRequests, RequestOK, Same
  <1>4. Client({i}, {next}) /\ asked'[next] = Account!WhoAmI(cookie')
        /\ \A j \in DOMAIN Account!Over(i) : asked'[j] = Account!Over(i)[j]
    BY <1>0, <1>1, <1>2, <1>3, ThenStep
  <1>5. Account!WhoAmI(cookie').kind = "me" /\ Account!WhoAmI(cookie').cookie = cookie' /\ Account!WhoAmI(cookie').answer = Null
    BY DEF Account!WhoAmI
  <1>6. i \in Twice /\ i \notin OfTheForm
    BY <1>0 DEF Twice, OfTheForm
  <1>7. LoginRequests'
    BY <1>0, <1>1, <1>4, <1>5, <1>6, ClientRequests DEF Counted
  <1>8. user' = Null \/ (user' \in Account!Users /\ user # Null /\ user'.id = user.id)
    BY <1>0, <1>1 DEF Shape, Account!Users
  <1>9. Shape'
    BY <1>0, <1>1, <1>8 DEF Shape, Account!server
  <1>10. MailInv' /\ CodesInv' /\ Account!LoadingMeansAsked'
    BY <1>4, ClientMails, ClientCodes, ClientLoading DEF LoginIInv
  <1>11. FormInv'
    BY <1>1, <1>4, <1>5, <1>6, ClientForm DEF LoginIInv
  <1>12. AccountInv'
    <2>1. ASSUME NEW j \in DOMAIN asked', asked'[j].kind = "me"
          PROVE  \/ j \in AskingMe /\ asked'[j] = asked[j]
                 \/ asked'[j].cookie = cookie' /\ asked'[j].answer = Null
      BY <1>2, <1>4, <1>5, <2>1 DEF Client, AskingMe
    <2>2. next \in AskingMe'
      BY <1>4, <1>5 DEF AskingMe, Client
    <2>3. Says(cookie)' = Says(cookie)
      BY <1>1 DEF Says, Account!server
    <2>4. ASSUME NEW j \in AskingMe', ~mixed
          PROVE  asked'[j].cookie = cookie /\ asked'[j].answer \in {Null, Says(cookie)}
      BY <1>1, <2>1, <2>4 DEF AskingMe, LoginIInv, AccountInv
    <2>5. QED
      BY <1>1, <1>8, <2>2, <2>3, <2>4 DEF LoginIInv, AccountInv
  <1>13. QED
    BY <1>7, <1>9, <1>10, <1>11, <1>12 DEF LoginIInv

\* A page that changes with an answer.
LEMMA PageKept ==
  ASSUME LoginIInv, NEW i \in DOMAIN asked, route' \in Pages, form' = Account!FormOn(route'), loading' = FALSE,
         asked' = Account!Orphaned(Account!Over(i), route'), UNCHANGED <<next, did, Account!server, mails, crossed, raced, guesses>>,
         asked[i].kind # "send"
  PROVE  /\ Client({i}, {}) /\ form' \in Forms
         /\ LoginRequests' /\ MailInv' /\ CodesInv' /\ Account!LoadingMeansAsked' /\ FormInv'
  <1>0. LoginRequests /\ Shape
    BY DEF LoginIInv
  <1>1. DOMAIN Account!Over(i) = DOMAIN asked \ {i} /\ \A j \in DOMAIN asked \ {i} : Account!Over(i)[j] = asked[j]
    BY OverFacts
  <1>2. Client({i}, {})
    BY <1>0, <1>1, LeaveStep
  <1>3. LoginRequests'
    BY <1>0, <1>2, ClientRequests DEF Counted
  <1>4. MailInv' /\ CodesInv' /\ Account!LoadingMeansAsked'
    BY <1>2, ClientMails, ClientCodes, ClientLoading DEF LoginIInv
  <1>5. form' \in {Account!Blank, form} /\ form' \in Forms
    BY <1>0, BlankForm DEF Account!FormOn, Shape
  <1>6. i \notin OfTheForm
    BY DEF OfTheForm
  <1>7. FormInv'
    BY <1>2, <1>5, <1>6, ClientForm DEF LoginIInv
  <1>8. QED
    BY <1>2, <1>3, <1>4, <1>5, <1>7

\* Who the person is is answered.
LEMMA MeArrivesKept ==
  ASSUME LoginIInv, NEW i \in DOMAIN asked, Account!MeArrives(i)
  PROVE  LoginIInv'
  <1>0. /\ LoginRequests /\ Shape /\ asked[i].kind = "me"
        /\ asked[i].answer \in Account!Users \cup {Null}
        /\ route \in Pages
    BY DEF LoginIInv, Account!MeArrives, LoginRequests, Shape, RequestOK, Me, Send, Verify,
           Update, Logout
  <1>1. /\ user' \in {asked[i].answer, Null} /\ loading' = FALSE
        /\ route' = Account!Shown(route, user')
        /\ form' = Account!FormOn(route') /\ asked' = Account!Orphaned(Account!Over(i), route')
        /\ UNCHANGED <<cookie, next, did, Account!server, mails, crossed, mixed, raced, guesses>>
    BY DEF Account!MeArrives, Account!ghosts
  <1>2. route' \in Pages
    BY <1>0, <1>1 DEF Account!Shown, Pages
  <1>3. /\ Client({i}, {}) /\ form' \in Forms
        /\ LoginRequests' /\ MailInv' /\ CodesInv' /\ Account!LoadingMeansAsked' /\ FormInv'
    BY <1>0, <1>1, <1>2, PageKept
  <1>4. Shape'
    BY <1>0, <1>1, <1>2, <1>3 DEF Shape, Account!server
  <1>5. AccountInv'
    <2>1. AskingMe' \subseteq AskingMe /\ \A j \in AskingMe' : /\ asked'[j].cookie = asked[j].cookie
                                                             /\ asked'[j].answer = asked[j].answer
      BY <1>3 DEF AskingMe, Client, Same
    <2>2. Says(cookie)' = Says(cookie) /\ name' = name
      BY <1>1 DEF Says, Account!server
    <2>3. ~mixed => user' \in {Null, Says(cookie)}
      BY <1>0, <1>1 DEF LoginIInv, AccountInv, AskingMe
    <2>4. QED
      BY <1>1, <2>1, <2>2, <2>3 DEF LoginIInv, AccountInv
  <1>6. QED
    BY <1>3, <1>4, <1>5 DEF LoginIInv

\* The person is signed out.
LEMMA SignOutKept ==
  ASSUME LoginIInv, NEW i \in DOMAIN asked, Account!LogoutArrives(i)
  PROVE  LoginIInv'
  <1>0. LoginRequests /\ Shape /\ asked[i].kind = "logout" /\ route \in Pages /\ cookie \in Cookies
    BY DEF LoginIInv, Account!LogoutArrives, Shape
  <1>1. /\ cookie' = (IF PRODUCTION THEN Null ELSE cookie) /\ user' = Null /\ loading' = FALSE
        /\ route' = (IF asked[i].what = "home" THEN route ELSE "home")
        /\ form' = Account!FormOn(route') /\ asked' = Account!Orphaned(Account!Over(i), route')
        /\ mixed' = (mixed \/ Account!Asking("me") # {})
        /\ UNCHANGED <<next, did, Account!server, mails, crossed, raced, guesses>>
    BY DEF Account!LogoutArrives
  <1>2. route' \in Pages /\ cookie' \in Cookies
    BY <1>0, <1>1 DEF Pages, Cookies
  <1>3. /\ Client({i}, {}) /\ form' \in Forms
        /\ LoginRequests' /\ MailInv' /\ CodesInv' /\ Account!LoadingMeansAsked' /\ FormInv'
    BY <1>0, <1>1, <1>2, PageKept
  <1>4. Shape'
    BY <1>0, <1>1, <1>2, <1>3 DEF Shape, Account!server
  <1>5. AccountInv'
    <2>1. \A j \in DOMAIN asked' : asked'[j].kind = "me" => j \in DOMAIN asked /\ asked[j].kind = "me"
      BY <1>3 DEF Client, Same
    <2>2. QED
      BY <1>1, <2>1, NobodyShown
  <1>6. QED
    BY <1>3, <1>4, <1>5 DEF LoginIInv


\* It is inductive.
LEMMA LoginInvariant ==
  /\ Account!Init => LoginIInv
  /\ LoginIInv /\ [Account!Next]_(Account!vars) => LoginIInv'
  <1>1. Account!Init => LoginIInv
    <2> SUFFICES ASSUME Account!Init  PROVE  LoginIInv
      OBVIOUS
    <2>0. /\ cookie \in Cookies /\ asked = [i \in {1} |-> Account!WhoAmI(cookie)] /\ next = 2
          /\ did = 0
          /\ form = Account!Blank /\ user = Null /\ mails = {} /\ otps = {} /\ raced = {}
          /\ crossed = FALSE /\ mixed = FALSE
      BY DEF Account!Init, Cookies
    <2>1. /\ RequestOK(Account!WhoAmI(cookie)) /\ Account!WhoAmI(cookie).kind = "me"
          /\ Account!WhoAmI(cookie).state = "sent"
          /\ Account!WhoAmI(cookie).heard /\ Account!WhoAmI(cookie).cookie = cookie
          /\ ~Account!WhoAmI(cookie).form
          /\ Account!WhoAmI(cookie).answer = Null
      BY <2>0, WhoAmIOK
    <2>2. DOMAIN asked = {1} /\ asked[1] = Account!WhoAmI(cookie)
      BY <2>0
    <2>3. Twice = {} /\ OfTheForm = {} /\ \A t : Readers(t) = {}
      BY <2>1, <2>2 DEF Twice, OfTheForm, Readers
    <2>4. LoginRequests
      <3>1. IsFiniteSet({1}) /\ Cardinality(Twice) = 0
        BY <2>3, FS_EmptySet, FS_Singleton
      <3>2. QED
        BY <2>0, <2>1, <2>2, <3>1, AccountConstantsOK DEF LoginRequests, Account!ConstantsOK
    <2>5. guesses = [t \in Account!Ids |-> [right |-> 0, wrong |-> 0]] /\ name = [e \in Emails |-> "old"]
          /\ route \in Pages /\ loading = TRUE
      BY DEF Account!Init, Pages
    <2>6. Shape
      BY <2>0, <2>5, BlankForm DEF Shape, Account!Names
    <2>7. Account!LoadingMeansAsked
      BY <2>1, <2>2 DEF Account!LoadingMeansAsked, Account!Heard
    <2>8. AccountInv /\ MailInv /\ FormInv
      <3>1. AccountInv
        BY <2>0, <2>1, <2>2, <2>3 DEF AccountInv, AskingMe
      <3>2. MailInv
        BY <2>0, <2>1, <2>2 DEF MailInv
      <3>3. FormInv
        BY <2>0, <2>2, <2>3, BlankForm DEF FormInv
      <3>4. QED
        BY <3>1, <3>2, <3>3
    <2>9. CodesInv
      BY <2>0, <2>1, <2>2, <2>3, <2>5, AccountConstantsOK DEF CodesInv, Account!ConstantsOK
    <2>10. QED
      BY <2>4, <2>6, <2>7, <2>8, <2>9 DEF LoginIInv
  <1>2. LoginIInv /\ [Account!Next]_(Account!vars) => LoginIInv'
    <2> SUFFICES ASSUME LoginIInv, [Account!Next]_(Account!vars)  PROVE  LoginIInv'
      OBVIOUS
    <2>1. CASE \/ \E p \in {"home", "signin", "dashboard", "profile"} : Account!Go(p)
               \/ \E e \in Emails \cup {Null} : Account!EditEmail(e)
               \/ Account!ChangeEmail
               \/ \E c \in Account!Codes \cup {Null} : Account!handleOTPChange(c) \/ Account!handlePaste(c)
               \/ Account!handleVerifyOTP
               \/ Account!handleLogout
               \/ \E n \in Account!Names \cup {Null} : Account!handleUpdateChanges(n)
      BY <2>1, PersonSteps, PersonKept DEF LoginIInv
    <2>2. CASE Account!handleSendOTP
      BY <2>2, SendKept
    <2>3. ASSUME NEW p \in {"home", "signin", "dashboard", "profile"}, Account!Reload(p)
          PROVE  LoginIInv'
      BY <2>3, LoginReloadKept DEF Pages
    <2>4. ASSUME NEW i \in DOMAIN asked, Account!Serves(i)
          PROVE  LoginIInv'
      BY <2>4, AnswerKept, SendOTPKept, ReadsKept, WritesKept, UpdateKept DEF Account!Serves
    <2>5. ASSUME NEW i \in DOMAIN asked, Account!Arrives(i)
          PROVE  LoginIInv'
      BY <2>5, SendArrivesKept, SignInKept, MeArrivesKept, SavedKept, SignOutKept,
         FailsKept DEF Account!Arrives
    <2>6. ASSUME NEW o \in otps, Account!Expires(o)
          PROVE  LoginIInv'
      BY <2>6, ExpiresKept
    <2>7. CASE UNCHANGED Account!vars
      <3>1. UNCHANGED <<route, form, user, loading, cookie, did, asked, next, otps, name, mails, crossed,
                        mixed, raced, guesses>>
        BY <2>7 DEF Account!vars, Account!client, Account!server, Account!ghosts
      <3>2. LoginRequests' /\ Shape' /\ Account!LoadingMeansAsked'
        BY <3>1 DEF LoginIInv, LoginRequests, Twice, Shape, Account!LoadingMeansAsked, Account!Heard
      <3>3. AccountInv' /\ MailInv' /\ FormInv'
        BY <3>1 DEF LoginIInv, AccountInv, AskingMe, Saved, Says, MailInv, FormInv, OfTheForm
      <3>4. CodesInv'
        BY <3>1, FewerReaders DEF LoginIInv
      <3>5. QED
        BY <3>2, <3>3, <3>4 DEF LoginIInv
    <2>8. QED
      BY <2>1, <2>2, <2>3, <2>4, <2>5, <2>6, <2>7 DEF Account!Next
  <1>3. QED
    BY <1>1, <1>2

\* The account shown is right, by the inductive invariant.
LEMMA SignedInIsShownFollows == LoginIInv => Account!SignedInIsShown
  <1> SUFFICES ASSUME LoginIInv  PROVE  Account!SignedInIsShown
    OBVIOUS
  <1>1. Account!TypeOK
    <2>1. \A i \in DOMAIN asked : asked[i].kind \in Account!Kinds /\ asked[i].state \in {"sent", "read", "done"}
      BY DEF LoginIInv, LoginRequests, RequestOK, Me, Send, Verify, Update, Logout, Account!Kinds
    <2>2. QED
      BY <2>1, InIds DEF LoginIInv, LoginRequests, Shape, Account!TypeOK, Pages, Forms, Cookies
  <1>2. Account!AccountShownIsCurrent
    <2> SUFFICES ASSUME user # Null, Account!Heard = {}, ~mixed
                 PROVE  user = Says(cookie)
      BY DEF Account!AccountShownIsCurrent, Says
    <2>1. AskingMe = {} /\ Saved = {}
      BY DEF AskingMe, Saved, Account!Heard, LoginIInv, LoginRequests, RequestOK, Me, Send,
             Verify, Update, Logout
    <2>2. user.id = Says(cookie).id /\ user.name = Says(cookie).name
      BY <2>1 DEF LoginIInv, AccountInv
    <2>3. user \in Account!Users
      BY DEF LoginIInv, Shape
    <2>4. QED
      BY <2>2, <2>3 DEF Account!Users, Says
  <1>3. QED
    BY <1>1, <1>2 DEF LoginIInv, Account!SignedInIsShown

\* Codes are for one address and one success, by the inductive invariant.
LEMMA CodesAreForOneFollows == LoginIInv => Account!CodesAreForOne
  <1> SUFFICES ASSUME LoginIInv  PROVE  Account!CodesAreForOne
    OBVIOUS
  <1>1. Account!TransactionIsForTheShownEmail
    <2> SUFFICES ASSUME form.step = "otp", form.txn # Null, ~crossed,
                        \A i \in Account!Asking("send") : ~asked[i].form
                 PROVE  Account!EmailOf(form.txn) = form.email
      BY DEF Account!TransactionIsForTheShownEmail
    <2>1. OfTheForm = {}
      BY DEF OfTheForm, Account!Asking, Account!Heard, LoginIInv, LoginRequests, RequestOK
    <2> DEFINE mail == [txn |-> form.txn, email |-> form.email]
    <2>2. mail \in mails /\ mail.txn = form.txn /\ mail.email = form.email
      BY <2>1 DEF LoginIInv, FormInv
    <2> HIDE DEF mail
    <2>3. \A m \in mails : m.txn = form.txn => m = mail
      BY <2>2 DEF LoginIInv, MailInv
    <2>4. (CHOOSE m \in mails : m.txn = form.txn) = mail
      BY <2>2, <2>3
    <2>5. QED
      BY <2>2, <2>4 DEF Account!EmailOf
  <1>2. Account!CodesAreSpent
    BY DEF LoginIInv, CodesInv, Account!CodesAreSpent
  <1>3. QED
    BY <1>1, <1>2 DEF Account!CodesAreForOne

-----------------------------------------------------------------------------
(* The theorems. *)

\* Side by side each of the two takes its own steps or none.
LEMMA EachOfTheTwo ==
  /\ PagesInit => Init /\ Account!Init
  /\ [PagesNext]_pagesVars => [Next]_vars /\ [Account!Next]_(Account!vars)
  <1>1. PagesInit => Init /\ Account!Init
    BY DEF PagesInit
  <1>2. ASSUME UNCHANGED accountVars
        PROVE  UNCHANGED Account!vars
    BY <1>2 DEF accountVars, Account!vars, Account!client, Account!server, Account!ghosts
  <1>3. ASSUME OnAccount \/ OnFiles \/ UNCHANGED pagesVars
        PROVE  [Next]_vars /\ [Account!Next]_(Account!vars)
    BY <1>2, <1>3 DEF OnAccount, OnFiles, pagesVars
  <1>4. QED
    BY <1>1, <1>3 DEF PagesNext

\* Both inductive invariants hold in every reachable state (FileCard.jsx,
\* History.jsx and HistorySlice.js; Signin.jsx, Profile.jsx, authSlice.js and OTP.py).
THEOREM Invariance == PagesSpec => [](IInv /\ LoginIInv)
  <1>1. PagesInit => IInv /\ LoginIInv
    BY EachOfTheTwo, FilesInvariant, LoginInvariant
  <1>2. IInv /\ LoginIInv /\ [PagesNext]_pagesVars => (IInv /\ LoginIInv)'
    BY EachOfTheTwo, FilesInvariant, LoginInvariant
  <1>3. QED
    BY <1>1, <1>2, PTL DEF PagesSpec

\* The history page shows the newest answer unless one was overtaken, and its
\* button says what became of the download (HistorySlice.js, HistoryModal.jsx).
THEOREM NewestIsShown == PagesSpec => []ShownIsNewest
  <1>1. QED
    BY Invariance, ShownIsNewestFollows, PTL

\* As long as nothing was opened, closed or moved while a traversal was queued, and
\* the pencil was not used on two cards, closing modals, one or several at once,
\* never leaves the page; and without a Forward and a refetch under two modals the
\* browser's history has at rest an entry for each open modal (FileCard.jsx,
\* History.jsx).
THEOREM BackClosesTheModal == PagesSpec => []BackClosesModals
  <1>1. QED
    BY Invariance, BackClosesModalsFollows, PTL

\* Whoever is shown once everything asked is answered is the cookie's account under
\* the server's name, or the guest, unless since the page was opened a "who am I" was
\* passed by a sign-in, a sign-out or a rename or a saved name was reported lost;
\* and "loading" always stands for a request under way (authSlice.js).
THEOREM TheAccountIsShown == PagesSpec => []SignedInIsShown
  <1>1. LoginIInv => SignedInIsShown
    BY SignedInIsShownFollows DEF SignedInIsShown
  <1>2. QED
    BY <1>1, Invariance, PTL

\* The transaction the form holds is for the address it shows, and a transaction
\* that no two verifications raced on answers one right code at most and as many
\* wrong ones as allowed (Signin.jsx and OTP.py).
THEOREM CodesWorkOnce == PagesSpec => []CodesAreForOne
  <1>1. LoginIInv => CodesAreForOne
    BY CodesAreForOneFollows DEF CodesAreForOne
  <1>2. QED
    BY <1>1, Invariance, PTL
===================================================================================
