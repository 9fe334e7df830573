------------------------------- MODULE EditorsProofs -------------------------------
(***************************************************************************)
(* For every value of the constants: what the editors say and hold agrees  *)
(* with the files, no text is lost and the history of a document is at the *)
(* document, each but in the cases Editors.tla names, where the code does  *)
(* lose or disagree.  One inductive invariant for each editor; of the two  *)
(* that are not open it says what the properties need of their first state.*)
(***************************************************************************)
EXTENDS Editors, SequenceTheorems, FiniteSetTheorems, TLAPS

\* The flags that the three editors share.
Flags == {open, loading, saving, error} \subseteq BOOLEAN

-----------------------------------------------------------------------------
(* The text editor: the inductive invariant. *)

\* What the variables of the text editor and of its API hold.
Contents == Texts \cup {Blank}
Reads == [n : Nat, got : Contents \cup {Pending, Failed}, chained : BOOLEAN, since : Nat]
Lists == [n : Nat, got : (SUBSET Code!Docs) \cup {Pending, Failed}, chained : BOOLEAN]
Writes == [n : Nat, op : {"save", "rollback"},
           at : Code!SaveSteps \cup Code!RollbackSteps \cup Code!Answers,
           text : Contents, id : Nat, next : Nat, drop : SUBSET Code!Docs, since : Nat]
Counts == [{"edits", "writes", "retries", "reads", "lists"} -> Nat]
CodeGhosts == [overwritten : BOOLEAN, twoLoads : BOOLEAN, besideRestore : BOOLEAN,
               replacedInLoad : BOOLEAN, cleared : BOOLEAN, loadFailed : BOOLEAN,
               twoWrites : BOOLEAN, unlisted : BOOLEAN, pruned : BOOLEAN]

CodeShape ==
  /\ content \in Contents /\ keySees \in [saving : BOOLEAN, loading : BOOLEAN]
  /\ versions \subseteq Code!Docs /\ restoring \in {0} \cup {d.id : d \in Code!Docs}
  /\ reads \subseteq Reads /\ lists \subseteq Lists /\ writes \subseteq Writes
  /\ asked \in Counts /\ inserted \in Nat
  /\ file \in Contents /\ object \in [Code!Numbers -> Contents \cup {Gone}]
  /\ docs \subseteq Code!Docs
  /\ ghost \in CodeGhosts

\* What is still to be inserted is within the bound on the writes.
Once == {w \in writes : w.at \in {"count", "copyFirst", "insertFirst", "putVersion", "putFile",
                                  "insert", "find", "copyBack", "duplicate", "log"}}
Twice == {w \in writes : w.at \in {"count", "copyFirst", "insertFirst"}}
BudgetInv ==
  /\ IsFiniteSet(writes) /\ IsFiniteSet(docs)
  /\ asked.writes <= MaxWrites
  /\ inserted + Cardinality(Once) + Cardinality(Twice) <= 2 * asked.writes
  /\ Cardinality(docs) <= inserted /\ \A d \in docs : d.id <= inserted
  /\ \A w \in writes : w.at \in {"copyFirst", "insertFirst", "putVersion", "putFile", "insert",
                                 "copyBack", "duplicate", "log"} => w.next \in Code!Numbers

\* One write at a time: the numbers of the versions are those up to their count,
\* the next write takes the number after it, and an object holds what is to be
\* inserted for it.
Busy == {w \in writes : w.at \notin Code!Answers}
VersionsInv ==
  ~ghost.twoWrites =>
    /\ \A w, v \in Busy : w = v
    /\ ~ghost.pruned =>
         /\ \A d \in docs : d.no <= Cardinality(docs) /\ object[d.no] = d.text
         /\ \A w \in Busy :
              /\ w.at \in {"copyFirst", "insertFirst"} => docs = {} /\ w.next = 2
              /\ w.at \in {"putVersion", "putFile", "insert", "log"} =>
                   w.next = Cardinality(docs) + 1
              /\ w.at \in {"putFile", "insert", "log"} => object[w.next] = w.text
              /\ w.at # "unlist"

\* A write that has put another text in the file knows that text; the newest
\* version is the file but for that write, and but for one that stopped there.
Newest == docs = {} \/ \E d \in docs : d.text = file /\ \A e \in docs : e.no <= d.no
NewestInv ==
  (~ghost.twoWrites /\ ~ghost.pruned) =>
    /\ \A w \in Busy : /\ w.at \in {"insert", "log"} => file = w.text
                       /\ w.at = "duplicate" => file = object[w.next]
                       /\ w.at = "insertFirst" => file = object[1]
    /\ \/ Newest
       \/ ghost.unlisted
       \/ \E w \in Busy : w.at \in {"insert", "log", "duplicate"}

\* The blank text the editor starts with is saved by nobody, and only it is blank.
BlankInv ==
  (~ghost.loadFailed /\ ~ghost.cleared) =>
    /\ content = Blank => loading /\ keySees.loading
    /\ file # Blank /\ (\A r \in reads : r.got # Blank) /\ \A k \in Code!Numbers : object[k] # Blank
    /\ \A w \in writes : w.at \in Code!SaveSteps \cup {"log"} => w.text # Blank

\* One load at a time, which was asked for after the last edit, and so was the
\* restore that is to bring one.
LoadsInv ==
  ~ghost.twoLoads =>
    /\ \A r, s \in reads : r = s
    /\ reads = {} \/ loading
    /\ (~ghost.besideRestore /\ ~ghost.replacedInLoad) =>
         /\ ~ghost.overwritten
         /\ \A r \in reads : r.since = asked.edits
         /\ \A w \in writes : w.op = "rollback" => w.since = asked.edits

CodeInv == CodeShape /\ BudgetInv /\ VersionsInv /\ NewestInv /\ BlankInv /\ LoadsInv

-----------------------------------------------------------------------------
(* The text editor: what its steps do. *)

\* A set that loses w and gains v.
LEMMA Replaced ==
  ASSUME NEW S, IsFiniteSet(S), NEW w, NEW v, NEW T, T \subseteq (S \ {w}) \cup {v}
  PROVE  /\ IsFiniteSet(T) /\ Cardinality(T) \in Nat /\ Cardinality(S) \in Nat
         /\ Cardinality(T) <= Cardinality(S) + 1
         /\ w \in S \/ v \notin T => Cardinality(T) <= Cardinality(S)
         /\ w \in S /\ v \notin T => Cardinality(T) + 1 <= Cardinality(S)
         /\ T = S \cup {v} /\ v \notin S => Cardinality(T) = Cardinality(S) + 1
  <1>1. /\ IsFiniteSet(S \ {w}) /\ IsFiniteSet(S \cup {v}) /\ IsFiniteSet((S \ {w}) \cup {v})
        /\ Cardinality(S) \in Nat
        /\ Cardinality(S \ {w}) = IF w \in S THEN Cardinality(S) - 1 ELSE Cardinality(S)
        /\ Cardinality(S \cup {v}) = IF v \in S THEN Cardinality(S) ELSE Cardinality(S) + 1
    BY FS_RemoveElement, FS_AddElement, FS_CardinalityType
  <1>2. /\ Cardinality(S \ {w}) \in Nat
        /\ Cardinality((S \ {w}) \cup {v}) <= Cardinality(S \ {w}) + 1
        /\ Cardinality((S \ {w}) \cup {v}) \in Nat
    BY <1>1, FS_AddElement, FS_CardinalityType
  <1>3. /\ IsFiniteSet(T) /\ Cardinality(T) \in Nat
        /\ Cardinality(T) <= Cardinality((S \ {w}) \cup {v})
    BY <1>1, FS_Subset, FS_CardinalityType
  <1>4. v \notin T => Cardinality(T) <= Cardinality(S \ {w})
    <2>1. v \notin T => T \subseteq S \ {w}
      OBVIOUS
    <2>2. QED
      BY <1>1, <2>1, FS_Subset
  <1>5. T = S \cup {v} /\ v \notin S => Cardinality(T) = Cardinality(S) + 1
    BY <1>1
  <1> DEFINE c == Cardinality(S)
             d == Cardinality(S \ {w})
             e == Cardinality((S \ {w}) \cup {v})
             f == Cardinality(T)
  <1>6. /\ c \in Nat /\ d \in Nat /\ e \in Nat /\ f \in Nat
        /\ d = (IF w \in S THEN c - 1 ELSE c) /\ e <= d + 1 /\ f <= e /\ (v \notin T => f <= d)
    BY <1>1, <1>2, <1>3, <1>4
  <1>7. /\ f <= c + 1 /\ (w \in S \/ v \notin T => f <= c) /\ (w \in S /\ v \notin T => f + 1 <= c)
    <2> HIDE DEF c, d, e, f
    <2>1. CASE w \in S
      BY <1>6, <2>1
    <2>2. CASE w \notin S
      BY <1>6, <2>2
    <2>3. QED
      BY <2>1, <2>2
  <1>8. QED
    BY <1>3, <1>5, <1>6, <1>7

\* The next step of a request is the same request at another place.
LEMMA AtFacts ==
  ASSUME NEW w \in Writes, NEW to \in Code!SaveSteps \cup Code!RollbackSteps \cup Code!Answers
  PROVE  /\ [w EXCEPT !.at = to] \in Writes /\ [w EXCEPT !.at = to].at = to
         /\ [w EXCEPT !.at = to].text = w.text /\ [w EXCEPT !.at = to].next = w.next
         /\ [w EXCEPT !.at = to].op = w.op /\ [w EXCEPT !.at = to].since = w.since
  BY DEF Writes

\* A request that goes on is the same but for its step.
LEMMA GoesFacts ==
  ASSUME NEW w \in Writes, NEW to \in Code!SaveSteps \cup Code!RollbackSteps \cup Code!Answers,
         Code!Goes(w, to)
  PROVE  \E v \in Writes : /\ writes' = (writes \ {w}) \cup {v}
                           /\ v.at = to /\ v.text = w.text /\ v.next = w.next
                           /\ v.op = w.op /\ v.since = w.since
  <1> DEFINE v == [w EXCEPT !.at = to]
  <1>1. /\ v \in Writes /\ v.at = to /\ v.text = w.text /\ v.next = w.next
        /\ v.op = w.op /\ v.since = w.since
    BY AtFacts
  <1>2. writes' = (writes \ {w}) \cup {v}
    BY DEF Code!Goes
  <1> HIDE DEF v
  <1>3. QED
    BY <1>1, <1>2

\* What a client's step leaves: the server as it was and the requests at work on
\* it, with a new one perhaps, which is the second or is remembered to be.
Quiet ==
  /\ UNCHANGED Code!server
  /\ writes' \subseteq writes /\ Busy' = Busy
  /\ asked'.writes = asked.writes
  /\ ghost'.twoWrites = ghost.twoWrites /\ ghost'.pruned = ghost.pruned
  /\ ghost'.unlisted = ghost.unlisted

Asks(v) ==
  /\ UNCHANGED Code!server
  /\ v \in Writes /\ writes' = writes \cup {v}
  /\ v.at \in {"count", "find"} /\ (v.at = "count" => v.text = content)
  /\ asked'.writes = asked.writes + 1 /\ asked.writes < MaxWrites
  /\ ~ghost'.twoWrites => ~ghost.twoWrites /\ Busy = {}
  /\ ghost'.pruned = ghost.pruned /\ ghost'.unlisted = ghost.unlisted

NewDoc(no, text) == [id |-> inserted + 1, no |-> no, text |-> text]

\* What a step of the request w does, which then is v.
Inserts(no, text) == docs' = docs \cup {NewDoc(no, text)} /\ inserted' = inserted + 1
Row(w, v) ==
  \/ /\ w.at = "count" /\ v.text = w.text
     /\ \/ docs = {} /\ v.at = "copyFirst" /\ v.next = 2
        \/ v.at = "putVersion" /\ v.next = Cardinality(docs) + 1
     /\ UNCHANGED <<file, object, docs, inserted, ghost>>
  \/ /\ w.at = "copyFirst" /\ v.at = "insertFirst" /\ v.text = w.text /\ v.next = w.next
     /\ object' = [object EXCEPT ![1] = file]
     /\ UNCHANGED <<file, docs, inserted, ghost>>
  \/ /\ w.at = "insertFirst" /\ v.at = "putVersion" /\ v.text = w.text /\ v.next = w.next
     /\ object[1] # Gone /\ Inserts(1, object[1])
     /\ UNCHANGED <<file, object, ghost>>
  \/ /\ w.at = "putVersion" /\ v.at = "putFile" /\ v.text = w.text /\ v.next = w.next
     /\ object' = [object EXCEPT ![w.next] = w.text]
     /\ UNCHANGED <<file, docs, inserted, ghost>>
  \/ /\ w.at = "putFile" /\ v.at = "insert" /\ v.text = w.text /\ v.next = w.next
     /\ file' = w.text
     /\ UNCHANGED <<object, docs, inserted, ghost>>
  \/ /\ w.at = "insert" /\ v.at = "list" /\ v.text = w.text
     /\ Inserts(w.next, w.text)
     /\ ghost' = [ghost EXCEPT !.unlisted = FALSE]
     /\ UNCHANGED <<file, object>>
  \/ /\ w.at = "list" /\ v.at \in {"ok", "prune"} /\ v.text = w.text
     /\ UNCHANGED <<file, object, docs, inserted, ghost>>
  \/ /\ w.at = "prune" /\ v.at = "unlist" /\ v.text = w.text
     /\ UNCHANGED object \/ \E k : object' = [object EXCEPT ![k] = Gone]
     /\ ghost' = [ghost EXCEPT !.pruned = TRUE]
     /\ UNCHANGED <<file, docs, inserted>>
  \/ /\ w.at = "unlist" /\ v.at \in {"ok", "prune"} /\ v.text = w.text
     /\ \E low : docs' = docs \ {low}
     /\ UNCHANGED <<file, object, inserted, ghost>>
  \/ /\ w.at = "find"
     /\ v.at = "failed" \/ (v.at = "copyBack" /\ \E d \in docs : v.next = d.no)
     /\ UNCHANGED <<file, object, docs, inserted, ghost>>
  \/ /\ w.at = "copyBack" /\ v.next = w.next
     /\ \/ v.at = "failed" /\ UNCHANGED file
        \/ v.at = "duplicate" /\ object[w.next] # Gone /\ file' = object[w.next]
     /\ UNCHANGED <<object, docs, inserted, ghost>>
  \/ /\ w.at = "duplicate" /\ v.at = "log"
     /\ object[w.next] # Gone
     /\ object' = [object EXCEPT ![Cardinality(docs) + 1] = object[w.next]]
     /\ v.next = Cardinality(docs) + 1 /\ v.text = object[w.next]
     /\ UNCHANGED <<file, docs, inserted, ghost>>
  \/ /\ w.at = "log" /\ v.at = "size"
     /\ Inserts(w.next, w.text)
     /\ ghost' = [ghost EXCEPT !.unlisted = FALSE]
     /\ UNCHANGED <<file, object>>
  \/ /\ w.at = "size" /\ v.at = "ok"
     /\ UNCHANGED <<file, object, docs, inserted, ghost>>
  \/ /\ w.at \notin Code!Answers \cup {"prune"} /\ v.at = "failed"
     /\ ghost' = [ghost EXCEPT !.unlisted = @ \/ w.at \in {"insert", "duplicate", "log"}]
     /\ UNCHANGED <<file, object, docs, inserted>>

\* A request that may insert a version has room for it.
LEMMA Room ==
  ASSUME CodeShape, BudgetInv, NEW w \in Once
  PROVE  /\ inserted + 1 \in 1 .. (2 * MaxWrites)
         /\ Cardinality(docs) \in Nat /\ Cardinality(docs) + 1 \in Code!Numbers
         /\ w \in Twice => 2 \in Code!Numbers
         /\ 1 \in Code!Numbers
  <1>1. /\ IsFiniteSet(Once) /\ IsFiniteSet(Twice) /\ Once \subseteq writes
        /\ Twice \subseteq writes
    BY FS_Subset DEF BudgetInv, Once, Twice
  <1>2. /\ Cardinality(Once) \in Nat /\ Cardinality(Twice) \in Nat /\ Cardinality(docs) \in Nat
        /\ Cardinality(Once) # 0 /\ (w \in Twice => Cardinality(Twice) # 0)
    BY <1>1, FS_CardinalityType, FS_EmptySet DEF BudgetInv
  <1>3. inserted \in Nat /\ asked.writes \in Nat /\ MaxWrites \in Nat
    BY CodeConstantsOK DEF CodeShape, Counts, Code!ConstantsOK
  <1>4. /\ inserted + Cardinality(Once) + Cardinality(Twice) <= 2 * asked.writes
        /\ asked.writes <= MaxWrites /\ Cardinality(docs) <= inserted
    BY DEF BudgetInv
  <1> HIDE DEF Once, Twice
  <1>5. inserted + 1 <= 2 * MaxWrites /\ Cardinality(docs) + 1 <= 2 * MaxWrites
    BY <1>2, <1>3, <1>4
  <1>6. w \in Twice => 2 <= 2 * MaxWrites
    BY <1>2, <1>3, <1>4
  <1>7. QED
    BY <1>2, <1>3, <1>5, <1>6 DEF Code!Numbers

\* What the requests do to the server.
LEMMA ServeFacts ==
  ASSUME CodeShape, BudgetInv, NEW w \in writes, Code!Serve(w)
  PROVE  /\ \E v \in Writes : /\ writes' = (writes \ {w}) \cup {v} /\ Row(w, v)
                              /\ v.op = w.op /\ v.since = w.since
         /\ w \in Busy /\ asked' = asked
         /\ UNCHANGED <<open, content, loading, saving, error, keySees, versions, restoring,
                        reads, lists>>
  <1>0. /\ w \in Writes /\ writes \subseteq Writes /\ docs \subseteq Code!Docs
        /\ object \in [Code!Numbers -> Contents \cup {Gone}] /\ file \in Contents
    BY DEF CodeShape
  <1>1. /\ Code!SaveSteps = {"count", "copyFirst", "insertFirst", "putVersion", "putFile",
                             "insert", "list", "prune", "unlist"}
        /\ Code!RollbackSteps = {"find", "copyBack", "duplicate", "log", "size"}
        /\ Code!Answers = {"ok", "failed"}
    BY DEF Code!SaveSteps, Code!RollbackSteps, Code!Answers
  <1>2. /\ asked' = asked
        /\ UNCHANGED <<open, content, loading, saving, error, keySees, versions, restoring,
                       reads, lists>>
    BY DEF Code!Serve
  <1> DEFINE Same(v) == v.op = w.op /\ v.since = w.since
             Done == \E v \in Writes : writes' = (writes \ {w}) \cup {v} /\ Row(w, v) /\ Same(v)
  <1>3. ASSUME Code!SaveCounts(w)
        PROVE  Done /\ w.at \notin Code!Answers
    <2>1. /\ w.at = "count" /\ UNCHANGED <<file, object, docs, inserted, ghost>>
          /\ writes' = (writes \ {w}) \cup
               {IF docs = {} THEN [w EXCEPT !.at = "copyFirst", !.next = 2]
                             ELSE [w EXCEPT !.at = "putVersion", !.next = Cardinality(docs) + 1]}
      BY <1>3 DEF Code!SaveCounts, Code!Cardinality, Cardinality
    <2>2. Cardinality(docs) + 1 \in Nat
      BY FS_CardinalityType DEF BudgetInv
    <2>3. CASE docs = {}
      <3> DEFINE v == [w EXCEPT !.at = "copyFirst", !.next = 2]
      <3>1. v \in Writes /\ v.at = "copyFirst" /\ v.text = w.text /\ v.next = 2 /\ Same(v)
        BY <1>0, <1>1 DEF Writes
      <3>2. writes' = (writes \ {w}) \cup {v}
        BY <2>1, <2>3
      <3> HIDE DEF v
      <3>3. QED
        BY <1>1, <2>1, <2>3, <3>1, <3>2 DEF Row
    <2>4. CASE docs # {}
      <3> DEFINE v == [w EXCEPT !.at = "putVersion", !.next = Cardinality(docs) + 1]
      <3>1. /\ v \in Writes /\ v.at = "putVersion" /\ v.text = w.text
            /\ v.next = Cardinality(docs) + 1 /\ Same(v)
        BY <1>0, <1>1, <2>2 DEF Writes
      <3>2. writes' = (writes \ {w}) \cup {v}
        BY <2>1, <2>4
      <3> HIDE DEF v
      <3>3. QED
        BY <1>1, <2>1, <2>4, <3>1, <3>2 DEF Row
    <2>5. QED
      BY <1>1, <2>1, <2>3, <2>4
  <1>4. ASSUME Code!SaveCopiesFirst(w)
        PROVE  Done /\ w.at \notin Code!Answers
    <2>1. /\ w.at = "copyFirst" /\ Code!Goes(w, "insertFirst")
          /\ object' = [object EXCEPT ![1] = file]
          /\ UNCHANGED <<file, docs, inserted, ghost>>
      BY <1>4 DEF Code!SaveCopiesFirst
    <2>2. Done
      BY <1>0, <1>1, <2>1, GoesFacts DEF Row
    <2>3. QED
      BY <1>1, <2>1, <2>2
  <1>5. ASSUME Code!SaveInsertsFirst(w)
        PROVE  Done /\ w.at \notin Code!Answers
    <2>1. /\ w.at = "insertFirst" /\ object[1] # Gone /\ Inserts(1, object[1])
          /\ Code!Goes(w, "putVersion") /\ UNCHANGED <<file, object, ghost>>
      BY <1>5 DEF Code!SaveInsertsFirst, Code!Insert, Inserts, NewDoc
    <2>2. Done
      BY <1>0, <1>1, <2>1, GoesFacts DEF Row
    <2>3. QED
      BY <1>1, <2>1, <2>2
  <1>6. ASSUME Code!SavePutsVersion(w)
        PROVE  Done /\ w.at \notin Code!Answers
    <2>1. /\ w.at = "putVersion" /\ object' = [object EXCEPT ![w.next] = w.text]
          /\ Code!Goes(w, "putFile") /\ UNCHANGED <<file, docs, inserted, ghost>>
      BY <1>6 DEF Code!SavePutsVersion
    <2>2. Done
      BY <1>0, <1>1, <2>1, GoesFacts DEF Row
    <2>3. QED
      BY <1>1, <2>1, <2>2
  <1>7. ASSUME Code!SavePutsFile(w)
        PROVE  Done /\ w.at \notin Code!Answers
    <2>1. /\ w.at = "putFile" /\ file' = w.text /\ Code!Goes(w, "insert")
          /\ UNCHANGED <<object, docs, inserted, ghost>>
      BY <1>7 DEF Code!SavePutsFile
    <2>2. Done
      BY <1>0, <1>1, <2>1, GoesFacts DEF Row
    <2>3. QED
      BY <1>1, <2>1, <2>2
  <1>8. ASSUME Code!SaveInserts(w)
        PROVE  Done /\ w.at \notin Code!Answers
    <2>1. /\ w.at = "insert" /\ Inserts(w.next, w.text) /\ Code!Goes(w, "list")
          /\ ghost' = [ghost EXCEPT !.unlisted = FALSE] /\ UNCHANGED <<file, object>>
      BY <1>8 DEF Code!SaveInserts, Code!Insert, Inserts, NewDoc
    <2>2. Done
      BY <1>0, <1>1, <2>1, GoesFacts DEF Row
    <2>3. QED
      BY <1>1, <2>1, <2>2
  <1>9. ASSUME Code!SaveLists(w)
         PROVE  Done /\ w.at \notin Code!Answers
    <2>1. PICK old \in SUBSET docs :
            /\ w.at = "list" /\ UNCHANGED <<file, object, docs, inserted, ghost>>
            /\ writes' = (writes \ {w}) \cup {IF old = {} THEN [w EXCEPT !.at = "ok"]
                                                ELSE [w EXCEPT !.at = "prune", !.drop = old]}
      <3> DEFINE old == {d \in docs : Code!Cardinality({e \in docs : Code!Before(d, e)}) > MAX_VERSIONS}
      <3>1. old \in SUBSET docs
        OBVIOUS
      <3>2. QED
        BY <1>9, <3>1 DEF Code!SaveLists
    <2>2. PICK v : v = IF old = {} THEN [w EXCEPT !.at = "ok"] ELSE [w EXCEPT !.at = "prune", !.drop = old]
      OBVIOUS
    <2>3. /\ v \in Writes /\ v.at \in {"ok", "prune"} /\ v.text = w.text /\ Same(v)
      <3>1. old \in SUBSET Code!Docs
        BY <1>0
      <3>2. CASE old = {}
        BY <1>0, <1>1, <2>2, <3>2 DEF Writes
      <3>3. CASE old # {}
        BY <1>0, <1>1, <2>2, <3>1, <3>3 DEF Writes
      <3>4. QED
        BY <3>2, <3>3
    <2>4. writes' = (writes \ {w}) \cup {v}
      BY <2>1, <2>2
    <2>5. QED
      BY <1>1, <2>1, <2>3, <2>4 DEF Row
  <1>10. ASSUME Code!SavePrunes(w)
        PROVE  Done /\ w.at \notin Code!Answers
    <2>1. /\ w.at = "prune" /\ UNCHANGED <<file, docs, inserted>> /\ Code!Goes(w, "unlist")
          /\ UNCHANGED object \/ \E k : object' = [object EXCEPT ![k] = Gone]
          /\ ghost' = [ghost EXCEPT !.pruned = TRUE]
      BY <1>10 DEF Code!SavePrunes
    <2>2. Done
      BY <1>0, <1>1, <2>1, GoesFacts DEF Row
    <2>3. QED
      BY <1>1, <2>1, <2>2
  <1>11. ASSUME Code!SaveUnlists(w)
         PROVE  Done /\ w.at \notin Code!Answers
    <2>1. PICK low, rest : /\ rest = w.drop \ {low} /\ w.at = "unlist" /\ docs' = docs \ {low}
                           /\ writes' = (writes \ {w}) \cup
                                {[w EXCEPT !.at = IF rest = {} THEN "ok" ELSE "prune", !.drop = rest]}
                           /\ UNCHANGED <<file, object, inserted, ghost>>
      BY <1>11 DEF Code!SaveUnlists
    <2>2. PICK v : v = [w EXCEPT !.at = IF rest = {} THEN "ok" ELSE "prune", !.drop = rest]
      OBVIOUS
    <2>3. rest \in SUBSET Code!Docs
      BY <1>0, <2>1 DEF Writes
    <2>4. /\ v \in Writes /\ v.at \in {"ok", "prune"} /\ v.text = w.text /\ Same(v)
      BY <1>0, <1>1, <2>2, <2>3 DEF Writes
    <2>5. writes' = (writes \ {w}) \cup {v}
      BY <2>1, <2>2
    <2>6. QED
      BY <1>1, <2>1, <2>4, <2>5 DEF Row
  <1>12. ASSUME Code!RollbackFinds(w)
        PROVE  Done /\ w.at \notin Code!Answers
    <2>1. w.at = "find" /\ UNCHANGED <<file, object, docs, inserted, ghost>>
      BY <1>12 DEF Code!RollbackFinds
    <2>2. CASE Code!Goes(w, "failed")
      BY <1>0, <1>1, <2>1, <2>2, GoesFacts DEF Row
    <2>3. ASSUME NEW d \in docs,
                 writes' = (writes \ {w}) \cup {[w EXCEPT !.at = "copyBack", !.next = d.no]}
          PROVE  Done
      <3> DEFINE v == [w EXCEPT !.at = "copyBack", !.next = d.no]
      <3>1. d.no \in Nat
        BY <1>0 DEF Code!Docs, Code!Numbers
      <3>2. v \in Writes /\ v.at = "copyBack" /\ v.next = d.no /\ Same(v)
        BY <1>0, <1>1, <3>1 DEF Writes
      <3>3. writes' = (writes \ {w}) \cup {v}
        BY <2>3
      <3> HIDE DEF v
      <3>4. QED
        BY <2>1, <3>2, <3>3 DEF Row
    <2>4. QED
      BY <1>1, <1>12, <2>1, <2>2, <2>3 DEF Code!RollbackFinds
  <1>13. ASSUME Code!RollbackCopiesBack(w)
        PROVE  Done /\ w.at \notin Code!Answers
    <2>1. w.at = "copyBack" /\ UNCHANGED <<object, docs, inserted, ghost>>
      BY <1>13 DEF Code!RollbackCopiesBack
    <2>2. CASE Code!Goes(w, "failed") /\ UNCHANGED file
      BY <1>0, <1>1, <2>1, <2>2, GoesFacts DEF Row
    <2>3. CASE Code!Goes(w, "duplicate") /\ object[w.next] # Gone /\ file' = object[w.next]
      BY <1>0, <1>1, <2>1, <2>3, GoesFacts DEF Row
    <2>4. QED
      BY <1>1, <1>13, <2>1, <2>2, <2>3 DEF Code!RollbackCopiesBack
  <1>14. ASSUME Code!RollbackDuplicates(w)
        PROVE  Done /\ w.at \notin Code!Answers
    <2> DEFINE n == Cardinality(docs) + 1
               v == [w EXCEPT !.at = "log", !.next = n, !.text = object[w.next]]
    <2>1. /\ w.at = "duplicate" /\ object[w.next] # Gone
          /\ object' = [object EXCEPT ![n] = object[w.next]]
          /\ writes' = (writes \ {w}) \cup {v}
          /\ UNCHANGED <<file, docs, inserted, ghost>>
      BY <1>14 DEF Code!RollbackDuplicates, Code!Cardinality, Cardinality
    <2>2. n \in Nat
      BY FS_CardinalityType DEF BudgetInv
    <2>3. object[w.next] \in Contents
      BY <1>0, <2>1 DEF BudgetInv
    <2>4. /\ v \in Writes /\ v.at = "log" /\ v.next = n /\ v.text = object[w.next]
          /\ Same(v)
      BY <1>0, <1>1, <2>2, <2>3 DEF Writes
    <2> HIDE DEF v
    <2>5. QED
      BY <1>1, <2>1, <2>4 DEF Row
  <1>15. ASSUME Code!RollbackLogs(w)
         PROVE  Done /\ w.at \notin Code!Answers
    <2>1. /\ w.at = "log" /\ Inserts(w.next, w.text) /\ Code!Goes(w, "size")
          /\ ghost' = [ghost EXCEPT !.unlisted = FALSE] /\ UNCHANGED <<file, object>>
      BY <1>15 DEF Code!RollbackLogs, Code!Insert, Inserts, NewDoc
    <2>2. Done
      BY <1>0, <1>1, <2>1, GoesFacts DEF Row
    <2>3. QED
      BY <1>1, <2>1, <2>2
  <1>16. ASSUME Code!RollbackSizes(w)
          PROVE  Done /\ w.at \notin Code!Answers
    <2>1. /\ w.at = "size" /\ Code!Goes(w, "ok") /\ UNCHANGED <<file, object, docs, inserted, ghost>>
      BY <1>16 DEF Code!RollbackSizes
    <2>2. Done
      BY <1>0, <1>1, <2>1, GoesFacts DEF Row
    <2>3. QED
      BY <1>1, <2>1, <2>2
  <1>17. ASSUME Code!WriteFails(w)
        PROVE  Done /\ w.at \notin Code!Answers
    <2>1. /\ w.at \notin Code!Answers \cup {"prune"} /\ Code!Goes(w, "failed")
          /\ ghost' = [ghost EXCEPT !.unlisted = @ \/ w.at \in {"insert", "duplicate", "log"}]
          /\ UNCHANGED <<file, object, docs, inserted>>
      BY <1>17 DEF Code!WriteFails
    <2>2. Done
      BY <1>0, <1>1, <2>1, GoesFacts DEF Row
    <2>3. QED
      BY <1>1, <2>1, <2>2
  <1>18. Done /\ w.at \notin Code!Answers
    BY <1>1, <1>3, <1>4, <1>5, <1>6, <1>7, <1>8, <1>10, <1>9, <1>11, <1>12, <1>13, <1>14,
       <1>15, <1>16, <1>17 DEF Code!Serve
  <1>19. QED
    BY <1>2, <1>18 DEF Busy

\* What the client's variables hold.
ClientShape ==
  /\ Flags
  /\ content \in Contents /\ keySees \in [saving : BOOLEAN, loading : BOOLEAN]
  /\ versions \subseteq Code!Docs /\ restoring \in {0} \cup {d.id : d \in Code!Docs}
  /\ reads \subseteq Reads /\ lists \subseteq Lists /\ asked \in Counts /\ ghost \in CodeGhosts

\* What a client's step does, in the terms of the invariants.
Does == /\ ClientShape'
        /\ BlankInv => BlankInv'
        /\ LoadsInv => LoadsInv'
        /\ Quiet \/ \E v : Asks(v)

\* Counting one thing leaves the other counts alone.
LEMMA CountsFacts ==
  ASSUME asked \in Counts,
         NEW k \in {"edits", "writes", "retries", "reads", "lists"}
  PROVE  /\ [asked EXCEPT ![k] = @ + 1] \in Counts
         /\ [asked EXCEPT ![k] = @ + 1][k] = asked[k] + 1
         /\ \A j \in {"edits", "writes", "retries", "reads", "lists"} :
              j # k => [asked EXCEPT ![k] = @ + 1][j] = asked[j]
  BY DEF Counts

\* The text is edited: nothing else of the editor changes but the counts.
LEMMA EditKept ==
  ASSUME Flags, CodeShape, NEW text \in Contents, NEW typed \in BOOLEAN, Code!Edited(text, typed),
         typed => ~loading
  PROVE  Does
  <1>0. ClientShape
    BY DEF ClientShape, CodeShape
  <1>1. /\ content' = text /\ asked' = [asked EXCEPT !["edits"] = @ + 1] /\ Code!Listen
        /\ UNCHANGED <<open, loading, saving, error, versions, restoring, reads, lists, writes>>
        /\ UNCHANGED <<file, object, docs, inserted>>
    BY DEF Code!Edited, Code!server
  <1>2. asked' \in Counts /\ asked'["writes"] = asked["writes"]
    BY <1>0, <1>1, CountsFacts DEF ClientShape
  <1>3. keySees' \in [saving : BOOLEAN, loading : BOOLEAN]
    BY <1>0, <1>1 DEF Code!Listen, ClientShape, Flags
  <1>4. PICK c \in BOOLEAN, b \in BOOLEAN, p \in BOOLEAN :
          /\ c = (ghost.cleared \/ text = Blank)
          /\ b = (ghost.besideRestore \/ \E w \in writes : w.op = "rollback")
          /\ p = (ghost.replacedInLoad \/ (~typed /\ reads # {}))
    OBVIOUS
  <1>5. /\ ghost' = [ghost EXCEPT !.cleared = c, !.besideRestore = b, !.replacedInLoad = p]
        /\ ghost \in CodeGhosts
    BY <1>0, <1>4 DEF Code!Edited, ClientShape
  <1>6. /\ ghost' \in CodeGhosts
        /\ ghost'.cleared = c /\ ghost'.besideRestore = b /\ ghost'.replacedInLoad = p
        /\ ghost'.twoLoads = ghost.twoLoads /\ ghost'.twoWrites = ghost.twoWrites
        /\ ghost'.pruned = ghost.pruned /\ ghost'.unlisted = ghost.unlisted
        /\ ghost'.loadFailed = ghost.loadFailed /\ ghost'.overwritten = ghost.overwritten
    BY <1>5 DEF CodeGhosts
  <1>7. ClientShape'
    BY <1>0, <1>1, <1>2, <1>3, <1>6 DEF ClientShape, Flags
  <1>8. Quiet
    BY <1>1, <1>2, <1>6 DEF Quiet, Busy, Code!server
  <1>9. BlankInv => BlankInv'
    <2> SUFFICES ASSUME BlankInv, ~ghost'.loadFailed, ~ghost'.cleared
                 PROVE  BlankInv'
      BY DEF BlankInv
    <2>1. ~ghost.loadFailed /\ ~ghost.cleared /\ text # Blank
      BY <1>4, <1>6
    <2>2. QED
      BY <1>1, <2>1 DEF BlankInv
  <1>10. LoadsInv => LoadsInv'
    <2> SUFFICES ASSUME LoadsInv, ~ghost.twoLoads
                 PROVE  LoadsInv'
      BY <1>6 DEF LoadsInv
    <2>1. ~b /\ ~p => /\ ~ghost.besideRestore /\ ~ghost.replacedInLoad
                      /\ reads = {} /\ \A w \in writes : w.op # "rollback"
      BY <1>4 DEF LoadsInv
    <2>2. QED
      BY <1>1, <1>6, <2>1 DEF LoadsInv
  <1>11. QED
    BY <1>7, <1>8, <1>9, <1>10 DEF Does

\* A save or a restore is asked for.
LEMMA AskKept ==
  ASSUME Flags, CodeShape, NEW v \in Writes, writes' = writes \cup {v},
         v.at \in {"count", "find"}, v.at = "count" => v.text = content,
         v.at = "count" => ~loading \/ ~keySees.loading, v.since = asked.edits,
         asked.writes < MaxWrites, asked' = [asked EXCEPT !.writes = @ + 1],
         {saving, error}' \subseteq BOOLEAN, restoring' \in {0} \cup {d.id : d \in Code!Docs},
         ghost' = [ghost EXCEPT !.twoWrites = @ \/ Code!ServerBusy],
         UNCHANGED <<open, content, loading, keySees, versions, reads, lists>>,
         UNCHANGED Code!server
  PROVE  Does
  <1>0. ClientShape
    BY DEF ClientShape, CodeShape
  <1>1. asked' \in Counts /\ asked'.writes = asked.writes + 1 /\ asked'.edits = asked.edits
    <2>1. asked' = [asked EXCEPT !["writes"] = @ + 1]
      OBVIOUS
    <2>2. /\ asked' \in Counts /\ asked'["writes"] = asked["writes"] + 1
          /\ asked'["edits"] = asked["edits"]
      BY <1>0, <2>1, CountsFacts DEF ClientShape
    <2>3. QED
      BY <2>2
  <1>2. PICK b \in BOOLEAN : b = (ghost.twoWrites \/ Code!ServerBusy)
    OBVIOUS
  <1>3. ghost' = [ghost EXCEPT !.twoWrites = b] /\ ghost \in CodeGhosts
    BY <1>0, <1>2 DEF ClientShape
  <1>4. /\ ghost' \in CodeGhosts /\ ghost'.twoWrites = b
        /\ ghost'.twoLoads = ghost.twoLoads /\ ghost'.overwritten = ghost.overwritten
        /\ ghost'.besideRestore = ghost.besideRestore
        /\ ghost'.replacedInLoad = ghost.replacedInLoad
        /\ ghost'.pruned = ghost.pruned /\ ghost'.unlisted = ghost.unlisted
        /\ ghost'.loadFailed = ghost.loadFailed /\ ghost'.cleared = ghost.cleared
    BY <1>3 DEF CodeGhosts
  <1>5. ~ghost'.twoWrites => ~ghost.twoWrites /\ Busy = {}
    BY <1>2, <1>4 DEF Code!ServerBusy, Busy
  <1>6. ClientShape'
    BY <1>0, <1>1, <1>4 DEF ClientShape, Flags
  <1>7. Asks(v)
    BY <1>1, <1>4, <1>5 DEF Asks
  <1>8. BlankInv => BlankInv'
    <2> SUFFICES ASSUME BlankInv, ~ghost.loadFailed, ~ghost.cleared
                 PROVE  BlankInv'
      BY <1>4 DEF BlankInv
    <2>1. v.at \notin {"log", "copyFirst", "insertFirst", "putVersion", "putFile", "insert", "list",
                       "prune", "unlist"}
          /\ (v.at = "count" => v.text # Blank)
      BY DEF BlankInv
    <2>2. v.at \in Code!SaveSteps \cup {"log"} => v.text # Blank
      BY <2>1 DEF Code!SaveSteps
    <2>3. QED
      BY <1>4, <2>2 DEF BlankInv, Code!server
  <1>9. LoadsInv => LoadsInv'
    BY <1>1, <1>4 DEF LoadsInv
  <1>10. QED
    BY <1>6, <1>7, <1>8, <1>9 DEF Does

\* Save and Ctrl+S.
LEMMA SaveKept ==
  ASSUME Flags, CodeShape, Code!Save \/ Code!SaveByKey
  PROVE  Does
  <1>1. PICK sees : Code!handleSave(sees) /\ (~sees.loading => ~loading \/ ~keySees.loading)
    BY DEF Code!Save, Code!SaveByKey
  <1> DEFINE v == Code!Request("save", "count", content, 0)
  <1>2. /\ v \in Writes /\ v.at = "count" /\ v.text = content /\ v.since = asked.edits
    BY DEF CodeShape, Counts, Writes, Code!SaveSteps, Code!Request
  <1>3. /\ writes' = writes \cup {v} /\ ~sees.loading /\ asked.writes < MaxWrites
        /\ asked' = [asked EXCEPT !.writes = @ + 1] /\ saving' = TRUE /\ error' = FALSE
        /\ ghost' = [ghost EXCEPT !.twoWrites = @ \/ Code!ServerBusy]
        /\ UNCHANGED <<open, content, loading, keySees, versions, restoring, reads, lists>>
        /\ UNCHANGED Code!server
    BY <1>1 DEF Code!handleSave
  <1> HIDE DEF v
  <1>4. QED
    BY <1>1, <1>2, <1>3, AskKept DEF CodeShape

\* Restore.
LEMMA RollbackKept ==
  ASSUME Flags, CodeShape, NEW d \in versions, Code!handleRollback(d)
  PROVE  Does
  <1> DEFINE v == Code!Request("rollback", "find", d.text, d.id)
  <1>1. d \in Code!Docs /\ d.text \in Contents /\ d.id \in Nat
    BY DEF CodeShape, Code!Docs, Contents
  <1>2. v \in Writes /\ v.at = "find" /\ v.since = asked.edits
    BY <1>1 DEF CodeShape, Counts, Writes, Code!RollbackSteps, Code!Request
  <1>3. /\ writes' = writes \cup {v} /\ asked.writes < MaxWrites
        /\ asked' = [asked EXCEPT !.writes = @ + 1] /\ restoring' = d.id /\ error' = FALSE
        /\ ghost' = [ghost EXCEPT !.twoWrites = @ \/ Code!ServerBusy]
        /\ UNCHANGED <<open, content, loading, saving, keySees, versions, reads, lists>>
        /\ UNCHANGED Code!server
    BY DEF Code!handleRollback
  <1> HIDE DEF v
  <1>4. {saving, error}' \subseteq BOOLEAN /\ restoring' \in {0} \cup {x.id : x \in Code!Docs}
    BY <1>1, <1>3 DEF Flags
  <1>5. QED
    BY <1>2, <1>3, <1>4, AskKept

\* The content is fetched, beside the loads under way perhaps.
LEMMA FetchKept ==
  ASSUME Flags, CodeShape, NEW chained \in BOOLEAN, NEW since \in Nat,
         Code!fetchFileContent(chained, since),
         (LoadsInv /\ ~ghost.twoLoads /\ ~ghost.besideRestore /\ ~ghost.replacedInLoad) =>
           since = asked.edits,
         asked' \in Counts, asked'.writes = asked.writes, asked'.edits = asked.edits,
         ghost' = [ghost EXCEPT !.twoLoads = @ \/ reads # {}],
         writes' \subseteq writes, Busy' = Busy,
         UNCHANGED <<open, content, saving, keySees, versions, restoring, lists>>,
         UNCHANGED Code!server
  PROVE  Does
  <1>0. ClientShape
    BY DEF ClientShape, CodeShape
  <1> DEFINE r == [n |-> asked.reads + 1, got |-> Pending, chained |-> chained, since |-> since]
  <1>1. r \in Reads /\ r.got = Pending /\ r.since = since
    BY <1>0 DEF ClientShape, Counts, Reads
  <1>2. loading' = TRUE /\ error' = FALSE /\ reads' = reads \cup {r}
    BY DEF Code!fetchFileContent
  <1> HIDE DEF r
  <1>3. PICK b \in BOOLEAN : b = (ghost.twoLoads \/ reads # {})
    OBVIOUS
  <1>4. ghost' = [ghost EXCEPT !.twoLoads = b] /\ ghost \in CodeGhosts
    BY <1>0, <1>3 DEF ClientShape
  <1>5. /\ ghost' \in CodeGhosts /\ ghost'.twoLoads = b
        /\ ghost'.twoWrites = ghost.twoWrites /\ ghost'.overwritten = ghost.overwritten
        /\ ghost'.besideRestore = ghost.besideRestore
        /\ ghost'.replacedInLoad = ghost.replacedInLoad
        /\ ghost'.pruned = ghost.pruned /\ ghost'.unlisted = ghost.unlisted
        /\ ghost'.loadFailed = ghost.loadFailed /\ ghost'.cleared = ghost.cleared
    BY <1>4 DEF CodeGhosts
  <1>6. ~ghost'.twoLoads => ~ghost.twoLoads /\ reads = {}
    BY <1>3, <1>5
  <1>7. ClientShape'
    BY <1>0, <1>1, <1>2, <1>5 DEF ClientShape, Flags
  <1>8. Quiet
    BY <1>5 DEF Quiet
  <1>9. BlankInv => BlankInv'
    BY <1>1, <1>2, <1>5, CodeConstantsOK DEF BlankInv, Code!server, Code!ConstantsOK
  <1>10. LoadsInv => LoadsInv'
    <2> SUFFICES ASSUME LoadsInv, ~ghost'.twoLoads
                 PROVE  LoadsInv'
      BY DEF LoadsInv
    <2>1. reads' = {r} /\ loading' /\ ~ghost.twoLoads
      BY <1>2, <1>6
    <2>2. QED
      BY <1>1, <1>5, <2>1 DEF LoadsInv
  <1>11. QED
    BY <1>7, <1>8, <1>9, <1>10 DEF Does

\* Retry.
LEMMA RetryKept ==
  ASSUME Flags, CodeShape, Code!Retry
  PROVE  Does
  <1>1. /\ asked' = [asked EXCEPT !.retries = @ + 1, !.reads = @ + 1]
        /\ Code!fetchFileContent(FALSE, asked.edits) /\ asked.edits \in Nat
        /\ ghost' = [ghost EXCEPT !.twoLoads = @ \/ reads # {}]
        /\ UNCHANGED <<open, content, saving, keySees, versions, restoring, lists, writes>>
        /\ UNCHANGED Code!server
    BY DEF Code!Retry, CodeShape, Counts
  <1>2. asked' \in Counts /\ asked'.writes = asked.writes /\ asked'.edits = asked.edits
    <2>1. asked \in Counts /\ asked.retries + 1 \in Nat /\ asked.reads + 1 \in Nat
      BY DEF CodeShape, Counts
    <2>2. asked' = [asked EXCEPT !["retries"] = asked.retries + 1, !["reads"] = asked.reads + 1]
      BY <1>1
    <2> QED
      BY ONLY <2>1, <2>2 DEF Counts
  <1>3. writes' \subseteq writes /\ Busy' = Busy
    BY <1>1 DEF Busy
  <1>4. QED
    BY <1>1, <1>2, <1>3, FetchKept

\* The flags and the lists of what is under way change, not the text.
LEMMA AnswerKept ==
  ASSUME CodeShape, ClientShape', writes' \subseteq writes, Busy' = Busy,
         asked'.writes = asked.writes, asked'.edits = asked.edits, reads' \subseteq reads,
         reads' = {} \/ (loading' = loading /\ reads' = reads),
         loading' = loading,
         UNCHANGED <<content, keySees, file, object, docs, inserted, ghost>>
  PROVE  Does
  <1>1. Quiet
    BY DEF Quiet, Code!server
  <1>2. BlankInv => BlankInv'
    BY DEF BlankInv
  <1>3. LoadsInv => LoadsInv'
    BY DEF LoadsInv
  <1>4. QED
    BY <1>1, <1>2, <1>3 DEF Does

\* Closing the editor.
LEMMA CloseKept ==
  ASSUME Flags, CodeShape, Code!Close
  PROVE  Does
  <1>1. /\ open' = FALSE /\ reads' = {} /\ lists' = {}
        /\ UNCHANGED <<content, loading, saving, error, keySees, versions, restoring, writes,
                       asked, ghost>>
        /\ UNCHANGED <<file, object, docs, inserted>>
    BY DEF Code!Close, Code!server
  <1>2. ClientShape'
    BY <1>1 DEF ClientShape, CodeShape, Flags
  <1>3. Busy' = Busy
    BY <1>1 DEF Busy
  <1>4. QED
    BY <1>1, <1>2, <1>3, AnswerKept

\* The server reads the content.
LEMMA GetContentKept ==
  ASSUME Flags, CodeShape, NEW r \in reads, Code!get_text_content(r)
  PROVE  Does
  <1>0. r \in Reads /\ reads \subseteq Reads /\ file \in Contents
    BY DEF CodeShape
  <1>1. PICK got \in {file, Failed} : reads' = (reads \ {r}) \cup {[r EXCEPT !.got = got]}
    BY DEF Code!get_text_content
  <1>2. /\ UNCHANGED <<open, content, loading, saving, error, keySees, versions, restoring,
                       lists, writes, asked, ghost>>
        /\ UNCHANGED <<file, object, docs, inserted>>
    BY DEF Code!get_text_content, Code!server
  <1> DEFINE s == [r EXCEPT !.got = got]
  <1>3. s \in Reads /\ s.got = got /\ s.since = r.since
    BY <1>0, <1>1 DEF Reads
  <1>4. reads' = (reads \ {r}) \cup {s}
    BY <1>1
  <1> HIDE DEF s
  <1>5. ClientShape'
    BY <1>0, <1>2, <1>3, <1>4 DEF ClientShape, CodeShape, Flags
  <1>6. Quiet
    BY <1>2 DEF Quiet, Busy, Code!server
  <1>7. BlankInv => BlankInv'
    BY <1>1, <1>2, <1>3, <1>4, CodeConstantsOK DEF BlankInv, Code!ConstantsOK
  <1>8. LoadsInv => LoadsInv'
    <2> SUFFICES ASSUME LoadsInv, ~ghost.twoLoads
                 PROVE  LoadsInv'
      BY <1>2 DEF LoadsInv
    <2>1. reads' = {s} /\ loading
      BY <1>4 DEF LoadsInv
    <2>2. QED
      BY <1>2, <1>3, <2>1 DEF LoadsInv
  <1>9. QED
    BY <1>5, <1>6, <1>7, <1>8 DEF Does

\* The server reads the versions.
LEMMA GetVersionsKept ==
  ASSUME Flags, CodeShape, NEW l \in lists, Code!get_version_history(l)
  PROVE  Does
  <1>0. l \in Lists /\ lists \subseteq Lists /\ docs \subseteq Code!Docs
    BY DEF CodeShape
  <1>1. PICK got \in {docs, Failed} : lists' = (lists \ {l}) \cup {[l EXCEPT !.got = got]}
    BY DEF Code!get_version_history
  <1>2. /\ UNCHANGED <<open, content, loading, saving, error, keySees, versions, restoring,
                       reads, writes, asked, ghost>>
        /\ UNCHANGED <<file, object, docs, inserted>>
    BY DEF Code!get_version_history, Code!server
  <1>3. [l EXCEPT !.got = got] \in Lists
    BY <1>0, <1>1 DEF Lists
  <1>4. ClientShape'
    BY <1>0, <1>1, <1>2, <1>3 DEF ClientShape, CodeShape, Flags
  <1>5. Busy' = Busy
    BY <1>2 DEF Busy
  <1>6. QED
    BY <1>2, <1>4, <1>5, AnswerKept

\* The list of the versions arrives.
LEMMA VersionsArriveKept ==
  ASSUME Flags, CodeShape, NEW l \in lists, Code!VersionsArrive(l)
  PROVE  Does
  <1>1. /\ versions' \in {versions, l.got} /\ (l.got \in {Pending, Failed} => versions' = versions)
        /\ restoring' \in {0, restoring} /\ lists' = lists \ {l}
        /\ UNCHANGED <<open, content, loading, saving, error, keySees, reads, writes, asked, ghost>>
        /\ UNCHANGED <<file, object, docs, inserted>>
    BY DEF Code!VersionsArrive, Code!server
  <1>2. versions' \subseteq Code!Docs
    BY <1>1 DEF CodeShape, Lists
  <1>3. ClientShape'
    BY <1>1, <1>2 DEF ClientShape, CodeShape, Flags
  <1>4. Busy' = Busy
    BY <1>1 DEF Busy
  <1>5. QED
    BY <1>1, <1>3, <1>4, AnswerKept

\* The answer to a save arrives.
LEMMA SaveAnsweredKept ==
  ASSUME Flags, CodeShape, NEW w \in writes, Code!SaveAnswered(w)
  PROVE  Does
  <1>1. /\ w.at \in Code!Answers /\ writes' = writes \ {w} /\ UNCHANGED <<open, ghost>>
        /\ UNCHANGED <<file, object, docs, inserted>>
    BY DEF Code!SaveAnswered, Code!server
  <1>2. Busy' = Busy /\ writes' \subseteq writes
    BY <1>1 DEF Busy
  <1>3. CASE ~open
    <2>1. UNCHANGED <<content, loading, saving, error, keySees, versions, restoring, reads, lists,
                      asked>>
      BY <1>3 DEF Code!SaveAnswered, Code!client
    <2>2. ClientShape'
      BY <1>1, <2>1 DEF ClientShape, CodeShape, Flags
    <2>3. QED
      BY <1>1, <1>2, <2>1, <2>2, AnswerKept
  <1>4. CASE open
    <2>1. /\ saving' = FALSE /\ error' = (error \/ w.at = "failed")
          /\ UNCHANGED <<content, loading, keySees, versions, restoring, reads>>
          /\ IF w.at = "ok"
               THEN Code!fetchVersions(FALSE) /\ asked' = [asked EXCEPT !.lists = @ + 1]
               ELSE UNCHANGED <<lists, asked>>
      BY <1>4 DEF Code!SaveAnswered
    <2>2. /\ lists' \subseteq Lists /\ asked' \in Counts
          /\ asked'.writes = asked.writes /\ asked'.edits = asked.edits
      <3>0. asked \in Counts /\ lists \subseteq Lists
        BY DEF CodeShape
      <3>1. CASE w.at = "ok"
        <4>1. [n |-> asked.lists + 1, got |-> Pending, chained |-> FALSE] \in Lists
          BY <3>0 DEF Counts, Lists
        <4>2. asked' = [asked EXCEPT !["lists"] = @ + 1]
          BY <2>1, <3>1
        <4>3. /\ asked' \in Counts /\ asked'["writes"] = asked["writes"]
              /\ asked'["edits"] = asked["edits"]
          BY <3>0, <4>2, CountsFacts
        <4>4. QED
          BY <2>1, <3>0, <3>1, <4>1, <4>3 DEF Code!fetchVersions
      <3>2. CASE w.at # "ok"
        BY <2>1, <3>0, <3>2
      <3>3. QED
        BY <3>1, <3>2
    <2>3. ClientShape'
      BY <1>1, <2>1, <2>2 DEF ClientShape, CodeShape, Flags
    <2>4. QED
      BY <1>1, <1>2, <2>1, <2>2, <2>3, AnswerKept
  <1>5. QED
    BY <1>3, <1>4

\* The answer to a restore arrives.
LEMMA RollbackAnsweredKept ==
  ASSUME Flags, CodeShape, NEW w \in writes, Code!RollbackAnswered(w)
  PROVE  Does
  <1>1. /\ w.at \in Code!Answers /\ writes' = writes \ {w} /\ open' = open
        /\ UNCHANGED <<file, object, docs, inserted>> /\ UNCHANGED Code!server
    BY DEF Code!RollbackAnswered, Code!server
  <1>2. Busy' = Busy /\ writes' \subseteq writes
    BY <1>1 DEF Busy
  <1>3. CASE /\ Code!fetchFileContent(TRUE, w.since) /\ asked' = [asked EXCEPT !.reads = @ + 1]
             /\ ghost' = [ghost EXCEPT !.twoLoads = @ \/ reads # {}]
             /\ UNCHANGED <<content, saving, keySees, versions, restoring, lists>>
    <2>1. asked' \in Counts /\ asked'.writes = asked.writes /\ asked'.edits = asked.edits
      BY <1>3 DEF CodeShape, Counts
    <2>2. w.since \in Nat /\ w.op = "rollback"
      BY DEF Code!RollbackAnswered, CodeShape, Writes
    <2>3. (LoadsInv /\ ~ghost.twoLoads /\ ~ghost.besideRestore /\ ~ghost.replacedInLoad) =>
            w.since = asked.edits
      BY <2>2 DEF LoadsInv
    <2>4. QED
      BY <1>1, <1>2, <1>3, <2>1, <2>2, <2>3, FetchKept
  <1>4. CASE /\ error' = TRUE /\ restoring' = 0
             /\ UNCHANGED <<content, loading, saving, keySees, versions, reads, lists, asked, ghost>>
    <2>1. ClientShape'
      BY <1>1, <1>4 DEF ClientShape, CodeShape, Flags
    <2>2. QED
      BY <1>1, <1>2, <1>4, <2>1, AnswerKept
  <1>5. CASE UNCHANGED Code!client /\ UNCHANGED ghost
    <2>1. UNCHANGED <<content, loading, saving, error, keySees, versions, restoring, reads, lists,
                      asked, ghost>>
      BY <1>5 DEF Code!client
    <2>2. ClientShape'
      BY <1>1, <2>1 DEF ClientShape, CodeShape, Flags
    <2>3. QED
      BY <1>1, <1>2, <2>1, <2>2, AnswerKept
  <1>6. QED
    BY <1>3, <1>4, <1>5 DEF Code!RollbackAnswered

\* The content arrives.
LEMMA ContentArrivesKept ==
  ASSUME Flags, CodeShape, NEW r \in reads, Code!ContentArrives(r)
  PROVE  Does
  <1>0. ClientShape /\ r \in Reads
    BY DEF ClientShape, CodeShape
  <1>1. /\ r.got # Pending /\ content' = (IF r.got = Failed THEN content ELSE r.got)
        /\ error' = (error \/ r.got = Failed) /\ loading' = FALSE /\ reads' = reads \ {r}
        /\ UNCHANGED <<open, saving, versions, restoring, writes>> /\ Code!Listen
        /\ UNCHANGED <<file, object, docs, inserted>>
    BY DEF Code!ContentArrives, Code!server
  <1>2. /\ lists' \subseteq Lists /\ asked' \in Counts
        /\ asked'.writes = asked.writes /\ asked'.edits = asked.edits
    <2>1. CASE r.chained
      <3>1. /\ lists' = lists \cup {[n |-> asked.lists + 1, got |-> Pending, chained |-> TRUE]}
            /\ asked' = [asked EXCEPT !["lists"] = @ + 1]
        BY <2>1 DEF Code!ContentArrives, Code!fetchVersions
      <3>2. [n |-> asked.lists + 1, got |-> Pending, chained |-> TRUE] \in Lists
        BY <1>0 DEF ClientShape, Counts, Lists
      <3>3. /\ asked' \in Counts /\ asked'["writes"] = asked["writes"]
            /\ asked'["edits"] = asked["edits"]
        BY <1>0, <3>1, CountsFacts DEF ClientShape
      <3>4. QED
        BY <1>0, <3>1, <3>2, <3>3 DEF ClientShape
    <2>2. CASE ~r.chained
      BY <1>0, <2>2 DEF Code!ContentArrives, ClientShape
    <2>3. QED
      BY <2>1, <2>2
  <1>3. PICK o \in BOOLEAN, b \in BOOLEAN :
          /\ o = (ghost.overwritten \/ (r.got # Failed /\ r.since # asked.edits))
          /\ b = (ghost.loadFailed \/ r.got = Failed)
    OBVIOUS
  <1>4. /\ ghost' \in CodeGhosts /\ ghost'.overwritten = o /\ ghost'.loadFailed = b
        /\ ghost'.twoLoads = ghost.twoLoads /\ ghost'.twoWrites = ghost.twoWrites
        /\ ghost'.besideRestore = ghost.besideRestore
        /\ ghost'.replacedInLoad = ghost.replacedInLoad /\ ghost'.cleared = ghost.cleared
        /\ ghost'.pruned = ghost.pruned /\ ghost'.unlisted = ghost.unlisted
    <2>1. ghost \in CodeGhosts
      BY <1>0 DEF ClientShape
    <2>2. ghost' = [ghost EXCEPT !.overwritten = o, !.loadFailed = b]
      BY <1>3 DEF Code!ContentArrives
    <2>3. QED
      BY <2>1, <2>2 DEF CodeGhosts
  <1>5. content' \in Contents
    BY <1>0, <1>1 DEF ClientShape, Reads
  <1>6. keySees' \in [saving : BOOLEAN, loading : BOOLEAN]
    BY <1>0, <1>1 DEF Code!Listen, ClientShape, Flags
  <1>7. ClientShape'
    BY <1>0, <1>1, <1>2, <1>4, <1>5, <1>6 DEF ClientShape, Flags
  <1>8. Quiet
    BY <1>1, <1>2, <1>4 DEF Quiet, Busy, Code!server
  <1>9. BlankInv => BlankInv'
    <2> SUFFICES ASSUME BlankInv, ~ghost'.loadFailed, ~ghost'.cleared
                 PROVE  BlankInv'
      BY DEF BlankInv
    <2>1. ~ghost.loadFailed /\ ~ghost.cleared /\ r.got # Failed
      BY <1>3, <1>4
    <2>2. content' # Blank
      BY <1>1, <2>1 DEF BlankInv
    <2>3. QED
      BY <1>1, <2>1, <2>2 DEF BlankInv
  <1>10. LoadsInv => LoadsInv'
    <2> SUFFICES ASSUME LoadsInv, ~ghost.twoLoads
                 PROVE  LoadsInv'
      BY <1>4 DEF LoadsInv
    <2>1. /\ reads' = {}
          /\ (~ghost.besideRestore /\ ~ghost.replacedInLoad) =>
               /\ ~o /\ \A w \in writes : w.op = "rollback" => w.since = asked.edits
      BY <1>1, <1>3 DEF LoadsInv
    <2>2. QED
      BY <1>1, <1>2, <1>4, <2>1 DEF LoadsInv
  <1>11. QED
    BY <1>7, <1>8, <1>9, <1>10 DEF Does

\* What the person or an answer does.
LEMMA ClientSteps ==
  ASSUME Flags, CodeShape, Code!Next
  PROVE  Does \/ \E w \in writes : Code!Serve(w)
  <1>1. ASSUME NEW text \in Texts \cup {Blank}, Code!Type(text) \/ Code!handleReplace(text)
        PROVE  Does
    <2>1. text \in Contents
      BY DEF Contents
    <2>2. CASE Code!Type(text)
      BY <2>1, <2>2, EditKept DEF Code!Type
    <2>3. CASE Code!handleReplace(text)
      BY <2>1, <2>3, EditKept DEF Code!handleReplace
    <2>4. QED
      BY <1>1, <2>2, <2>3
  <1>2. QED
    BY <1>1, SaveKept, RollbackKept, RetryKept, CloseKept, GetContentKept, ContentArrivesKept,
       GetVersionsKept, VersionsArriveKept, SaveAnsweredKept,
       RollbackAnsweredKept DEF Code!Next, Code!Answered

-----------------------------------------------------------------------------
(* The text editor: the invariant is kept. *)

\* A document to be inserted is a new one.
LEMMA NewDocFacts ==
  ASSUME CodeShape, BudgetInv, NEW w \in Once, NEW no \in Code!Numbers, NEW text \in Contents
  PROVE  /\ NewDoc(no, text) \in Code!Docs /\ NewDoc(no, text) \notin docs
         /\ NewDoc(no, text).id = inserted + 1
         /\ NewDoc(no, text).no = no /\ NewDoc(no, text).text = text
  <1>1. inserted + 1 \in 1 .. (2 * MaxWrites)
    BY Room
  <1>2. \A d \in docs : d.id # inserted + 1
    BY <1>1 DEF BudgetInv, CodeShape, Code!Docs
  <1>3. QED
    BY <1>1, <1>2 DEF NewDoc, Code!Docs, Contents

\* How many are still to insert after a request w became v.
LEMMA ServeBudget ==
  ASSUME CodeShape, BudgetInv, NEW w \in writes, NEW v \in Writes,
         writes' = (writes \ {w}) \cup {v}, asked' = asked,
         IsFiniteSet(docs') /\ Cardinality(docs') <= inserted' /\ \A d \in docs' : d.id <= inserted',
         v.at \in {"copyFirst", "insertFirst", "putVersion", "putFile", "insert",
                   "copyBack", "duplicate", "log"} => v.next \in Code!Numbers,
         \/ inserted' = inserted /\ (v \in Once' => w \in Once) /\ (v \in Twice' => w \in Twice)
         \/ inserted' = inserted + 1 /\ w \in Once /\ v \notin Once' /\ v \notin Twice'
         \/ inserted' = inserted + 1 /\ w \in Once /\ w \in Twice /\ v \notin Twice'
  PROVE  BudgetInv'
  <1>1. /\ IsFiniteSet(Once) /\ IsFiniteSet(Twice)
        /\ Once' \subseteq (Once \ {w}) \cup {v} /\ Twice' \subseteq (Twice \ {w}) \cup {v}
        /\ w \in Twice => w \in Once
    BY FS_Subset DEF BudgetInv, Once, Twice
  <1>2. /\ inserted \in Nat /\ asked.writes \in Nat
    BY DEF CodeShape, Counts
  <1> DEFINE a == Cardinality(Once)
             b == Cardinality(Twice)
  <1>3. PICK O : O = Once'
    OBVIOUS
  <1>4. PICK T : T = Twice'
    OBVIOUS
  <1>5. /\ a \in Nat /\ Cardinality(O) \in Nat /\ Cardinality(O) <= a + 1
        /\ w \in Once \/ v \notin O => Cardinality(O) <= a
        /\ w \in Once /\ v \notin O => Cardinality(O) + 1 <= a
    BY <1>1, <1>3, Replaced
  <1>6. /\ b \in Nat /\ Cardinality(T) \in Nat /\ Cardinality(T) <= b + 1
        /\ w \in Twice \/ v \notin T => Cardinality(T) <= b
        /\ w \in Twice /\ v \notin T => Cardinality(T) + 1 <= b
    BY <1>1, <1>4, Replaced
  <1>7. inserted + a + b <= 2 * asked.writes
    BY DEF BudgetInv
  <1>8. inserted' + Cardinality(O) + Cardinality(T) <= 2 * asked.writes
    <2> HIDE DEF a, b
    <2>1. CASE inserted' = inserted /\ (v \in Once' => w \in Once) /\ (v \in Twice' => w \in Twice)
      BY <1>2, <1>3, <1>4, <1>5, <1>6, <1>7, <2>1
    <2>2. CASE inserted' = inserted + 1 /\ w \in Once /\ v \notin Once' /\ v \notin Twice'
      BY <1>2, <1>3, <1>4, <1>5, <1>6, <1>7, <2>2
    <2>3. CASE inserted' = inserted + 1 /\ w \in Once /\ w \in Twice /\ v \notin Twice'
      BY <1>2, <1>3, <1>4, <1>5, <1>6, <1>7, <2>3
    <2>4. QED
      BY <2>1, <2>2, <2>3
  <1>9. inserted' + Cardinality(Once') + Cardinality(Twice') <= 2 * asked'.writes
    BY <1>3, <1>4, <1>8
  <1>10. IsFiniteSet(writes')
    <2>1. IsFiniteSet((writes \ {w}) \cup {v})
      BY FS_Subset, FS_AddElement DEF BudgetInv
    <2>2. QED
      BY <2>1
  <1>11. QED
    BY <1>9, <1>10 DEF BudgetInv

\* The documents when one is inserted, or one is pruned.
LEMMA DocsFacts ==
  ASSUME CodeShape, BudgetInv
  PROVE  /\ \A w \in Once, no \in Code!Numbers, text \in Contents :
              Inserts(no, text) =>
                /\ docs' \subseteq Code!Docs /\ IsFiniteSet(docs') /\ inserted' = inserted + 1
                /\ Cardinality(docs') = Cardinality(docs) + 1 /\ Cardinality(docs') <= inserted'
                /\ \A d \in docs' : d.id <= inserted'
         /\ UNCHANGED <<docs, inserted>> =>
              /\ docs' \subseteq Code!Docs /\ IsFiniteSet(docs')
              /\ Cardinality(docs') <= inserted'
              /\ \A d \in docs' : d.id <= inserted'
         /\ \A low : docs' = docs \ {low} /\ inserted' = inserted =>
              /\ docs' \subseteq Code!Docs /\ IsFiniteSet(docs')
              /\ Cardinality(docs') <= inserted'
              /\ \A d \in docs' : d.id <= inserted'
  <1>0. /\ docs \subseteq Code!Docs /\ IsFiniteSet(docs) /\ inserted \in Nat
        /\ Cardinality(docs) \in Nat
        /\ Cardinality(docs) <= inserted /\ \A d \in docs : d.id <= inserted /\ d.id \in Nat
    BY FS_CardinalityType DEF CodeShape, BudgetInv, Code!Docs
  <1>1. ASSUME NEW w \in Once, NEW no \in Code!Numbers, NEW text \in Contents, Inserts(no, text)
        PROVE  /\ docs' \subseteq Code!Docs /\ IsFiniteSet(docs') /\ inserted' = inserted + 1
               /\ Cardinality(docs') = Cardinality(docs) + 1 /\ Cardinality(docs') <= inserted'
               /\ \A d \in docs' : d.id <= inserted'
    <2>1. PICK x : x = NewDoc(no, text)
      OBVIOUS
    <2>2. x \in Code!Docs /\ x \notin docs /\ x.id = inserted + 1
      BY <2>1, NewDocFacts
    <2>3. docs' = docs \cup {x} /\ inserted' = inserted + 1
      BY <1>1, <2>1 DEF Inserts
    <2>4. IsFiniteSet(docs \cup {x}) /\ Cardinality(docs \cup {x}) = Cardinality(docs) + 1
      BY <1>0, <2>2, FS_AddElement
    <2>5. QED
      BY <1>0, <2>2, <2>3, <2>4
  <1>2. ASSUME UNCHANGED <<docs, inserted>>
        PROVE  /\ docs' \subseteq Code!Docs /\ IsFiniteSet(docs')
               /\ Cardinality(docs') <= inserted'
               /\ \A d \in docs' : d.id <= inserted'
    BY <1>0, <1>2
  <1>3. ASSUME NEW low, docs' = docs \ {low}, inserted' = inserted
        PROVE  /\ docs' \subseteq Code!Docs /\ IsFiniteSet(docs')
               /\ Cardinality(docs') <= inserted'
               /\ \A d \in docs' : d.id <= inserted'
    <2>1. IsFiniteSet(docs \ {low}) /\ Cardinality(docs \ {low}) <= Cardinality(docs)
          /\ Cardinality(docs \ {low}) \in Nat
      BY <1>0, FS_Subset, FS_CardinalityType
    <2>2. QED
      BY <1>0, <1>3, <2>1
  <1>4. QED
    BY <1>1, <1>2, <1>3

\* A request's step keeps what the variables hold, and the budget.
LEMMA ServeKept ==
  ASSUME CodeShape, BudgetInv, NEW w \in writes, NEW v \in Writes,
         writes' = (writes \ {w}) \cup {v}, Row(w, v), asked' = asked,
         UNCHANGED <<open, content, loading, saving, error, keySees, versions, restoring,
                     reads, lists>>
  PROVE  CodeShape' /\ BudgetInv'
  <1>0. /\ w \in Writes /\ w.text \in Contents /\ w.next \in Nat
        /\ object \in [Code!Numbers -> Contents \cup {Gone}] /\ file \in Contents
        /\ docs \subseteq Code!Docs /\ ghost \in CodeGhosts
        /\ inserted \in Nat
        /\ w.at \in {"copyFirst", "insertFirst", "putVersion", "putFile", "insert",
                     "copyBack", "duplicate", "log"} => w.next \in Code!Numbers
        /\ v \in writes'
    BY DEF CodeShape, Writes, BudgetInv
  <1>1. /\ w \in Once <=> w.at \in {"count", "copyFirst", "insertFirst", "putVersion", "putFile",
                                    "insert", "find", "copyBack", "duplicate", "log"}
        /\ w \in Twice <=> w.at \in {"count", "copyFirst", "insertFirst"}
        /\ v \in Once' <=> v.at \in {"count", "copyFirst", "insertFirst", "putVersion", "putFile",
                                     "insert", "find", "copyBack", "duplicate", "log"}
        /\ v \in Twice' <=> v.at \in {"count", "copyFirst", "insertFirst"}
    BY <1>0 DEF Once, Twice
  <1>2. w \in Once => /\ Cardinality(docs) + 1 \in Code!Numbers /\ 1 \in Code!Numbers
                      /\ w \in Twice => 2 \in Code!Numbers
    BY Room
  <1> DEFINE Stays == UNCHANGED <<docs, inserted>>
             Adds == \E no \in Code!Numbers, text \in Contents : Inserts(no, text)
             Loses == inserted' = inserted /\ \E low : docs' = docs \ {low}
  <1>3. /\ file' \in Contents /\ object' \in [Code!Numbers -> Contents \cup {Gone}]
        /\ ghost' \in CodeGhosts
        /\ v.at \in {"copyFirst", "insertFirst", "putVersion", "putFile", "insert",
                     "copyBack", "duplicate", "log"} => v.next \in Code!Numbers
        /\ \/ /\ Stays \/ Loses
              /\ (v \in Once' => w \in Once) /\ (v \in Twice' => w \in Twice)
           \/ Adds /\ w \in Once /\ v \notin Once' /\ v \notin Twice'
           \/ Adds /\ w \in Once /\ w \in Twice /\ v \notin Twice'
    <2>1. CASE /\ w.at = "count"
               /\ \/ docs = {} /\ v.at = "copyFirst" /\ v.next = 2
                  \/ v.at = "putVersion" /\ v.next = Cardinality(docs) + 1
               /\ UNCHANGED <<file, object, docs, inserted, ghost>>
      BY <1>0, <1>1, <1>2, <2>1
    <2>2. CASE /\ w.at = "copyFirst" /\ v.at = "insertFirst" /\ v.next = w.next
               /\ object' = [object EXCEPT ![1] = file]
               /\ UNCHANGED <<file, docs, inserted, ghost>>
      BY <1>0, <1>1, <1>2, <2>2
    <2>3. CASE /\ w.at = "insertFirst" /\ v.at = "putVersion" /\ v.next = w.next
               /\ object[1] # Gone /\ Inserts(1, object[1])
               /\ UNCHANGED <<file, object, ghost>>
      <3>1. 1 \in Code!Numbers /\ object[1] \in Contents
        BY <1>0, <1>1, <1>2, <2>3
      <3>2. Adds
        BY <2>3, <3>1
      <3>3. QED
        BY <1>0, <1>1, <2>3, <3>2
    <2>4. CASE /\ w.at = "putVersion" /\ v.at = "putFile" /\ v.next = w.next
               /\ object' = [object EXCEPT ![w.next] = w.text]
               /\ UNCHANGED <<file, docs, inserted, ghost>>
      BY <1>0, <1>1, <2>4
    <2>5. CASE /\ w.at = "putFile" /\ v.at = "insert" /\ v.next = w.next
               /\ file' = w.text
               /\ UNCHANGED <<object, docs, inserted, ghost>>
      BY <1>0, <1>1, <2>5
    <2>6. CASE /\ w.at \in {"insert", "log"} /\ v.at \in {"list", "size"}
               /\ Inserts(w.next, w.text)
               /\ ghost' = [ghost EXCEPT !.unlisted = FALSE]
               /\ UNCHANGED <<file, object>>
      <3>1. Adds
        BY <1>0, <2>6
      <3>2. ghost' \in CodeGhosts
        BY <1>0, <2>6 DEF CodeGhosts
      <3>3. QED
        BY <1>0, <1>1, <2>6, <3>1, <3>2
    <2>7. CASE /\ w.at = "prune" /\ v.at = "unlist"
               /\ UNCHANGED object \/ \E k : object' = [object EXCEPT ![k] = Gone]
               /\ ghost' = [ghost EXCEPT !.pruned = TRUE]
               /\ UNCHANGED <<file, docs, inserted>>
      <3>1. ghost' \in CodeGhosts
        BY <1>0, <2>7 DEF CodeGhosts
      <3>2. object' \in [Code!Numbers -> Contents \cup {Gone}]
        BY <1>0, <2>7
      <3>3. QED
        BY <1>0, <1>1, <2>7, <3>1, <3>2
    <2>13. CASE /\ w.at = "unlist" /\ v.at \in {"ok", "prune"}
                /\ \E low : docs' = docs \ {low}
                /\ UNCHANGED <<file, object, inserted, ghost>>
      BY <1>0, <1>1, <2>13
    <2>8. CASE /\ w.at \in {"list", "size", "find"}
               /\ \/ v.at \in {"ok", "prune", "failed"}
                  \/ w.at = "find" /\ v.at = "copyBack" /\ \E d \in docs : v.next = d.no
               /\ UNCHANGED <<file, object, docs, inserted, ghost>>
      <3>1. \A d \in docs : d.no \in Code!Numbers
        BY <1>0 DEF Code!Docs
      <3>2. QED
        BY <1>0, <1>1, <2>8, <3>1
    <2>9. CASE /\ w.at = "copyBack" /\ v.next = w.next
               /\ \/ v.at = "failed" /\ UNCHANGED file
                  \/ v.at = "duplicate" /\ object[w.next] # Gone /\ file' = object[w.next]
               /\ UNCHANGED <<object, docs, inserted, ghost>>
      BY <1>0, <1>1, <2>9
    <2>10. CASE /\ w.at = "duplicate" /\ v.at = "log" /\ v.next = Cardinality(docs) + 1
                /\ object[w.next] # Gone
                /\ object' = [object EXCEPT ![Cardinality(docs) + 1] = object[w.next]]
                /\ UNCHANGED <<file, docs, inserted, ghost>>
      BY <1>0, <1>1, <1>2, <2>10
    <2>11. CASE /\ v.at = "failed"
                /\ ghost' = [ghost EXCEPT !.unlisted = @ \/ w.at \in {"insert", "duplicate", "log"}]
                /\ UNCHANGED <<file, object, docs, inserted>>
      <3>1. PICK b \in BOOLEAN : b = (ghost.unlisted \/ w.at \in {"insert", "duplicate", "log"})
        OBVIOUS
      <3>2. ghost' = [ghost EXCEPT !.unlisted = b]
        BY <2>11, <3>1
      <3>3. ghost' \in CodeGhosts
        BY <1>0, <3>2 DEF CodeGhosts
      <3>4. QED
        BY <1>0, <1>1, <2>11, <3>3
    <2>12. QED
      BY <2>1, <2>2, <2>3, <2>4, <2>5, <2>6, <2>7, <2>8, <2>9, <2>10, <2>11, <2>13 DEF Row
  <1>4. /\ docs' \subseteq Code!Docs /\ IsFiniteSet(docs') /\ Cardinality(docs') <= inserted'
        /\ \A d \in docs' : d.id <= inserted'
        /\ inserted' \in Nat
        /\ \/ /\ inserted' = inserted
              /\ (v \in Once' => w \in Once) /\ (v \in Twice' => w \in Twice)
           \/ inserted' = inserted + 1 /\ w \in Once /\ v \notin Once' /\ v \notin Twice'
           \/ inserted' = inserted + 1 /\ w \in Once /\ w \in Twice /\ v \notin Twice'
    <2>1. CASE Stays /\ (v \in Once' => w \in Once) /\ (v \in Twice' => w \in Twice)
      BY <1>0, <2>1, DocsFacts
    <2>2. CASE Loses /\ (v \in Once' => w \in Once) /\ (v \in Twice' => w \in Twice)
      BY <1>0, <2>2, DocsFacts
    <2>3. CASE Adds /\ w \in Once
      BY <1>0, <1>3, <2>3, DocsFacts
    <2>4. QED
      BY <1>3, <2>1, <2>2, <2>3
  <1>5. BudgetInv'
    BY <1>3, <1>4, ServeBudget
  <1>6. CodeShape'
    BY <1>0, <1>3, <1>4 DEF CodeShape
  <1>7. QED
    BY <1>5, <1>6

\* Nothing under way on the server changes, or a request is added.
LEMMA ClientKept ==
  ASSUME CodeShape, BudgetInv, Does
  PROVE  /\ CodeShape' /\ BudgetInv'
         /\ VersionsInv => VersionsInv'
         /\ NewestInv => NewestInv'
  <1>1. ASSUME Quiet, ClientShape'
        PROVE  /\ CodeShape' /\ BudgetInv'
               /\ VersionsInv => VersionsInv'
               /\ NewestInv => NewestInv'
    <2>0. /\ UNCHANGED <<file, object, docs, inserted>> /\ writes' \subseteq writes
          /\ Busy' = Busy
          /\ asked'.writes = asked.writes
          /\ ghost'.twoWrites = ghost.twoWrites /\ ghost'.pruned = ghost.pruned
          /\ ghost'.unlisted = ghost.unlisted
      BY <1>1 DEF Quiet, Code!server
    <2>1. CodeShape'
      BY <1>1, <2>0 DEF CodeShape, ClientShape
    <2>2. BudgetInv'
      <3>1. Once' \subseteq Once /\ Twice' \subseteq Twice
        BY <2>0 DEF Once, Twice
      <3>2. PICK O : O = Once'
        OBVIOUS
      <3>3. PICK T : T = Twice'
        OBVIOUS
      <3>4. /\ IsFiniteSet(Once) /\ IsFiniteSet(Twice) /\ IsFiniteSet(writes')
        BY <2>0, FS_Subset DEF BudgetInv, Once, Twice
      <3>5. /\ Cardinality(O) <= Cardinality(Once) /\ Cardinality(T) <= Cardinality(Twice)
            /\ Cardinality(O) \in Nat /\ Cardinality(T) \in Nat
            /\ Cardinality(Once) \in Nat /\ Cardinality(Twice) \in Nat
        BY <3>1, <3>2, <3>3, <3>4, FS_Subset, FS_CardinalityType
      <3>6. /\ inserted + Cardinality(Once) + Cardinality(Twice) <= 2 * asked.writes
            /\ inserted \in Nat /\ asked.writes \in Nat
        BY DEF BudgetInv, CodeShape, Counts
      <3>7. inserted + Cardinality(O) + Cardinality(T) <= 2 * asked.writes
        BY ONLY <3>5, <3>6
      <3>8. inserted' + Cardinality(Once') + Cardinality(Twice') <= 2 * asked'.writes
        BY <2>0, <3>2, <3>3, <3>7
      <3>9. QED
        BY <2>0, <3>4, <3>8 DEF BudgetInv
    <2>3. VersionsInv => VersionsInv'
      BY <2>0 DEF VersionsInv
    <2>4. NewestInv => NewestInv'
      BY <2>0 DEF NewestInv, Newest
    <2>5. QED
      BY <2>1, <2>2, <2>3, <2>4
  <1>2. ASSUME NEW v, Asks(v), ClientShape'
        PROVE  /\ CodeShape' /\ BudgetInv'
               /\ VersionsInv => VersionsInv'
               /\ NewestInv => NewestInv'
    <2>0. /\ UNCHANGED <<file, object, docs, inserted>> /\ writes' = writes \cup {v}
          /\ v \in Writes
          /\ v.at \in {"count", "find"}
          /\ asked'.writes = asked.writes + 1 /\ asked.writes < MaxWrites
          /\ ~ghost'.twoWrites => ~ghost.twoWrites /\ Busy = {}
          /\ ghost'.pruned = ghost.pruned /\ ghost'.unlisted = ghost.unlisted
      BY <1>2 DEF Asks, Code!server
    <2>1. CodeShape'
      BY <1>2, <2>0 DEF CodeShape, ClientShape
    <2>2. BudgetInv'
      <3>1. Once' \subseteq (Once \ {v}) \cup {v} /\ Twice' \subseteq (Twice \ {v}) \cup {v}
        BY <2>0 DEF Once, Twice
      <3>2. PICK O : O = Once'
        OBVIOUS
      <3>3. PICK T : T = Twice'
        OBVIOUS
      <3>4. /\ IsFiniteSet(Once) /\ IsFiniteSet(Twice) /\ IsFiniteSet(writes \cup {v})
        BY FS_Subset, FS_AddElement DEF BudgetInv, Once, Twice
      <3>5. /\ Cardinality(O) <= Cardinality(Once) + 1
            /\ Cardinality(T) <= Cardinality(Twice) + 1
            /\ Cardinality(O) \in Nat /\ Cardinality(T) \in Nat
            /\ Cardinality(Once) \in Nat /\ Cardinality(Twice) \in Nat
        BY <3>1, <3>2, <3>3, <3>4, Replaced
      <3>6. /\ inserted + Cardinality(Once) + Cardinality(Twice) <= 2 * asked.writes
            /\ inserted \in Nat /\ asked.writes \in Nat
        BY DEF BudgetInv, CodeShape, Counts
      <3>7. inserted + Cardinality(O) + Cardinality(T) <= 2 * (asked.writes + 1)
        BY ONLY <3>5, <3>6
      <3>8. inserted' + Cardinality(Once') + Cardinality(Twice') <= 2 * asked'.writes
        BY <2>0, <3>2, <3>3, <3>7
      <3>9. asked'.writes <= MaxWrites
        BY <2>0, <3>6, CodeConstantsOK DEF Code!ConstantsOK
      <3>10. QED
        BY <2>0, <3>4, <3>8, <3>9 DEF BudgetInv
    <2>3. ~ghost'.twoWrites => Busy' = {v} /\ Busy = {}
      BY <2>0 DEF Busy, Code!Answers
    <2>4. VersionsInv => VersionsInv'
      BY <2>0, <2>3 DEF VersionsInv
    <2>5. NewestInv => NewestInv'
      BY <2>0, <2>3 DEF NewestInv, Newest
    <2>6. QED
      BY <2>1, <2>2, <2>4, <2>5
  <1>3. QED
    BY <1>1, <1>2 DEF Does

\* The request alone at work on the server is w, and then v.
LEMMA Alone ==
  ASSUME VersionsInv, ~ghost.twoWrites, NEW w \in Busy, NEW v, writes' = (writes \ {w}) \cup {v}
  PROVE  /\ Busy = {w} /\ Busy' \subseteq {v} /\ (v.at \notin Code!Answers => Busy' = {v})
         /\ v.at \in Code!Answers => Busy' = {}
  BY DEF VersionsInv, Busy

\* A step of a write keeps the numbers of the versions in order.
LEMMA VersionsKept ==
  ASSUME CodeShape, BudgetInv, VersionsInv, CodeShape', BudgetInv', NEW w \in Busy, NEW v \in Writes,
         writes' = (writes \ {w}) \cup {v}, Row(w, v)
  PROVE  VersionsInv'
  <1>0. /\ ghost \in CodeGhosts /\ w \in writes /\ w \in Writes /\ w.text \in Contents
        /\ object \in [Code!Numbers -> Contents \cup {Gone}] /\ docs \subseteq Code!Docs
        /\ \A d \in docs : d.no \in Code!Numbers
        /\ v \in writes'
        /\ Cardinality(docs) \in Nat /\ IsFiniteSet(docs)
        /\ \A k \in Code!Numbers : k \in Nat
    <2>1. w \in writes /\ writes \subseteq Writes /\ docs \subseteq Code!Docs /\ IsFiniteSet(docs)
      BY DEF Busy, CodeShape, BudgetInv
    <2>2. \A k \in Code!Numbers : k \in Nat
      BY DEF Code!Numbers
    <2>3. w \in Writes /\ w.text \in Contents /\ \A d \in docs : d.no \in Code!Numbers
      BY <2>1 DEF Writes, Code!Docs
    <2>4. Cardinality(docs) \in Nat
      BY <2>1, FS_CardinalityType
    <2>5. QED
      BY <2>1, <2>2, <2>3, <2>4 DEF CodeShape
  <1>1. /\ ghost'.twoWrites = ghost.twoWrites
        /\ ghost'.pruned = ghost.pruned \/ ghost'.pruned = TRUE
    <2>1. ghost' \in {ghost, [ghost EXCEPT !.pruned = TRUE], [ghost EXCEPT !.unlisted = FALSE],
                      [ghost EXCEPT !.unlisted = @ \/ w.at \in {"insert", "duplicate", "log"}]}
      BY DEF Row
    <2>2. QED
      BY <1>0, <2>1 DEF CodeGhosts
  <1> SUFFICES ASSUME ~ghost.twoWrites
               PROVE  VersionsInv'
    BY <1>1 DEF VersionsInv
  <1>2. /\ Busy = {w} /\ Busy' \subseteq {v} /\ (v.at \notin Code!Answers => Busy' = {v})
        /\ v.at \in Code!Answers => Busy' = {}
    BY Alone
  <1> SUFFICES ASSUME ~ghost'.pruned
               PROVE  VersionsInv'
    BY <1>1, <1>2 DEF VersionsInv
  <1>3. /\ ~ghost.pruned
        /\ \A d \in docs : d.no <= Cardinality(docs) /\ object[d.no] = d.text
        /\ w.at \in {"copyFirst", "insertFirst"} => docs = {} /\ w.next = 2
        /\ w.at \in {"putVersion", "putFile", "insert", "log"} => w.next = Cardinality(docs) + 1
        /\ w.at \in {"putFile", "insert", "log"} => object[w.next] = w.text
        /\ w.at # "unlist"
        /\ w.at \in {"copyFirst", "insertFirst", "putVersion", "putFile", "insert",
                     "copyBack", "duplicate", "log"} => w.next \in Code!Numbers
    BY <1>0, <1>1, <1>2 DEF VersionsInv, BudgetInv
  <1> DEFINE Docs1 == \A d \in docs' : d.no <= Cardinality(docs') /\ object'[d.no] = d.text
             Req1 == /\ v.at \in {"copyFirst", "insertFirst"} => docs' = {} /\ v.next = 2
                     /\ v.at \in {"putVersion", "putFile", "insert", "log"} =>
                          v.next = Cardinality(docs') + 1
                     /\ v.at \in {"putFile", "insert", "log"} => object'[v.next] = v.text
                     /\ v.at # "unlist"
  <1>4. ASSUME NEW no \in Code!Numbers, NEW text \in Contents, Inserts(no, text), w \in Once,
               no = Cardinality(docs) + 1, object[no] = text, UNCHANGED object
        PROVE  Docs1 /\ Cardinality(docs') = Cardinality(docs) + 1
    <2>1. Cardinality(docs') = Cardinality(docs) + 1
      BY <1>4, DocsFacts
    <2>2. \A d \in docs' : d \in docs \/ (d.no = no /\ d.text = text)
      BY <1>4, NewDocFacts DEF Inserts
    <2>3. QED
      BY <1>0, <1>3, <1>4, <2>1, <2>2
  <1>5. ASSUME UNCHANGED docs, NEW k \in Code!Numbers, NEW t \in Contents \cup {Gone},
               object' = [object EXCEPT ![k] = t], k = Cardinality(docs) + 1
        PROVE  Docs1 /\ object'[k] = t
    <2>1. object'[k] = t /\ \A j \in Code!Numbers : j # k => object'[j] = object[j]
      BY <1>0, <1>5
    <2>2. \A d \in docs : d.no # k
      BY <1>0, <1>3, <1>5
    <2>3. QED
      BY <1>0, <1>3, <1>5, <2>1, <2>2
  <1>6. UNCHANGED <<docs, object>> => Docs1
    BY <1>3
  <1>7. Docs1 /\ Req1
    <2>1. CASE w.at = "count" /\ UNCHANGED <<docs, object>>
               /\ \/ docs = {} /\ v.at = "copyFirst" /\ v.next = 2
                  \/ v.at = "putVersion" /\ v.next = Cardinality(docs) + 1
      BY <1>6, <2>1
    <2>2. CASE /\ w.at = "copyFirst" /\ v.at = "insertFirst" /\ v.next = w.next /\ docs' = docs
      BY <1>3, <2>2
    <2>3. CASE /\ w.at = "insertFirst" /\ v.at = "putVersion" /\ v.next = w.next
               /\ object[1] # Gone /\ Inserts(1, object[1]) /\ object' = object
      <3>1. 1 \in Code!Numbers /\ object[1] \in Contents /\ w \in Once
        BY <1>0, <2>3, Room DEF Once
      <3>2. Cardinality(docs) = 0
        BY <1>3, <2>3, FS_EmptySet
      <3>3. Docs1 /\ Cardinality(docs') = 1
        BY <1>4, <2>3, <3>1, <3>2
      <3>4. QED
        BY <1>3, <2>3, <3>3
    <2>4. CASE /\ w.at = "putVersion" /\ v.at = "putFile" /\ v.text = w.text /\ v.next = w.next
               /\ object' = [object EXCEPT ![w.next] = w.text] /\ docs' = docs
      BY <1>0, <1>3, <1>5, <2>4
    <2>5. CASE /\ w.at = "putFile" /\ v.at = "insert" /\ v.text = w.text /\ v.next = w.next
               /\ UNCHANGED <<object, docs>>
      BY <1>3, <1>6, <2>5
    <2>6. CASE /\ w.at \in {"insert", "log"} /\ v.at \in {"list", "size"}
               /\ Inserts(w.next, w.text) /\ object' = object
      <3>1. w \in Once
        BY <1>0, <2>6 DEF Once
      <3>2. QED
        BY <1>0, <1>3, <1>4, <2>6, <3>1
    <2>7. CASE v.at \in {"ok", "failed", "copyBack", "duplicate", "prune"} /\ UNCHANGED <<object, docs>>
      BY <1>6, <2>7
    <2>8. CASE /\ w.at = "duplicate" /\ v.at = "log" /\ docs' = docs
               /\ object[w.next] # Gone /\ v.text = object[w.next]
               /\ object' = [object EXCEPT ![Cardinality(docs) + 1] = object[w.next]]
               /\ v.next = Cardinality(docs) + 1
      <3>1. w \in Once /\ object[w.next] \in Contents
        BY <1>0, <1>3, <2>8 DEF Once
      <3>2. Cardinality(docs) + 1 \in Code!Numbers
        BY <3>1, Room
      <3>3. QED
        BY <1>5, <2>8, <3>1, <3>2
    <2>9. ghost' # [ghost EXCEPT !.pruned = TRUE]
      BY <1>0 DEF CodeGhosts
    <2>10. w.at # "unlist"
      BY <1>3
    <2>11. QED
      BY <2>1, <2>2, <2>3, <2>4, <2>5, <2>6, <2>7, <2>8, <2>9, <2>10 DEF Row
  <1>8. QED
    BY <1>2, <1>7 DEF VersionsInv

\* A step of a write keeps the newest version at the file.
LEMMA NewestKept ==
  ASSUME CodeShape, BudgetInv, VersionsInv, NewestInv, VersionsInv',
         NEW w \in Busy, NEW v \in Writes,
         writes' = (writes \ {w}) \cup {v}, Row(w, v)
  PROVE  NewestInv'
  <1>0. /\ ghost \in CodeGhosts /\ w \in writes /\ w \in Writes /\ w.text \in Contents
        /\ object \in [Code!Numbers -> Contents \cup {Gone}] /\ docs \subseteq Code!Docs
        /\ file \in Contents
        /\ \A d \in docs : d.no \in Nat
        /\ v \in writes'
        /\ Cardinality(docs) \in Nat /\ IsFiniteSet(docs)
        /\ w.at \in {"copyFirst", "insertFirst", "putVersion", "putFile", "insert",
                     "copyBack", "duplicate", "log"} => w.next \in Code!Numbers
    BY FS_CardinalityType DEF Busy, CodeShape, Writes, Code!Docs, BudgetInv, Code!Numbers
  <1> DEFINE After == {"insert", "duplicate", "log"}
  <1> SUFFICES ASSUME ~ghost'.twoWrites, ~ghost'.pruned
               PROVE  NewestInv'
    BY DEF NewestInv
  <1>1. /\ ~ghost.twoWrites /\ ~ghost.pruned /\ w.at # "prune"
        /\ \/ w.at \in {"insert", "log"}
           \/ ghost.unlisted => ghost'.unlisted
        /\ v.at = "failed" /\ w.at \in After => ghost'.unlisted
    <2>1. \/ ghost' = ghost /\ ~(v.at = "failed" /\ w.at \in After)
          \/ ghost' = [ghost EXCEPT !.pruned = TRUE]
          \/ /\ w.at \in {"insert", "log"} /\ v.at # "failed"
             /\ ghost' = [ghost EXCEPT !.unlisted = FALSE]
          \/ ghost' = [ghost EXCEPT !.unlisted = @ \/ w.at \in After]
      BY DEF Row
    <2> DEFINE Goal == /\ ~ghost.twoWrites /\ ~ghost.pruned
                       /\ w.at \in {"insert", "log"} \/ (ghost.unlisted => ghost'.unlisted)
                       /\ v.at = "failed" /\ w.at \in After => ghost'.unlisted
    <2>2. ASSUME ghost' = ghost, ~(v.at = "failed" /\ w.at \in After)
          PROVE  Goal
      BY <2>2
    <2>3. ghost' # [ghost EXCEPT !.pruned = TRUE]
      BY <1>0 DEF CodeGhosts
    <2>4. ASSUME ghost' = [ghost EXCEPT !.unlisted = @ \/ w.at \in After]
          PROVE  Goal
      <3>1. PICK b \in BOOLEAN : b = (ghost.unlisted \/ w.at \in After)
        OBVIOUS
      <3>2. ghost' = [ghost EXCEPT !.unlisted = b]
        BY <2>4, <3>1
      <3>3. /\ ghost'.unlisted = b /\ ghost'.twoWrites = ghost.twoWrites
            /\ ghost'.pruned = ghost.pruned
        BY <1>0, <3>2 DEF CodeGhosts
      <3>4. QED
        BY <3>1, <3>3
    <2>5. ASSUME w.at \in {"insert", "log"}, v.at # "failed",
                 ghost' = [ghost EXCEPT !.unlisted = FALSE]
          PROVE  Goal
      BY <1>0, <2>5 DEF CodeGhosts
    <2>6. Goal
      BY <2>1, <2>2, <2>3, <2>4, <2>5
    <2>7. QED
      <3>1. w.at = "prune" => ghost' = [ghost EXCEPT !.pruned = TRUE]
        BY DEF Row, Busy
      <3>2. QED
        BY <2>3, <2>6, <3>1
  <1>2. /\ Busy = {w} /\ Busy' \subseteq {v} /\ (v.at \notin Code!Answers => Busy' = {v})
        /\ v.at \in Code!Answers => Busy' = {}
    BY <1>1, Alone
  <1>3. /\ \A d \in docs : d.no <= Cardinality(docs) /\ object[d.no] = d.text
        /\ w.at \in {"copyFirst", "insertFirst"} => docs = {} /\ w.next = 2
        /\ w.at \in {"putVersion", "putFile", "insert", "log"} => w.next = Cardinality(docs) + 1
        /\ w.at \in {"putFile", "insert", "log"} => object[w.next] = w.text
        /\ w.at \in {"insert", "log"} => file = w.text
        /\ w.at = "duplicate" => file = object[w.next]
        /\ w.at = "insertFirst" => file = object[1]
        /\ w.at # "unlist"
        /\ w.at \notin After => Newest \/ ghost.unlisted
    BY <1>1, <1>2 DEF VersionsInv, NewestInv
  <1> DEFINE Req1 == /\ v.at \in {"insert", "log"} => file' = v.text
                     /\ v.at = "duplicate" => file' = object'[v.next]
                     /\ v.at = "insertFirst" => file' = object'[1]
                     /\ Newest' \/ ghost'.unlisted \/ v.at \in After
  <1>4. ASSUME NEW no \in Code!Numbers, NEW text \in Contents, Inserts(no, text), w \in Once,
               no > Cardinality(docs), file' = text
        PROVE  Newest'
    <2>1. PICK x : x = NewDoc(no, text)
      OBVIOUS
    <2>2. x.no = no /\ x.text = text /\ docs' = docs \cup {x}
      BY <1>4, <2>1, NewDocFacts DEF Inserts
    <2>3. no \in Nat
      BY DEF Code!Numbers
    <2>4. \A d \in docs : d.no <= no
      BY <1>0, <1>3, <1>4, <2>3
    <2>5. \A e \in docs' : e.no <= x.no
      BY <2>2, <2>3, <2>4
    <2>6. QED
      BY <1>4, <2>2, <2>5 DEF Newest
  <1>5. UNCHANGED <<docs, file>> /\ Newest => Newest'
    BY DEF Newest
  <1>6. Req1
    <2>1. CASE /\ v.at \in {"copyFirst", "putVersion", "putFile", "ok", "failed", "copyBack",
                           "prune"}
               /\ UNCHANGED <<docs, file>>
      <3>1. w.at \in After => v.at = "failed"
        BY <2>1 DEF Row
      <3>2. Newest' \/ ghost'.unlisted
        BY <1>1, <1>3, <1>5, <2>1, <3>1
      <3>3. QED
        BY <2>1, <3>2
    <2>2. CASE /\ w.at = "copyFirst" /\ v.at = "insertFirst"
               /\ object' = [object EXCEPT ![1] = file] /\ UNCHANGED <<docs, file>>
      <3>1. 1 \in Code!Numbers
        BY <1>0, <2>2, Room DEF Once
      <3>2. object'[1] = file
        BY <1>0, <2>2, <3>1
      <3>3. QED
        BY <1>1, <1>3, <1>5, <2>2, <3>2
    <2>3. CASE /\ w.at = "insertFirst" /\ v.at = "putVersion"
               /\ object[1] # Gone /\ Inserts(1, object[1]) /\ file' = file
      <3>1. 1 \in Code!Numbers /\ object[1] \in Contents /\ w \in Once
        BY <1>0, <2>3, Room DEF Once
      <3>2. Cardinality(docs) = 0
        BY <1>3, <2>3, FS_EmptySet
      <3>3. Newest'
        BY <1>3, <1>4, <2>3, <3>1, <3>2
      <3>4. QED
        BY <2>3, <3>3
    <2>4. CASE w.at = "putFile" /\ v.at = "insert" /\ v.text = w.text /\ file' = w.text
      BY <2>4
    <2>5. CASE /\ w.at \in {"insert", "log"} /\ v.at \in {"list", "size"}
               /\ Inserts(w.next, w.text) /\ file' = file
      <3>1. w \in Once
        BY <1>0, <2>5 DEF Once
      <3>2. Newest'
        BY <1>0, <1>3, <1>4, <2>5, <3>1
      <3>3. QED
        BY <2>5, <3>2
    <2>6. CASE /\ w.at = "copyBack" /\ v.at = "duplicate" /\ v.next = w.next
               /\ file' = object[w.next] /\ object' = object
      BY <2>6
    <2>7. CASE w.at = "duplicate" /\ v.at = "log" /\ v.text = object[w.next] /\ file' = file
      BY <1>3, <2>7
    <2>8. w.at \notin {"prune", "unlist"}
      BY <1>1, <1>3
    <2>9. QED
      BY <2>1, <2>2, <2>3, <2>4, <2>5, <2>6, <2>7, <2>8 DEF Row
  <1>7. \A x \in Busy' : x = v
    BY <1>2
  <1>8. v.at \in {"insert", "log", "duplicate"} => v \in Busy'
    BY <1>2 DEF Code!Answers
  <1>9. QED
    BY <1>6, <1>7, <1>8 DEF NewestInv

\* A step of a write makes no blank text and starts no load.
LEMMA ServedTextKept ==
  ASSUME CodeShape, BudgetInv, NEW w \in Busy, NEW v \in Writes,
         writes' = (writes \ {w}) \cup {v}, Row(w, v), v.op = w.op, v.since = w.since,
         UNCHANGED <<content, loading, keySees, reads, asked>>
  PROVE  /\ BlankInv => BlankInv'
         /\ LoadsInv => LoadsInv'
  <1>0. /\ ghost \in CodeGhosts /\ w \in writes /\ w \in Writes /\ w.text \in Contents
        /\ object \in [Code!Numbers -> Contents \cup {Gone}]
        /\ w.at \in {"copyFirst", "insertFirst", "putVersion", "putFile", "insert",
                     "copyBack", "duplicate", "log"} => w.next \in Code!Numbers
    BY DEF Busy, CodeShape, Writes, BudgetInv
  <1>1. /\ ghost'.loadFailed = ghost.loadFailed /\ ghost'.twoLoads = ghost.twoLoads
        /\ ghost'.cleared = ghost.cleared /\ ghost'.overwritten = ghost.overwritten
        /\ ghost'.besideRestore = ghost.besideRestore
        /\ ghost'.replacedInLoad = ghost.replacedInLoad
    <2>1. ghost' \in {ghost, [ghost EXCEPT !.pruned = TRUE], [ghost EXCEPT !.unlisted = FALSE],
                      [ghost EXCEPT !.unlisted = @ \/ w.at \in {"insert", "duplicate", "log"}]}
      BY DEF Row
    <2>2. QED
      BY <1>0, <2>1 DEF CodeGhosts
  <1>2. ASSUME BlankInv, ~ghost.loadFailed, ~ghost.cleared
        PROVE  BlankInv'
    <2>1. /\ file # Blank /\ \A k \in Code!Numbers : object[k] # Blank
          /\ w.at \in Code!SaveSteps \cup {"log"} => w.text # Blank
          /\ Gone # Blank
      BY <1>0, <1>2, CodeConstantsOK DEF BlankInv, Code!ConstantsOK
    <2>2. /\ file' \in {file, w.text, object[w.next]} /\ (file' # file => file' # Blank)
      BY <1>0, <2>1 DEF Row, Code!SaveSteps
    <2>3. /\ \A k \in Code!Numbers : object'[k] # Blank
      <3>1. \/ object' = object
            \/ \E k, t : object' = [object EXCEPT ![k] = t] /\ t # Blank
        BY <1>0, <2>1 DEF Row, Code!SaveSteps
      <3>2. QED
        BY <1>0, <2>1, <3>1
    <2>4. v.at \in Code!SaveSteps \cup {"log"} => v.text # Blank
      BY <1>0, <2>1 DEF Row, Code!SaveSteps
    <2>5. QED
      BY <1>1, <1>2, <2>1, <2>2, <2>3, <2>4 DEF BlankInv
  <1>3. BlankInv => BlankInv'
    BY <1>1, <1>2 DEF BlankInv
  <1>4. LoadsInv => LoadsInv'
    <2>1. SUFFICES ASSUME LoadsInv, ~ghost.twoLoads PROVE LoadsInv'
      BY <1>1 DEF LoadsInv
    <2>2. /\ \A r, s \in reads : r = s
          /\ reads = {} \/ loading
      BY <2>1 DEF LoadsInv
    <2>3. ASSUME ~ghost.besideRestore, ~ghost.replacedInLoad
          PROVE  /\ ~ghost.overwritten /\ \A r \in reads : r.since = asked.edits
                 /\ \A x \in writes' : x.op = "rollback" => x.since = asked.edits
      BY <1>0, <2>1, <2>3 DEF LoadsInv
    <2>4. QED
      BY <1>1, <2>2, <2>3 DEF LoadsInv
  <1>5. QED
    BY <1>3, <1>4

\* The editor is opened.
LEMMA CodeBegins ==
  ASSUME open = TRUE, loading = TRUE, saving = FALSE, error = FALSE, Code!Init
  PROVE  Flags /\ CodeInv
  <1>1. /\ content = Blank /\ keySees = [saving |-> FALSE, loading |-> TRUE]
        /\ versions = {} /\ restoring = 0 /\ writes = {} /\ docs = {} /\ inserted = 0
        /\ reads = {[n |-> 1, got |-> Pending, chained |-> FALSE, since |-> 0]}
        /\ lists = {[n |-> 1, got |-> Pending, chained |-> FALSE]}
        /\ asked = [edits |-> 0, writes |-> 0, retries |-> 0, reads |-> 1, lists |-> 1]
        /\ file = Original /\ object = [k \in Code!Numbers |-> Gone]
        /\ ghost = [overwritten |-> FALSE, twoLoads |-> FALSE, besideRestore |-> FALSE,
                    replacedInLoad |-> FALSE, cleared |-> FALSE, loadFailed |-> FALSE,
                    twoWrites |-> FALSE, unlisted |-> FALSE, pruned |-> FALSE]
    BY DEF Code!Init
  <1>2. Original \in Contents /\ Blank \in Contents /\ Original # Blank /\ Gone # Blank
        /\ Pending # Blank /\ MaxWrites \in Nat
    BY CodeConstantsOK DEF Code!ConstantsOK, Contents
  <1>3. CodeShape
    <2>1. asked \in Counts
      BY <1>1 DEF Counts
    <2>2. ghost \in CodeGhosts
      BY <1>1 DEF CodeGhosts
    <2>3. reads \subseteq Reads /\ lists \subseteq Lists
      BY <1>1 DEF Reads, Lists
    <2>4. QED
      BY <1>1, <1>2, <2>1, <2>2, <2>3 DEF CodeShape
  <1>4. BudgetInv
    <2>1. Once = {} /\ Twice = {}
      BY <1>1 DEF Once, Twice
    <2>2. asked.writes = 0
      BY <1>1
    <2>3. QED
      BY <1>1, <1>2, <2>1, <2>2, FS_EmptySet DEF BudgetInv
  <1>5. VersionsInv /\ NewestInv /\ LoadsInv
    <2>1. /\ ~ghost.overwritten /\ Busy = {} /\ asked.edits = 0
          /\ \A r \in reads : r.since = 0
      BY <1>1 DEF Busy
    <2>2. QED
      BY <1>1, <2>1 DEF VersionsInv, NewestInv, Newest, LoadsInv
  <1>6. BlankInv
    <2>1. keySees.loading = TRUE /\ \A r \in reads : r.got = Pending
      BY <1>1
    <2>2. QED
      BY <1>1, <1>2, <2>1 DEF BlankInv
  <1>7. QED
    BY <1>3, <1>4, <1>5, <1>6 DEF CodeInv, Flags

\* Every step of the text editor keeps its inductive invariant.
LEMMA CodeKept ==
  ASSUME Flags, CodeInv, Code!Next
  PROVE  Flags' /\ CodeInv'
  <1>0. CodeShape /\ BudgetInv /\ VersionsInv /\ NewestInv /\ BlankInv /\ LoadsInv
    BY DEF CodeInv
  <1>1. CASE Does
    <2>1. Flags' /\ BlankInv' /\ LoadsInv'
      BY <1>0, <1>1 DEF Does, ClientShape
    <2>2. QED
      BY <1>0, <1>1, <2>1, ClientKept DEF CodeInv
  <1>2. ASSUME NEW w \in writes, Code!Serve(w)
        PROVE  Flags' /\ CodeInv'
    <2>1. PICK v \in Writes : /\ writes' = (writes \ {w}) \cup {v} /\ Row(w, v)
                              /\ v.op = w.op /\ v.since = w.since
      BY <1>0, <1>2, ServeFacts
    <2>2. /\ w \in Busy /\ asked' = asked
          /\ UNCHANGED <<open, content, loading, saving, error, keySees, versions, restoring,
                         reads, lists>>
      BY <1>0, <1>2, ServeFacts
    <2>3. CodeShape' /\ BudgetInv'
      BY <1>0, <2>1, <2>2, ServeKept
    <2>4. VersionsInv'
      BY <1>0, <2>1, <2>2, <2>3, VersionsKept
    <2>5. NewestInv'
      BY <1>0, <2>1, <2>2, <2>4, NewestKept
    <2>6. BlankInv' /\ LoadsInv'
      BY <1>0, <2>1, <2>2, ServedTextKept
    <2>7. Flags'
      BY <2>2 DEF Flags
    <2>8. QED
      BY <2>3, <2>4, <2>5, <2>6, <2>7 DEF CodeInv
  <1>3. QED
    BY <1>0, <1>1, <1>2, ClientSteps

\* The variables of the text editor that keep their first values while another
\* editor is open.
CodeIdle == CodeShape /\ docs = {} /\ file = Original /\ ~ghost.overwritten

\* The text editor's variables are of their types.
LEMMA CodeTyped ==
  ASSUME Flags, CodeShape
  PROVE  Code!TypeOK
  <1>1. \A r \in reads : r.got \in Texts \cup {Blank, Pending, Failed} /\ r.chained \in BOOLEAN
    BY DEF CodeShape, Reads, Contents
  <1>2. \A l \in lists : /\ l.chained \in BOOLEAN
                         /\ l.got \in {Pending, Failed} \/ l.got \subseteq Code!Docs
    BY DEF CodeShape, Lists
  <1>3. \A w \in writes : w.at \in Code!SaveSteps \cup Code!RollbackSteps \cup Code!Answers
    BY DEF CodeShape, Writes
  <1>4. QED
    BY <1>1, <1>2, <1>3 DEF Flags, CodeShape, Code!TypeOK, Contents, Counts, CodeGhosts

\* No text is lost, by the inductive invariant.
LEMMA CodeKeepsTheText ==
  ASSUME CodeInv
  PROVE  TextIsKept
  <1>1. VersionsHoldWhatWasSaved
    BY DEF CodeInv, VersionsInv, VersionsHoldWhatWasSaved
  <1>2. NewestVersionIsTheFile
    <2>1. SUFFICES ASSUME docs # {}, ~Writing, ~ghost.pruned, ~ghost.twoWrites, ~ghost.unlisted
                   PROVE  \E d \in docs : d.text = file /\ \A e \in docs : e.no <= d.no
      BY DEF NewestVersionIsTheFile
    <2>2. Busy = {}
      BY <2>1 DEF Writing, Busy, Code!Answers
    <2>3. Newest
      BY <2>1, <2>2 DEF CodeInv, NewestInv
    <2>4. QED
      BY <2>1, <2>3 DEF Newest
  <1>3. BlankOnlyByIntent
    BY DEF CodeInv, BlankInv, BlankOnlyByIntent
  <1>4. EditsOverwrittenOnlyThen
    BY DEF CodeInv, LoadsInv, EditsOverwrittenOnlyThen
  <1>5. QED
    BY <1>1, <1>2, <1>3, <1>4 DEF TextIsKept

\* Nor is it where the text editor is not open.
LEMMA IdleCodeKeepsTheText ==
  ASSUME CodeIdle
  PROVE  TextIsKept
  <1>1. file # Blank
    BY CodeConstantsOK DEF Code!ConstantsOK, CodeIdle
  <1>2. QED
    BY <1>1 DEF CodeIdle, TextIsKept, VersionsHoldWhatWasSaved, NewestVersionIsTheFile,
       BlankOnlyByIntent, EditsOverwrittenOnlyThen

\* What the variables of the document editor hold.
Seen == [typed : BOOLEAN, hiddenEdit : BOOLEAN, hiddenSave : BOOLEAN,
         editWhileSaving : BOOLEAN, twoSaves : BOOLEAN]
Steps == {"meta", "content", "parsed", "done", "failed"}
Saves == [n : Nat, at : {"sent", "ok", "failed"}, content : Seq(Docx!Paras)]
DocxShape ==
  /\ {storageKey, dirty, saved, saveError} \subseteq BOOLEAN
  /\ load \in [at : Steps, content : Seq(Docx!Paras)]
  /\ paragraphs \in Seq(Docx!Paras) /\ paragraphs # <<>>
  /\ stack \in Seq(Seq(Docx!Paras)) /\ Len(stack) \in 1..HISTORY /\ idx \in 0..(HISTORY - 1)
  /\ \A i \in 1..Len(stack) : stack[i] # <<>>
  /\ activeIdx \in Nat /\ focusing \subseteq Nat /\ fades \in Nat
  /\ saves \subseteq Saves
  /\ done \in [edits : 0..MaxEditsDocx, saves : 0..MaxSaves]
  /\ stored \in Seq(Docx!Paras) /\ seen \in Seen

\* One save at a time, of the document there is: until it is answered the editor
\* is dirty, and what it has stored is the document; without one the stored
\* document is what was loaded, or the editor is dirty.
OneSave ==
  (~seen.editWhileSaving /\ ~seen.twoSaves /\ ~seen.hiddenSave) =>
    /\ \A s, t \in saves : s = t
    /\ saves # {} => dirty /\ load.at = "done"
    /\ \A s \in saves : s.content = paragraphs /\ (s.at = "ok" => stored = Docx!Rebuilt(s.content))
    /\ load.at = "done" /\ ~dirty =>
         Docx!Rebuilt(paragraphs) = Docx!Rebuilt(stored) \/ stored = <<>>

\* Before the document is there only a hidden save changes what is stored.
SavesInv ==
  /\ (~seen.hiddenSave /\ load.at # "done") =>
       saves = {} /\ (load.at = "parsed" => load.content = Docx!Rebuilt(stored))
  /\ OneSave

\* Nothing was edited out of sight: the index is in the stack, at the first
\* state until the document is there.
StackInv ==
  ~seen.hiddenEdit =>
    /\ idx < Len(stack)
    /\ ~seen.typed => stack[idx + 1] = paragraphs
    /\ load.at \in {"meta", "content", "parsed"} => loading /\ idx = 0
    /\ load.at = "failed" => error

DocxInv == DocxShape /\ SavesInv /\ StackInv

-----------------------------------------------------------------------------
(* The document and the history. *)

\* What is made of a document paragraph by paragraph is a document.
LEMMA DocFacts ==
  ASSUME NEW doc \in Seq(Docx!Paras), doc # <<>>, NEW f, f \in [DOMAIN doc -> Docx!Paras]
  PROVE  f \in Seq(Docx!Paras) /\ f # <<>> /\ Len(f) = Len(doc)
  <1>1. Len(doc) \in Nat /\ DOMAIN doc = 1..Len(doc) /\ Len(doc) # 0
    BY EmptySeq
  <1>2. f \in Seq(Docx!Paras)
    BY <1>1 DEF Seq
  <1>3. Len(f) = Len(doc)
    BY <1>1, <1>2
  <1>4. QED
    BY <1>1, <1>2, <1>3

\* An empty paragraph is a paragraph.
LEMMA EmptyFacts ==
  Docx!EMPTY_PARA \in Docx!Paras /\ <<Docx!EMPTY_PARA>> \in Seq(Docx!Paras) /\ <<Docx!EMPTY_PARA>> # <<>>
  <1>1. Docx!EMPTY_PARA \in Docx!Paras
    BY DEF Docx!EMPTY_PARA, Docx!Paras
  <1>2. QED
    BY <1>1

\* What the API makes of a document is a document, and it makes the same of that.
LEMMA RebuiltFacts ==
  ASSUME NEW doc \in Seq(Docx!Paras)
  PROVE  /\ Docx!Rebuilt(doc) \in Seq(Docx!Paras)
         /\ Docx!Rebuilt(Docx!Rebuilt(doc)) = Docx!Rebuilt(doc)
         /\ Docx!Rebuilt(doc) = <<>> => doc = <<>>
  <1> DEFINE Kind(p) == [p EXCEPT !.style = Written[p.style]]
  <1>0. /\ \A style \in Styles \cup {Plain} : /\ Written[style] \in Styles \cup {Plain}
                                             /\ Written[Written[style]] = Written[style]
    BY DocxConstantsOK DEF Docx!ConstantsOK
  <1>1. \A p \in Docx!Paras : Kind(p) \in Docx!Paras /\ Kind(Kind(p)) = Kind(p)
    <2>1. SUFFICES ASSUME NEW p \in Docx!Paras
                   PROVE  Kind(p) \in Docx!Paras /\ Kind(Kind(p)) = Kind(p)
      OBVIOUS
    <2>2. PICK s \in Styles \cup {Plain} : s = Written[p.style] /\ Written[s] = s
      BY <1>0 DEF Docx!Paras
    <2>3. PICK q : q = [p EXCEPT !.style = s]
      OBVIOUS
    <2>4. q \in Docx!Paras /\ q.style = s
      BY <2>3 DEF Docx!Paras
    <2>5. [q EXCEPT !.style = s] = q
      BY <2>4 DEF Docx!Paras
    <2>6. QED
      BY <2>2, <2>3, <2>4, <2>5
  <1>2. Docx!Rebuilt(doc) = [i \in DOMAIN doc |-> Kind(doc[i])]
    BY DEF Docx!Rebuilt
  <1>3. \A i \in DOMAIN doc : doc[i] \in Docx!Paras
    BY ElementOfSeq
  <1> HIDE DEF Kind
  <1>4. Docx!Rebuilt(doc) \in [DOMAIN doc -> Docx!Paras]
    BY <1>1, <1>2, <1>3
  <1>5. DOMAIN doc = 1..Len(doc) /\ Len(doc) \in Nat
    OBVIOUS
  <1>6. Docx!Rebuilt(doc) \in Seq(Docx!Paras)
    BY <1>4, <1>5 DEF Seq
  <1>7. Docx!Rebuilt(Docx!Rebuilt(doc)) = [i \in DOMAIN Docx!Rebuilt(doc) |-> Kind(Docx!Rebuilt(doc)[i])]
    BY DEF Docx!Rebuilt, Kind
  <1>8. DOMAIN Docx!Rebuilt(doc) = DOMAIN doc
    BY <1>2
  <1>9. \A i \in DOMAIN doc : Kind(Docx!Rebuilt(doc)[i]) = Docx!Rebuilt(doc)[i]
    BY <1>1, <1>2, <1>3
  <1>10. Docx!Rebuilt(Docx!Rebuilt(doc)) = Docx!Rebuilt(doc)
    BY <1>2, <1>7, <1>8, <1>9, <1>1, <1>3
  <1>11. Docx!Rebuilt(doc) = <<>> => doc = <<>>
    <2>1. SUFFICES ASSUME Docx!Rebuilt(doc) = <<>> PROVE doc = <<>>
      OBVIOUS
    <2>2. DOMAIN doc = {}
      BY <1>8, <2>1
    <2>3. Len(doc) = 0
      BY <1>5, <2>2
    <2>4. QED
      BY <2>3, EmptySeq
  <1>12. QED
    BY <1>6, <1>10, <1>11

\* What the history may hold.
Stacks == {s \in Seq(Seq(Docx!Paras)) : Len(s) \in 1..HISTORY /\ \A i \in 1..Len(s) : s[i] # <<>>}

\* A push leaves a history; when the index it was told is that of the stack, the
\* index is at what was pushed.
LEMMA PushFacts ==
  ASSUME DocxShape, NEW at \in Nat, NEW doc \in Seq(Docx!Paras), doc # <<>>, Docx!Push(at, doc)
  PROVE  /\ stack' \in Stacks /\ idx' \in 0..(HISTORY - 1)
         /\ (at = idx /\ idx < Len(stack)) =>
              idx' < Len(stack') /\ stack'[idx' + 1] = doc
  <1>1. /\ HISTORY \in Nat \ {0} /\ stack \in Seq(Seq(Docx!Paras)) /\ Len(stack) \in 1..HISTORY
        /\ idx \in 0..(HISTORY - 1) /\ \A i \in 1..Len(stack) : stack[i] # <<>>
    BY DocxConstantsOK DEF Docx!ConstantsOK, DocxShape
  <1>2. PICK n : n = Docx!Min2(at + 1, Len(stack))
    OBVIOUS
  <1>3. n \in 1..Len(stack) /\ (at < Len(stack) => n = at + 1)
    BY <1>1, <1>2 DEF Docx!Min2
  <1>4. PICK past : past = SubSeq(stack, 1, n)
    OBVIOUS
  <1>5. past \in Seq(Seq(Docx!Paras)) /\ Len(past) = n /\ \A i \in 1..n : past[i] = stack[i]
    BY <1>1, <1>3, <1>4, SubSeqProperties
  <1>6. PICK next : next = Append(past, doc)
    OBVIOUS
  <1>7. /\ next \in Seq(Seq(Docx!Paras)) /\ Len(next) = n + 1 /\ next[n + 1] = doc
        /\ \A i \in 1..(n + 1) : next[i] # <<>>
    <2>1. next \in Seq(Seq(Docx!Paras)) /\ Len(next) = n + 1 /\ next[n + 1] = doc
      BY <1>3, <1>5, <1>6
    <2>2. \A i \in 1..n : next[i] = past[i]
      BY <1>3, <1>5, <1>6
    <2>3. QED
      <3>1. \A i \in 1..(n + 1) : i \in 1..n \/ i = n + 1
        BY <1>3
      <3>2. \A i \in 1..n : next[i] # <<>>
        <4>1. \A i \in 1..n : i \in 1..Len(stack)
          BY <1>3
        <4>2. QED
          BY <1>1, <1>5, <2>2, <4>1
      <3>3. QED
        BY <2>1, <3>1, <3>2
  <1>8. PICK k : k = Docx!Max2(1, Len(next) - HISTORY + 1)
    OBVIOUS
  <1>9. k \in 1..2 /\ (k = 1 => n + 1 <= HISTORY) /\ (k = 2 => n = HISTORY)
    BY <1>1, <1>3, <1>7, <1>8 DEF Docx!Max2
  <1>10. stack' = SubSeq(next, k, n + 1) /\ idx' = Docx!Min2(idx + 1, HISTORY - 1)
    BY <1>2, <1>4, <1>6, <1>7, <1>8 DEF Docx!Push
  <1>11. /\ stack' \in Seq(Seq(Docx!Paras)) /\ Len(stack') = n + 2 - k
         /\ \A i \in 1..(n + 2 - k) : stack'[i] = next[k + i - 1]
    BY <1>3, <1>7, <1>9, <1>10, SubSeqProperties
  <1>12. Len(stack') \in 1..HISTORY
    BY <1>1, <1>3, <1>9, <1>11
  <1>13. \A i \in 1..Len(stack') : stack'[i] # <<>>
    <2>1. \A i \in 1..(n + 2 - k) : k + i - 1 \in 1..(n + 1)
      BY <1>3, <1>9
    <2>2. QED
      BY <1>7, <1>11, <2>1
  <1>14. idx' \in 0..(HISTORY - 1)
    BY <1>1, <1>10 DEF Docx!Min2
  <1>15. ASSUME at = idx, idx < Len(stack)
         PROVE  idx' < Len(stack') /\ stack'[idx' + 1] = doc
    <2>1. n = idx + 1
      BY <1>3, <1>15
    <2>2. idx' = n + 1 - k
      BY <1>1, <1>9, <1>10, <2>1 DEF Docx!Min2
    <2>3. QED
      BY <1>3, <1>7, <1>9, <1>11, <2>2
  <1>16. QED
    BY <1>11, <1>12, <1>13, <1>14, <1>15 DEF Stacks

-----------------------------------------------------------------------------
(* The edits. *)

\* Every edit makes the editor dirty; one that the screen shows leaves the index
\* at the document, or remembers that something was typed.
LEMMA DocxEditKept ==
  ASSUME Flags, DocxInv, Docx!Edits, NEW doc \in Seq(Docx!Paras), doc # <<>>, paragraphs' = doc,
         NEW typed \in BOOLEAN, Docx!Remember(typed),
         activeIdx' \in Nat, focusing' \subseteq Nat, saved' \in BOOLEAN,
         stack' \in Stacks, idx' \in 0..(HISTORY - 1),
         ~seen.hiddenEdit => /\ idx' < Len(stack')
                             /\ ~typed => stack'[idx' + 1] = doc
  PROVE  Flags' /\ DocxInv'
  <1>1. /\ done \in [edits : 0..MaxEditsDocx, saves : 0..MaxSaves] /\ seen \in Seen
        /\ MaxEditsDocx \in Nat /\ open /\ done.edits < MaxEditsDocx
        /\ done' = [done EXCEPT !.edits = @ + 1] /\ dirty' = TRUE
        /\ UNCHANGED <<open, loading, saving, error, load, storageKey, saveError, fades,
                       saves, stored>>
    BY DocxConstantsOK DEF Docx!ConstantsOK, DocxInv, DocxShape, Docx!Edits
  <1>2. done' \in [edits : 0..MaxEditsDocx, saves : 0..MaxSaves]
    <2>1. done.edits + 1 \in 0..MaxEditsDocx
      BY <1>1
    <2>2. QED
      BY <1>1, <2>1
  <1>3. PICK h \in BOOLEAN : h = (seen.hiddenEdit \/ ~Docx!CanvasShown)
    OBVIOUS
  <1>4. PICK e \in BOOLEAN, b \in BOOLEAN, t \in BOOLEAN :
          /\ e = (saves # {}) /\ t = (seen.twoSaves /\ saves # {})
          /\ b = (seen.hiddenSave /\ (saves # {} \/ load.at # "done"))
    OBVIOUS
  <1>5. seen' = [typed |-> typed, hiddenEdit |-> h, hiddenSave |-> b, editWhileSaving |-> e,
                 twoSaves |-> t]
    BY <1>3, <1>4 DEF Docx!Remember
  <1>6. /\ seen' \in Seen /\ seen'.typed = typed /\ seen'.hiddenEdit = h
        /\ seen'.editWhileSaving = e /\ seen'.hiddenSave = b
    BY <1>1, <1>5 DEF Seen
  <1>7. DocxShape'
    <2>1. /\ stack' \in Seq(Seq(Docx!Paras)) /\ Len(stack') \in 1..HISTORY
          /\ \A i \in 1..Len(stack') : stack'[i] # <<>>
      BY DEF Stacks
    <2>2. QED
      BY <1>1, <1>2, <1>6, <2>1 DEF DocxInv, DocxShape
  <1>8. SavesInv'
    <2>1. OneSave'
      BY <1>1, <1>4, <1>6 DEF OneSave
    <2>2. load.at # "done" => seen'.hiddenSave = seen.hiddenSave
      BY <1>1, <1>4, <1>6 DEF Seen
    <2>3. QED
      BY <1>1, <2>1, <2>2 DEF DocxInv, SavesInv, OneSave
  <1>9. StackInv'
    <2>1. SUFFICES ASSUME ~h
                   PROVE  /\ idx' < Len(stack')
                          /\ ~typed => stack'[idx' + 1] = doc
                          /\ load.at \notin {"meta", "content", "parsed", "failed"}
      BY <1>1, <1>6 DEF StackInv
    <2>2. ~seen.hiddenEdit /\ ~loading /\ ~error
      BY <1>3, <2>1 DEF Docx!CanvasShown
    <2>3. load.at \notin {"meta", "content", "parsed", "failed"}
      BY <2>2 DEF DocxInv, StackInv
    <2>4. QED
      BY <2>2, <2>3
  <1>10. Flags'
    BY <1>1 DEF Flags
  <1>11. QED
    BY <1>7, <1>8, <1>9, <1>10 DEF DocxInv

\* An edit that the history records.
LEMMA RecordKept ==
  ASSUME Flags, DocxInv, NEW doc \in Seq(Docx!Paras), doc # <<>>, Docx!Record(doc),
         activeIdx' \in Nat, focusing' \subseteq Nat, saved' \in BOOLEAN
  PROVE  Flags' /\ DocxInv'
  <1>0. idx \in Nat
    BY DocxConstantsOK DEF Docx!ConstantsOK, DocxInv, DocxShape
  <1>1. DocxShape /\ Docx!Push(idx, doc) /\ Docx!Edits /\ paragraphs' = doc /\ Docx!Remember(FALSE)
    BY DEF DocxInv, Docx!Record
  <1>2. /\ stack' \in Stacks /\ idx' \in 0..(HISTORY - 1)
        /\ idx < Len(stack) => idx' < Len(stack') /\ stack'[idx' + 1] = doc
    BY <1>0, <1>1, PushFacts
  <1>3. ~seen.hiddenEdit => idx < Len(stack)
    BY DEF DocxInv, StackInv
  <1>4. QED
    BY <1>1, <1>2, <1>3, DocxEditKept

\* A step to an entry of the history.
LEMMA StepKept ==
  ASSUME Flags, DocxInv, NEW i \in 0..(HISTORY - 1), Docx!StepTo(i), idx' = i
  PROVE  Flags' /\ DocxInv'
  <1>1. /\ stack \in Seq(Seq(Docx!Paras)) /\ Len(stack) \in 1..HISTORY
        /\ \A k \in 1..Len(stack) : stack[k] # <<>>
        /\ activeIdx \in Nat /\ focusing \subseteq Nat /\ saved \in BOOLEAN
    BY DEF DocxInv, DocxShape
  <1>2. i < Len(stack) /\ Docx!Edits /\ paragraphs' = stack[i + 1] /\ Docx!Remember(FALSE)
        /\ UNCHANGED <<stack, activeIdx, focusing, saved>>
    BY DEF Docx!StepTo
  <1>3. i + 1 \in 1..Len(stack)
    BY <1>1, <1>2
  <1>4. stack[i + 1] \in Seq(Docx!Paras) /\ stack[i + 1] # <<>>
    BY <1>1, <1>3
  <1>5. stack \in Stacks
    BY <1>1 DEF Stacks
  <1>6. QED
    BY <1>1, <1>2, <1>4, <1>5, DocxEditKept

\* Past the end of the history only the index moves, and it is there only when
\* something was edited out of sight.
LEMMA StepNowhereKept ==
  ASSUME Flags, DocxInv, NEW i \in 0..(HISTORY - 1), Docx!StepNowhere(i), idx' = i, i <= idx
  PROVE  Flags' /\ DocxInv'
  <1>1. /\ i >= Len(stack)
        /\ UNCHANGED <<open, loading, saving, error, load, storageKey, paragraphs, stack,
                       activeIdx, focusing, dirty, saved, saveError, fades, saves, done,
                       stored, seen>>
    BY DEF Docx!StepNowhere
  <1>2. idx >= Len(stack)
    BY <1>1 DEF DocxInv, DocxShape
  <1>3. seen.hiddenEdit
    BY <1>2 DEF DocxInv, DocxShape, StackInv
  <1>4. DocxShape'
    BY <1>1 DEF DocxInv, DocxShape
  <1>5. SavesInv' /\ StackInv'
    BY <1>1, <1>3 DEF DocxInv, SavesInv, OneSave, StackInv
  <1>6. QED
    BY <1>1, <1>4, <1>5 DEF DocxInv, Flags

\* Undo and redo.
LEMMA HistoryKept ==
  ASSUME Flags, DocxInv, Docx!handleUndo \/ Docx!handleRedo
  PROVE  Flags' /\ DocxInv'
  <1>1. /\ HISTORY \in Nat \ {0} /\ Len(stack) \in 1..HISTORY /\ idx \in 0..(HISTORY - 1)
    BY DocxConstantsOK DEF Docx!ConstantsOK, DocxInv, DocxShape
  <1>2. CASE Docx!handleUndo
    <2>1. PICK i : i = Docx!Max2(1, idx) - 1
      OBVIOUS
    <2>2. i \in 0..(HISTORY - 1) /\ i <= idx
      BY <1>1, <2>1 DEF Docx!Max2
    <2>3. idx' = i /\ (Docx!StepTo(i) \/ Docx!StepNowhere(i))
      BY <1>2, <2>1 DEF Docx!handleUndo
    <2>4. QED
      BY <2>2, <2>3, StepKept, StepNowhereKept
  <1>3. CASE Docx!handleRedo
    <2>1. PICK i : i = Docx!Min2(Len(stack) - 1, idx + 1)
      OBVIOUS
    <2>2. i \in 0..(HISTORY - 1)
      BY <1>1, <2>1 DEF Docx!Min2
    <2>3. idx' = i /\ Docx!StepTo(i)
      BY <1>3, <2>1 DEF Docx!handleRedo
    <2>4. QED
      BY <2>2, <2>3, StepKept
  <1>4. QED
    BY <1>2, <1>3

\* The formats of the toolbar.
LEMMA ActiveKept ==
  ASSUME Flags, DocxInv, NEW style \in Styles, Docx!updateActive(style)
  PROVE  Flags' /\ DocxInv'
  <1>1. /\ paragraphs \in Seq(Docx!Paras) /\ paragraphs # <<>>
        /\ activeIdx \in Nat /\ focusing \subseteq Nat
    BY DEF DocxInv, DocxShape
  <1>2. PICK doc : doc = [i \in DOMAIN paragraphs |->
                            IF i = activeIdx + 1 THEN Docx!Styled(paragraphs[i], style)
                            ELSE paragraphs[i]]
    OBVIOUS
  <1>3. \A p \in Docx!Paras : Docx!Styled(p, style) \in Docx!Paras
    BY DEF Docx!Paras, Docx!Styled
  <1>4. doc \in [DOMAIN paragraphs -> Docx!Paras]
    BY <1>1, <1>2, <1>3
  <1>5. doc \in Seq(Docx!Paras) /\ doc # <<>>
    BY <1>1, <1>4, DocFacts
  <1>6. Docx!Record(doc) /\ saved' = FALSE /\ UNCHANGED <<activeIdx, focusing>>
    BY <1>2 DEF Docx!updateActive
  <1>7. QED
    BY <1>1, <1>5, <1>6, RecordKept

\* Typing in a paragraph.
LEMMA TypedKept ==
  ASSUME Flags, DocxInv, NEW i \in 0..(Len(paragraphs) - 1), NEW text \in Words \cup {EmptyText},
         Docx!updateParagraph(i, text)
  PROVE  Flags' /\ DocxInv'
  <1>1. /\ paragraphs \in Seq(Docx!Paras) /\ paragraphs # <<>> /\ focusing \subseteq Nat
        /\ stack \in Stacks /\ idx \in 0..(HISTORY - 1)
    BY DEF DocxInv, DocxShape, Stacks
  <1>2. PICK doc : doc = [paragraphs EXCEPT ![i + 1].text = text]
    OBVIOUS
  <1>3. \A p \in Docx!Paras : [p EXCEPT !.text = text] \in Docx!Paras
    BY DEF Docx!Paras
  <1>4. i + 1 \in DOMAIN paragraphs /\ i \in Nat
    BY <1>1
  <1>5. doc = [paragraphs EXCEPT ![i + 1] = [paragraphs[i + 1] EXCEPT !.text = text]]
    BY <1>2
  <1>6. doc \in [DOMAIN paragraphs -> Docx!Paras]
    BY <1>1, <1>3, <1>4, <1>5
  <1>7. doc \in Seq(Docx!Paras) /\ doc # <<>>
    BY <1>1, <1>6, DocFacts
  <1>8. /\ Docx!Edits /\ paragraphs' = doc /\ Docx!Remember(TRUE) /\ activeIdx' = i
        /\ saved' = FALSE
        /\ UNCHANGED <<stack, idx, focusing>>
    BY <1>2 DEF Docx!updateParagraph
  <1>9. ~seen.hiddenEdit => idx < Len(stack)
    BY DEF DocxInv, StackInv
  <1>10. QED
    BY <1>1, <1>4, <1>7, <1>8, <1>9, DocxEditKept

\* Deleting a paragraph.
LEMMA DeletedKept ==
  ASSUME Flags, DocxInv, NEW i \in 0..(Len(paragraphs) - 1), Docx!deleteParagraph(i)
  PROVE  Flags' /\ DocxInv'
  <1>1. /\ paragraphs \in Seq(Docx!Paras) /\ Len(paragraphs) \in Nat /\ Len(paragraphs) > 1
        /\ activeIdx \in Nat /\ focusing \subseteq Nat /\ saved \in BOOLEAN
    BY DEF DocxInv, DocxShape, Docx!deleteParagraph
  <1>2. PICK before : before = SubSeq(paragraphs, 1, i)
    OBVIOUS
  <1>3. PICK after : after = SubSeq(paragraphs, i + 2, Len(paragraphs))
    OBVIOUS
  <1>4. before \in Seq(Docx!Paras) /\ Len(before) = i
    BY <1>1, <1>2, SubSeqProperties
  <1>5. after \in Seq(Docx!Paras) /\ Len(after) = Len(paragraphs) - 1 - i
    BY <1>1, <1>3, SubSeqProperties
  <1>6. before \o after \in Seq(Docx!Paras) /\ Len(before \o after) = Len(paragraphs) - 1
    BY <1>1, <1>4, <1>5, ConcatProperties
  <1>7. before \o after # <<>>
    BY <1>1, <1>6, EmptySeq
  <1>8. /\ Docx!Record(before \o after)
        /\ activeIdx' = Docx!Min2(activeIdx, Len(paragraphs) - 2)
        /\ UNCHANGED <<focusing, saved>>
    BY <1>2, <1>3 DEF Docx!deleteParagraph
  <1>9. activeIdx' \in Nat
    BY <1>1, <1>8 DEF Docx!Min2
  <1>10. QED
    BY <1>1, <1>6, <1>7, <1>8, <1>9, RecordKept

\* The paragraph that is added is a paragraph.
LEMMA NewAfterFacts ==
  ASSUME paragraphs \in Seq(Docx!Paras), NEW i \in Nat
  PROVE  Docx!NewAfter(i) \in Docx!Paras
  <1>1. CASE i < Len(paragraphs)
    <2>1. paragraphs[i + 1] \in Docx!Paras
      BY <1>1
    <2>2. PICK style \in Styles \cup {Plain} : style = Inherited[paragraphs[i + 1].style]
      BY <2>1, DocxConstantsOK DEF Docx!ConstantsOK, Docx!Paras
    <2>3. Docx!NewAfter(i) = [Docx!EMPTY_PARA EXCEPT !.style = style]
      BY <1>1, <2>2 DEF Docx!NewAfter
    <2>4. QED
      BY <2>3 DEF Docx!EMPTY_PARA, Docx!Paras
  <1>2. CASE ~(i < Len(paragraphs))
    BY <1>2, EmptyFacts DEF Docx!NewAfter
  <1>3. QED
    BY <1>1, <1>2

\* A new paragraph.
LEMMA AddedKept ==
  ASSUME Flags, DocxInv, NEW i \in 0..MaxParas, Docx!addParagraphAfter(i)
  PROVE  Flags' /\ DocxInv'
  <1>1. /\ paragraphs \in Seq(Docx!Paras) /\ Len(paragraphs) \in Nat /\ i \in Nat
        /\ activeIdx \in Nat /\ focusing \subseteq Nat /\ saved \in BOOLEAN
    BY DocxConstantsOK DEF Docx!ConstantsOK, DocxInv, DocxShape
  <1>2. PICK n : n = Docx!Min2(i + 1, Len(paragraphs))
    OBVIOUS
  <1>3. PICK before : before = SubSeq(paragraphs, 1, n)
    OBVIOUS
  <1>4. PICK after : after = SubSeq(paragraphs, i + 2, Len(paragraphs))
    OBVIOUS
  <1>5. n \in 0..Len(paragraphs)
    BY <1>1, <1>2 DEF Docx!Min2
  <1>6. before \in Seq(Docx!Paras)
    BY <1>1, <1>3, <1>5, SubSeqProperties
  <1>7. after \in Seq(Docx!Paras)
    BY <1>1, <1>4, SubSeqProperties
  <1>8. PICK front : front = before \o <<Docx!NewAfter(i)>>
    OBVIOUS
  <1>9. front \in Seq(Docx!Paras) /\ Len(front) = Len(before) + 1 /\ Len(before) \in Nat
    <2>1. Docx!NewAfter(i) \in Docx!Paras
      BY <1>1, NewAfterFacts
    <2>2. PICK new \in Docx!Paras : new = Docx!NewAfter(i)
      BY <2>1
    <2>3. <<new>> \in Seq(Docx!Paras) /\ Len(<<new>>) = 1
      OBVIOUS
    <2>4. QED
      BY <1>6, <1>8, <2>2, <2>3, ConcatProperties
  <1>10. front \o after \in Seq(Docx!Paras) /\ Len(front \o after) = Len(front) + Len(after)
         /\ Len(after) \in Nat
    <2>1. Len(after) \in Nat
      BY <1>7
    <2>2. front \in Seq(Docx!Paras)
      BY <1>9
    <2>3. QED
      BY <1>7, <2>1, <2>2, ConcatProperties
  <1>11. front \o after # <<>>
    BY <1>9, <1>10, EmptySeq
  <1>12. /\ Docx!Record(front \o after) /\ focusing' = focusing \cup {i + 1}
         /\ UNCHANGED <<activeIdx, saved>>
    BY <1>2, <1>3, <1>4, <1>8 DEF Docx!addParagraphAfter
  <1>13. activeIdx' \in Nat /\ focusing' \subseteq Nat /\ saved' \in BOOLEAN
    BY <1>1, <1>12
  <1>14. QED
    BY <1>10, <1>11, <1>12, <1>13, RecordKept

\* Find and replace.
LEMMA ReplacedKept ==
  ASSUME Flags, DocxInv, NEW find \in Words, NEW replace \in Words \cup {EmptyText},
         Docx!handleFindReplace(find, replace)
  PROVE  Flags' /\ DocxInv'
  <1>1. /\ paragraphs \in Seq(Docx!Paras) /\ paragraphs # <<>>
        /\ activeIdx \in Nat /\ focusing \subseteq Nat /\ saved \in BOOLEAN
    BY DEF DocxInv, DocxShape
  <1>2. PICK doc : doc = [i \in DOMAIN paragraphs |->
                            IF paragraphs[i].text = find
                              THEN [paragraphs[i] EXCEPT !.text = replace]
                              ELSE paragraphs[i]]
    OBVIOUS
  <1>3. \A p \in Docx!Paras : [p EXCEPT !.text = replace] \in Docx!Paras
    BY DEF Docx!Paras
  <1>4. doc \in [DOMAIN paragraphs -> Docx!Paras]
    BY <1>1, <1>2, <1>3
  <1>5. doc \in Seq(Docx!Paras) /\ doc # <<>>
    BY <1>1, <1>4, DocFacts
  <1>6. Docx!Record(doc) /\ UNCHANGED <<activeIdx, focusing, saved>>
    BY <1>2 DEF Docx!handleFindReplace
  <1>7. QED
    BY <1>1, <1>5, <1>6, RecordKept

-----------------------------------------------------------------------------
(* Loading and saving. *)

\* The document is loaded.
LEMMA LoadKept ==
  ASSUME Flags, DocxInv,
         \/ Docx!MetadataArrives \/ Docx!get_docx_content
         \/ Docx!DocumentArrives \/ Docx!LoadFails
  PROVE  Flags' /\ DocxInv'
  <1>0. /\ load \in [at : Steps, content : Seq(Docx!Paras)] /\ stored \in Seq(Docx!Paras)
        /\ load.at \in {"meta", "content", "parsed"} /\ open
        /\ UNCHANGED <<open, saving, activeIdx, focusing, dirty, saved, saveError, fades,
                       saves, done, stored, seen>>
    BY DEF DocxInv, DocxShape, Docx!MetadataArrives, Docx!get_docx_content,
           Docx!DocumentArrives, Docx!LoadFails, Docx!Loads
  <1>1. CASE Docx!MetadataArrives
    <2>1. /\ load.at = "meta" /\ load' = [load EXCEPT !.at = "content"] /\ storageKey' = TRUE
          /\ UNCHANGED <<loading, error, paragraphs, stack, idx>>
      BY <1>1 DEF Docx!MetadataArrives, Docx!Loads
    <2>2. load' \in [at : Steps, content : Seq(Docx!Paras)] /\ load'.at = "content"
      BY <1>0, <2>1 DEF Steps
    <2>3. DocxShape'
      BY <1>0, <2>1, <2>2 DEF DocxInv, DocxShape
    <2>4. SavesInv' /\ StackInv'
      BY <1>0, <2>1, <2>2 DEF DocxInv, SavesInv, OneSave, StackInv
    <2>5. QED
      BY <1>0, <2>1, <2>3, <2>4 DEF DocxInv, Flags
  <1>2. CASE Docx!get_docx_content
    <2>1. /\ load.at = "content" /\ load' = [at |-> "parsed", content |-> Docx!Rebuilt(stored)]
          /\ UNCHANGED <<loading, error, storageKey, paragraphs, stack, idx>>
      BY <1>2 DEF Docx!get_docx_content, Docx!Loads
    <2>2. /\ load' \in [at : Steps, content : Seq(Docx!Paras)] /\ load'.at = "parsed"
          /\ load'.content = Docx!Rebuilt(stored)
      BY <1>0, <2>1, RebuiltFacts DEF Steps
    <2>3. DocxShape'
      BY <1>0, <2>1, <2>2 DEF DocxInv, DocxShape
    <2>4. SavesInv' /\ StackInv'
      BY <1>0, <2>1, <2>2 DEF DocxInv, SavesInv, OneSave, StackInv
    <2>5. QED
      BY <1>0, <2>1, <2>3, <2>4 DEF DocxInv, Flags
  <1>3. CASE Docx!DocumentArrives
    <2>1. PICK loaded : loaded = IF load.content = <<>> THEN <<Docx!EMPTY_PARA>> ELSE load.content
      OBVIOUS
    <2>2. /\ load.at = "parsed" /\ load' = [at |-> "done", content |-> <<>>]
          /\ paragraphs' = loaded /\ Docx!Push(0, loaded) /\ loading' = FALSE
          /\ UNCHANGED <<error, storageKey>>
      BY <1>3, <2>1 DEF Docx!DocumentArrives, Docx!Loads
    <2>3. loaded \in Seq(Docx!Paras) /\ loaded # <<>>
      BY <1>0, <2>1, EmptyFacts
    <2>4. load' \in [at : Steps, content : Seq(Docx!Paras)] /\ load'.at = "done"
      BY <2>2 DEF Steps
    <2>5. /\ stack' \in Stacks /\ idx' \in 0..(HISTORY - 1)
          /\ (0 = idx /\ idx < Len(stack)) => idx' < Len(stack') /\ stack'[idx' + 1] = loaded
      BY <2>2, <2>3, PushFacts DEF DocxInv
    <2>6. DocxShape'
      BY <1>0, <2>2, <2>3, <2>4, <2>5 DEF DocxInv, DocxShape, Stacks
    <2>7. SavesInv'
      <3>1. ~seen.hiddenSave => saves = {} /\ load.content = Docx!Rebuilt(stored)
        BY <2>2 DEF DocxInv, SavesInv, OneSave
      <3>2. ~seen.hiddenSave =>
              Docx!Rebuilt(loaded) = Docx!Rebuilt(stored) \/ stored = <<>>
        BY <1>0, <2>1, <3>1, RebuiltFacts
      <3>3. Docx!Rebuilt(paragraphs)' = Docx!Rebuilt(loaded)
        BY <2>2 DEF Docx!Rebuilt
      <3>4. Docx!Rebuilt(stored)' = Docx!Rebuilt(stored)
        BY <1>0 DEF Docx!Rebuilt
      <3>5. OneSave'
        BY <1>0, <2>2, <2>4, <3>1, <3>2, <3>3, <3>4 DEF OneSave
      <3>6. QED
        BY <2>4, <3>5 DEF SavesInv, OneSave
    <2>8. StackInv'
      BY <1>0, <2>2, <2>4, <2>5 DEF DocxInv, StackInv
    <2>9. QED
      BY <1>0, <2>2, <2>6, <2>7, <2>8 DEF DocxInv, Flags
  <1>4. CASE Docx!LoadFails
    <2>1. /\ load' = [at |-> "failed", content |-> <<>>] /\ error' = TRUE /\ loading' = FALSE
          /\ UNCHANGED <<storageKey, paragraphs, stack, idx>>
      BY <1>4 DEF Docx!LoadFails
    <2>2. load' \in [at : Steps, content : Seq(Docx!Paras)] /\ load'.at = "failed"
      BY <2>1 DEF Steps
    <2>3. DocxShape'
      BY <1>0, <2>1, <2>2 DEF DocxInv, DocxShape
    <2>4. SavesInv' /\ StackInv'
      BY <1>0, <2>1, <2>2 DEF DocxInv, SavesInv, OneSave, StackInv
    <2>5. QED
      BY <1>0, <2>1, <2>3, <2>4 DEF DocxInv, Flags
  <1>5. QED
    BY <1>1, <1>2, <1>3, <1>4

\* Save.
LEMMA DocxSaveKept ==
  ASSUME Flags, DocxInv, Docx!handleSave
  PROVE  Flags' /\ DocxInv'
  <1>1. /\ done \in [edits : 0..MaxEditsDocx, saves : 0..MaxSaves] /\ seen \in Seen
        /\ saves \subseteq Saves /\ paragraphs \in Seq(Docx!Paras) /\ MaxSaves \in Nat
    BY DocxConstantsOK DEF Docx!ConstantsOK, DocxInv, DocxShape, Saves
  <1>2. PICK s : s = [n |-> done.saves, at |-> "sent", content |-> paragraphs]
    OBVIOUS
  <1>3. s \in Saves /\ s.at = "sent" /\ s.content = paragraphs
    BY <1>1, <1>2 DEF Saves
  <1>4. PICK h \in BOOLEAN : h = (seen.hiddenSave \/ load.at # "done")
    OBVIOUS
  <1>5. PICK t \in BOOLEAN : t = (seen.twoSaves \/ saves # {})
    OBVIOUS
  <1>6. /\ dirty /\ done.saves < MaxSaves /\ done' = [done EXCEPT !.saves = @ + 1]
        /\ saving' = TRUE /\ saveError' = FALSE /\ saves' = saves \cup {s}
        /\ seen' = [seen EXCEPT !.hiddenSave = h, !.twoSaves = t]
        /\ UNCHANGED <<open, loading, error, load, storageKey, paragraphs, stack, idx,
                       activeIdx, focusing, dirty, saved, fades, stored>>
    BY <1>2, <1>4, <1>5 DEF Docx!handleSave
  <1>7. /\ seen' \in Seen /\ seen'.hiddenSave = h /\ seen'.twoSaves = t
        /\ seen'.typed = seen.typed /\ seen'.hiddenEdit = seen.hiddenEdit
        /\ seen'.editWhileSaving = seen.editWhileSaving
    BY <1>1, <1>6 DEF Seen
  <1>8. done' \in [edits : 0..MaxEditsDocx, saves : 0..MaxSaves]
    <2>1. done.saves + 1 \in 0..MaxSaves
      BY <1>1, <1>6
    <2>2. QED
      BY <1>1, <1>6, <2>1
  <1>9. DocxShape'
    BY <1>1, <1>3, <1>6, <1>7, <1>8 DEF DocxInv, DocxShape, Saves
  <1>10. SavesInv'
    <2>1. CASE h \/ t
      BY <1>4, <1>6, <1>7, <2>1 DEF SavesInv, OneSave
    <2>2. CASE ~h /\ ~t
      <3>1. saves = {} /\ load.at = "done" /\ ~seen.hiddenSave /\ ~seen.twoSaves
        BY <1>4, <1>5, <2>2
      <3>2. saves' = {s} /\ dirty' /\ load'.at = "done" /\ paragraphs' = paragraphs
        BY <1>6, <3>1
      <3>3. QED
        BY <1>3, <3>2 DEF SavesInv, OneSave
    <2>3. QED
      BY <2>1, <2>2
  <1>11. StackInv'
    BY <1>6, <1>7 DEF DocxInv, StackInv
  <1>12. QED
    BY <1>6, <1>9, <1>10, <1>11 DEF DocxInv, Flags

\* The server saves the document.
LEMMA SavedKept ==
  ASSUME Flags, DocxInv, NEW s \in saves, Docx!save_docx(s)
  PROVE  Flags' /\ DocxInv'
  <1>1. /\ saves \subseteq Saves /\ s \in Saves /\ stored \in Seq(Docx!Paras)
    BY DEF DocxInv, DocxShape, Saves
  <1>2. PICK stores \in BOOLEAN, end \in {"ok", "failed"} :
          /\ end = "ok" => stores
          /\ stored' = IF stores THEN Docx!Rebuilt(s.content) ELSE stored
          /\ saves' = (saves \ {s}) \cup {[s EXCEPT !.at = end]}
    BY DEF Docx!save_docx
  <1>3. UNCHANGED <<open, loading, saving, error, load, storageKey, paragraphs, stack, idx,
                    activeIdx, focusing, dirty, saved, saveError, fades, done, seen>>
    BY DEF Docx!save_docx
  <1>4. PICK t : t = [s EXCEPT !.at = end]
    OBVIOUS
  <1>5. t \in Saves /\ t.at = end /\ t.content = s.content /\ s.content \in Seq(Docx!Paras)
    BY <1>1, <1>4 DEF Saves
  <1>6. saves' = (saves \ {s}) \cup {t} /\ stored' \in Seq(Docx!Paras)
    BY <1>1, <1>2, <1>4, <1>5, RebuiltFacts
  <1>7. DocxShape'
    BY <1>1, <1>3, <1>5, <1>6 DEF DocxInv, DocxShape, Saves
  <1>8. SavesInv'
    <2>1. SUFFICES ASSUME ~seen.editWhileSaving, ~seen.twoSaves, ~seen.hiddenSave
                   PROVE  SavesInv'
      BY <1>3 DEF DocxInv, SavesInv, OneSave
    <2>2. /\ saves = {s} /\ dirty /\ load.at = "done" /\ s.content = paragraphs
      BY <2>1 DEF DocxInv, SavesInv, OneSave
    <2>3. saves' = {t} /\ dirty' /\ load'.at = "done" /\ t.content = paragraphs'
      BY <1>3, <1>5, <1>6, <2>2
    <2>4. t.at = "ok" => stored' = Docx!Rebuilt(t.content)
      BY <1>2, <1>5
    <2>5. QED
      BY <2>3, <2>4 DEF SavesInv, OneSave
  <1>9. StackInv'
    BY <1>3 DEF DocxInv, StackInv
  <1>10. QED
    BY <1>3, <1>7, <1>8, <1>9 DEF DocxInv, Flags

\* The answer to a save.
LEMMA AnsweredKept ==
  ASSUME Flags, DocxInv, NEW s \in saves, Docx!SaveAnswered(s)
  PROVE  Flags' /\ DocxInv'
  <1>1. /\ saves \subseteq Saves /\ s \in Saves /\ fades \in Nat
        /\ paragraphs \in Seq(Docx!Paras)
    BY DEF DocxInv, DocxShape, Saves
  <1>2. /\ s.at # "sent" /\ saves' = saves \ {s} /\ saving' = FALSE
        /\ UNCHANGED <<open, loading, error, load, storageKey, paragraphs, stack, idx,
                       activeIdx, focusing, done, stored, seen>>
    BY DEF Docx!SaveAnswered
  <1>3. \/ s.at = "ok" /\ saved' = TRUE /\ dirty' = FALSE /\ fades' = fades + 1
             /\ saveError' = saveError
        \/ s.at # "ok" /\ saveError' = TRUE /\ UNCHANGED <<saved, dirty, fades>>
    BY DEF Docx!SaveAnswered
  <1>4. DocxShape'
    <2>1. saves' \subseteq Saves /\ fades' \in Nat
      BY <1>1, <1>2, <1>3
    <2>2. {saved', dirty', saveError'} \subseteq BOOLEAN
      BY <1>3 DEF DocxInv, DocxShape
    <2>3. QED
      BY <1>2, <2>1, <2>2 DEF DocxInv, DocxShape, Saves
  <1>5. SavesInv'
    <2>1. SUFFICES ASSUME ~seen.editWhileSaving, ~seen.twoSaves, ~seen.hiddenSave
                   PROVE  SavesInv'
      BY <1>2 DEF DocxInv, SavesInv, OneSave
    <2>2. /\ saves = {s} /\ dirty /\ load.at = "done" /\ s.content = paragraphs
          /\ s.at = "ok" => stored = Docx!Rebuilt(s.content)
      BY <2>1 DEF DocxInv, SavesInv, OneSave
    <2>3. saves' = {} /\ load'.at = "done" /\ paragraphs' = paragraphs /\ stored' = stored
      BY <1>2, <2>2
    <2>4. ~dirty' => Docx!Rebuilt(paragraphs) = Docx!Rebuilt(stored)
      BY <1>1, <1>3, <2>2, RebuiltFacts
    <2>5. Docx!Rebuilt(paragraphs)' = Docx!Rebuilt(paragraphs) /\ Docx!Rebuilt(stored)' = Docx!Rebuilt(stored)
      BY <2>3
    <2>6. QED
      BY <2>3, <2>4, <2>5 DEF SavesInv, OneSave
  <1>6. StackInv'
    BY <1>2 DEF DocxInv, StackInv
  <1>7. QED
    BY <1>2, <1>4, <1>5, <1>6 DEF DocxInv, Flags

\* Timers and closing.
LEMMA RestKept ==
  ASSUME Flags, DocxInv,
         (\E i \in focusing : Docx!FocusMoves(i)) \/ Docx!SavedFades \/ Docx!handleClose
  PROVE  Flags' /\ DocxInv'
  <1>1. /\ UNCHANGED <<loading, saving, error, load, storageKey, paragraphs, stack, idx, dirty,
                       saveError, saves, done, stored, seen>>
        /\ open' \in BOOLEAN /\ saved' \in BOOLEAN /\ fades' \in Nat /\ activeIdx' \in Nat
        /\ focusing' \subseteq Nat
    <2>0. /\ open \in BOOLEAN /\ saved \in BOOLEAN /\ fades \in Nat /\ activeIdx \in Nat
          /\ focusing \subseteq Nat
      BY DEF DocxInv, DocxShape, Flags
    <2>1. CASE \E i \in focusing : Docx!FocusMoves(i)
      BY <2>0, <2>1 DEF Docx!FocusMoves
    <2>2. CASE Docx!SavedFades
      <3>1. fades' \in Nat
        BY <2>0, <2>2 DEF Docx!SavedFades
      <3>2. QED
        BY <2>0, <2>2, <3>1 DEF Docx!SavedFades
    <2>3. CASE Docx!handleClose
      BY <2>0, <2>3 DEF Docx!handleClose, Docx!docxVars
    <2>4. QED
      BY <2>1, <2>2, <2>3
  <1>2. DocxShape'
    BY <1>1 DEF DocxInv, DocxShape
  <1>3. SavesInv' /\ StackInv'
    BY <1>1 DEF DocxInv, SavesInv, OneSave, StackInv
  <1>4. QED
    BY <1>1, <1>2, <1>3 DEF DocxInv, Flags

\* The editor is opened.
LEMMA DocxBegins ==
  ASSUME open = TRUE, loading = TRUE, saving = FALSE, error = FALSE, Docx!Init
  PROVE  Flags /\ DocxInv
  <1>1. /\ HISTORY \in Nat \ {0} /\ MaxEditsDocx \in Nat /\ MaxSaves \in Nat
        /\ stored \in Seq(Docx!Paras)
    BY DocxConstantsOK DEF Docx!ConstantsOK, Docx!Paras, Docx!Init
  <1>2. PICK first : first = <<Docx!EMPTY_PARA>>
    OBVIOUS
  <1>3. first \in Seq(Docx!Paras) /\ first # <<>>
    BY <1>2, EmptyFacts
  <1>4. /\ load = [at |-> "meta", content |-> <<>>] /\ storageKey = FALSE /\ paragraphs = first
        /\ stack = <<first>> /\ idx = 0 /\ activeIdx = 0 /\ focusing = {} /\ dirty = FALSE
        /\ saved = FALSE /\ saveError = FALSE /\ fades = 0 /\ saves = {}
        /\ done = [edits |-> 0, saves |-> 0]
        /\ seen = [typed |-> FALSE, hiddenEdit |-> FALSE, hiddenSave |-> FALSE,
                   editWhileSaving |-> FALSE, twoSaves |-> FALSE]
    BY <1>2 DEF Docx!Init
  <1>5. /\ stack \in Seq(Seq(Docx!Paras)) /\ Len(stack) = 1 /\ stack[1] = first
    BY <1>3, <1>4
  <1>6. seen \in Seen /\ load \in [at : Steps, content : Seq(Docx!Paras)] /\ load.at = "meta"
    BY <1>4 DEF Seen, Steps
  <1>7. done \in [edits : 0..MaxEditsDocx, saves : 0..MaxSaves]
    BY <1>1, <1>4
  <1>8. DocxShape
    <2>1. Len(stack) \in 1..HISTORY /\ idx \in 0..(HISTORY - 1)
      BY <1>1, <1>4, <1>5
    <2>2. \A i \in 1..Len(stack) : stack[i] # <<>>
      BY <1>3, <1>5
    <2>3. saves \subseteq Saves /\ activeIdx \in Nat /\ fades \in Nat /\ focusing \subseteq Nat
          /\ {storageKey, dirty, saved, saveError} \subseteq BOOLEAN
      BY <1>4
    <2>4. paragraphs \in Seq(Docx!Paras) /\ paragraphs # <<>>
      BY <1>3, <1>4
    <2>5. QED
      BY <1>1, <1>5, <1>6, <1>7, <2>1, <2>2, <2>3, <2>4 DEF DocxShape, Saves
  <1>9. SavesInv /\ StackInv
    BY <1>4, <1>5, <1>6 DEF SavesInv, OneSave, StackInv
  <1>10. QED
    BY <1>8, <1>9 DEF DocxInv, Flags

\* Every step of the document editor keeps its inductive invariant.
LEMMA DocxKept ==
  ASSUME Flags, DocxInv, Docx!Next
  PROVE  Flags' /\ DocxInv'
  <1>1. QED
    BY HistoryKept, ActiveKept, TypedKept, DeletedKept, AddedKept, ReplacedKept, LoadKept,
       DocxSaveKept,
       SavedKept, AnsweredKept, RestKept DEF Docx!Next, Docx!Answered

\* The variables of the document editor that keep their first values while
\* another editor is open.
DocxIdle == DocxShape /\ ~seen.typed /\ idx = 0 /\ stack[1] = paragraphs

\* The document editor's variables are of their types.
LEMMA DocxTyped ==
  ASSUME Flags, DocxShape
  PROVE  Docx!TypeOK
  <1>1. QED
    BY DEF Flags, DocxShape, Saves, Docx!TypeOK, Steps, Seen

-----------------------------------------------------------------------------
(* The PDF viewer, and the router. *)

\* What the variables of the PDF viewer hold.
PdfShape ==
  /\ blobUrl \in BOOLEAN
  /\ fetch \in {"metadata", "bytes", "read", "over"}
  /\ blob \in {"none", "live", "revoked"}

PdfInv == PdfShape /\ BytesLiveWithTheViewer
PdfIdle == PdfShape /\ blob = "none"

IInv ==
  /\ Flags /\ ext \in {"text", "docx", "pdf", "other"}
  /\ (ext = "text" => CodeInv) /\ (ext # "text" => CodeIdle)
  /\ (ext = "docx" => DocxInv) /\ (ext # "docx" => DocxIdle)
  /\ (ext = "pdf" => PdfInv) /\ (ext # "pdf" => PdfIdle)

\* Every step of the PDF viewer keeps its inductive invariant.
LEMMA PdfKept ==
  ASSUME Flags, PdfInv, Pdf!Next
  PROVE  Flags' /\ PdfInv'
  <1>1. CASE Pdf!MetadataArrives \/ Pdf!ResponseArrives
    BY <1>1 DEF Flags, PdfInv, PdfShape, BytesLiveWithTheViewer, Pdf!MetadataArrives,
                Pdf!ResponseArrives, Pdf!Proceed
  <1>2. CASE Pdf!BytesArrive
    BY <1>2 DEF Flags, PdfInv, PdfShape, BytesLiveWithTheViewer, Pdf!BytesArrive
  <1>3. CASE Pdf!FetchFails
    BY <1>3 DEF Flags, PdfInv, PdfShape, BytesLiveWithTheViewer, Pdf!FetchFails
  <1>4. CASE Pdf!Close
    BY <1>4 DEF Flags, PdfInv, PdfShape, BytesLiveWithTheViewer, Pdf!Close
  <1>5. QED
    BY <1>1, <1>2, <1>3, <1>4 DEF Pdf!Next, Pdf!Answered

\* Whoever is not open keeps what he has.
LEMMA CodeRests ==
  ASSUME UNCHANGED codeVars
  PROVE  /\ CodeIdle => CodeIdle'
         /\ UNCHANGED <<open, loading, saving, error>> => (CodeInv => CodeInv')
  <1>1. UNCHANGED <<content, keySees, versions, restoring, reads, lists, writes, asked, file, object,
                    docs, inserted, ghost>>
    BY DEF codeVars
  <1>2. CodeIdle => CodeIdle'
    BY <1>1 DEF CodeIdle, CodeShape
  <1>3. CodeShape /\ BudgetInv => CodeShape' /\ BudgetInv'
    BY <1>1 DEF CodeShape, BudgetInv, Once, Twice
  <1>4. VersionsInv /\ NewestInv => VersionsInv' /\ NewestInv'
    BY <1>1 DEF VersionsInv, NewestInv, Newest, Busy
  <1>5. UNCHANGED <<open, loading, saving, error>> /\ BlankInv /\ LoadsInv => BlankInv' /\ LoadsInv'
    BY <1>1 DEF BlankInv, LoadsInv
  <1>6. QED
    BY <1>2, <1>3, <1>4, <1>5 DEF CodeInv

\* The document editor keeps its own while another editor moves.
LEMMA DocxRests ==
  ASSUME UNCHANGED docxVars
  PROVE  /\ DocxIdle => DocxIdle'
         /\ UNCHANGED <<open, loading, saving, error>> => (DocxInv => DocxInv')
  <1>1. UNCHANGED <<load, storageKey, paragraphs, stack, idx, activeIdx, focusing, dirty, saved,
                    saveError, fades, saves, done, stored, seen>>
    BY DEF docxVars
  <1>2. DocxShape => DocxShape'
    BY <1>1 DEF DocxShape
  <1>3. DocxIdle => DocxIdle'
    BY <1>1, <1>2 DEF DocxIdle
  <1>4. UNCHANGED <<open, loading, saving, error>> /\ SavesInv /\ StackInv => SavesInv' /\ StackInv'
    BY <1>1 DEF SavesInv, OneSave, StackInv
  <1>5. QED
    BY <1>2, <1>3, <1>4 DEF DocxInv

\* The PDF viewer keeps its own while another editor moves.
LEMMA PdfRests ==
  ASSUME UNCHANGED pdfVars
  PROVE  /\ PdfIdle => PdfIdle'
         /\ UNCHANGED open => (PdfInv => PdfInv')
  <1>1. QED
    BY DEF pdfVars, PdfIdle, PdfInv, PdfShape, BytesLiveWithTheViewer

-----------------------------------------------------------------------------
(* The theorems. *)

\* An editor opens in its first state, and so do the variables of the others.
LEMMA InitIInv == Init => IInv
  <1>1. SUFFICES ASSUME Init PROVE IInv
    OBVIOUS
  <1>2. /\ open = TRUE /\ loading = TRUE /\ saving = FALSE /\ error = FALSE
        /\ ext \in {"text", "docx", "pdf", "other"} /\ Code!Init /\ Docx!Init /\ Pdf!Init
    BY <1>1 DEF Init, Pdf!Init
  <1>3. Flags /\ CodeInv /\ DocxInv
    BY <1>2, CodeBegins, DocxBegins
  <1>4. CodeIdle
    <2>1. docs = {} /\ file = Original /\ ~ghost.overwritten
      BY <1>2 DEF Code!Init
    <2>2. QED
      BY <1>3, <2>1 DEF CodeIdle, CodeInv
  <1>5. DocxIdle
    <2>1. ~seen.typed /\ idx = 0 /\ stack[1] = paragraphs
      BY <1>2 DEF Docx!Init
    <2>2. QED
      BY <1>3, <2>1 DEF DocxIdle, DocxInv
  <1>6. PdfInv /\ PdfIdle
    BY <1>2 DEF Pdf!Init, PdfInv, PdfIdle, PdfShape, BytesLiveWithTheViewer
  <1>7. QED
    BY <1>2, <1>3, <1>4, <1>5, <1>6 DEF IInv

\* The invariant is inductive.
LEMMA StepIInv == IInv /\ [Next]_vars => IInv'
  <1>1. SUFFICES ASSUME IInv, [Next]_vars PROVE IInv'
    OBVIOUS
  <1>2. CASE InText
    <2>1. ext = "text" /\ Code!Next /\ UNCHANGED <<ext, docxVars, pdfVars>> /\ Flags /\ CodeInv
      BY <1>1, <1>2 DEF InText, IInv
    <2>2. Flags' /\ CodeInv'
      BY <2>1, CodeKept
    <2>3. DocxIdle' /\ PdfIdle'
      BY <1>1, <2>1, DocxRests, PdfRests DEF IInv
    <2>4. QED
      BY <2>1, <2>2, <2>3 DEF IInv
  <1>3. CASE InDocx
    <2>1. ext = "docx" /\ Docx!Next /\ UNCHANGED <<ext, codeVars, pdfVars>> /\ Flags /\ DocxInv
      BY <1>1, <1>3 DEF InDocx, IInv
    <2>2. Flags' /\ DocxInv'
      BY <2>1, DocxKept
    <2>3. CodeIdle' /\ PdfIdle'
      BY <1>1, <2>1, CodeRests, PdfRests DEF IInv
    <2>4. QED
      BY <2>1, <2>2, <2>3 DEF IInv
  <1>4. CASE InPdf
    <2>1. ext = "pdf" /\ Pdf!Next /\ UNCHANGED <<ext, codeVars, docxVars>> /\ Flags /\ PdfInv
      BY <1>1, <1>4 DEF InPdf, IInv
    <2>2. Flags' /\ PdfInv'
      BY <2>1, PdfKept
    <2>3. CodeIdle' /\ DocxIdle'
      BY <1>1, <2>1, CodeRests, DocxRests DEF IInv
    <2>4. QED
      BY <2>1, <2>2, <2>3 DEF IInv
  <1>5. CASE ClosePanel
    <2>1. /\ ext = "other" /\ open' = FALSE
          /\ UNCHANGED <<ext, loading, saving, error, codeVars, docxVars, pdfVars>>
      BY <1>5 DEF ClosePanel
    <2>2. CodeIdle' /\ DocxIdle' /\ PdfIdle'
      BY <1>1, <2>1, CodeRests, DocxRests, PdfRests DEF IInv
    <2>3. QED
      BY <1>1, <2>1, <2>2 DEF IInv, Flags
  <1>6. CASE UNCHANGED vars
    <2>1. UNCHANGED <<ext, open, loading, saving, error, codeVars, docxVars, pdfVars>>
      BY <1>6 DEF vars
    <2>2. QED
      BY <1>1, <2>1, CodeRests, DocxRests, PdfRests DEF IInv, Flags
  <1>7. QED
    BY <1>1, <1>2, <1>3, <1>4, <1>5, <1>6 DEF Next

\* The inductive invariant holds in every reachable state (CodeEditor.jsx,
\* Docxeditor.jsx, PDFEditor.jsx and edit_controller.py).
THEOREM Invariance == Spec => []IInv
  <1>1. QED
    BY InitIInv, StepIInv, PTL DEF Spec

\* The index of the history is at the document.
LEMMA HistoryFits == IInv => HistoryIsAtTheDocument
  <1>1. SUFFICES ASSUME IInv, ~seen.typed, ~seen.hiddenEdit
                 PROVE  idx < Len(stack) /\ stack[idx + 1] = paragraphs
    BY DEF HistoryIsAtTheDocument
  <1>2. CASE ext = "docx"
    BY <1>1, <1>2 DEF IInv, DocxInv, StackInv
  <1>3. CASE ext # "docx"
    BY <1>1, <1>3 DEF IInv, DocxIdle, DocxShape
  <1>4. QED
    BY <1>2, <1>3

\* Undo shows the state before and redo the state after, whatever was pushed,
\* trimmed and stepped, unless something was typed since or edited out of sight
\* (useHistory in Docxeditor.jsx).
THEOREM HistoryFollows == Spec => []HistoryIsAtTheDocument
  <1>1. IInv => HistoryIsAtTheDocument
    BY HistoryFits
  <1>2. QED
    BY <1>1, Invariance, PTL

\* The state of every editor is of its type.  A document editor that says it has
\* no unsaved changes has what is in the file, up to the formats save_docx drops,
\* unless since the last edit with no save under way a save ran beside an edit or
\* another save, or was sent before the document was there; its history is at the
\* document, unless something was typed since or edited out of sight; and the
\* bytes of a PDF outlive the viewer only when it closed before they came
\* (handleSave and useHistory in Docxeditor.jsx and the effect of PDFEditor.jsx).
THEOREM EditorsAreRight == Spec => []EditorsAgree
  <1>1. IInv => EditorsAgree
    <2>1. SUFFICES ASSUME IInv PROVE EditorsAgree
      OBVIOUS
    <2>2. CodeShape /\ DocxShape /\ PdfShape /\ Flags /\ ext \in {"text", "docx", "pdf", "other"}
      BY <2>1 DEF IInv, CodeInv, CodeIdle, DocxInv, DocxIdle, PdfInv, PdfIdle
    <2>3. Code!TypeOK /\ Docx!TypeOK
      BY <2>2, CodeTyped, DocxTyped
    <2>4. Pdf!TypeOK
      BY <2>2 DEF Flags, PdfShape, Pdf!TypeOK
    <2>5. CleanMeansSaved
      BY <2>1 DEF IInv, DocxInv, SavesInv, OneSave, CleanMeansSaved
    <2>6. BytesLiveWithTheViewer
      BY <2>1 DEF IInv, PdfInv, PdfIdle, BytesLiveWithTheViewer
    <2>7. QED
      BY <2>1, <2>2, <2>3, <2>4, <2>5, <2>6, HistoryFits DEF EditorsAgree, TypeOK
  <1>2. QED
    BY <1>1, Invariance, PTL

\* Until two writes ran at once or a version was pruned, every version holds what
\* was saved under it, and the newest is the file once no write is under way,
\* unless the last one that wrote the file stopped before its version was listed.
\* A file is blank only after the user cleared the text or a load failed.  A load
\* overwrites an edit made after it was asked for only with a restore under way at
\* some edit, a Replace All during a load, or two loads at once (CodeEditor.jsx,
\* save_text_content and rollback_to_version).
THEOREM NoTextIsLost == Spec => []TextIsKept
  <1>1. IInv => TextIsKept
    BY CodeKeepsTheText, IdleCodeKeepsTheText DEF IInv
  <1>2. QED
    BY <1>1, Invariance, PTL
===================================================================================
