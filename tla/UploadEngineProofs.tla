--------------------------- MODULE UploadEngineProofs ---------------------------
(* Proofs about UploadEngine, for any files, chunk size, workers and runs. *)
EXTENDS UploadEngine, SequenceTheorems, FiniteSetTheorems, TLAPS

Once(s) == \A i, j \in 1..Len(s) : s[i] = s[j] => i = j

-----------------------------------------------------------------------------
(* The inductive invariant. *)

\* The modal's files are rows of the list, and no list of files has one twice.
ListsAreOnce ==
  /\ Once(localFiles)
  /\ \A i \in DOMAIN localFiles : localFiles[i] < count
  /\ \A s \in Slots : Once(chunk[s])
  /\ \A r \in Runs : \A k \in DOMAIN queue[r] : Once(queue[r][k])

\* Runs start in their order, and before that they have nothing.
NewIsEmpty ==
  \A r \in Runs :
    /\ state[r] = "new" =>
         /\ queue[r] = <<>>
         /\ \A p \in reported : p[1] # r
         /\ \A w \in Workers : pc[<<r, w>>] = "idle" /\ chunk[<<r, w>>] = <<>> /\ puts[<<r, w>>] = <<>>
    /\ \A q \in Runs : q < r /\ state[q] = "new" => state[r] = "new"

\* A run handles the files it was started with and no others.
FilesAreChosen ==
  \A r \in Runs :
    /\ \A w \in Workers : FilesOf(chunk[<<r, w>>]) \subseteq FilesOf(chosen[r])
    /\ \A k \in DOMAIN queue[r] : FilesOf(queue[r][k]) \subseteq FilesOf(chosen[r])
    /\ \A p \in reported : p[1] = r => p[2] \in FilesOf(chosen[r])

\* A worker's transfers are for files of its chunk, one for each, and reported
\* when all are done.
PutsAreOfChunk ==
  \A s \in Slots :
    /\ pc[s] \in {"idle", "init", "ended"} => puts[s] = <<>>
    /\ pc[s] \in {"idle", "ended"} => chunk[s] = <<>>
    /\ pc[s] = "complete" =>
         AllDone(puts[s]) /\ \A i \in DOMAIN puts[s] : Reported(s[1], puts[s][i].name)
    /\ \A i \in DOMAIN puts[s] :
         /\ puts[s][i].name \in FilesOf(chunk[s])
         /\ puts[s][i].at = "sleep" => puts[s][i].tries < MAX_RETRIES
    /\ \A i, j \in DOMAIN puts[s] : puts[s][i].name = puts[s][j].name => i = j

\* While every answer was full, each file of a chunk is transferred, under its
\* own name.
FullAnswers ==
  \A s \in Slots : s[1] \notin short =>
    /\ \A i \in DOMAIN puts[s] : puts[s][i].file = puts[s][i].name
    /\ pc[s] \in {"put", "complete"} =>
         \A f \in FilesOf(chunk[s]) : \E i \in DOMAIN puts[s] : puts[s][i].name = f

\* What is reported is not sent again: neither queued nor under way.
ReportedIsOver ==
  /\ \A s \in Slots : \A f \in FilesOf(chunk[s]) :
       Reported(s[1], f) => pc[s] \in {"complete", "failed"} /\ AllDone(puts[s])
  /\ \A r \in Runs : \A k \in DOMAIN queue[r] : \A f \in FilesOf(queue[r][k]) : ~Reported(r, f)

\* While every answer was full no file is lost: it is reported, in a worker's
\* chunk, or queued.
Covered ==
  \A r \in Runs : state[r] # "new" /\ r \notin short =>
    \A f \in FilesOf(chosen[r]) :
      \/ Reported(r, f)
      \/ \E w \in Workers : f \in FilesOf(chunk[<<r, w>>])
      \/ \E k \in DOMAIN queue[r] : f \in FilesOf(queue[r][k])

\* A run that succeeded has nothing left.
SuccessIsOver ==
  \A r \in Runs : state[r] = "succeeded" =>
    queue[r] = <<>> /\ \A w \in Workers : pc[<<r, w>>] = "ended"

\* An opening of the modal has one running run at most, and knows of it.
OneAtHome ==
  /\ \A r \in Runs : home[r] <= mount
  /\ \A r \in Runs : state[r] = "running" /\ AtHome(r) => uploading
  /\ \A q, r \in Runs : state[q] = "running" /\ state[r] = "running" /\ home[q] = home[r] => q = r

Ticked == {i \in Rows : isDone(i)}
Sent(r) == {f \in Rows : Transferred(r, f)}

\* The first run ticks no more rows than it has sent files.
Ticks ==
  /\ Started = {} => Ticked = {}
  /\ ~disturbed => \A r \in Started : Started = {r} /\ Cardinality(Ticked) <= Cardinality(Sent(r))

IInv ==
  /\ TypeOK
  /\ NoFileTwice
  /\ OverlapOnlyAfterFailureOrClose
  /\ MispairedOnlyAfterShortAnswer
  /\ ListsAreOnce
  /\ NewIsEmpty
  /\ FilesAreChosen
  /\ PutsAreOfChunk
  /\ FullAnswers
  /\ ReportedIsOver
  /\ Covered
  /\ SuccessIsOver
  /\ OneAtHome
  /\ Ticks

-----------------------------------------------------------------------------
(* Sequences and chunks. *)

\* A run and a worker make a slot.
LEMMA SlotFacts ==
  /\ \A s \in Slots : s[1] \in Runs /\ s[2] \in Workers /\ s = <<s[1], s[2]>>
  /\ \A r \in Runs, w \in Workers : <<r, w>> \in Slots /\ <<r, w>>[1] = r /\ <<r, w>>[2] = w
  BY DEF Slots

\* Every file of a list is in one chunk of it, and in no other.
LEMMA ChunkFacts ==
  ASSUME NEW S, NEW arr \in Seq(S), NEW size \in Nat \ {0}, Once(arr)
  PROVE  LET chunks == chunkArray(arr, size) IN
         /\ chunks \in Seq(Seq(S))
         /\ \A k \in DOMAIN chunks : Once(chunks[k]) /\ FilesOf(chunks[k]) \subseteq FilesOf(arr)
         /\ \A j, k \in DOMAIN chunks : j # k => FilesOf(chunks[j]) \cap FilesOf(chunks[k]) = {}
         /\ \A f \in FilesOf(arr) : \E k \in DOMAIN chunks : f \in FilesOf(chunks[k])
  <1> DEFINE n == (Len(arr) + size - 1) \div size
             from(k) == (k - 1) * size + 1
             to(k) == SmallerOf(k * size, Len(arr))
             cut(k) == SubSeq(arr, from(k), to(k))
             chunks == [k \in 1..n |-> cut(k)]
  <1>1. Len(arr) \in Nat /\ DOMAIN arr = 1..Len(arr) /\ \A i \in 1..Len(arr) : arr[i] \in S
    OBVIOUS
  <1>2. n \in Nat
    <2>1. Len(arr) + size - 1 \in Nat
      BY <1>1
    <2>2. QED
      BY ONLY <2>1, size \in Nat \ {0}
  <1>3. ASSUME NEW k \in 1..n
        PROVE  /\ from(k) \in Nat \ {0} /\ to(k) \in 0..Len(arr) /\ to(k) <= k * size
               /\ cut(k) \in Seq(S)
               /\ Len(cut(k)) = IF from(k) <= to(k) THEN to(k) - from(k) + 1 ELSE 0
               /\ \A i \in 1..Len(cut(k)) : /\ cut(k)[i] = arr[from(k) + i - 1]
                                            /\ from(k) + i - 1 \in from(k)..to(k)
    <2>1. k \in Nat \ {0} /\ k * size \in Nat /\ (k - 1) * size \in Nat
      BY <1>2
    <2>2. from(k) \in Nat \ {0} /\ to(k) \in 0..Len(arr) /\ to(k) <= k * size
      BY <1>1, <2>1 DEF SmallerOf
    <2> HIDE DEF from, to
    <2>3. from(k) \in Int /\ to(k) \in Int /\ \A i \in from(k)..to(k) : arr[i] \in S
      BY <1>1, <2>2
    <2>4. /\ cut(k) \in Seq(S)
          /\ Len(cut(k)) = IF from(k) <= to(k) THEN to(k) - from(k) + 1 ELSE 0
          /\ \A i \in 1..(to(k) - from(k) + 1) : cut(k)[i] = arr[from(k) + i - 1]
      BY ONLY <2>3, SubSeqProperties
    <2> HIDE DEF cut
    <2>5. \A i \in 1..Len(cut(k)) : i \in 1..(to(k) - from(k) + 1) /\ from(k) + i - 1 \in from(k)..to(k)
      BY ONLY <2>2, <2>4, <1>1
    <2>6. QED
      BY <2>2, <2>4, <2>5
  <1>4. ASSUME NEW k \in 1..n, NEW f \in FilesOf(cut(k))
        PROVE  \E x \in 1..Len(arr) : f = arr[x] /\ from(k) <= x /\ x <= k * size
    <2>1. DOMAIN cut(k) = 1..Len(cut(k)) /\ Len(cut(k)) \in Nat
      BY <1>3
    <2>2. PICK i \in 1..Len(cut(k)) : f = cut(k)[i]
      BY <2>1 DEF FilesOf
    <2>3. f = arr[from(k) + i - 1] /\ from(k) + i - 1 \in from(k)..to(k)
          /\ from(k) \in Nat \ {0} /\ to(k) \in 0..Len(arr) /\ to(k) <= k * size /\ k * size \in Nat
      BY <1>2, <1>3, <2>2
    <2> HIDE DEF from, to
    <2>4. from(k) + i - 1 \in 1..Len(arr) /\ from(k) <= from(k) + i - 1 /\ from(k) + i - 1 <= k * size
      BY ONLY <1>1, <2>3
    <2>5. QED
      BY <2>3, <2>4
  <1>5. chunks \in Seq(Seq(S)) /\ DOMAIN chunks = 1..n
    <2>1. \A k \in 1..n : cut(k) \in Seq(S)
      BY <1>3
    <2> HIDE DEF cut, n
    <2>2. QED
      BY <1>2, <2>1
  <1>6. ASSUME NEW k \in 1..n
        PROVE  Once(cut(k)) /\ FilesOf(cut(k)) \subseteq FilesOf(arr)
    <2>1. FilesOf(cut(k)) \subseteq FilesOf(arr)
      BY <1>1, <1>4 DEF FilesOf
    <2>2. ASSUME NEW i \in 1..Len(cut(k)), NEW j \in 1..Len(cut(k)), cut(k)[i] = cut(k)[j]
          PROVE  i = j
      <3>1. /\ arr[from(k) + i - 1] = arr[from(k) + j - 1]
            /\ from(k) + i - 1 \in from(k)..to(k) /\ from(k) + j - 1 \in from(k)..to(k)
            /\ from(k) \in Nat \ {0} /\ to(k) \in 0..Len(arr) /\ Len(cut(k)) \in Nat
        BY <1>3, <2>2
      <3> HIDE DEF from, to, cut
      <3>2. from(k) + i - 1 = from(k) + j - 1
        <4>1. from(k) + i - 1 \in 1..Len(arr) /\ from(k) + j - 1 \in 1..Len(arr)
          BY ONLY <1>1, <3>1
        <4>2. QED
          BY <3>1, <4>1 DEF Once
      <3>3. QED
        BY ONLY <3>1, <3>2, i \in 1..Len(cut(k)), j \in 1..Len(cut(k))
    <2>3. QED
      BY <2>1, <2>2 DEF Once
  <1>7. ASSUME NEW j \in 1..n, NEW k \in 1..n, j < k
        PROVE  FilesOf(cut(j)) \cap FilesOf(cut(k)) = {}
    <2>1. SUFFICES ASSUME NEW f \in FilesOf(cut(j)), f \in FilesOf(cut(k)) PROVE FALSE
      OBVIOUS
    <2>2. PICK x \in 1..Len(arr) : f = arr[x] /\ x <= j * size
      BY <1>4
    <2>3. PICK y \in 1..Len(arr) : f = arr[y] /\ (k - 1) * size + 1 <= y
      BY <1>4, <2>1
    <2>4. x = y
      BY <2>2, <2>3 DEF Once
    <2>5. j \in Nat /\ k - 1 \in Nat /\ j <= k - 1
      BY <1>2, <1>7
    <2>6. j * size <= (k - 1) * size /\ j * size \in Nat /\ (k - 1) * size \in Nat
      BY ONLY <2>5, size \in Nat \ {0}
    <2>7. QED
      BY ONLY <1>1, <2>2, <2>3, <2>4, <2>6
  <1>8. ASSUME NEW f \in FilesOf(arr)
        PROVE  \E k \in 1..n : f \in FilesOf(cut(k))
    <2>1. PICK x \in 1..Len(arr) : f = arr[x]
      BY <1>1 DEF FilesOf
    <2> DEFINE d == (x - 1) \div size
    <2>2. d \in Nat /\ d * size <= x - 1 /\ x - 1 < d * size + size
      <3>1. x - 1 \in Nat
        BY <1>1
      <3>2. QED
        BY ONLY <3>1, size \in Nat \ {0}
    <2>3. d + 1 \in 1..n
      <3>1. Len(arr) + size - 1 \in Nat /\ x - 1 + size <= Len(arr) + size - 1
        BY <1>1
      <3>2. n \in Nat /\ Len(arr) + size - 1 < n * size + size
        BY ONLY <3>1, size \in Nat \ {0}
      <3> HIDE DEF d, n
      <3>3. d * size \in Nat /\ n * size \in Nat
        BY ONLY <2>2, <3>2, size \in Nat \ {0}
      <3>4. d * size < n * size
        BY ONLY <1>1, <2>2, <3>1, <3>2, <3>3, size \in Nat \ {0}
      <3>5. d < n
        BY ONLY <2>2, <3>2, <3>4, size \in Nat \ {0}
      <3>6. QED
        BY ONLY <2>2, <3>2, <3>5
    <2> HIDE DEF d
    <2>4. from(d + 1) = d * size + 1 /\ (d + 1) * size = d * size + size /\ d * size \in Nat
      BY ONLY <2>2, size \in Nat \ {0}
    <2>5. from(d + 1) <= x /\ x <= to(d + 1)
      BY <1>1, <2>2, <2>4 DEF SmallerOf
    <2>6. x - from(d + 1) + 1 \in 1..Len(cut(d + 1)) /\ from(d + 1) + (x - from(d + 1) + 1) - 1 = x
      <3>1. Len(cut(d + 1)) = IF from(d + 1) <= to(d + 1) THEN to(d + 1) - from(d + 1) + 1 ELSE 0
        BY <1>3, <2>3
      <3>2. from(d + 1) \in Nat /\ to(d + 1) \in Nat /\ x \in Nat
        BY <1>1, <1>3, <2>3
      <3> HIDE DEF from, to, cut
      <3>3. QED
        BY ONLY <2>5, <3>1, <3>2
    <2>7. cut(d + 1)[x - from(d + 1) + 1] = f
      BY <1>3, <2>1, <2>3, <2>6
    <2>8. DOMAIN cut(d + 1) = 1..Len(cut(d + 1))
      BY <1>3, <2>3
    <2>9. QED
      BY <2>3, <2>6, <2>7, <2>8 DEF FilesOf
  <1>9. chunks = chunkArray(arr, size) /\ \A k \in 1..n : chunks[k] = cut(k)
    BY DEF chunkArray
  <1>10. \A j, k \in 1..n : j # k => FilesOf(cut(j)) \cap FilesOf(cut(k)) = {}
    <2>1. \A j, k \in 1..n : j # k => j < k \/ k < j
      BY <1>2
    <2>2. QED
      BY <1>7, <2>1
  <1> HIDE DEF chunks, cut, n
  <1>11. /\ chunks \in Seq(Seq(S))
         /\ \A k \in DOMAIN chunks : Once(chunks[k]) /\ FilesOf(chunks[k]) \subseteq FilesOf(arr)
         /\ \A j, k \in DOMAIN chunks : j # k => FilesOf(chunks[j]) \cap FilesOf(chunks[k]) = {}
    BY <1>5, <1>6, <1>9, <1>10
  <1>12. \A f \in FilesOf(arr) : \E k \in DOMAIN chunks : f \in FilesOf(chunks[k])
    BY <1>5, <1>8, <1>9
  <1>13. QED
    BY ONLY <1>9, <1>11, <1>12

-----------------------------------------------------------------------------
(* The invariant at the start, and what leaves its parts alone. *)

\* Before anything is chosen the invariant holds.
LEMMA InitIInv == Init => IInv
  <1> SUFFICES ASSUME Init PROVE IInv
    OBVIOUS
  <1>1. \A S : <<>> \in Seq(S)
    OBVIOUS
  <1>2. DOMAIN <<>> = {} /\ Len(<<>>) = 0 /\ FilesOf(<<>>) = {} /\ Once(<<>>)
    BY DEF FilesOf, Once
  <1>3. TypeOK
    <2>0. uploading \in BOOLEAN /\ open \in BOOLEAN /\ disturbed \in BOOLEAN
      BY DEF Init
    <2>1. count \in 0..MaxRows /\ mount \in 1..MaxMounts /\ failures \in 0..MaxFailures
      BY ConstantsOK DEF Init
    <2>2. /\ statusMap \in [Rows -> {"none", "uploading", "done"}]
          /\ state \in [Runs -> {"new", "running", "succeeded", "failed"}]
          /\ pc \in [Slots -> {"idle", "init", "put", "complete", "ended", "failed"}]
      BY DEF Init
    <2>3. home \in [Runs -> 0..MaxMounts] /\ fileIndexOffset \in [Runs -> Nat]
      BY ConstantsOK DEF Init
    <2>4. /\ localFiles \in Seq(Rows) /\ chosen \in [Runs -> Seq(Rows)]
          /\ queue \in [Runs -> Seq(Seq(Rows))] /\ chunk \in [Slots -> Seq(Rows)]
          /\ puts \in [Slots -> Seq(Put)]
      BY <1>1 DEF Init
    <2>5. reported \in SUBSET (Runs \X Rows \X Rows) /\ short \in SUBSET Runs
      BY DEF Init
    <2>6. QED
      BY <2>0, <2>1, <2>2, <2>3, <2>4, <2>5 DEF TypeOK
  <1>4. /\ \A r \in Runs : state[r] = "new" /\ queue[r] = <<>> /\ home[r] = 0
        /\ \A s \in Slots : pc[s] = "idle" /\ chunk[s] = <<>> /\ puts[s] = <<>>
        /\ localFiles = <<>> /\ reported = {} /\ mount = 1
        /\ \A i \in Rows : statusMap[i] = "none"
    BY DEF Init
  <1>5. NoFileTwice
    BY <1>2, <1>4, SlotFacts DEF NoFileTwice
  <1>6. OverlapOnlyAfterFailureOrClose
    BY <1>4, SlotFacts DEF OverlapOnlyAfterFailureOrClose, Busy
  <1>7. MispairedOnlyAfterShortAnswer
    BY <1>4 DEF MispairedOnlyAfterShortAnswer
  <1>8. ListsAreOnce
    BY <1>2, <1>4 DEF ListsAreOnce
  <1>9. NewIsEmpty
    BY <1>4, SlotFacts DEF NewIsEmpty
  <1>10. FilesAreChosen
    BY <1>2, <1>4, SlotFacts DEF FilesAreChosen
  <1>11. PutsAreOfChunk /\ FullAnswers
    BY <1>2, <1>4 DEF PutsAreOfChunk, FullAnswers
  <1>12. ReportedIsOver
    BY <1>2, <1>4 DEF ReportedIsOver
  <1>13. Covered /\ SuccessIsOver
    BY <1>4 DEF Covered, SuccessIsOver
  <1>14. OneAtHome
    BY <1>4 DEF OneAtHome
  <1>15. Started = {} /\ Ticked = {}
    BY <1>4 DEF Started, Ticked, isDone
  <1>16. QED
    BY <1>3, <1>5, <1>6, <1>7, <1>8, <1>9, <1>10, <1>11, <1>12, <1>13, <1>14, <1>15 DEF IInv, Ticks

\* Each part of the invariant depends on some variables only.
LEMMA PartsKept ==
  ASSUME IInv
  PROVE  /\ UNCHANGED <<queue, chunk>> => NoFileTwice'
         /\ UNCHANGED <<pc, state, home>> => OverlapOnlyAfterFailureOrClose'
         /\ UNCHANGED <<reported, short>> => MispairedOnlyAfterShortAnswer'
         /\ UNCHANGED <<localFiles, count, chunk, queue>> => ListsAreOnce'
         /\ UNCHANGED <<state, queue, reported, pc, chunk, puts>> => NewIsEmpty'
         /\ UNCHANGED <<chunk, queue, reported, chosen>> => FilesAreChosen'
         /\ UNCHANGED <<pc, puts, chunk, reported>> => PutsAreOfChunk'
         /\ UNCHANGED <<pc, puts, chunk, short>> => FullAnswers'
         /\ UNCHANGED <<pc, puts, chunk, queue, reported>> => ReportedIsOver'
         /\ UNCHANGED <<state, short, chosen, reported, chunk, queue>> => Covered'
         /\ UNCHANGED <<state, queue, pc>> => SuccessIsOver'
         /\ UNCHANGED <<home, mount, open, state, uploading>> => OneAtHome'
         /\ UNCHANGED <<statusMap, disturbed, state, reported, puts>> => Ticks'
  <1>1. UNCHANGED <<queue, chunk>> => NoFileTwice'
    BY DEF IInv, NoFileTwice
  <1>2. UNCHANGED <<pc, state, home>> => OverlapOnlyAfterFailureOrClose'
    BY DEF IInv, OverlapOnlyAfterFailureOrClose, Busy
  <1>3. UNCHANGED <<reported, short>> => MispairedOnlyAfterShortAnswer'
    BY DEF IInv, MispairedOnlyAfterShortAnswer
  <1>4. UNCHANGED <<localFiles, count, chunk, queue>> => ListsAreOnce'
    BY DEF IInv, ListsAreOnce
  <1>5. UNCHANGED <<state, queue, reported, pc, chunk, puts>> => NewIsEmpty'
    BY DEF IInv, NewIsEmpty
  <1>6. UNCHANGED <<chunk, queue, reported, chosen>> => FilesAreChosen'
    BY DEF IInv, FilesAreChosen
  <1>7. UNCHANGED <<pc, puts, chunk, reported>> => PutsAreOfChunk'
    BY DEF IInv, PutsAreOfChunk, Reported
  <1>8. UNCHANGED <<pc, puts, chunk, short>> => FullAnswers'
    BY DEF IInv, FullAnswers
  <1>9. UNCHANGED <<pc, puts, chunk, queue, reported>> => ReportedIsOver'
    BY DEF IInv, ReportedIsOver, Reported
  <1>10. UNCHANGED <<state, short, chosen, reported, chunk, queue>> => Covered'
    BY DEF IInv, Covered, Reported
  <1>11. UNCHANGED <<state, queue, pc>> => SuccessIsOver'
    BY DEF IInv, SuccessIsOver
  <1>12. UNCHANGED <<home, mount, open, state, uploading>> => OneAtHome'
    BY DEF IInv, OneAtHome, AtHome
  <1>13. UNCHANGED <<statusMap, disturbed, state, reported, puts>> => Ticks'
    <2>1. SUFFICES ASSUME UNCHANGED <<statusMap, disturbed, state, reported, puts>>
                   PROVE  Ticks'
      OBVIOUS
    <2>2. Ticked' = Ticked /\ Started' = Started
      BY <2>1 DEF Ticked, isDone, Started
    <2>3. \A r : Sent(r)' = Sent(r)
      BY <2>1 DEF Sent, Transferred, Reported
    <2>4. QED
      BY <2>1, <2>2, <2>3 DEF IInv, Ticks
  <1>14. QED
    BY <1>1, <1>2, <1>3, <1>4, <1>5, <1>6, <1>7, <1>8, <1>9, <1>10, <1>11, <1>12, <1>13

\* New files are rows after the last, each once.
LEMMA AddFacts ==
  ASSUME IInv, NEW batch \in Batches, addFiles(batch)
  PROVE  /\ count' \in 0..MaxRows /\ localFiles' \in Seq(Rows) /\ Once(localFiles')
         /\ \A i \in DOMAIN localFiles' : localFiles'[i] < count'
  <1> DEFINE n == Cardinality(Valid(batch))
             new == [i \in 1..n |-> count + i - 1]
  <1>1. n \in Nat
    <2>1. Valid(batch) \subseteq 1..Len(batch) /\ Len(batch) \in Nat
      BY ConstantsOK DEF Valid
    <2>2. IsFiniteSet(Valid(batch))
      <3>1. IsFiniteSet(1..Len(batch))
        BY <2>1, FS_Interval
      <3>2. QED
        BY <2>1, <3>1, FS_Subset
    <2>3. QED
      BY <2>2, FS_CardinalityType
  <1>2. count + n <= MaxRows /\ localFiles' = localFiles \o new /\ count' = count + n
    BY DEF addFiles, setFiles
  <1> HIDE DEF n
  <1>3. count \in Nat /\ MaxRows \in Nat /\ localFiles \in Seq(Rows)
    BY ConstantsOK DEF IInv, TypeOK
  <1>4. new \in Seq(Rows) /\ Len(new) = n /\ \A i \in 1..n : new[i] = count + i - 1
    <2>1. \A i \in 1..n : count + i - 1 \in Rows
      BY <1>1, <1>2, <1>3 DEF Rows
    <2>2. QED
      BY <1>1, <2>1
  <1> HIDE DEF new
  <1>5. /\ localFiles' \in Seq(Rows) /\ Len(localFiles') = Len(localFiles) + n
        /\ \A i \in 1..(Len(localFiles) + n) :
             localFiles'[i] = IF i <= Len(localFiles) THEN localFiles[i] ELSE new[i - Len(localFiles)]
    BY ONLY <1>2, <1>3, <1>4, ConcatProperties
  <1>6. Len(localFiles) \in Nat /\ DOMAIN localFiles = 1..Len(localFiles)
        /\ DOMAIN localFiles' = 1..(Len(localFiles) + n)
    BY ONLY <1>3, <1>5, LenProperties
  <1>7. Once(localFiles) /\ \A i \in 1..Len(localFiles) : localFiles[i] \in Nat /\ localFiles[i] < count
    BY <1>3, <1>6 DEF IInv, ListsAreOnce, Rows
  <1>8. \A i \in 1..(Len(localFiles) + n) :
          /\ i <= Len(localFiles) => localFiles'[i] = localFiles[i] /\ i \in 1..Len(localFiles)
          /\ ~(i <= Len(localFiles)) => localFiles'[i] = count + (i - Len(localFiles)) - 1
    <2>1. \A i \in 1..(Len(localFiles) + n) : ~(i <= Len(localFiles)) => i - Len(localFiles) \in 1..n
      BY ONLY <1>1, <1>6
    <2>2. QED
      BY ONLY <1>4, <1>5, <1>6, <1>1, <2>1
  <1>9. \A i \in 1..(Len(localFiles) + n) : localFiles'[i] < count + n
    BY ONLY <1>1, <1>3, <1>6, <1>7, <1>8
  <1>10. \A i, j \in 1..(Len(localFiles) + n) : localFiles'[i] = localFiles'[j] => i = j
    <2>1. SUFFICES ASSUME NEW i \in 1..(Len(localFiles) + n), NEW j \in 1..(Len(localFiles) + n),
                          localFiles'[i] = localFiles'[j]
                   PROVE  i = j
      OBVIOUS
    <2>2. CASE i <= Len(localFiles) /\ j <= Len(localFiles)
      BY <1>7, <1>8, <2>1, <2>2 DEF Once
    <2>3. CASE ~(i <= Len(localFiles) /\ j <= Len(localFiles))
      BY ONLY <1>1, <1>3, <1>6, <1>7, <1>8, <2>1, <2>3
    <2>4. QED
      BY <2>2, <2>3
  <1>11. count' \in 0..MaxRows
    BY <1>1, <1>2, <1>3
  <1>12. QED
    BY <1>2, <1>5, <1>6, <1>9, <1>10, <1>11 DEF Once

\* What changes only the screen keeps the invariant: a list that is replaced
\* loses its ticks, and a modal that is closed has no run.
LEMMA ScreenStep ==
  ASSUME IInv, (\E batch \in Batches : addFiles(batch)) \/ ClearAll \/ Close \/ Reopen
  PROVE  IInv'
  <1>1. UNCHANGED <<engine, reported, short, failures>>
    BY DEF addFiles, ClearAll, Close, Reopen
  <1>2. /\ count' \in 0..MaxRows /\ localFiles' \in Seq(Rows) /\ Once(localFiles')
        /\ \A i \in DOMAIN localFiles' : localFiles'[i] < count'
    <2>1. CASE \E batch \in Batches : addFiles(batch)
      BY <2>1, AddFacts
    <2>2. CASE ClearAll \/ Close
      <3>1. localFiles' = <<>> /\ count' \in {0, count} /\ count \in 0..MaxRows
        BY <2>2 DEF ClearAll, setFiles, Close, IInv, TypeOK
      <3>2. QED
        BY <3>1, ConstantsOK DEF Once
    <2>3. CASE Reopen
      BY <2>3 DEF Reopen, IInv, TypeOK, ListsAreOnce
    <2>4. QED
      BY <2>1, <2>2, <2>3
  <1>3. /\ statusMap' = statusMap /\ disturbed' = disturbed
        \/ /\ \A i \in Rows : statusMap'[i] = "none"
           /\ disturbed' = (disturbed \/ Started # {})
           /\ statusMap' \in [Rows -> {"none", "uploading", "done"}]
    BY DEF addFiles, ClearAll, setFiles, Close, Reopen
  <1>4. TypeOK'
    <2>1. uploading' \in BOOLEAN /\ mount' \in 1..MaxMounts /\ open' \in BOOLEAN /\ disturbed' \in BOOLEAN
      <3>1. uploading \in BOOLEAN /\ mount \in 1..MaxMounts /\ open \in BOOLEAN /\ disturbed \in BOOLEAN
            /\ MaxMounts \in Nat
        BY ConstantsOK DEF IInv, TypeOK
      <3>2. uploading' \in BOOLEAN /\ open' \in BOOLEAN /\ disturbed' \in BOOLEAN
        BY <3>1, <1>3, Zenon DEF addFiles, ClearAll, Close, Reopen
      <3>3. mount' \in 1..MaxMounts
        BY <3>1 DEF addFiles, ClearAll, Close, Reopen
      <3>4. QED
        BY <3>2, <3>3
    <2>2. statusMap' \in [Rows -> {"none", "uploading", "done"}]
      BY <1>3 DEF IInv, TypeOK
    <2>3. QED
      BY <1>1, <1>2, <2>1, <2>2 DEF IInv, TypeOK, engine
  <1>5. ListsAreOnce'
    BY <1>1, <1>2 DEF engine, IInv, ListsAreOnce
  <1>6. OneAtHome'
    <2>1. state' = state /\ home' = home
      BY <1>1 DEF engine
    <2>2. CASE Reopen
      <3>1. mount' = mount + 1 /\ uploading' = uploading /\ mount \in Nat /\ \A r \in Runs : home[r] \in Nat
        BY <2>2, ConstantsOK DEF Reopen, IInv, TypeOK
      <3>2. \A r \in Runs : home'[r] <= mount' /\ home'[r] # mount'
        BY <2>1, <3>1 DEF IInv, OneAtHome
      <3>3. QED
        BY <2>1, <3>2 DEF IInv, OneAtHome, AtHome
    <2>3. CASE ~Reopen
      <3>1. mount' = mount /\ (open' = FALSE \/ (open' = open /\ uploading' = uploading))
        BY <2>3 DEF addFiles, ClearAll, Close
      <3>2. QED
        BY <2>1, <3>1 DEF IInv, OneAtHome, AtHome
    <2>4. QED
      BY <2>2, <2>3
  <1>7. Ticks'
    <2>1. CASE statusMap' = statusMap /\ disturbed' = disturbed
      BY <1>1, <2>1, PartsKept DEF engine
    <2>2. CASE (\A i \in Rows : statusMap'[i] = "none") /\ disturbed' = (disturbed \/ Started # {})
      <3>1. Ticked' = {} /\ Started' = Started
        BY <1>1, <2>2 DEF Ticked, isDone, Started, engine
      <3>2. QED
        BY <2>2, <3>1 DEF Ticks
    <2>3. QED
      BY <1>3, <2>1, <2>2
  <1>8. QED
    BY <1>1, <1>4, <1>5, <1>6, <1>7, PartsKept DEF engine, IInv

-----------------------------------------------------------------------------
(* A run starts. *)

\* The run's workers take its first chunks, one each, and the rest is queued:
\* every chosen file is in one place.
LEMMA StartFacts ==
  ASSUME IInv, NEW r \in Runs, handleUpload(r)
  PROVE  /\ queue' \in [Runs -> Seq(Seq(Rows))] /\ chunk' \in [Slots -> Seq(Rows)]
         /\ pc' \in [Slots -> {"idle", "init", "put", "complete", "ended", "failed"}]
         /\ \A q \in Runs : q # r => queue'[q] = queue[q]
         /\ \A s \in Slots : s[1] # r => chunk'[s] = chunk[s] /\ pc'[s] = pc[s]
         /\ \A w \in Workers : \/ pc'[<<r, w>>] = "init"
                               \/ pc'[<<r, w>>] = "ended" /\ chunk'[<<r, w>>] = <<>>
         /\ \A w \in Workers : /\ Once(chunk'[<<r, w>>])
                               /\ FilesOf(chunk'[<<r, w>>]) \subseteq FilesOf(localFiles)
         /\ \A k \in DOMAIN queue'[r] : /\ Once(queue'[r][k])
                                        /\ FilesOf(queue'[r][k]) \subseteq FilesOf(localFiles)
         /\ \A j, k \in DOMAIN queue'[r] : j # k => FilesOf(queue'[r][j]) \cap FilesOf(queue'[r][k]) = {}
         /\ \A v, w \in Workers : v # w => FilesOf(chunk'[<<r, v>>]) \cap FilesOf(chunk'[<<r, w>>]) = {}
         /\ \A w \in Workers : \A k \in DOMAIN queue'[r] :
              FilesOf(chunk'[<<r, w>>]) \cap FilesOf(queue'[r][k]) = {}
         /\ \A f \in FilesOf(localFiles) : \/ \E w \in Workers : f \in FilesOf(chunk'[<<r, w>>])
                                           \/ \E k \in DOMAIN queue'[r] : f \in FilesOf(queue'[r][k])
  <1> DEFINE cs == chunkArray(localFiles, CHUNK_SIZE)
             m == SmallerOf(CONCURRENCY, Len(cs))
             rest == SubSeq(cs, m + 1, Len(cs))
             Takes(s) == s[1] = r /\ s[2] <= Len(cs)
  <1>1. /\ queue' = [queue EXCEPT ![r] = rest]
        /\ pc' = [s \in Slots |-> IF Takes(s) THEN "init" ELSE IF s[1] = r THEN "ended" ELSE pc[s]]
        /\ chunk' = [s \in Slots |-> IF Takes(s) THEN cs[s[2]] ELSE chunk[s]]
        /\ state[r] = "new"
    BY DEF handleUpload
  <1>2. /\ queue \in [Runs -> Seq(Seq(Rows))] /\ chunk \in [Slots -> Seq(Rows)]
        /\ pc \in [Slots -> {"idle", "init", "put", "complete", "ended", "failed"}]
        /\ localFiles \in Seq(Rows) /\ Once(localFiles)
        /\ \A w \in Workers : chunk[<<r, w>>] = <<>>
    BY <1>1 DEF IInv, TypeOK, ListsAreOnce, NewIsEmpty
  <1>3. CHUNK_SIZE \in Nat \ {0} /\ CONCURRENCY \in Nat \ {0}
    BY ConstantsOK
  <1>4. /\ cs \in Seq(Seq(Rows))
        /\ \A k \in DOMAIN cs : Once(cs[k]) /\ FilesOf(cs[k]) \subseteq FilesOf(localFiles)
        /\ \A j, k \in DOMAIN cs : j # k => FilesOf(cs[j]) \cap FilesOf(cs[k]) = {}
        /\ \A f \in FilesOf(localFiles) : \E k \in DOMAIN cs : f \in FilesOf(cs[k])
    BY <1>2, <1>3, ChunkFacts
  <1> HIDE DEF cs
  <1>5. Len(cs) \in Nat /\ DOMAIN cs = 1..Len(cs) /\ \A k \in 1..Len(cs) : cs[k] \in Seq(Rows)
    BY <1>4
  <1>6. m \in Nat /\ m <= Len(cs)
    BY <1>3, <1>5 DEF SmallerOf
  <1>m. m <= CONCURRENCY /\ (m = CONCURRENCY \/ m = Len(cs))
    BY <1>3, <1>5 DEF SmallerOf
  <1> HIDE DEF m
  <1>7. /\ rest \in Seq(Seq(Rows)) /\ DOMAIN rest = 1..(Len(cs) - m)
        /\ \A k \in 1..(Len(cs) - m) : rest[k] = cs[m + k] /\ m + k \in 1..Len(cs)
    <2>1. /\ m + 1 \in Int /\ Len(cs) \in Int
          /\ \A i \in (m + 1)..Len(cs) : cs[i] \in Seq(Rows)
      BY <1>5, <1>6
    <2>2. /\ rest \in Seq(Seq(Rows)) /\ Len(rest) = IF m + 1 <= Len(cs) THEN Len(cs) - (m + 1) + 1 ELSE 0
          /\ \A i \in 1..(Len(cs) - (m + 1) + 1) : rest[i] = cs[m + 1 + i - 1]
      BY ONLY <2>1, SubSeqProperties
    <2> HIDE DEF rest
    <2>3. DOMAIN rest = 1..(Len(cs) - m)
      <3>1. Len(cs) \in Nat
        BY <1>5
      <3>2. Len(rest) = Len(cs) - m
        <4>1. Len(rest) = IF m + 1 <= Len(cs) THEN Len(cs) - (m + 1) + 1 ELSE 0
          BY <2>2
        <4>2. QED
          BY ONLY <3>1, <4>1, <1>6
      <3>3. DOMAIN rest = 1..Len(rest)
        BY <2>2, LenProperties
      <3>4. QED
        BY ONLY <3>2, <3>3
    <2>4. \A k \in 1..(Len(cs) - m) : rest[k] = cs[m + k] /\ m + k \in 1..Len(cs)
      <3>1. Len(cs) - (m + 1) + 1 = Len(cs) - m
        BY ONLY <1>5, <1>6
      <3>2. \A k \in 1..(Len(cs) - m) : m + 1 + k - 1 = m + k /\ m + k \in 1..Len(cs)
        BY ONLY <1>5, <1>6
      <3>3. QED
        BY ONLY <2>2, <3>1, <3>2
    <2>5. QED
      BY <2>2, <2>3, <2>4
  <1> HIDE DEF rest
  <1>8. queue' \in [Runs -> Seq(Seq(Rows))] /\ queue'[r] = rest /\ \A q \in Runs : q # r => queue'[q] = queue[q]
    BY <1>1, <1>2, <1>7
  <1>9. \A w \in Workers : \/ w \in 1..Len(cs) /\ w <= m /\ chunk'[<<r, w>>] = cs[w] /\ pc'[<<r, w>>] = "init"
                           \/ chunk'[<<r, w>>] = <<>> /\ pc'[<<r, w>>] = "ended"
    <2>1. SUFFICES ASSUME NEW w \in Workers
                   PROVE  \/ w \in 1..Len(cs) /\ w <= m /\ chunk'[<<r, w>>] = cs[w] /\ pc'[<<r, w>>] = "init"
                          \/ chunk'[<<r, w>>] = <<>> /\ pc'[<<r, w>>] = "ended"
      OBVIOUS
    <2>2. <<r, w>> \in Slots /\ <<r, w>>[1] = r /\ <<r, w>>[2] = w
      BY SlotFacts
    <2>3. CASE w <= Len(cs)
      <3>0. w \in Nat \ {0} /\ w <= CONCURRENCY
        BY <1>3 DEF Workers
      <3>1. w \in 1..Len(cs) /\ w <= m
        <4>1. Len(cs) \in Nat
          BY <1>5
        <4>2. w \in 1..Len(cs)
          BY ONLY <2>3, <3>0, <4>1
        <4>3. w <= m
          BY ONLY <1>m, <2>3, <3>0
        <4>4. QED
          BY <4>2, <4>3
      <3>2. QED
        BY <1>1, <2>2, <2>3, <3>1
    <2>4. CASE ~(w <= Len(cs))
      BY <1>1, <1>2, <2>2, <2>4
    <2>5. QED
      BY <2>3, <2>4
  <1>10. \A s \in Slots : s[1] # r => chunk'[s] = chunk[s] /\ pc'[s] = pc[s]
    BY <1>1
  <1>11. chunk' \in [Slots -> Seq(Rows)]
         /\ pc' \in [Slots -> {"idle", "init", "put", "complete", "ended", "failed"}]
    <2>1. \A s \in Slots : chunk'[s] \in Seq(Rows)
      <3>1. \A w \in Workers : chunk'[<<r, w>>] \in Seq(Rows)
        BY <1>5, <1>9, EmptySeq
      <3>2. QED
        BY <1>2, <1>10, <3>1, SlotFacts
    <2>2. QED
      BY <1>1, <1>2, <2>1
  <1>12. FilesOf(<<>>) = {} /\ Once(<<>>)
    BY DEF FilesOf, Once
  <1>13. \A w \in Workers : /\ Once(chunk'[<<r, w>>])
                            /\ FilesOf(chunk'[<<r, w>>]) \subseteq FilesOf(localFiles)
    BY <1>4, <1>5, <1>9, <1>12
  <1>14. \A k \in DOMAIN rest : /\ Once(rest[k])
                                /\ FilesOf(rest[k]) \subseteq FilesOf(localFiles)
    BY <1>4, <1>5, <1>7
  <1>15. \A j, k \in DOMAIN rest : j # k => FilesOf(rest[j]) \cap FilesOf(rest[k]) = {}
    <2>1. \A j, k \in 1..(Len(cs) - m) : j # k => m + j # m + k
      BY <1>5, <1>6
    <2>2. \A k \in DOMAIN rest : k \in 1..(Len(cs) - m) /\ rest[k] = cs[m + k] /\ m + k \in DOMAIN cs
      BY <1>5, <1>7
    <2>3. QED
      BY ONLY <1>4, <2>1, <2>2
  <1>16. \A v, w \in Workers : v # w => FilesOf(chunk'[<<r, v>>]) \cap FilesOf(chunk'[<<r, w>>]) = {}
    BY <1>4, <1>5, <1>9, <1>12
  <1>17. \A w \in Workers : \A k \in DOMAIN rest : FilesOf(chunk'[<<r, w>>]) \cap FilesOf(rest[k]) = {}
    <2>1. SUFFICES ASSUME NEW w \in Workers, NEW k \in DOMAIN rest, w \in 1..Len(cs), w <= m
                   PROVE  FilesOf(cs[w]) \cap FilesOf(cs[m + k]) = {}
      BY <1>7, <1>9, <1>12
    <2>2. w # m + k /\ m + k \in 1..Len(cs)
      BY <1>5, <1>6, <1>7, <2>1
    <2>3. QED
      BY <1>4, <1>5, <2>1, <2>2
  <1>18. ASSUME NEW f \in FilesOf(localFiles)
         PROVE  \/ \E w \in Workers : f \in FilesOf(chunk'[<<r, w>>])
                \/ \E k \in DOMAIN rest : f \in FilesOf(rest[k])
    <2>1. PICK k \in 1..Len(cs) : f \in FilesOf(cs[k])
      BY <1>4, <1>5
    <2>2. CASE k <= m
      <3>1. k \in Workers
        <4>1. k \in Nat \ {0}
          BY <1>5
        <4>2. k <= CONCURRENCY
          BY ONLY <1>3, <1>6, <1>m, <2>2, <4>1
        <4>3. QED
          BY <1>3, <4>1, <4>2 DEF Workers
      <3>2. <<r, k>> \in Slots /\ <<r, k>>[1] = r /\ <<r, k>>[2] = k
        BY <3>1, SlotFacts
      <3>3. k <= Len(cs)
        BY <1>5
      <3>4. chunk'[<<r, k>>] = cs[k]
        BY <1>1, <3>2, <3>3
      <3>5. QED
        BY <2>1, <3>1, <3>4
    <2>3. CASE ~(k <= m)
      <3>1. k - m \in 1..(Len(cs) - m) /\ m + (k - m) = k
        BY <1>5, <1>6, <2>3
      <3>2. QED
        BY <1>7, <2>1, <3>1
    <2>4. QED
      BY <2>2, <2>3
  <1>19. \A w \in Workers : \/ pc'[<<r, w>>] = "init"
                            \/ pc'[<<r, w>>] = "ended" /\ chunk'[<<r, w>>] = <<>>
    BY <1>9
  <1>20. QED
    BY <1>8, <1>10, <1>11, <1>13, <1>14, <1>15, <1>16, <1>17, <1>18, <1>19

\* Rows are finitely many, whichever are counted.
LEMMA RowsAreFinite == \A T \in SUBSET Rows : IsFiniteSet(T) /\ Cardinality(T) \in Nat
  <1>1. IsFiniteSet(Rows)
    <2>1. MaxRows - 1 \in Int /\ 0 \in Int
      BY ConstantsOK
    <2>2. QED
      BY ONLY <2>1, FS_Interval DEF Rows
  <1>2. QED
    BY <1>1, FS_Subset, FS_CardinalityType

\* Starting a run keeps the invariant: no other runs in the same opening.
LEMMA StartStep ==
  ASSUME IInv, NEW r \in Runs, handleUpload(r)
  PROVE  IInv'
  <1>1. /\ open /\ ~uploading /\ state[r] = "new" /\ \A q \in Runs : q < r => state[q] # "new"
        /\ uploading' = TRUE
        /\ disturbed' = (disturbed \/ Started # {})
        /\ state' = [state EXCEPT ![r] = "running"]
        /\ home' = [home EXCEPT ![r] = mount]
        /\ chosen' = [chosen EXCEPT ![r] = localFiles]
        /\ UNCHANGED <<count, statusMap, localFiles, mount, open, fileIndexOffset, puts, reported, short, failures>>
    BY DEF handleUpload, UploadButton
  <1>2. TypeOK
    BY DEF IInv
  <1>3. /\ state' \in [Runs -> {"new", "running", "succeeded", "failed"}]
        /\ state'[r] = "running" /\ home'[r] = mount /\ chosen'[r] = localFiles
        /\ \A q \in Runs : q # r => state'[q] = state[q] /\ home'[q] = home[q] /\ chosen'[q] = chosen[q]
    BY <1>1, <1>2 DEF TypeOK
  <1>4. /\ \A q \in Runs, w \in Workers : <<q, w>> \in Slots /\ <<q, w>>[1] = q
        /\ \A s \in Slots : s[1] \in Runs /\ s[2] \in Workers /\ (s[1] = r => s = <<r, s[2]>>)
    BY SlotFacts
  <1>5. \A q \in Runs, w \in Workers : q # r => chunk'[<<q, w>>] = chunk[<<q, w>>] /\ pc'[<<q, w>>] = pc[<<q, w>>]
    <2>1. \A s \in Slots : s[1] # r => chunk'[s] = chunk[s] /\ pc'[s] = pc[s]
      BY StartFacts
    <2>2. QED
      BY <1>4, <2>1
  <1>6. \A w \in Workers : puts[<<r, w>>] = <<>>
    BY <1>1 DEF IInv, NewIsEmpty
  <1>7. (\A f : ~Reported(r, f)) /\ \A p \in reported : p[1] # r
    BY <1>1 DEF IInv, NewIsEmpty, Reported
  <1>8. \A q, f : Reported(q, f)' <=> Reported(q, f)
    BY <1>1 DEF Reported
  <1>9. TypeOK'
    <2>1. /\ home' \in [Runs -> 0..MaxMounts] /\ chosen' \in [Runs -> Seq(Rows)]
      <3>1. mount \in 0..MaxMounts
        BY <1>2, ConstantsOK DEF TypeOK
      <3>2. QED
        BY <1>1, <1>2, <3>1 DEF TypeOK
    <2>2. disturbed' \in BOOLEAN /\ uploading' \in BOOLEAN
      BY <1>1, <1>2, Zenon DEF TypeOK
    <2>3. QED
      BY <1>1, <1>2, <1>3, <2>1, <2>2, StartFacts DEF TypeOK
  <1>10. NoFileTwice'
    <2>1. ASSUME NEW q \in Runs
          PROVE  /\ \A j, k \in DOMAIN queue'[q] :
                      j # k => FilesOf(queue'[q][j]) \cap FilesOf(queue'[q][k]) = {}
                 /\ \A v, w \in Workers :
                      v # w => FilesOf(chunk'[<<q, v>>]) \cap FilesOf(chunk'[<<q, w>>]) = {}
                 /\ \A w \in Workers : \A k \in DOMAIN queue'[q] :
                      FilesOf(chunk'[<<q, w>>]) \cap FilesOf(queue'[q][k]) = {}
      <3>1. CASE q = r
        BY <3>1, StartFacts
      <3>2. CASE q # r
        <4>1. queue'[q] = queue[q]
          BY <3>2, StartFacts
        <4>2. QED
          BY <1>5, <3>2, <4>1 DEF IInv, NoFileTwice
      <3>3. QED
        BY <3>1, <3>2
    <2>2. QED
      BY <2>1 DEF NoFileTwice
  <1>11. OverlapOnlyAfterFailureOrClose'
    <2>1. \A q \in Runs : q # r => (Busy(q)' <=> Busy(q))
      BY <1>5 DEF Busy
    <2>2. \A q \in Runs : Busy(q) => state[q] \in {"running", "failed"}
      <3>1. \A q \in Runs : state[q] \in {"new", "running", "succeeded", "failed"}
        BY <1>2 DEF TypeOK
      <3>2. \A q \in Runs : Busy(q) => state[q] # "new" /\ state[q] # "succeeded"
        BY DEF IInv, NewIsEmpty, SuccessIsOver, Busy
      <3>3. QED
        BY <3>1, <3>2
    <2>3. \A q \in Runs : state[q] = "running" => home[q] < mount
      <3>1. \A q \in Runs : state[q] = "running" => home[q] # mount
        BY <1>1 DEF IInv, OneAtHome, AtHome
      <3>2. \A q \in Runs : home[q] \in Nat /\ mount \in Nat /\ home[q] <= mount
        BY <1>2, ConstantsOK DEF IInv, OneAtHome, TypeOK
      <3>3. QED
        BY <3>1, <3>2
    <2>4. \A p \in Runs : r < p => ~Busy(p)
      BY <1>1 DEF IInv, NewIsEmpty, Busy
    <2>5. r \in Int /\ Runs \subseteq Int
      BY ConstantsOK DEF Runs
    <2>6. SUFFICES ASSUME NEW q \in Runs, NEW p \in Runs, q < p, Busy(q)', Busy(p)'
                   PROVE  state'[q] = "failed" \/ home'[q] < home'[p]
      BY DEF OverlapOnlyAfterFailureOrClose
    <2>7. CASE p = r
      <3>1. q # r
        BY <2>5, <2>6, <2>7
      <3>2. state'[q] = state[q] /\ home'[q] = home[q] /\ home'[p] = mount /\ Busy(q)
        BY <1>3, <2>1, <2>6, <2>7, <3>1
      <3>3. QED
        BY <2>2, <2>3, <3>2
    <2>8. CASE p # r
      <3>1. Busy(p) /\ q # r
        BY <2>1, <2>4, <2>6, <2>8
      <3>2. QED
        BY <1>3, <2>1, <2>6, <2>8, <3>1 DEF IInv, OverlapOnlyAfterFailureOrClose
    <2>9. QED
      BY <2>7, <2>8
  <1>12. ListsAreOnce'
    <2>1. \A s \in Slots : Once(chunk'[s])
      BY <1>4, StartFacts DEF IInv, ListsAreOnce
    <2>2. \A q \in Runs : \A k \in DOMAIN queue'[q] : Once(queue'[q][k])
      <3>1. (\A k \in DOMAIN queue'[r] : Once(queue'[r][k])) /\ \A q \in Runs : q # r => queue'[q] = queue[q]
        BY StartFacts
      <3>2. \A q \in Runs : \A k \in DOMAIN queue[q] : Once(queue[q][k])
        BY DEF IInv, ListsAreOnce
      <3>3. QED
        BY ONLY <3>1, <3>2
    <2>3. QED
      BY <1>1, <2>1, <2>2 DEF IInv, ListsAreOnce
  <1>13. NewIsEmpty'
    <2>1. \A q \in Runs : state'[q] = "new" => q # r /\ state[q] = "new" /\ queue'[q] = queue[q]
      BY <1>3, StartFacts
    <2>2. ASSUME NEW q \in Runs, state'[q] = "new"
          PROVE  /\ queue'[q] = <<>>
                 /\ \A p \in reported : p[1] # q
                 /\ \A w \in Workers : pc'[<<q, w>>] = "idle" /\ chunk'[<<q, w>>] = <<>> /\ puts[<<q, w>>] = <<>>
      BY <1>5, <2>1, <2>2 DEF IInv, NewIsEmpty
    <2>3. \A p, q \in Runs : q < p /\ state'[q] = "new" => state'[p] = "new"
      BY <1>1, <1>3 DEF IInv, NewIsEmpty
    <2>4. QED
      BY <1>1, <2>2, <2>3 DEF NewIsEmpty
  <1>14. FilesAreChosen'
    <2>1. ASSUME NEW q \in Runs
          PROVE  /\ \A w \in Workers : FilesOf(chunk'[<<q, w>>]) \subseteq FilesOf(chosen'[q])
                 /\ \A k \in DOMAIN queue'[q] : FilesOf(queue'[q][k]) \subseteq FilesOf(chosen'[q])
                 /\ \A p \in reported : p[1] = q => p[2] \in FilesOf(chosen'[q])
      <3>1. CASE q = r
        BY <1>3, <1>7, <3>1, StartFacts
      <3>2. CASE q # r
        <4>1. queue'[q] = queue[q]
          BY <3>2, StartFacts
        <4>2. QED
          BY <1>3, <1>5, <3>2, <4>1 DEF IInv, FilesAreChosen
      <3>3. QED
        BY <3>1, <3>2
    <2>2. QED
      BY <1>1, <2>1 DEF FilesAreChosen
  <1>15. ASSUME NEW s \in Slots
         PROVE  \/ pc'[s] = pc[s] /\ chunk'[s] = chunk[s] /\ puts'[s] = puts[s] /\ s[1] # r
                \/ /\ pc'[s] \in {"init", "ended"} /\ puts'[s] = <<>> /\ s[1] = r
                   /\ pc'[s] = "ended" => chunk'[s] = <<>>
    BY <1>1, <1>4, <1>6, StartFacts
  <1>16. DOMAIN <<>> = {}
    OBVIOUS
  <1>17. PutsAreOfChunk'
    <2>1. ASSUME NEW s \in Slots
          PROVE  /\ pc'[s] \in {"idle", "init", "ended"} => puts'[s] = <<>>
                 /\ pc'[s] \in {"idle", "ended"} => chunk'[s] = <<>>
                 /\ pc'[s] = "complete" =>
                      AllDone(puts'[s]) /\ \A i \in DOMAIN puts'[s] : Reported(s[1], puts'[s][i].name)
                 /\ \A i \in DOMAIN puts'[s] :
                      /\ puts'[s][i].name \in FilesOf(chunk'[s])
                      /\ puts'[s][i].at = "sleep" => puts'[s][i].tries < MAX_RETRIES
                 /\ \A i, j \in DOMAIN puts'[s] : puts'[s][i].name = puts'[s][j].name => i = j
      BY <1>15, <1>16 DEF IInv, PutsAreOfChunk
    <2>2. QED
      BY <1>8, <2>1 DEF PutsAreOfChunk
  <1>18. FullAnswers'
    <2>1. ASSUME NEW s \in Slots, s[1] \notin short
          PROVE  /\ \A i \in DOMAIN puts'[s] : puts'[s][i].file = puts'[s][i].name
                 /\ pc'[s] \in {"put", "complete"} =>
                      \A f \in FilesOf(chunk'[s]) : \E i \in DOMAIN puts'[s] : puts'[s][i].name = f
      BY <1>15, <1>16, <2>1 DEF IInv, FullAnswers
    <2>2. QED
      BY <1>1, <2>1 DEF FullAnswers
  <1>19. ReportedIsOver'
    <2>1. ASSUME NEW s \in Slots, NEW f \in FilesOf(chunk'[s]), Reported(s[1], f)
          PROVE  pc'[s] \in {"complete", "failed"} /\ AllDone(puts'[s])
      BY <1>7, <1>15, <2>1 DEF IInv, ReportedIsOver
    <2>2. ASSUME NEW q \in Runs, NEW k \in DOMAIN queue'[q], NEW f \in FilesOf(queue'[q][k])
          PROVE  ~Reported(q, f)
      <3>1. CASE q = r
        BY <1>7, <3>1
      <3>2. CASE q # r
        <4>1. queue'[q] = queue[q]
          BY <3>2, StartFacts
        <4>2. QED
          BY <2>2, <4>1 DEF IInv, ReportedIsOver
      <3>3. QED
        BY <3>1, <3>2
    <2>3. QED
      BY <1>8, <2>1, <2>2 DEF ReportedIsOver
  <1>20. Covered'
    <2>1. ASSUME NEW q \in Runs, state'[q] # "new", q \notin short, NEW f \in FilesOf(chosen'[q])
          PROVE  \/ Reported(q, f)
                 \/ \E w \in Workers : f \in FilesOf(chunk'[<<q, w>>])
                 \/ \E k \in DOMAIN queue'[q] : f \in FilesOf(queue'[q][k])
      <3>1. CASE q = r
        BY <1>3, <2>1, <3>1, StartFacts
      <3>2. CASE q # r
        <4>1. queue'[q] = queue[q] /\ state[q] # "new" /\ f \in FilesOf(chosen[q])
          BY <1>3, <2>1, <3>2, StartFacts
        <4>2. QED
          BY <1>5, <2>1, <3>2, <4>1 DEF IInv, Covered
      <3>3. QED
        BY <3>1, <3>2
    <2>2. QED
      BY <1>1, <1>8, <2>1 DEF Covered
  <1>21. SuccessIsOver'
    <2>1. \A q \in Runs : state'[q] = "succeeded" => q # r /\ state[q] = "succeeded" /\ queue'[q] = queue[q]
      BY <1>3, StartFacts
    <2>2. QED
      BY <1>5, <2>1 DEF IInv, SuccessIsOver
  <1>22. OneAtHome'
    <2>1. \A q \in Runs : state[q] = "running" => home[q] # mount
      BY <1>1 DEF IInv, OneAtHome, AtHome
    <2>2. mount <= mount /\ mount' = mount
      BY <1>1, <1>2, ConstantsOK DEF TypeOK
    <2>3. QED
      BY <1>1, <1>3, <2>1, <2>2 DEF IInv, OneAtHome
  <1>23. Ticks'
    <2>1. Ticked' = Ticked /\ Started' = Started \cup {r}
      BY <1>1, <1>3 DEF Ticked, isDone, Started
    <2>2. ASSUME ~disturbed'
          PROVE  Started' = {r} /\ Cardinality(Ticked') <= Cardinality(Sent(r)')
      <3>1. Started = {} /\ Ticked = {}
        BY <1>1, <2>2 DEF IInv, Ticks
      <3>2. Cardinality(Sent(r)') \in Nat
        <4>1. Sent(r)' \in SUBSET Rows
          BY DEF Sent
        <4>2. QED
          BY <4>1, RowsAreFinite
      <3>3. Cardinality(Ticked') = 0
        BY <2>1, <3>1, FS_EmptySet
      <3>4. QED
        BY <2>1, <3>1, <3>2, <3>3
    <2>3. QED
      BY <2>1, <2>2 DEF Ticks
  <1>24. MispairedOnlyAfterShortAnswer'
    BY <1>1, PartsKept
  <1>25. QED
    BY <1>9, <1>10, <1>11, <1>12, <1>13, <1>14, <1>17, <1>18, <1>19, <1>20, <1>21, <1>22, <1>23, <1>24 DEF IInv

-----------------------------------------------------------------------------
(* A worker's steps. *)

\* Ticks fewer and files sent more: the count is kept.
LEMMA TicksKept ==
  ASSUME IInv, Started' = Started, disturbed' = disturbed, Ticked' \subseteq Ticked,
         \A r \in Runs : Sent(r) \subseteq Sent(r)'
  PROVE  Ticks'
  <1>1. Started = {} => Ticked' = {}
    BY DEF IInv, Ticks
  <1>2. ASSUME ~disturbed, NEW r \in Started
        PROVE  Started = {r} /\ Cardinality(Ticked') <= Cardinality(Sent(r)')
    <2>1. Started = {r} /\ Cardinality(Ticked) <= Cardinality(Sent(r)) /\ r \in Runs
      BY <1>2 DEF IInv, Ticks, Started
    <2>2. Ticked \in SUBSET Rows /\ Ticked' \in SUBSET Rows /\ Sent(r) \in SUBSET Rows /\ Sent(r)' \in SUBSET Rows
      BY DEF Ticked, Sent
    <2>3. Cardinality(Ticked') <= Cardinality(Ticked)
      BY <2>2, RowsAreFinite, FS_Subset
    <2>4. Cardinality(Sent(r)) <= Cardinality(Sent(r)')
      BY <2>1, <2>2, RowsAreFinite, FS_Subset
    <2>5. /\ Cardinality(Ticked) \in Nat /\ Cardinality(Ticked') \in Nat
          /\ Cardinality(Sent(r)) \in Nat /\ Cardinality(Sent(r)') \in Nat
      BY <2>2, RowsAreFinite
    <2>6. QED
      BY <2>1, <2>3, <2>4, <2>5
  <1>3. QED
    BY <1>1, <1>2 DEF Ticks

\* What is sent stays sent, as long as the transfers stay with their names.
LEMMA SentKept ==
  ASSUME reported \subseteq reported',
         \A s \in Slots : \A i \in DOMAIN puts[s] : puts[s][i].at = "done" =>
           \/ i \in DOMAIN puts'[s] /\ puts'[s][i].name = puts[s][i].name /\ puts'[s][i].at = "done"
           \/ \E p \in reported' : p[1] = s[1] /\ p[2] = puts[s][i].name
  PROVE  \A r \in Runs : Sent(r) \subseteq Sent(r)'
  <1>1. \A r, f : Reported(r, f) => Reported(r, f)'
    BY DEF Reported
  <1>2. SUFFICES ASSUME NEW r \in Runs, NEW f \in Rows, Transferred(r, f) PROVE Transferred(r, f)'
    BY DEF Sent
  <1>3. CASE Reported(r, f)
    BY <1>1, <1>3 DEF Transferred
  <1>4. CASE ~Reported(r, f)
    <2>1. PICK w \in Workers : \E i \in DOMAIN puts[<<r, w>>] :
                                 puts[<<r, w>>][i].name = f /\ puts[<<r, w>>][i].at = "done"
      BY <1>2, <1>4 DEF Transferred
    <2>2. <<r, w>> \in Slots /\ <<r, w>>[1] = r
      BY SlotFacts
    <2>3. PICK i \in DOMAIN puts[<<r, w>>] : puts[<<r, w>>][i].name = f /\ puts[<<r, w>>][i].at = "done"
      BY <2>1
    <2>4. \/ i \in DOMAIN puts'[<<r, w>>] /\ puts'[<<r, w>>][i].name = f /\ puts'[<<r, w>>][i].at = "done"
          \/ Reported(r, f)'
      <3>1. PICK q \in Slots : q = <<r, w>>
        BY <2>2
      <3>2. i \in DOMAIN puts[q] /\ puts[q][i].at = "done" /\ puts[q][i].name = f /\ q[1] = r
        BY <2>2, <2>3, <3>1
      <3>3. \/ i \in DOMAIN puts'[q] /\ puts'[q][i].name = f /\ puts'[q][i].at = "done"
            \/ \E p \in reported' : p[1] = q[1] /\ p[2] = puts[q][i].name
        BY <3>2
      <3>4. QED
        BY <3>1, <3>2, <3>3 DEF Reported
    <2>5. QED
      BY <2>4 DEF Transferred
  <1>5. QED
    BY <1>3, <1>4

\* A worker that fails leaves its run without success, and its modal free.
LEMMA StopKeeps ==
  ASSUME IInv, NEW s \in Slots, pc[s] \notin {"idle", "ended"}, Fail(s[1]),
         pc' = [pc EXCEPT ![s] = "failed"],
         UNCHANGED <<mount, open, home, chosen, queue, chunk, reported, short>>,
         \A q \in Slots : q # s => puts'[q] = puts[q]
  PROVE  /\ state' \in [Runs -> {"new", "running", "succeeded", "failed"}] /\ uploading' \in BOOLEAN
         /\ pc' \in [Slots -> {"idle", "init", "put", "complete", "ended", "failed"}]
         /\ Started' = Started
         /\ OverlapOnlyAfterFailureOrClose' /\ NewIsEmpty' /\ Covered' /\ SuccessIsOver' /\ OneAtHome'
  <1> DEFINE r == s[1]
  <1>1. r \in Runs /\ s[2] \in Workers /\ s = <<r, s[2]>>
    BY SlotFacts
  <1>2. TypeOK
    BY DEF IInv
  <1>3. state[r] \in {"running", "failed"}
    <2>1. state[r] # "new" /\ state[r] # "succeeded"
      BY <1>1 DEF IInv, NewIsEmpty, SuccessIsOver
    <2>2. QED
      BY <1>1, <1>2, <2>1 DEF TypeOK
  <1>4. state' = [state EXCEPT ![r] = "failed"]
    <2>1. state' = [state EXCEPT ![r] = IF state[r] = "running" THEN "failed" ELSE state[r]]
      BY DEF Fail
    <2>2. (IF state[r] = "running" THEN "failed" ELSE state[r]) = "failed"
      BY <1>3
    <2>3. QED
      BY <2>1, <2>2
  <1>5. /\ state'[r] = "failed" /\ \A q \in Runs : q # r => state'[q] = state[q]
        /\ pc'[s] = "failed" /\ \A q \in Slots : q # s => pc'[q] = pc[q]
    BY <1>1, <1>2, <1>4 DEF TypeOK
  <1>6. /\ state' \in [Runs -> {"new", "running", "succeeded", "failed"}]
        /\ pc' \in [Slots -> {"idle", "init", "put", "complete", "ended", "failed"}]
    BY <1>1, <1>2, <1>4 DEF TypeOK
  <1>7. uploading' \in BOOLEAN
    BY <1>2, Zenon DEF Fail, TypeOK
  <1>8. Started' = Started
    BY <1>3, <1>5 DEF Started
  <1>9. \A q \in Runs, w \in Workers : <<q, w>> \in Slots /\ <<q, w>>[1] = q
    BY SlotFacts
  <1>10. OverlapOnlyAfterFailureOrClose'
    <2>1. \A q \in Runs : Busy(q)' => Busy(q)
      BY <1>5, <1>9 DEF Busy
    <2>2. QED
      BY <1>5, <2>1 DEF IInv, OverlapOnlyAfterFailureOrClose
  <1>11. NewIsEmpty'
    <2>1. \A q \in Runs : (state'[q] = "new") <=> (state[q] = "new")
      BY <1>3, <1>5
    <2>2. \A q \in Runs, w \in Workers : state[q] = "new" => <<q, w>> # s
      BY <1>3, <1>9
    <2>3. QED
      BY <1>5, <1>9, <2>1, <2>2 DEF IInv, NewIsEmpty
  <1>12. Covered'
    <2>1. \A q \in Runs : (state'[q] = "new") <=> (state[q] = "new")
      BY <1>3, <1>5
    <2>2. QED
      BY <2>1 DEF IInv, Covered, Reported
  <1>13. SuccessIsOver'
    <2>1. \A q \in Runs, w \in Workers : state'[q] = "succeeded" => state[q] = "succeeded" /\ <<q, w>> # s
      BY <1>5, <1>9
    <2>2. QED
      BY <1>5, <1>9, <2>1 DEF IInv, SuccessIsOver
  <1>14. OneAtHome'
    <2>1. \A q \in Runs : state'[q] = "running" => state[q] = "running" /\ q # r
      BY <1>5
    <2>2. uploading' = uploading \/ (AtHome(r) /\ state[r] = "running")
      BY <1>1 DEF Fail
    <2>3. ASSUME NEW q \in Runs, state'[q] = "running", AtHome(q)
          PROVE  uploading'
      <3>1. CASE AtHome(r) /\ state[r] = "running"
        BY <1>1, <2>1, <2>3, <3>1 DEF IInv, OneAtHome, AtHome
      <3>2. CASE uploading' = uploading
        BY <2>1, <2>3, <3>2 DEF IInv, OneAtHome
      <3>3. QED
        BY <2>2, <3>1, <3>2
    <2>4. \A q \in Runs : AtHome(q)' <=> AtHome(q)
      BY DEF AtHome
    <2>5. QED
      BY <2>1, <2>3, <2>4 DEF IInv, OneAtHome
  <1>15. QED
    BY <1>6, <1>7, <1>8, <1>10, <1>11, <1>12, <1>13, <1>14

\* A request that fails stops its worker.
LEMMA StopStep ==
  ASSUME IInv, NEW s \in Slots, InitRefused(s) \/ CompleteRefused(s)
  PROVE  IInv'
  <1>1. /\ pc[s] \in {"init", "complete"} /\ pc' = [pc EXCEPT ![s] = "failed"] /\ Fail(s[1]) /\ AFailure
        /\ UNCHANGED <<count, statusMap, localFiles, mount, open, home, chosen, queue,
                       fileIndexOffset, chunk, puts, reported, short, disturbed>>
    BY DEF InitRefused, CompleteRefused
  <1>2. /\ state' \in [Runs -> {"new", "running", "succeeded", "failed"}] /\ uploading' \in BOOLEAN
        /\ pc' \in [Slots -> {"idle", "init", "put", "complete", "ended", "failed"}]
        /\ Started' = Started
        /\ OverlapOnlyAfterFailureOrClose' /\ NewIsEmpty' /\ Covered' /\ SuccessIsOver' /\ OneAtHome'
    BY <1>1, StopKeeps
  <1>3. pc'[s] = "failed" /\ \A q \in Slots : q # s => pc'[q] = pc[q]
    BY <1>1 DEF IInv, TypeOK
  <1>4. TypeOK'
    <2>1. failures' \in 0..MaxFailures
      BY <1>1, ConstantsOK DEF AFailure, IInv, TypeOK
    <2>2. QED
      BY <1>1, <1>2, <2>1 DEF IInv, TypeOK
  <1>5. PutsAreOfChunk'
    BY <1>1, <1>3 DEF IInv, PutsAreOfChunk, Reported
  <1>6. FullAnswers'
    BY <1>1, <1>3 DEF IInv, FullAnswers
  <1>7. ReportedIsOver'
    <2>1. \A q, f : Reported(q, f)' <=> Reported(q, f)
      BY <1>1 DEF Reported
    <2>2. QED
      BY <1>1, <1>3, <2>1 DEF IInv, ReportedIsOver
  <1>8. Ticks'
    <2>1. Ticked' = Ticked
      BY <1>1 DEF Ticked, isDone
    <2>2. \A r \in Runs : Sent(r)' = Sent(r)
      BY <1>1 DEF Sent, Transferred, Reported
    <2>3. QED
      BY <1>1, <1>2, <2>1, <2>2, TicksKept
  <1>9. QED
    BY <1>1, <1>2, <1>4, <1>5, <1>6, <1>7, <1>8, PartsKept DEF IInv

\* An answer has files of the chunk, in their order and none twice: all of
\* them or fewer.
LEMMA AnswerFacts ==
  ASSUME NEW S, NEW c \in Seq(S), Once(c), NEW names \in Answers(c)
  PROVE  /\ names \in Seq(S) /\ Len(names) <= Len(c) /\ Once(names)
         /\ \A i \in DOMAIN names : names[i] \in FilesOf(c)
         /\ Len(names) = Len(c) => names = c
  <1>1. Len(c) \in Nat /\ DOMAIN c = 1..Len(c) /\ \A i \in 1..Len(c) : c[i] \in S
    OBVIOUS
  <1>2. CASE names = c
    BY <1>1, <1>2 DEF FilesOf
  <1>3. CASE names # c
    <2>0. PICK n \in 1..(Len(c) - 1) :
            \E place \in [1..n -> DOMAIN c] :
              /\ \A i, j \in 1..n : i < j => place[i] < place[j]
              /\ names = [i \in 1..n |-> c[place[i]]]
      BY <1>3 DEF Answers
    <2>1. PICK place \in [1..n -> DOMAIN c] :
            /\ \A i, j \in 1..n : i < j => place[i] < place[j]
            /\ names = [i \in 1..n |-> c[place[i]]]
      BY <2>0
    <2>2. n \in Nat /\ n < Len(c) /\ \A i \in 1..n : place[i] \in 1..Len(c) /\ c[place[i]] \in S
      BY <1>1, <2>1
    <2>3. names \in Seq(S) /\ Len(names) = n /\ DOMAIN names = 1..n
      BY <2>1, <2>2
    <2>4. \A i \in DOMAIN names : names[i] \in FilesOf(c)
      BY <1>1, <2>1, <2>2, <2>3 DEF FilesOf
    <2>5. Once(names)
      <3>1. SUFFICES ASSUME NEW i \in 1..n, NEW j \in 1..n, c[place[i]] = c[place[j]]
                     PROVE  i = j
        BY <2>1, <2>3 DEF Once
      <3>2. place[i] = place[j]
        BY <2>2, <3>1 DEF Once
      <3>3. i \in Int /\ j \in Int /\ place[i] \in Int
        BY <2>2
      <3>4. ~(i < j) /\ ~(j < i)
        <4>1. /\ i < j => place[i] < place[j]
              /\ j < i => place[j] < place[i]
          BY <2>1
        <4>2. QED
          BY ONLY <3>2, <3>3, <4>1
      <3>5. QED
        BY ONLY <3>3, <3>4
    <2>6. Len(names) <= Len(c) /\ Len(names) # Len(c)
      <3>1. Len(c) \in Nat /\ n \in Nat /\ n < Len(c) /\ Len(names) = n
        BY <1>1, <2>2, <2>3
      <3>2. QED
        BY ONLY <3>1
    <2>7. QED
      BY <2>3, <2>4, <2>5, <2>6
  <1>4. QED
    BY <1>2, <1>3

\* An answer starts a transfer for each of its files; the chunk's when it is full.
LEMMA AnswerStep ==
  ASSUME IInv, NEW s \in Slots, NEW names \in Answers(chunk[s]), InitAnswered(s, names)
  PROVE  IInv'
  <1> DEFINE r == s[1]
             Row(i) == fileIndexOffset[r] + i - 1
             new == [i \in 1..Len(names) |->
                       [name |-> names[i], file |-> chunk[s][i], index |-> Row(i), at |-> "flight", tries |-> 0]]
  <1>1. /\ pc[s] = "init" /\ pc' = [pc EXCEPT ![s] = "put"] /\ puts' = [puts EXCEPT ![s] = new]
        /\ short' = IF Len(names) < Len(chunk[s]) THEN short \cup {r} ELSE short
        /\ Mark({Row(i) : i \in 1..Len(names)}, "uploading")
        /\ UNCHANGED <<count, localFiles, uploading, mount, open, state, home, chosen,
                       queue, fileIndexOffset, chunk, reported, disturbed, failures>>
    BY DEF InitAnswered
  <1>2. TypeOK /\ chunk[s] \in Seq(Rows) /\ Once(chunk[s]) /\ r \in Runs
    BY SlotFacts DEF IInv, TypeOK, ListsAreOnce
  <1>3. /\ names \in Seq(Rows) /\ Len(names) <= Len(chunk[s]) /\ Once(names)
        /\ \A i \in DOMAIN names : names[i] \in FilesOf(chunk[s])
        /\ Len(names) = Len(chunk[s]) => names = chunk[s]
    BY <1>2, AnswerFacts
  <1>4. Len(names) \in Nat /\ Len(chunk[s]) \in Nat /\ DOMAIN names = 1..Len(names)
        /\ DOMAIN chunk[s] = 1..Len(chunk[s])
    BY <1>2, <1>3
  <1>5. new \in Seq(Put)
    <2>1. \A i \in 1..Len(names) : names[i] \in Rows /\ chunk[s][i] \in Rows /\ Row(i) \in Nat
      <3>1. \A i \in 1..Len(names) : names[i] \in Rows /\ chunk[s][i] \in Rows
        BY <1>2, <1>3, <1>4
      <3>2. \A i \in 1..Len(names) : Row(i) \in Nat
        <4>1. fileIndexOffset[r] \in Nat
          BY <1>2 DEF TypeOK
        <4>2. QED
          BY <1>4, <4>1
      <3>3. QED
        BY <3>1, <3>2
    <2>2. 0 \in 0..MAX_RETRIES
      BY ConstantsOK
    <2> HIDE DEF Row
    <2>3. \A i \in 1..Len(names) : new[i] \in Put
      BY <2>1, <2>2 DEF Put
    <2> HIDE DEF new
    <2>4. new = [i \in 1..Len(names) |-> new[i]]
      BY DEF new
    <2>5. QED
      BY ONLY <1>4, <2>3, <2>4
  <1>6. DOMAIN new = 1..Len(names)
        /\ \A i \in 1..Len(names) : /\ new[i].name = names[i] /\ new[i].file = chunk[s][i]
                                    /\ new[i].at = "flight"
    OBVIOUS
  <1> HIDE DEF new
  <1>7. /\ puts' \in [Slots -> Seq(Put)] /\ puts'[s] = new /\ pc'[s] = "put"
        /\ pc' \in [Slots -> {"idle", "init", "put", "complete", "ended", "failed"}]
        /\ \A q \in Slots : q # s => puts'[q] = puts[q] /\ pc'[q] = pc[q]
    BY <1>1, <1>2, <1>5 DEF TypeOK
  <1>8. /\ statusMap' \in [Rows -> {"none", "uploading", "done"}]
        /\ Ticked' \subseteq Ticked
    BY <1>1, <1>2 DEF Mark, Ticked, isDone, TypeOK
  <1>9. short \subseteq short' /\ short' \subseteq Runs /\ (r \notin short' => names = chunk[s])
    <2>1. short \subseteq Runs
      BY <1>2 DEF TypeOK
    <2>2. short \subseteq short' /\ short' \subseteq Runs
      BY <1>1, <1>2, <2>1
    <2>3. ASSUME r \notin short'
          PROVE  names = chunk[s]
      <3>1. ~(Len(names) < Len(chunk[s]))
        BY <1>1, <2>3
      <3>2. Len(names) = Len(chunk[s])
        BY ONLY <1>3, <1>4, <3>1
      <3>3. QED
        BY <1>3, <3>2
    <2>4. QED
      BY <2>2, <2>3
  <1>10. TypeOK'
    BY <1>1, <1>2, <1>7, <1>8, <1>9 DEF TypeOK
  <1>11. OverlapOnlyAfterFailureOrClose'
    <2>1. \A q \in Runs : Busy(q)' => Busy(q)
      BY <1>1, <1>7, SlotFacts DEF Busy
    <2>2. QED
      BY <1>1, <2>1 DEF IInv, OverlapOnlyAfterFailureOrClose
  <1>12. MispairedOnlyAfterShortAnswer'
    BY <1>1, <1>9 DEF IInv, MispairedOnlyAfterShortAnswer
  <1>13. NewIsEmpty'
    <2>1. \A q \in Runs, w \in Workers : state[q] = "new" => <<q, w>> # s /\ <<q, w>> \in Slots
      BY <1>1, SlotFacts DEF IInv, NewIsEmpty
    <2>2. QED
      BY <1>1, <1>7, <2>1 DEF IInv, NewIsEmpty
  <1>14. PutsAreOfChunk'
    <2>1. \A q, f : Reported(q, f)' <=> Reported(q, f)
      BY <1>1 DEF Reported
    <2>2. ASSUME NEW q \in Slots, q # s
          PROVE  /\ pc'[q] \in {"idle", "init", "ended"} => puts'[q] = <<>>
                 /\ pc'[q] \in {"idle", "ended"} => chunk[q] = <<>>
                 /\ pc'[q] = "complete" =>
                      AllDone(puts'[q]) /\ \A i \in DOMAIN puts'[q] : Reported(q[1], puts'[q][i].name)
                 /\ \A i \in DOMAIN puts'[q] :
                      /\ puts'[q][i].name \in FilesOf(chunk[q])
                      /\ puts'[q][i].at = "sleep" => puts'[q][i].tries < MAX_RETRIES
                 /\ \A i, j \in DOMAIN puts'[q] : puts'[q][i].name = puts'[q][j].name => i = j
      BY <1>7, <2>2 DEF IInv, PutsAreOfChunk
    <2>3. \A i \in DOMAIN new : new[i].name \in FilesOf(chunk[s]) /\ new[i].at # "sleep"
      BY <1>3, <1>4, <1>6
    <2>4. \A i, j \in DOMAIN new : new[i].name = new[j].name => i = j
      BY <1>3, <1>6 DEF Once
    <2>5. QED
      BY <1>1, <1>7, <2>1, <2>2, <2>3, <2>4 DEF PutsAreOfChunk
  <1>15. FullAnswers'
    <2>1. ASSUME r \notin short'
          PROVE  /\ \A i \in DOMAIN new : new[i].file = new[i].name
                 /\ \A f \in FilesOf(chunk[s]) : \E i \in DOMAIN new : new[i].name = f
      BY <1>4, <1>6, <1>9, <2>1 DEF FilesOf
    <2>2. ASSUME NEW q \in Slots, NEW p \in Runs, p = q[1], p \notin short'
          PROVE  /\ \A i \in DOMAIN puts'[q] : puts'[q][i].file = puts'[q][i].name
                 /\ pc'[q] \in {"put", "complete"} =>
                      \A f \in FilesOf(chunk'[q]) : \E i \in DOMAIN puts'[q] : puts'[q][i].name = f
      <3>1. chunk'[q] = chunk[q] /\ p \notin short
        BY <1>1, <1>9, <2>2
      <3>2. CASE q = s
        BY <1>7, <2>1, <2>2, <3>1, <3>2
      <3>3. CASE q # s
        <4>1. puts'[q] = puts[q] /\ pc'[q] = pc[q] /\ q[1] \notin short
          BY <1>7, <2>2, <3>1, <3>3
        <4>2. QED
          BY <3>1, <4>1 DEF IInv, FullAnswers
      <3>4. QED
        BY <3>2, <3>3
    <2>3. \A q \in Slots : q[1] \in Runs
      BY SlotFacts
    <2>4. QED
      BY <2>2, <2>3 DEF FullAnswers
  <1>16. ReportedIsOver'
    <2>1. \A q, f : Reported(q, f)' <=> Reported(q, f)
      BY <1>1 DEF Reported
    <2>2. \A f \in FilesOf(chunk[s]) : ~Reported(r, f)
      BY <1>1 DEF IInv, ReportedIsOver
    <2>3. QED
      BY <1>1, <1>7, <2>1, <2>2 DEF IInv, ReportedIsOver
  <1>17. Covered'
    <2>1. \A q, f : Reported(q, f)' <=> Reported(q, f)
      BY <1>1 DEF Reported
    <2>2. QED
      BY <1>1, <1>9, <2>1 DEF IInv, Covered
  <1>18. SuccessIsOver'
    <2>1. \A q \in Runs, w \in Workers : state[q] = "succeeded" => <<q, w>> # s /\ <<q, w>> \in Slots
      BY <1>1, SlotFacts DEF IInv, SuccessIsOver
    <2>2. QED
      BY <1>1, <1>7, <2>1 DEF IInv, SuccessIsOver
  <1>19. Ticks'
    <2>1. DOMAIN puts[s] = {}
      BY <1>1 DEF IInv, PutsAreOfChunk
    <2>2. \A q \in Runs : Sent(q) \subseteq Sent(q)'
      <3>1. \A q \in Slots : \A i \in DOMAIN puts[q] : puts[q][i].at = "done" =>
              i \in DOMAIN puts'[q] /\ puts'[q][i].name = puts[q][i].name /\ puts'[q][i].at = "done"
        BY <1>7, <2>1
      <3>2. reported \subseteq reported'
        BY <1>1
      <3>3. QED
        BY <3>1, <3>2, SentKept
    <2>3. Started' = Started
      BY <1>1 DEF Started
    <2>4. QED
      BY <1>1, <1>8, <2>2, <2>3, TicksKept
  <1>20. NoFileTwice' /\ ListsAreOnce' /\ FilesAreChosen' /\ OneAtHome'
    BY <1>1, PartsKept
  <1>21. QED
    BY <1>10, <1>11, <1>12, <1>13, <1>14, <1>15, <1>16, <1>17, <1>18, <1>19, <1>20 DEF IInv

\* A transfer that moves on keeps its files; nothing of its chunk is reported.
LEMMA TransferFacts ==
  ASSUME IInv, NEW s \in Slots, NEW i \in DOMAIN puts[s], puts[s][i].at \in {"flight", "sleep"},
         NEW p \in Put, p.name = puts[s][i].name, p.file = puts[s][i].file,
         puts' = [puts EXCEPT ![s] = [puts[s] EXCEPT ![i] = p]]
  PROVE  /\ puts' \in [Slots -> Seq(Put)]
         /\ \A q \in Slots : q # s => puts'[q] = puts[q]
         /\ DOMAIN puts'[s] = DOMAIN puts[s] /\ puts'[s][i] = p
         /\ \A j \in DOMAIN puts[s] : j # i => puts'[s][j] = puts[s][j]
         /\ \A j \in DOMAIN puts[s] : /\ puts'[s][j].name = puts[s][j].name
                                      /\ puts'[s][j].file = puts[s][j].file
         /\ pc[s] \in {"put", "failed"} /\ state[s[1]] # "new" /\ state[s[1]] # "succeeded"
         /\ \A f \in FilesOf(chunk[s]) : ~Reported(s[1], f)
  <1>1. puts \in [Slots -> Seq(Put)] /\ puts[s] \in Seq(Put) /\ pc[s] \in {"idle", "init", "put", "complete", "ended", "failed"}
    BY DEF IInv, TypeOK
  <1> DEFINE new == [puts[s] EXCEPT ![i] = p]
  <1>2. new \in Seq(Put) /\ DOMAIN new = DOMAIN puts[s] /\ new[i] = p
        /\ \A j \in DOMAIN puts[s] : j # i => new[j] = puts[s][j]
    BY <1>1, ExceptSeq
  <1> HIDE DEF new
  <1>3. puts' = [puts EXCEPT ![s] = new]
    BY DEF new
  <1>4. puts' \in [Slots -> Seq(Put)] /\ puts'[s] = new /\ \A q \in Slots : q # s => puts'[q] = puts[q]
    BY <1>1, <1>2, <1>3
  <1>5. \A j \in DOMAIN puts[s] : puts'[s][j].name = puts[s][j].name /\ puts'[s][j].file = puts[s][j].file
    BY <1>2, <1>4
  <1>6. puts[s] # <<>> /\ ~AllDone(puts[s])
    BY DEF AllDone
  <1>7. pc[s] \in {"put", "failed"}
    BY <1>1, <1>6 DEF IInv, PutsAreOfChunk
  <1>8. state[s[1]] # "new" /\ state[s[1]] # "succeeded"
    <2>1. s[1] \in Runs /\ s[2] \in Workers /\ s = <<s[1], s[2]>>
      BY SlotFacts
    <2>2. QED
      BY <1>7, <2>1 DEF IInv, NewIsEmpty, SuccessIsOver
  <1>9. \A f \in FilesOf(chunk[s]) : ~Reported(s[1], f)
    BY <1>6 DEF IInv, ReportedIsOver
  <1>10. QED
    BY <1>2, <1>4, <1>5, <1>7, <1>8, <1>9

\* A transfer that fails, sleeps or is tried again leaves the files as they are.
LEMMA WaitKeeps ==
  ASSUME IInv, NEW s \in Slots, NEW i \in DOMAIN puts[s], puts[s][i].at \in {"flight", "sleep"},
         NEW p \in Put, p.name = puts[s][i].name, p.file = puts[s][i].file,
         puts' = [puts EXCEPT ![s] = [puts[s] EXCEPT ![i] = p]],
         p.at = "sleep" => p.tries < MAX_RETRIES,
         UNCHANGED pc \/ pc' = [pc EXCEPT ![s] = "failed"],
         UNCHANGED <<chunk, queue, chosen, reported, short>>
  PROVE  /\ puts' \in [Slots -> Seq(Put)]
         /\ PutsAreOfChunk' /\ FullAnswers' /\ ReportedIsOver'
         /\ \A r \in Runs : Sent(r) \subseteq Sent(r)'
  <1>1. /\ puts' \in [Slots -> Seq(Put)]
        /\ \A q \in Slots : q # s => puts'[q] = puts[q]
        /\ DOMAIN puts'[s] = DOMAIN puts[s] /\ puts'[s][i] = p
        /\ \A j \in DOMAIN puts[s] : j # i => puts'[s][j] = puts[s][j]
        /\ \A j \in DOMAIN puts[s] : /\ puts'[s][j].name = puts[s][j].name
                                     /\ puts'[s][j].file = puts[s][j].file
        /\ pc[s] \in {"put", "failed"} /\ state[s[1]] # "new" /\ state[s[1]] # "succeeded"
        /\ \A f \in FilesOf(chunk[s]) : ~Reported(s[1], f)
    BY TransferFacts
  <1>2. /\ pc'[s] \in {"put", "failed"} /\ (pc'[s] = "put" => pc[s] = "put")
        /\ \A q \in Slots : q # s => pc'[q] = pc[q]
    BY <1>1 DEF IInv, TypeOK
  <1>3. \A q, f : Reported(q, f)' <=> Reported(q, f)
    BY DEF Reported
  <1>4. PutsAreOfChunk'
    <2>1. ASSUME NEW q \in Slots, q # s
          PROVE  /\ pc'[q] \in {"idle", "init", "ended"} => puts'[q] = <<>>
                 /\ pc'[q] \in {"idle", "ended"} => chunk[q] = <<>>
                 /\ pc'[q] = "complete" =>
                      AllDone(puts'[q]) /\ \A j \in DOMAIN puts'[q] : Reported(q[1], puts'[q][j].name)
                 /\ \A j \in DOMAIN puts'[q] :
                      /\ puts'[q][j].name \in FilesOf(chunk[q])
                      /\ puts'[q][j].at = "sleep" => puts'[q][j].tries < MAX_RETRIES
                 /\ \A j, k \in DOMAIN puts'[q] : puts'[q][j].name = puts'[q][k].name => j = k
      BY <1>1, <1>2, <2>1 DEF IInv, PutsAreOfChunk
    <2>2. /\ \A j \in DOMAIN puts'[s] :
               /\ puts'[s][j].name \in FilesOf(chunk[s])
               /\ puts'[s][j].at = "sleep" => puts'[s][j].tries < MAX_RETRIES
          /\ \A j, k \in DOMAIN puts'[s] : puts'[s][j].name = puts'[s][k].name => j = k
      BY <1>1 DEF IInv, PutsAreOfChunk
    <2>3. QED
      BY <1>2, <1>3, <2>1, <2>2 DEF PutsAreOfChunk
  <1>5. FullAnswers'
    <2>1. ASSUME NEW q \in Slots, q[1] \notin short
          PROVE  /\ \A j \in DOMAIN puts'[q] : puts'[q][j].file = puts'[q][j].name
                 /\ pc'[q] \in {"put", "complete"} =>
                      \A f \in FilesOf(chunk[q]) : \E j \in DOMAIN puts'[q] : puts'[q][j].name = f
      <3>1. CASE q = s
        <4>1. /\ \A j \in DOMAIN puts[s] : puts[s][j].file = puts[s][j].name
              /\ pc[s] \in {"put", "complete"} =>
                   \A f \in FilesOf(chunk[s]) : \E j \in DOMAIN puts[s] : puts[s][j].name = f
          BY <2>1, <3>1 DEF IInv, FullAnswers
        <4>2. pc'[s] \in {"put", "complete"} => pc[s] \in {"put", "complete"}
          BY <1>2
        <4>3. QED
          BY ONLY <1>1, <3>1, <4>1, <4>2
      <3>2. CASE q # s
        <4>1. puts'[q] = puts[q] /\ pc'[q] = pc[q]
          BY <1>1, <1>2, <2>1, <3>2
        <4>2. /\ \A j \in DOMAIN puts[q] : puts[q][j].file = puts[q][j].name
              /\ pc[q] \in {"put", "complete"} =>
                   \A f \in FilesOf(chunk[q]) : \E j \in DOMAIN puts[q] : puts[q][j].name = f
          BY <2>1 DEF IInv, FullAnswers
        <4>3. QED
          BY ONLY <4>1, <4>2
      <3>3. QED
        BY <3>1, <3>2
    <2>2. QED
      BY <2>1 DEF FullAnswers
  <1>6. ReportedIsOver'
    BY <1>1, <1>2, <1>3 DEF IInv, ReportedIsOver
  <1>7. \A r \in Runs : Sent(r) \subseteq Sent(r)'
    <2>1. \A q \in Slots : \A j \in DOMAIN puts[q] : puts[q][j].at = "done" =>
            j \in DOMAIN puts'[q] /\ puts'[q][j].name = puts[q][j].name /\ puts'[q][j].at = "done"
      BY <1>1
    <2>2. QED
      BY <2>1, SentKept
  <1>8. QED
    BY <1>1, <1>4, <1>5, <1>6, <1>7

\* A transfer's error puts it to sleep, or stops its worker.
LEMMA ErrStep ==
  ASSUME IInv, NEW s \in Slots, NEW i \in DOMAIN puts[s], PutErred(s, i)
  PROVE  IInv'
  <1> DEFINE o == puts[s][i]
             rec(a) == [name |-> o.name, file |-> o.file, index |-> o.index, at |-> a, tries |-> o.tries]
  <1>1. TypeOK /\ puts \in [Slots -> Seq(Put)] /\ o \in Put /\ o.at = "flight"
    <2>1. o.at = "flight"
      BY DEF PutErred
    <2>2. TypeOK /\ puts \in [Slots -> Seq(Put)]
      BY DEF IInv, TypeOK
    <2>3. o \in Put
      BY <2>2
    <2>4. QED
      BY <2>1, <2>2, <2>3
  <1>2. o = [name |-> o.name, file |-> o.file, index |-> o.index, at |-> o.at, tries |-> o.tries]
        /\ o.tries \in 0..MAX_RETRIES /\ o.name \in Rows /\ o.file \in Rows /\ o.index \in Nat
    BY <1>1 DEF Put
  <1>3. rec("sleep") \in Put /\ rec("failed") \in Put
    BY <1>2 DEF Put
  <1>4. failures' \in 0..MaxFailures
    <2>1. failures \in 0..MaxFailures
      BY <1>1 DEF TypeOK
    <2>2. failures' = failures \/ (failures < MaxFailures /\ failures' = failures + 1)
      BY DEF PutErred, AFailure
    <2>3. QED
      BY ONLY <2>1, <2>2, ConstantsOK DEF ConstantsOK
  <1>5. UNCHANGED <<count, statusMap, localFiles, mount, open, home, chosen, queue,
                    fileIndexOffset, chunk, reported, short, disturbed>>
    BY DEF PutErred
  <1>6. Ticked' = Ticked
    BY <1>5 DEF Ticked, isDone
  <1>7. CASE o.tries < MAX_RETRIES
    <2>1. puts' = [puts EXCEPT ![s][i].at = "sleep"] /\ UNCHANGED <<pc, state, uploading>>
      BY <1>7 DEF PutErred
    <2>2. puts' = [puts EXCEPT ![s] = [puts[s] EXCEPT ![i] = rec("sleep")]]
      <3>1. [o EXCEPT !.at = "sleep"] = rec("sleep")
        BY <1>2
      <3>2. puts' = [puts EXCEPT ![s] = [puts[s] EXCEPT ![i] = [o EXCEPT !.at = "sleep"]]]
        BY <2>1
      <3>3. QED
        BY <3>1, <3>2
    <2>3. /\ puts' \in [Slots -> Seq(Put)]
          /\ PutsAreOfChunk' /\ FullAnswers' /\ ReportedIsOver'
          /\ \A r \in Runs : Sent(r) \subseteq Sent(r)'
          /\ \A q \in Slots : q # s => puts'[q] = puts[q]
          /\ state[s[1]] # "new"
      <3>1. PICK p \in Put : /\ p.name = o.name /\ p.file = o.file /\ p.tries < MAX_RETRIES
                            /\ puts' = [puts EXCEPT ![s] = [puts[s] EXCEPT ![i] = p]]
        BY <1>3, <1>7, <2>2
      <3>2. o.at \in {"flight", "sleep"}
        BY <1>1
      <3>3. /\ puts' \in [Slots -> Seq(Put)]
            /\ PutsAreOfChunk' /\ FullAnswers' /\ ReportedIsOver'
            /\ \A r \in Runs : Sent(r) \subseteq Sent(r)'
        <4>1. pc' = pc /\ UNCHANGED <<chunk, queue, chosen, reported, short>>
          BY <1>5, <2>1
        <4>2. p.at = "sleep" => p.tries < MAX_RETRIES
          BY <3>1
        <4>3. QED
          BY <3>1, <3>2, <4>1, <4>2, WaitKeeps
      <3>4. (\A q \in Slots : q # s => puts'[q] = puts[q]) /\ state[s[1]] # "new"
        BY <3>1, <3>2, TransferFacts
      <3>5. QED
        BY <3>3, <3>4
    <2>4. TypeOK'
      BY <1>1, <1>4, <1>5, <2>1, <2>3 DEF TypeOK
    <2>5. NewIsEmpty'
      <3>1. \A q \in Runs, w \in Workers : state[q] = "new" => <<q, w>> # s /\ <<q, w>> \in Slots
        BY <2>3, SlotFacts
      <3>2. QED
        BY <1>5, <2>1, <2>3, <3>1 DEF IInv, NewIsEmpty
    <2>6. Ticks'
      <3>1. Started' = Started
        BY <2>1 DEF Started
      <3>2. QED
        BY <1>5, <1>6, <2>3, <3>1, TicksKept
    <2>7. QED
      BY <1>5, <2>1, <2>3, <2>4, <2>5, <2>6, PartsKept DEF IInv
  <1>8. CASE ~(o.tries < MAX_RETRIES)
    <2>1. puts' = [puts EXCEPT ![s][i].at = "failed"] /\ pc' = [pc EXCEPT ![s] = "failed"] /\ Fail(s[1])
      BY <1>8 DEF PutErred
    <2>2. puts' = [puts EXCEPT ![s] = [puts[s] EXCEPT ![i] = rec("failed")]]
      <3>1. [o EXCEPT !.at = "failed"] = rec("failed")
        BY <1>2
      <3>2. puts' = [puts EXCEPT ![s] = [puts[s] EXCEPT ![i] = [o EXCEPT !.at = "failed"]]]
        BY <2>1
      <3>3. QED
        BY <3>1, <3>2
    <2>3. /\ puts' \in [Slots -> Seq(Put)]
          /\ PutsAreOfChunk' /\ FullAnswers' /\ ReportedIsOver'
          /\ \A r \in Runs : Sent(r) \subseteq Sent(r)'
          /\ \A q \in Slots : q # s => puts'[q] = puts[q]
          /\ pc[s] \in {"put", "failed"}
      <3>1. PICK p \in Put : /\ p.name = o.name /\ p.file = o.file /\ p.at # "sleep"
                            /\ puts' = [puts EXCEPT ![s] = [puts[s] EXCEPT ![i] = p]]
        BY <1>3, <2>2
      <3>2. o.at \in {"flight", "sleep"}
        BY <1>1
      <3>3. /\ puts' \in [Slots -> Seq(Put)]
            /\ PutsAreOfChunk' /\ FullAnswers' /\ ReportedIsOver'
            /\ \A r \in Runs : Sent(r) \subseteq Sent(r)'
        BY <1>5, <2>1, <3>1, <3>2, WaitKeeps
      <3>4. (\A q \in Slots : q # s => puts'[q] = puts[q]) /\ pc[s] \in {"put", "failed"}
        BY <3>1, <3>2, TransferFacts
      <3>5. QED
        BY <3>3, <3>4
    <2>4. /\ state' \in [Runs -> {"new", "running", "succeeded", "failed"}] /\ uploading' \in BOOLEAN
          /\ pc' \in [Slots -> {"idle", "init", "put", "complete", "ended", "failed"}]
          /\ Started' = Started
          /\ OverlapOnlyAfterFailureOrClose' /\ NewIsEmpty' /\ Covered' /\ SuccessIsOver' /\ OneAtHome'
      BY <1>5, <2>1, <2>3, StopKeeps
    <2>5. TypeOK'
      BY <1>1, <1>4, <1>5, <2>3, <2>4 DEF TypeOK
    <2>6. Ticks'
      BY <1>5, <1>6, <2>3, <2>4, TicksKept
    <2>7. QED
      BY <1>5, <2>3, <2>4, <2>5, <2>6, PartsKept DEF IInv
  <1>9. QED
    BY <1>7, <1>8

\* A transfer tried again is in flight again.
LEMMA RetryStep ==
  ASSUME IInv, NEW s \in Slots, NEW i \in DOMAIN puts[s], Retry(s, i)
  PROVE  IInv'
  <1> DEFINE o == puts[s][i]
             p == [name |-> o.name, file |-> o.file, index |-> o.index, at |-> "flight", tries |-> o.tries + 1]
  <1>1. TypeOK /\ puts \in [Slots -> Seq(Put)] /\ o \in Put /\ o.at = "sleep" /\ o.tries < MAX_RETRIES
    <2>1. o.at = "sleep"
      BY DEF Retry
    <2>2. o.tries < MAX_RETRIES
      BY <2>1 DEF IInv, PutsAreOfChunk
    <2>3. TypeOK /\ puts \in [Slots -> Seq(Put)]
      BY DEF IInv, TypeOK
    <2>4. o \in Put
      BY <2>3
    <2>5. QED
      BY <2>1, <2>2, <2>3, <2>4
  <1>2. o = [name |-> o.name, file |-> o.file, index |-> o.index, at |-> o.at, tries |-> o.tries]
        /\ o.tries \in 0..MAX_RETRIES /\ o.name \in Rows /\ o.file \in Rows /\ o.index \in Nat
    BY <1>1 DEF Put
  <1>3. p \in Put
    <2>1. o.tries + 1 \in 0..MAX_RETRIES
      BY <1>1, <1>2, ConstantsOK
    <2>2. QED
      BY <1>2, <2>1 DEF Put
  <1>4. UNCHANGED <<screen, state, home, chosen, queue, fileIndexOffset, pc, chunk,
                    reported, short, disturbed, failures>>
    BY DEF Retry
  <1>5. puts' = [puts EXCEPT ![s] = [puts[s] EXCEPT ![i] = p]]
    <2> DEFINE m == [name |-> o.name, file |-> o.file, index |-> o.index, at |-> "flight", tries |-> o.tries]
    <2>1. [[o EXCEPT !.at = "flight"] EXCEPT !.tries = o.tries + 1] = p
      <3>1. [o EXCEPT !.at = "flight"] = m
        BY <1>2
      <3>2. [m EXCEPT !.tries = o.tries + 1] = p
        OBVIOUS
      <3>3. QED
        BY <3>1, <3>2
    <2>2. puts' = [puts EXCEPT ![s] = [puts[s] EXCEPT ![i] = [[o EXCEPT !.at = "flight"] EXCEPT !.tries = o.tries + 1]]]
      BY <1>1, <1>2 DEF Retry
    <2>3. QED
      BY <2>1, <2>2
  <1>6. p.name = o.name /\ p.file = o.file /\ p.at = "flight"
    OBVIOUS
  <1> HIDE DEF p
  <1>7. /\ puts' \in [Slots -> Seq(Put)]
        /\ PutsAreOfChunk' /\ FullAnswers' /\ ReportedIsOver'
        /\ \A r \in Runs : Sent(r) \subseteq Sent(r)'
        /\ \A q \in Slots : q # s => puts'[q] = puts[q]
        /\ state[s[1]] # "new"
    BY <1>1, <1>3, <1>4, <1>5, <1>6, WaitKeeps, TransferFacts
  <1>8. TypeOK'
    BY <1>1, <1>4, <1>7 DEF TypeOK, screen
  <1>9. NewIsEmpty'
    <2>1. \A q \in Runs, w \in Workers : state[q] = "new" => <<q, w>> # s /\ <<q, w>> \in Slots
      BY <1>7, SlotFacts
    <2>2. QED
      BY <1>4, <1>7, <2>1 DEF IInv, NewIsEmpty
  <1>10. Ticks'
    <2>1. Started' = Started /\ Ticked' = Ticked
      BY <1>4 DEF Started, Ticked, isDone, screen
    <2>2. QED
      BY <1>4, <1>7, <2>1, TicksKept
  <1>11. QED
    BY <1>4, <1>7, <1>8, <1>9, <1>10, PartsKept DEF IInv, screen

\* A transfer that ends ticks a row and sends a file; the last reports them all.
LEMMA LoadStep ==
  ASSUME IInv, NEW s \in Slots, NEW i \in DOMAIN puts[s], PutLoaded(s, i)
  PROVE  IInv'
  <1> DEFINE o == puts[s][i]
             r == s[1]
  <1>1. TypeOK /\ puts \in [Slots -> Seq(Put)] /\ o \in Put /\ o.at = "flight" /\ r \in Runs /\ s = <<r, s[2]>> /\ s[2] \in Workers
    <2>1. o.at = "flight"
      BY DEF PutLoaded
    <2>2. TypeOK /\ puts \in [Slots -> Seq(Put)]
      BY DEF IInv, TypeOK
    <2>3. o \in Put
      BY <2>2
    <2>4. QED
      BY <2>1, <2>2, <2>3, SlotFacts
  <1>2. o = [name |-> o.name, file |-> o.file, index |-> o.index, at |-> o.at, tries |-> o.tries]
        /\ o.tries \in 0..MAX_RETRIES /\ o.name \in Rows /\ o.file \in Rows /\ o.index \in Nat
    BY <1>1 DEF Put
  <1>3. PICK p \in Put : /\ p.name = o.name /\ p.file = o.file /\ p.at = "done"
                         /\ puts' = [puts EXCEPT ![s] = [puts[s] EXCEPT ![i] = p]]
    <2> DEFINE m == [name |-> o.name, file |-> o.file, index |-> o.index, at |-> "done", tries |-> o.tries]
    <2>1. m \in Put
      BY <1>2 DEF Put
    <2>2. [o EXCEPT !.at = "done"] = m
      BY <1>2
    <2>3. puts' = [puts EXCEPT ![s] = [puts[s] EXCEPT ![i] = [o EXCEPT !.at = "done"]]]
      BY DEF PutLoaded
    <2>4. m.name = o.name /\ m.file = o.file /\ m.at = "done"
      OBVIOUS
    <2> HIDE DEF m
    <2>5. QED
      BY <2>1, <2>2, <2>3, <2>4
  <1>4. /\ puts' \in [Slots -> Seq(Put)]
        /\ \A q \in Slots : q # s => puts'[q] = puts[q]
        /\ DOMAIN puts'[s] = DOMAIN puts[s] /\ puts'[s][i] = p
        /\ \A j \in DOMAIN puts[s] : j # i => puts'[s][j] = puts[s][j]
        /\ \A j \in DOMAIN puts[s] : /\ puts'[s][j].name = puts[s][j].name
                                     /\ puts'[s][j].file = puts[s][j].file
        /\ pc[s] \in {"put", "failed"} /\ state[r] # "new" /\ state[r] # "succeeded"
        /\ \A f \in FilesOf(chunk[s]) : ~Reported(r, f)
    <2>1. o.at \in {"flight", "sleep"}
      BY <1>1
    <2>2. QED
      BY <1>3, <2>1, TransferFacts
  <1>5. /\ UNCHANGED <<count, localFiles, uploading, mount, open, state, home, chosen,
                       queue, fileIndexOffset, chunk, short, disturbed, failures>>
        /\ Mark({o.index}, "done")
    BY DEF PutLoaded
  <1>6. \A j \in DOMAIN puts[s] : puts[s][j].name \in FilesOf(chunk[s]) /\ puts[s][j].name \in Rows /\ puts[s][j].file \in Rows
    <2>1. \A j \in DOMAIN puts[s] : puts[s][j].name \in FilesOf(chunk[s])
      BY DEF IInv, PutsAreOfChunk
    <2>2. \A j \in DOMAIN puts[s] : puts[s][j] \in Put
      BY <1>1
    <2>3. QED
      BY <2>1, <2>2 DEF Put
  <1>7. \/ pc' = pc /\ reported' = reported
        \/ /\ pc[s] = "put" /\ AllDone(puts'[s]) /\ pc' = [pc EXCEPT ![s] = "complete"]
           /\ reported' = reported \cup {<<r, puts[s][j].name, puts[s][j].file>> : j \in DOMAIN puts[s]}
    BY DEF PutLoaded
  <1>8. /\ \A q \in Slots : q # s => pc'[q] = pc[q]
        /\ pc' \in [Slots -> {"idle", "init", "put", "complete", "ended", "failed"}]
        /\ pc'[s] = pc[s] \/ (pc[s] = "put" /\ pc'[s] = "complete")
        /\ pc'[s] = "complete" =>
             /\ AllDone(puts'[s])
             /\ \A j \in DOMAIN puts[s] : <<r, puts[s][j].name, puts[s][j].file>> \in reported'
    BY <1>1, <1>4, <1>7 DEF TypeOK
  <1>9. reported \subseteq reported'
    BY <1>7
  <1>10. ASSUME NEW t \in reported', t \notin reported
         PROVE  /\ t \in Runs \X Rows \X Rows /\ t[1] = r /\ t[2] \in FilesOf(chunk[s])
                /\ pc'[s] = "complete" /\ (r \notin short => t[2] = t[3])
    <2>1. PICK j \in DOMAIN puts[s] : t = <<r, puts[s][j].name, puts[s][j].file>>
      BY <1>7, <1>10
    <2>2. pc'[s] = "complete"
      BY <1>1, <1>7, <1>10 DEF TypeOK
    <2>3. r \notin short => puts[s][j].file = puts[s][j].name
      BY DEF IInv, FullAnswers
    <2>4. QED
      BY <1>1, <1>6, <2>1, <2>2, <2>3
  <1>11. \A q, f : Reported(q, f) => Reported(q, f)'
    BY <1>9 DEF Reported
  <1>12. \A q, f : Reported(q, f)' => Reported(q, f) \/ (q = r /\ f \in FilesOf(chunk[s]) /\ pc'[s] = "complete")
    BY <1>10 DEF Reported
  <1>13. TypeOK'
    <2>1. statusMap' \in [Rows -> {"none", "uploading", "done"}]
      BY <1>1, <1>5 DEF Mark, TypeOK
    <2>2. reported' \in SUBSET (Runs \X Rows \X Rows)
      BY <1>1, <1>10 DEF TypeOK
    <2>3. QED
      BY <1>1, <1>4, <1>5, <1>8, <2>1, <2>2 DEF TypeOK
  <1>14. OverlapOnlyAfterFailureOrClose'
    <2>1. \A q \in Runs : Busy(q)' => Busy(q)
      <3>1. \A q \in Slots : pc'[q] \in {"init", "put", "complete"} => pc[q] \in {"init", "put", "complete"}
        BY <1>8
      <3>2. QED
        BY <3>1, SlotFacts DEF Busy
    <2>2. QED
      BY <1>5, <2>1 DEF IInv, OverlapOnlyAfterFailureOrClose
  <1>15. MispairedOnlyAfterShortAnswer'
    BY <1>5, <1>10 DEF IInv, MispairedOnlyAfterShortAnswer
  <1>16. \A q \in Runs, w \in Workers : <<q, w>> \in Slots /\ <<q, w>>[1] = q
    BY SlotFacts
  <1>17. NewIsEmpty'
    <2>1. \A q \in Runs, w \in Workers : state[q] = "new" => <<q, w>> # s
      BY <1>4, <1>16
    <2>2. \A q \in Runs : state[q] = "new" => \A t \in reported' : t[1] # q
      BY <1>4, <1>10 DEF IInv, NewIsEmpty
    <2>3. ASSUME NEW q \in Runs, state[q] = "new", NEW w \in Workers
          PROVE  pc'[<<q, w>>] = "idle" /\ chunk[<<q, w>>] = <<>> /\ puts'[<<q, w>>] = <<>>
      <3>1. pc[<<q, w>>] = "idle" /\ chunk[<<q, w>>] = <<>> /\ puts[<<q, w>>] = <<>>
        BY <2>3 DEF IInv, NewIsEmpty
      <3>2. QED
        BY <1>4, <1>8, <1>16, <2>1, <2>3, <3>1
    <2>4. \A q \in Runs : /\ state[q] = "new" => queue[q] = <<>>
                          /\ \A u \in Runs : u < q /\ state[u] = "new" => state[q] = "new"
      BY DEF IInv, NewIsEmpty
    <2>5. QED
      BY <1>5, <2>2, <2>3, <2>4 DEF NewIsEmpty
  <1>18. FilesAreChosen'
    <2>1. FilesOf(chunk[s]) \subseteq FilesOf(chosen[r])
      BY <1>1 DEF IInv, FilesAreChosen
    <2>2. \A q \in Runs : \A t \in reported' : t[1] = q => t[2] \in FilesOf(chosen[q])
      BY <1>10, <2>1 DEF IInv, FilesAreChosen
    <2>3. QED
      BY <1>5, <2>2 DEF IInv, FilesAreChosen
  <1>19. PutsAreOfChunk'
    <2>1. ASSUME NEW q \in Slots, q # s
          PROVE  /\ pc'[q] \in {"idle", "init", "ended"} => puts'[q] = <<>>
                 /\ pc'[q] \in {"idle", "ended"} => chunk[q] = <<>>
                 /\ pc'[q] = "complete" =>
                      AllDone(puts'[q]) /\ \A j \in DOMAIN puts'[q] : Reported(q[1], puts'[q][j].name)
                 /\ \A j \in DOMAIN puts'[q] :
                      /\ puts'[q][j].name \in FilesOf(chunk[q])
                      /\ puts'[q][j].at = "sleep" => puts'[q][j].tries < MAX_RETRIES
                 /\ \A j, k \in DOMAIN puts'[q] : puts'[q][j].name = puts'[q][k].name => j = k
      <3>1. puts'[q] = puts[q] /\ pc'[q] = pc[q]
        BY <1>4, <1>8, <2>1
      <3>2. /\ pc[q] \in {"idle", "init", "ended"} => puts[q] = <<>>
            /\ pc[q] \in {"idle", "ended"} => chunk[q] = <<>>
            /\ pc[q] = "complete" =>
                 AllDone(puts[q]) /\ \A j \in DOMAIN puts[q] : Reported(q[1], puts[q][j].name)
            /\ \A j \in DOMAIN puts[q] :
                 /\ puts[q][j].name \in FilesOf(chunk[q])
                 /\ puts[q][j].at = "sleep" => puts[q][j].tries < MAX_RETRIES
            /\ \A j, k \in DOMAIN puts[q] : puts[q][j].name = puts[q][k].name => j = k
        BY DEF IInv, PutsAreOfChunk
      <3>3. QED
        BY ONLY <3>1, <3>2
    <2>2. /\ \A j \in DOMAIN puts'[s] :
               /\ puts'[s][j].name \in FilesOf(chunk[s])
               /\ puts'[s][j].at = "sleep" => puts'[s][j].tries < MAX_RETRIES
          /\ \A j, k \in DOMAIN puts'[s] : puts'[s][j].name = puts'[s][k].name => j = k
      BY <1>3, <1>4 DEF IInv, PutsAreOfChunk
    <2>3. pc'[s] \in {"put", "failed", "complete"}
      BY <1>4, <1>8
    <2>4. pc'[s] = "complete" => \A j \in DOMAIN puts'[s] : \E t \in reported' : t[1] = r /\ t[2] = puts'[s][j].name
      <3>1. SUFFICES ASSUME pc'[s] = "complete", NEW j \in DOMAIN puts'[s]
                     PROVE  \E t \in reported' : t[1] = r /\ t[2] = puts'[s][j].name
        OBVIOUS
      <3>2. <<r, puts[s][j].name, puts[s][j].file>> \in reported' /\ puts'[s][j].name = puts[s][j].name
        BY <1>4, <1>8, <3>1
      <3>3. <<r, puts[s][j].name, puts[s][j].file>>[1] = r
            /\ <<r, puts[s][j].name, puts[s][j].file>>[2] = puts[s][j].name
        OBVIOUS
      <3>4. QED
        BY <3>2, <3>3
    <2>5. QED
      BY <1>5, <1>8, <1>9, <2>1, <2>2, <2>3, <2>4 DEF PutsAreOfChunk, Reported
  <1>20. FullAnswers'
    <2>1. ASSUME NEW q \in Slots, q[1] \notin short
          PROVE  /\ \A j \in DOMAIN puts'[q] : puts'[q][j].file = puts'[q][j].name
                 /\ pc'[q] \in {"put", "complete"} =>
                      \A f \in FilesOf(chunk[q]) : \E j \in DOMAIN puts'[q] : puts'[q][j].name = f
      <3>1. /\ \A j \in DOMAIN puts[q] : puts[q][j].file = puts[q][j].name
            /\ pc[q] \in {"put", "complete"} =>
                 \A f \in FilesOf(chunk[q]) : \E j \in DOMAIN puts[q] : puts[q][j].name = f
        BY <2>1 DEF IInv, FullAnswers
      <3>2. DOMAIN puts'[q] = DOMAIN puts[q]
            /\ \A j \in DOMAIN puts[q] : puts'[q][j].name = puts[q][j].name /\ puts'[q][j].file = puts[q][j].file
        BY <1>4
      <3>3. pc'[q] \in {"put", "complete"} => pc[q] \in {"put", "complete"}
        BY <1>8
      <3>4. QED
        BY ONLY <3>1, <3>2, <3>3
    <2>2. QED
      BY <1>5, <2>1 DEF FullAnswers
  <1>21. ReportedIsOver'
    <2>1. ASSUME NEW q \in Slots, NEW f \in FilesOf(chunk[q]), NEW u \in Runs, u = q[1], Reported(u, f)'
          PROVE  pc'[q] \in {"complete", "failed"} /\ AllDone(puts'[q])
      <3>1. CASE q = s
        BY <1>4, <1>8, <1>12, <2>1, <3>1
      <3>2. CASE q # s
        <4>1. Reported(u, f)
          <5>1. u = r => f \notin FilesOf(chunk[s])
            <6>1. q[2] \in Workers /\ q = <<u, q[2]>>
              BY <2>1, SlotFacts
            <6>2. QED
              BY <1>1, <2>1, <3>2, <6>1 DEF IInv, NoFileTwice
          <5>2. QED
            BY <1>12, <2>1, <5>1
        <4>2. pc[q] \in {"complete", "failed"} /\ AllDone(puts[q])
          BY <2>1, <4>1 DEF IInv, ReportedIsOver
        <4>3. QED
          BY <1>4, <1>8, <3>2, <4>2
      <3>3. QED
        BY <3>1, <3>2
    <2>2. ASSUME NEW q \in Runs, NEW k \in DOMAIN queue[q], NEW f \in FilesOf(queue[q][k])
          PROVE  ~Reported(q, f)'
      <3>1. ~Reported(q, f)
        BY DEF IInv, ReportedIsOver
      <3>2. q = r => f \notin FilesOf(chunk[s])
        BY <1>1 DEF IInv, NoFileTwice
      <3>3. QED
        BY <1>12, <3>1, <3>2
    <2>3. \A q \in Slots : q[1] \in Runs
      BY SlotFacts
    <2>4. QED
      BY <1>5, <2>1, <2>2, <2>3 DEF ReportedIsOver
  <1>22. Covered'
    BY <1>5, <1>11 DEF IInv, Covered
  <1>23. SuccessIsOver'
    <2>1. \A q \in Runs, w \in Workers : state[q] = "succeeded" => <<q, w>> # s
      BY <1>4, <1>16
    <2>2. QED
      BY <1>5, <1>8, <1>16, <2>1 DEF IInv, SuccessIsOver
  <1>24. Ticks'
    <2>1. Started' = Started
      BY <1>5 DEF Started
    <2>2. Ticked' \subseteq Ticked \cup {o.index}
      BY <1>1, <1>5 DEF Ticked, isDone, Mark, TypeOK
    <2>3. \A q \in Runs : Sent(q) \subseteq Sent(q)'
      <3>1. \A q \in Slots : \A j \in DOMAIN puts[q] : puts[q][j].at = "done" =>
              j \in DOMAIN puts'[q] /\ puts'[q][j].name = puts[q][j].name /\ puts'[q][j].at = "done"
        BY <1>1, <1>4
      <3>2. QED
        BY <1>9, <3>1, SentKept
    <2>4. o.name \in Sent(r)'
      <3>1. i \in DOMAIN puts'[<<r, s[2]>>] /\ puts'[<<r, s[2]>>][i].name = o.name /\ puts'[<<r, s[2]>>][i].at = "done"
        BY <1>1, <1>3, <1>4
      <3>2. PICK w \in Workers : w = s[2]
        BY <1>1
      <3>3. \E j \in DOMAIN puts'[<<r, w>>] : puts'[<<r, w>>][j].name = o.name /\ puts'[<<r, w>>][j].at = "done"
        BY <3>1, <3>2
      <3>4. PICK f \in Rows : f = o.name
        BY <1>2
      <3>5. PICK q \in Runs : q = r
        BY <1>1
      <3>6. Transferred(q, f)'
        BY <3>3, <3>4, <3>5 DEF Transferred
      <3>7. f \in Sent(q)'
        BY <3>6 DEF Sent
      <3>8. QED
        BY <3>4, <3>5, <3>7
    <2>5. o.name \notin Sent(r)
      <3>1. SUFFICES ASSUME Transferred(r, o.name) PROVE FALSE
        BY DEF Sent
      <3>2. ~Reported(r, o.name)
        BY <1>4, <1>6
      <3>3. PICK w \in Workers : \E j \in DOMAIN puts[<<r, w>>] :
              puts[<<r, w>>][j].name = o.name /\ puts[<<r, w>>][j].at = "done"
        BY <3>1, <3>2 DEF Transferred
      <3>4. PICK j \in DOMAIN puts[<<r, w>>] : puts[<<r, w>>][j].name = o.name /\ puts[<<r, w>>][j].at = "done"
        BY <3>3
      <3>5. CASE w = s[2]
        <4>1. j \in DOMAIN puts[s] /\ puts[s][j].name = puts[s][i].name /\ puts[s][j].at = "done"
          BY <1>1, <3>4, <3>5
        <4>2. j = i
          BY <4>1 DEF IInv, PutsAreOfChunk
        <4>3. QED
          BY <1>1, <4>1, <4>2
      <3>6. CASE w # s[2]
        <4>1. o.name \in FilesOf(chunk[<<r, w>>])
          BY <1>1, <1>16, <3>4 DEF IInv, PutsAreOfChunk
        <4>2. o.name \in FilesOf(chunk[<<r, s[2]>>])
          BY <1>1, <1>6
        <4>3. QED
          BY <1>1, <3>6, <4>1, <4>2 DEF IInv, NoFileTwice
      <3>7. QED
        BY <3>5, <3>6
    <2>6. ASSUME ~disturbed, NEW q \in Started
          PROVE  Started = {q} /\ Cardinality(Ticked') <= Cardinality(Sent(q)')
      <3>1. Started = {q} /\ Cardinality(Ticked) <= Cardinality(Sent(q)) /\ q = r
        BY <1>1, <1>4, <2>6 DEF IInv, Ticks, Started
      <3>2. /\ Ticked \in SUBSET Rows /\ Ticked' \in SUBSET Rows
            /\ Sent(r) \in SUBSET Rows /\ Sent(r)' \in SUBSET Rows
        BY DEF Ticked, Sent
      <3>3. Cardinality(Ticked') <= Cardinality(Ticked) + 1
        <4>1. IsFiniteSet(Ticked) /\ Cardinality(Ticked) \in Nat /\ Cardinality(Ticked') \in Nat
          BY <3>2, RowsAreFinite
        <4>2. /\ IsFiniteSet(Ticked \cup {o.index})
              /\ Cardinality(Ticked \cup {o.index}) =
                   IF o.index \in Ticked THEN Cardinality(Ticked) ELSE Cardinality(Ticked) + 1
          BY <4>1, FS_AddElement
        <4>3. Cardinality(Ticked') <= Cardinality(Ticked \cup {o.index})
          BY <2>2, <4>2, FS_Subset
        <4>4. QED
          BY <4>1, <4>2, <4>3
      <3>4. Cardinality(Sent(r)) + 1 <= Cardinality(Sent(r)')
        <4>1. IsFiniteSet(Sent(r)) /\ Cardinality(Sent(r)) \in Nat
              /\ IsFiniteSet(Sent(r)') /\ Cardinality(Sent(r)') \in Nat
          BY <3>2, RowsAreFinite
        <4>2. Cardinality(Sent(r) \cup {o.name}) = Cardinality(Sent(r)) + 1
          BY <2>5, <4>1, FS_AddElement
        <4>3. Sent(r) \cup {o.name} \subseteq Sent(r)'
          BY <1>1, <2>3, <2>4
        <4>4. Cardinality(Sent(r) \cup {o.name}) <= Cardinality(Sent(r)')
          BY <4>1, <4>3, FS_Subset
        <4>5. QED
          BY <4>2, <4>4
      <3>5. /\ Cardinality(Ticked) \in Nat /\ Cardinality(Ticked') \in Nat
            /\ Cardinality(Sent(r)) \in Nat /\ Cardinality(Sent(r)') \in Nat
        BY <3>2, RowsAreFinite
      <3> DEFINE a == Cardinality(Ticked)
                 b == Cardinality(Ticked')
                 c == Cardinality(Sent(r))
                 d == Cardinality(Sent(r)')
      <3>6. a <= c /\ b <= a + 1 /\ c + 1 <= d /\ a \in Nat /\ b \in Nat /\ c \in Nat /\ d \in Nat
        BY <3>1, <3>3, <3>4, <3>5
      <3> HIDE DEF a, b, c, d
      <3>7. b <= d
        BY ONLY <3>6
      <3>8. Cardinality(Ticked') <= Cardinality(Sent(q)')
        BY <3>1, <3>7 DEF b, d
      <3>9. QED
        BY <3>1, <3>8
    <2>7. Started # {}
      BY <1>1, <1>4 DEF Started
    <2>8. QED
      BY <1>5, <2>1, <2>6, <2>7 DEF Ticks
  <1>25. NoFileTwice' /\ ListsAreOnce' /\ OneAtHome'
    BY <1>5, PartsKept
  <1>26. QED
    BY <1>13, <1>14, <1>15, <1>17, <1>18, <1>19, <1>20, <1>21, <1>22, <1>23, <1>24, <1>25 DEF IInv

\* A chunk that is reported makes room for the next; the last ends the run.
LEMMA CompleteStep ==
  ASSUME IInv, NEW s \in Slots, CompleteAnswered(s)
  PROVE  IInv'
  <1> DEFINE r == s[1]
             c == chunk'[s]
             last == queue[r] = <<>> /\ OthersEnded(s) /\ state[r] = "running"
  <1>1. TypeOK /\ r \in Runs /\ s = <<r, s[2]>> /\ s[2] \in Workers /\ pc[s] = "complete"
    BY SlotFacts DEF IInv, CompleteAnswered
  <1>2. /\ fileIndexOffset' = [fileIndexOffset EXCEPT ![r] = @ + Len(chunk[s])]
        /\ puts' = [puts EXCEPT ![s] = <<>>]
        /\ \/ /\ queue[r] # <<>> /\ chunk' = [chunk EXCEPT ![s] = Head(queue[r])]
              /\ queue' = [queue EXCEPT ![r] = Tail(queue[r])]
              /\ pc' = [pc EXCEPT ![s] = "init"]
           \/ /\ queue[r] = <<>> /\ chunk' = [chunk EXCEPT ![s] = <<>>]
              /\ pc' = [pc EXCEPT ![s] = "ended"] /\ queue' = queue
        /\ state' = IF last THEN [state EXCEPT ![r] = "succeeded"] ELSE state
        /\ uploading' = IF last /\ AtHome(r) THEN FALSE ELSE uploading
        /\ localFiles' = IF last /\ AtHome(r) THEN <<>> ELSE localFiles
        /\ UNCHANGED <<count, statusMap, mount, open, home, chosen, reported,
                       short, disturbed, failures>>
    BY DEF CompleteAnswered
  <1> HIDE DEF last
  <1>3. /\ queue \in [Runs -> Seq(Seq(Rows))] /\ queue[r] \in Seq(Seq(Rows))
        /\ chunk \in [Slots -> Seq(Rows)] /\ puts \in [Slots -> Seq(Put)]
        /\ pc \in [Slots -> {"idle", "init", "put", "complete", "ended", "failed"}]
        /\ state \in [Runs -> {"new", "running", "succeeded", "failed"}]
    BY <1>1 DEF TypeOK
  <1>4. state[r] # "new" /\ state[r] # "succeeded"
    BY <1>1 DEF IInv, NewIsEmpty, SuccessIsOver
  <1>5. <<>> \in Seq(Rows) /\ DOMAIN <<>> = {} /\ FilesOf(<<>>) = {} /\ Once(<<>>) /\ <<>> \in Seq(Put)
    BY DEF FilesOf, Once
  <1>6. /\ c \in Seq(Rows) /\ queue'[r] \in Seq(Seq(Rows))
        /\ c = <<>> \/ \E k \in DOMAIN queue[r] : c = queue[r][k]
        /\ \A k \in DOMAIN queue'[r] : \E l \in DOMAIN queue[r] : queue'[r][k] = queue[r][l]
        /\ \A k \in DOMAIN queue'[r] : FilesOf(c) \cap FilesOf(queue'[r][k]) = {}
        /\ \A j, k \in DOMAIN queue'[r] : j # k => FilesOf(queue'[r][j]) \cap FilesOf(queue'[r][k]) = {}
        /\ \A l \in DOMAIN queue[r] : queue[r][l] = c \/ \E k \in DOMAIN queue'[r] : queue'[r][k] = queue[r][l]
    <2> DEFINE Q == queue[r]
    <2>1. \A j, k \in DOMAIN Q : j # k => FilesOf(Q[j]) \cap FilesOf(Q[k]) = {}
      BY <1>1 DEF IInv, NoFileTwice
    <2>2. CASE Q # <<>>
      <3>1. c = Head(Q) /\ queue'[r] = Tail(Q)
        BY <1>1, <1>2, <1>3, <2>2
      <3>2. Q \in Seq(Seq(Rows))
        BY <1>3
      <3> HIDE DEF Q, c
      <3>3. /\ Head(Q) = Q[1] /\ Head(Q) \in Seq(Rows) /\ Tail(Q) \in Seq(Seq(Rows))
            /\ Len(Q) \in Nat \ {0} /\ Len(Tail(Q)) = Len(Q) - 1
            /\ \A k \in 1..Len(Tail(Q)) : Tail(Q)[k] = Q[k + 1]
            /\ DOMAIN Q = 1..Len(Q) /\ DOMAIN Tail(Q) = 1..Len(Tail(Q))
        BY ONLY <2>2, <3>2, HeadTailProperties, LenProperties, EmptySeq
      <3>4. \A k \in DOMAIN Tail(Q) : k + 1 \in DOMAIN Q /\ k + 1 # 1 /\ Tail(Q)[k] = Q[k + 1]
        BY ONLY <3>3
      <3>5. 1 \in DOMAIN Q
        BY ONLY <3>3
      <3>6. \A l \in DOMAIN Q : l = 1 \/ (l - 1 \in DOMAIN Tail(Q) /\ Tail(Q)[l - 1] = Q[l])
        BY ONLY <3>3
      <3>7. \A j, k \in DOMAIN Tail(Q) : j # k => j + 1 # k + 1
        BY ONLY <3>3
      <3>8. \A j, k \in DOMAIN Tail(Q) : j # k => FilesOf(Tail(Q)[j]) \cap FilesOf(Tail(Q)[k]) = {}
        BY ONLY <2>1, <3>4, <3>7
      <3>9. \A k \in DOMAIN Tail(Q) : FilesOf(Head(Q)) \cap FilesOf(Tail(Q)[k]) = {}
        BY ONLY <2>1, <3>3, <3>4, <3>5
      <3>10. \A k \in DOMAIN Tail(Q) : \E l \in DOMAIN Q : Tail(Q)[k] = Q[l]
        BY ONLY <3>4
      <3>11. \A l \in DOMAIN Q : Q[l] = Head(Q) \/ \E k \in DOMAIN Tail(Q) : Tail(Q)[k] = Q[l]
        BY ONLY <3>3, <3>6
      <3>12. \E k \in DOMAIN Q : Head(Q) = Q[k]
        BY ONLY <3>3, <3>5
      <3>13. QED
        <4>1. /\ c \in Seq(Rows) /\ queue'[r] \in Seq(Seq(Rows))
              /\ \E k \in DOMAIN Q : c = Q[k]
              /\ \A k \in DOMAIN queue'[r] : \E l \in DOMAIN Q : queue'[r][k] = Q[l]
          BY ONLY <3>1, <3>3, <3>10, <3>12
        <4>2. \A k \in DOMAIN queue'[r] : FilesOf(c) \cap FilesOf(queue'[r][k]) = {}
          BY ONLY <3>1, <3>9
        <4>3. \A j, k \in DOMAIN queue'[r] : j # k => FilesOf(queue'[r][j]) \cap FilesOf(queue'[r][k]) = {}
          BY ONLY <3>1, <3>8
        <4>4. \A l \in DOMAIN Q : Q[l] = c \/ \E k \in DOMAIN queue'[r] : queue'[r][k] = Q[l]
          BY ONLY <3>1, <3>11
        <4>5. QED
          BY <4>1, <4>2, <4>3, <4>4 DEF Q
    <2>3. CASE Q = <<>>
      <3>1. c = <<>> /\ queue'[r] = <<>>
        BY <1>1, <1>2, <1>3, <2>3
      <3>2. DOMAIN queue'[r] = {} /\ DOMAIN queue[r] = {} /\ queue'[r] \in Seq(Seq(Rows))
        BY <1>3, <1>5, <2>3, <3>1
      <3>3. QED
        BY <1>5, <3>1, <3>2
    <2>4. QED
      BY <2>2, <2>3
  <1>7. /\ puts'[s] = <<>> /\ pc'[s] \in {"init", "ended"} /\ (pc'[s] = "ended" => c = <<>>)
        /\ \A q \in Slots : q # s => puts'[q] = puts[q] /\ pc'[q] = pc[q] /\ chunk'[q] = chunk[q]
        /\ \A q \in Runs : q # r => queue'[q] = queue[q]
        /\ puts' \in [Slots -> Seq(Put)]
        /\ pc' \in [Slots -> {"idle", "init", "put", "complete", "ended", "failed"}]
        /\ chunk' \in [Slots -> Seq(Rows)] /\ queue' \in [Runs -> Seq(Seq(Rows))]
    <2>1. puts'[s] = <<>> /\ puts' \in [Slots -> Seq(Put)] /\ \A q \in Slots : q # s => puts'[q] = puts[q]
      BY <1>2, <1>3, <1>5
    <2>2. /\ pc'[s] \in {"init", "ended"} /\ (pc'[s] = "ended" => c = <<>>)
          /\ \A q \in Slots : q # s => pc'[q] = pc[q] /\ chunk'[q] = chunk[q]
          /\ pc' \in [Slots -> {"idle", "init", "put", "complete", "ended", "failed"}]
      BY <1>2, <1>3
    <2>3. \A q \in Runs : q # r => queue'[q] = queue[q]
      BY <1>1, <1>2, <1>3
    <2>4. chunk' \in [Slots -> Seq(Rows)]
      BY <1>2, <1>3, <1>5, <1>6
    <2>5. queue' \in [Runs -> Seq(Seq(Rows))]
      BY <1>1, <1>2, <1>3, <1>6
    <2>6. QED
      BY <2>1, <2>2, <2>3, <2>4, <2>5
  <1> HIDE DEF c
  <1>8. \A q \in Runs, w \in Workers : <<q, w>> \in Slots /\ <<q, w>>[1] = q /\ <<q, w>>[2] = w
    BY SlotFacts
  <1>9. /\ last => state' = [state EXCEPT ![r] = "succeeded"]
        /\ ~last => state' = state /\ uploading' = uploading
        /\ last => state[r] = "running" /\ queue[r] = <<>> /\ OthersEnded(s)
    BY <1>2 DEF last
  <1>10. /\ \A q \in Runs : q # r => state'[q] = state[q]
         /\ state'[r] = IF last THEN "succeeded" ELSE state[r]
         /\ state' \in [Runs -> {"new", "running", "succeeded", "failed"}]
    <2>1. CASE last
      BY <1>1, <1>3, <1>9, <2>1
    <2>2. CASE ~last
      BY <1>3, <1>9, <2>2
    <2>3. QED
      BY <2>1, <2>2
  <1>11. c = chunk'[s]
    BY DEF c
  <1>12. TypeOK'
    <2>1. fileIndexOffset' \in [Runs -> Nat]
      <3>1. Len(chunk[s]) \in Nat
        BY <1>3
      <3>2. QED
        <4>1. fileIndexOffset \in [Runs -> Nat] /\ fileIndexOffset[r] + Len(chunk[s]) \in Nat
          BY <1>1, <3>1 DEF TypeOK
        <4>2. QED
          BY <1>2, <4>1
    <2>2. localFiles' \in Seq(Rows)
      BY <1>1, <1>2, <1>5 DEF TypeOK
    <2>3. uploading' \in BOOLEAN
      <3>1. uploading \in BOOLEAN
        BY <1>1 DEF TypeOK
      <3>2. uploading' = FALSE \/ uploading' = uploading
        BY <1>2, Zenon
      <3>3. QED
        BY <3>1, <3>2, Zenon
    <2>4. QED
      BY <1>1, <1>2, <1>7, <1>10, <2>1, <2>2, <2>3 DEF TypeOK
  <1>13. NoFileTwice'
    <2>1. ASSUME NEW q \in Runs
          PROVE  /\ \A j, k \in DOMAIN queue'[q] : j # k => FilesOf(queue'[q][j]) \cap FilesOf(queue'[q][k]) = {}
                 /\ \A v, w \in Workers : v # w => FilesOf(chunk'[<<q, v>>]) \cap FilesOf(chunk'[<<q, w>>]) = {}
                 /\ \A w \in Workers : \A k \in DOMAIN queue'[q] :
                      FilesOf(chunk'[<<q, w>>]) \cap FilesOf(queue'[q][k]) = {}
      <3>1. CASE q # r
        <4>1. queue'[q] = queue[q] /\ \A w \in Workers : chunk'[<<q, w>>] = chunk[<<q, w>>]
          BY <1>7, <1>8, <3>1
        <4>2. QED
          BY <4>1 DEF IInv, NoFileTwice
      <3>2. CASE q = r
        <4>1. \A w \in Workers : w # s[2] => chunk'[<<q, w>>] = chunk[<<q, w>>]
          BY <1>1, <1>7, <1>8, <3>2
        <4>2. chunk'[<<q, s[2]>>] = c
          BY <1>1, <1>11, <3>2
        <4>3. \A w \in Workers : \A k \in DOMAIN queue[r] : FilesOf(chunk[<<r, w>>]) \cap FilesOf(queue[r][k]) = {}
          BY <1>1 DEF IInv, NoFileTwice
        <4>4. \A w \in Workers : FilesOf(chunk[<<r, w>>]) \cap FilesOf(c) = {}
          BY <1>5, <1>6, <4>3
        <4>5. \A w \in Workers : \A k \in DOMAIN queue'[r] : FilesOf(chunk[<<r, w>>]) \cap FilesOf(queue'[r][k]) = {}
          BY <1>6, <4>3
        <4>6. \A v, w \in Workers : v # w => FilesOf(chunk[<<r, v>>]) \cap FilesOf(chunk[<<r, w>>]) = {}
          BY <1>1 DEF IInv, NoFileTwice
        <4>7. \A j, k \in DOMAIN queue'[r] : j # k => FilesOf(queue'[r][j]) \cap FilesOf(queue'[r][k]) = {}
          BY <1>6
        <4>8. ASSUME NEW v \in Workers, NEW w \in Workers, v # w
              PROVE  FilesOf(chunk'[<<r, v>>]) \cap FilesOf(chunk'[<<r, w>>]) = {}
          <5>1. CASE v = s[2]
            <6>1. chunk'[<<r, v>>] = c /\ chunk'[<<r, w>>] = chunk[<<r, w>>]
              BY <3>2, <4>1, <4>2, <4>8, <5>1
            <6>2. QED
              BY <4>4, <6>1
          <5>2. CASE w = s[2]
            <6>1. chunk'[<<r, w>>] = c /\ chunk'[<<r, v>>] = chunk[<<r, v>>]
              BY <3>2, <4>1, <4>2, <4>8, <5>2
            <6>2. QED
              BY <4>4, <6>1
          <5>3. CASE v # s[2] /\ w # s[2]
            <6>1. chunk'[<<r, w>>] = chunk[<<r, w>>] /\ chunk'[<<r, v>>] = chunk[<<r, v>>]
              BY <3>2, <4>1, <5>3
            <6>2. QED
              BY <4>6, <4>8, <6>1
          <5>4. QED
            BY <5>1, <5>2, <5>3
        <4>9. ASSUME NEW w \in Workers, NEW k \in DOMAIN queue'[r]
              PROVE  FilesOf(chunk'[<<r, w>>]) \cap FilesOf(queue'[r][k]) = {}
          <5>1. CASE w = s[2]
            BY <1>6, <3>2, <4>2, <5>1
          <5>2. CASE w # s[2]
            BY <3>2, <4>1, <4>5, <5>2
          <5>3. QED
            BY <5>1, <5>2
        <4>10. QED
          BY <3>2, <4>7, <4>8, <4>9
      <3>3. QED
        BY <3>1, <3>2
    <2>2. QED
      BY <2>1 DEF NoFileTwice
  <1>14. OverlapOnlyAfterFailureOrClose'
    <2>1. \A q \in Runs : Busy(q)' => Busy(q)
      <3>1. \A q \in Slots : pc'[q] \in {"init", "put", "complete"} => pc[q] \in {"init", "put", "complete"}
        BY <1>1, <1>7
      <3>2. QED
        BY <1>8, <3>1 DEF Busy
    <2>2. \A q \in Runs : state[q] = "failed" => state'[q] = "failed"
      BY <1>9, <1>10
    <2>3. QED
      BY <1>2, <2>1, <2>2 DEF IInv, OverlapOnlyAfterFailureOrClose
  <1>15. ListsAreOnce'
    <2>1. Once(localFiles') /\ \A k \in DOMAIN localFiles' : localFiles'[k] < count
      BY <1>2, <1>5 DEF IInv, ListsAreOnce
    <2>2. \A k \in DOMAIN queue[r] : Once(queue[r][k])
      BY <1>1 DEF IInv, ListsAreOnce
    <2>3. Once(c) /\ \A k \in DOMAIN queue'[r] : Once(queue'[r][k])
      BY <1>5, <1>6, <2>2
    <2>4. \A q \in Slots : Once(chunk'[q])
      BY <1>7, <1>11, <2>3 DEF IInv, ListsAreOnce
    <2>5. \A q \in Runs : \A k \in DOMAIN queue'[q] : Once(queue'[q][k])
      <3>1. SUFFICES ASSUME NEW q \in Runs, NEW k \in DOMAIN queue'[q] PROVE Once(queue'[q][k])
        OBVIOUS
      <3>2. CASE q = r
        BY <2>3, <3>2
      <3>3. CASE q # r
        <4>1. queue'[q] = queue[q]
          BY <1>7, <3>3
        <4>2. QED
          BY <4>1 DEF IInv, ListsAreOnce
      <3>4. QED
        BY <3>2, <3>3
    <2>6. QED
      BY <1>2, <2>1, <2>4, <2>5 DEF ListsAreOnce
  <1>16. NewIsEmpty'
    <2>1. \A q \in Runs : (state'[q] = "new") <=> (state[q] = "new")
      BY <1>4, <1>9, <1>10
    <2>2. ASSUME NEW q \in Runs, state[q] = "new"
          PROVE  /\ queue'[q] = <<>>
                 /\ \A p \in reported : p[1] # q
                 /\ \A w \in Workers : pc'[<<q, w>>] = "idle" /\ chunk'[<<q, w>>] = <<>> /\ puts'[<<q, w>>] = <<>>
      <3>1. q # r /\ \A w \in Workers : <<q, w>> # s /\ <<q, w>> \in Slots
        BY <1>4, <1>8, <2>2
      <3>2. /\ queue[q] = <<>>
            /\ \A p \in reported : p[1] # q
            /\ \A w \in Workers : pc[<<q, w>>] = "idle" /\ chunk[<<q, w>>] = <<>> /\ puts[<<q, w>>] = <<>>
        BY <2>2 DEF IInv, NewIsEmpty
      <3>3. QED
        BY <1>7, <3>1, <3>2
    <2>3. \A u, q \in Runs : u < q /\ state[u] = "new" => state[q] = "new"
      BY DEF IInv, NewIsEmpty
    <2>4. QED
      BY <1>2, <2>1, <2>2, <2>3 DEF NewIsEmpty
  <1>17. FilesAreChosen'
    <2>1. \A k \in DOMAIN queue[r] : FilesOf(queue[r][k]) \subseteq FilesOf(chosen[r])
      BY <1>1 DEF IInv, FilesAreChosen
    <2>2. FilesOf(c) \subseteq FilesOf(chosen[r]) /\ \A k \in DOMAIN queue'[r] : FilesOf(queue'[r][k]) \subseteq FilesOf(chosen[r])
      BY <1>5, <1>6, <2>1
    <2>3. ASSUME NEW q \in Runs
          PROVE  /\ \A w \in Workers : FilesOf(chunk'[<<q, w>>]) \subseteq FilesOf(chosen[q])
                 /\ \A k \in DOMAIN queue'[q] : FilesOf(queue'[q][k]) \subseteq FilesOf(chosen[q])
      <3>1. \A w \in Workers : FilesOf(chunk[<<q, w>>]) \subseteq FilesOf(chosen[q])
        BY DEF IInv, FilesAreChosen
      <3>2. \A w \in Workers : FilesOf(chunk'[<<q, w>>]) \subseteq FilesOf(chosen[q])
        <4>1. SUFFICES ASSUME NEW w \in Workers PROVE FilesOf(chunk'[<<q, w>>]) \subseteq FilesOf(chosen[q])
          OBVIOUS
        <4>2. CASE <<q, w>> = s
          <5>1. q = r /\ chunk'[<<q, w>>] = c
            BY <1>8, <1>11, <4>2
          <5>2. QED
            BY <2>2, <5>1
        <4>3. CASE <<q, w>> # s
          <5>1. chunk'[<<q, w>>] = chunk[<<q, w>>]
            BY <1>7, <1>8, <4>3
          <5>2. QED
            BY <3>1, <5>1
        <4>4. QED
          BY <4>2, <4>3
      <3>3. \A k \in DOMAIN queue'[q] : FilesOf(queue'[q][k]) \subseteq FilesOf(chosen[q])
        BY <1>7, <2>2 DEF IInv, FilesAreChosen
      <3>4. QED
        BY <3>2, <3>3
    <2>4. \A q \in Runs : \A p \in reported : p[1] = q => p[2] \in FilesOf(chosen[q])
      BY DEF IInv, FilesAreChosen
    <2>5. QED
      BY <1>2, <2>3, <2>4 DEF FilesAreChosen
  <1>18. \A q, f : Reported(q, f)' <=> Reported(q, f)
    BY <1>2 DEF Reported
  <1>19. PutsAreOfChunk'
    <2>1. ASSUME NEW q \in Slots
          PROVE  /\ pc'[q] \in {"idle", "init", "ended"} => puts'[q] = <<>>
                 /\ pc'[q] \in {"idle", "ended"} => chunk'[q] = <<>>
                 /\ pc'[q] = "complete" =>
                      AllDone(puts'[q]) /\ \A j \in DOMAIN puts'[q] : Reported(q[1], puts'[q][j].name)
                 /\ \A j \in DOMAIN puts'[q] :
                      /\ puts'[q][j].name \in FilesOf(chunk'[q])
                      /\ puts'[q][j].at = "sleep" => puts'[q][j].tries < MAX_RETRIES
                 /\ \A j, k \in DOMAIN puts'[q] : puts'[q][j].name = puts'[q][k].name => j = k
      <3>1. CASE q = s
        BY <1>5, <1>7, <1>11, <3>1
      <3>2. CASE q # s
        <4>1. puts'[q] = puts[q] /\ pc'[q] = pc[q] /\ chunk'[q] = chunk[q]
          BY <1>7, <3>2
        <4>2. /\ pc[q] \in {"idle", "init", "ended"} => puts[q] = <<>>
              /\ pc[q] \in {"idle", "ended"} => chunk[q] = <<>>
              /\ pc[q] = "complete" =>
                   AllDone(puts[q]) /\ \A j \in DOMAIN puts[q] : Reported(q[1], puts[q][j].name)
              /\ \A j \in DOMAIN puts[q] :
                   /\ puts[q][j].name \in FilesOf(chunk[q])
                   /\ puts[q][j].at = "sleep" => puts[q][j].tries < MAX_RETRIES
              /\ \A j, k \in DOMAIN puts[q] : puts[q][j].name = puts[q][k].name => j = k
          BY DEF IInv, PutsAreOfChunk
        <4>3. QED
          BY ONLY <4>1, <4>2
      <3>3. QED
        BY <3>1, <3>2
    <2>2. QED
      BY <1>18, <2>1 DEF PutsAreOfChunk
  <1>20. FullAnswers'
    <2>1. ASSUME NEW q \in Slots, q[1] \notin short
          PROVE  /\ \A j \in DOMAIN puts'[q] : puts'[q][j].file = puts'[q][j].name
                 /\ pc'[q] \in {"put", "complete"} =>
                      \A f \in FilesOf(chunk'[q]) : \E j \in DOMAIN puts'[q] : puts'[q][j].name = f
      <3>1. CASE q = s
        BY <1>5, <1>7, <3>1
      <3>2. CASE q # s
        <4>1. puts'[q] = puts[q] /\ pc'[q] = pc[q] /\ chunk'[q] = chunk[q]
          BY <1>7, <3>2
        <4>2. /\ \A j \in DOMAIN puts[q] : puts[q][j].file = puts[q][j].name
              /\ pc[q] \in {"put", "complete"} =>
                   \A f \in FilesOf(chunk[q]) : \E j \in DOMAIN puts[q] : puts[q][j].name = f
          BY <2>1 DEF IInv, FullAnswers
        <4>3. QED
          BY ONLY <4>1, <4>2
      <3>3. QED
        BY <3>1, <3>2
    <2>2. QED
      BY <1>2, <2>1 DEF FullAnswers
  <1>21. ReportedIsOver'
    <2>1. \A k \in DOMAIN queue[r] : \A f \in FilesOf(queue[r][k]) : ~Reported(r, f)
      BY <1>1 DEF IInv, ReportedIsOver
    <2>2. \A f \in FilesOf(c) : ~Reported(r, f)
      BY <1>5, <1>6, <2>1
    <2>3. \A k \in DOMAIN queue'[r] : \A f \in FilesOf(queue'[r][k]) : ~Reported(r, f)
      BY <1>6, <2>1
    <2>4. ASSUME NEW q \in Slots, NEW f \in FilesOf(chunk'[q]), Reported(q[1], f)
          PROVE  pc'[q] \in {"complete", "failed"} /\ AllDone(puts'[q])
      <3>1. CASE q = s
        BY <1>11, <2>2, <2>4, <3>1
      <3>2. CASE q # s
        BY <1>7, <2>4, <3>2 DEF IInv, ReportedIsOver
      <3>3. QED
        BY <3>1, <3>2
    <2>5. ASSUME NEW q \in Runs, NEW k \in DOMAIN queue'[q], NEW f \in FilesOf(queue'[q][k])
          PROVE  ~Reported(q, f)
      <3>1. CASE q = r
        BY <2>3, <3>1
      <3>2. CASE q # r
        <4>1. queue'[q] = queue[q]
          BY <1>7, <3>2
        <4>2. QED
          BY <2>5, <4>1 DEF IInv, ReportedIsOver
      <3>3. QED
        BY <3>1, <3>2
    <2>6. QED
      BY <1>18, <2>4, <2>5 DEF ReportedIsOver
  <1>22. Covered'
    <2>1. ASSUME NEW q \in Runs, state'[q] # "new", q \notin short, NEW f \in FilesOf(chosen[q]), ~Reported(q, f)
          PROVE  \/ \E w \in Workers : f \in FilesOf(chunk'[<<q, w>>])
                 \/ \E k \in DOMAIN queue'[q] : f \in FilesOf(queue'[q][k])
      <3>1. state[q] # "new"
        BY <1>4, <1>10, <2>1
      <3>2. \/ \E w \in Workers : f \in FilesOf(chunk[<<q, w>>])
            \/ \E k \in DOMAIN queue[q] : f \in FilesOf(queue[q][k])
        BY <2>1, <3>1 DEF IInv, Covered
      <3>3. CASE \E w \in Workers : f \in FilesOf(chunk[<<q, w>>])
        <4>1. PICK w \in Workers : f \in FilesOf(chunk[<<q, w>>])
          BY <3>3
        <4>2. CASE <<q, w>> = s
          <5>1. f \in FilesOf(chunk[s]) /\ q = r
            BY <1>8, <4>1, <4>2
          <5>2. PICK j \in DOMAIN puts[s] : puts[s][j].name = f
            BY <1>1, <2>1, <5>1 DEF IInv, FullAnswers
          <5>3. Reported(r, f)
            BY <1>1, <5>2 DEF IInv, PutsAreOfChunk
          <5>4. QED
            BY <2>1, <5>1, <5>3
        <4>3. CASE <<q, w>> # s
          BY <1>7, <1>8, <4>1, <4>3
        <4>4. QED
          BY <4>2, <4>3
      <3>4. CASE \E k \in DOMAIN queue[q] : f \in FilesOf(queue[q][k])
        <4>1. PICK k \in DOMAIN queue[q] : f \in FilesOf(queue[q][k])
          BY <3>4
        <4>2. CASE q = r
          <5>1. queue[r][k] = c \/ \E l \in DOMAIN queue'[r] : queue'[r][l] = queue[r][k]
            BY <1>6, <4>1, <4>2
          <5>2. chunk'[<<r, s[2]>>] = c
            BY <1>1, <1>11
          <5>3. QED
            BY <1>1, <4>1, <4>2, <5>1, <5>2
        <4>3. CASE q # r
          BY <1>7, <4>1, <4>3
        <4>4. QED
          BY <4>2, <4>3
      <3>5. QED
        BY <3>2, <3>3, <3>4
    <2>2. QED
      BY <1>2, <1>18, <2>1 DEF Covered
  <1>23. SuccessIsOver'
    <2>1. ASSUME NEW q \in Runs, state'[q] = "succeeded"
          PROVE  queue'[q] = <<>> /\ \A w \in Workers : pc'[<<q, w>>] = "ended"
      <3>1. CASE q = r
        <4>1. last
          BY <1>4, <1>10, <2>1, <3>1
        <4>2. queue[r] = <<>> /\ OthersEnded(s)
          BY <1>9, <4>1
        <4>3. queue'[r] = <<>> /\ pc'[s] = "ended"
          BY <1>2, <1>3, <4>2
        <4>4. \A w \in Workers : pc'[<<r, w>>] = "ended"
          <5>1. SUFFICES ASSUME NEW w \in Workers PROVE pc'[<<r, w>>] = "ended"
            OBVIOUS
          <5>2. <<r, w>> \in Slots /\ <<r, w>>[1] = r
            BY <1>1, <1>8
          <5>3. CASE <<r, w>> = s
            BY <4>3, <5>3
          <5>4. CASE <<r, w>> # s
            <6>1. pc[<<r, w>>] = "ended"
              BY <4>2, <5>2, <5>4 DEF OthersEnded
            <6>2. QED
              BY <1>7, <5>2, <5>4, <6>1
          <5>5. QED
            BY <5>3, <5>4
        <4>5. QED
          BY <3>1, <4>3, <4>4
      <3>2. CASE q # r
        <4>1. state[q] = "succeeded" /\ queue'[q] = queue[q]
          BY <1>7, <1>10, <2>1, <3>2
        <4>2. queue[q] = <<>> /\ \A w \in Workers : pc[<<q, w>>] = "ended"
          BY <4>1 DEF IInv, SuccessIsOver
        <4>3. \A w \in Workers : <<q, w>> \in Slots /\ <<q, w>> # s
          BY <1>8, <3>2
        <4>4. QED
          BY <1>7, <4>1, <4>2, <4>3
      <3>3. QED
        BY <3>1, <3>2
    <2>2. QED
      BY <2>1 DEF SuccessIsOver
  <1>24. OneAtHome'
    <2>1. \A q \in Runs : state'[q] = "running" => state[q] = "running"
      BY <1>9, <1>10
    <2>2. ASSUME NEW q \in Runs, state'[q] = "running", AtHome(q)
          PROVE  uploading'
      <3>1. uploading
        BY <2>1, <2>2 DEF IInv, OneAtHome
      <3>2. ~(last /\ AtHome(r))
        <4>1. SUFFICES ASSUME last, AtHome(r) PROVE FALSE
          OBVIOUS
        <4>2. state[r] = "running" /\ state[q] = "running" /\ home[q] = home[r]
          BY <1>9, <2>1, <2>2, <4>1 DEF AtHome
        <4>3. q = r
          BY <1>1, <4>2 DEF IInv, OneAtHome
        <4>4. QED
          BY <1>10, <2>2, <4>1, <4>3
      <3>3. uploading' = uploading
        BY <1>2, <3>2
      <3>4. QED
        BY <3>1, <3>3
    <2>3. \A q \in Runs : AtHome(q)' <=> AtHome(q)
      BY <1>2 DEF AtHome
    <2>4. (\A q \in Runs : home[q] <= mount)
          /\ \A q, u \in Runs : state[q] = "running" /\ state[u] = "running" /\ home[q] = home[u] => q = u
      BY DEF IInv, OneAtHome
    <2>5. QED
      BY <1>2, <2>1, <2>2, <2>3, <2>4 DEF OneAtHome
  <1>25. Ticks'
    <2>1. Started' = Started /\ Ticked' = Ticked
      BY <1>2, <1>4, <1>9, <1>10 DEF Started, Ticked, isDone
    <2>2. \A q \in Runs : Sent(q) \subseteq Sent(q)'
      <3>1. ASSUME NEW q \in Slots, NEW j \in DOMAIN puts[q], puts[q][j].at = "done"
            PROVE  \/ j \in DOMAIN puts'[q] /\ puts'[q][j].name = puts[q][j].name /\ puts'[q][j].at = "done"
                   \/ \E p \in reported' : p[1] = q[1] /\ p[2] = puts[q][j].name
        <4>1. CASE q = s
          <5>1. Reported(q[1], puts[q][j].name)
            BY <1>1, <4>1 DEF IInv, PutsAreOfChunk
          <5>2. QED
            BY <1>2, <5>1 DEF Reported
        <4>2. CASE q # s
          BY <1>7, <3>1, <4>2
        <4>3. QED
          BY <4>1, <4>2
      <3>2. reported \subseteq reported'
        BY <1>2
      <3>3. QED
        BY <3>1, <3>2, SentKept
    <2>3. disturbed' = disturbed
      BY <1>2
    <2>4. QED
      BY <2>1, <2>2, <2>3, TicksKept
  <1>26. MispairedOnlyAfterShortAnswer'
    BY <1>2, PartsKept
  <1>27. QED
    BY <1>12, <1>13, <1>14, <1>15, <1>16, <1>17, <1>19, <1>20, <1>21, <1>22, <1>23, <1>24, <1>25, <1>26 DEF IInv

-----------------------------------------------------------------------------
(* The theorems. *)

\* Every step keeps the invariant.
LEMMA StepIInv == IInv /\ [Next]_vars => IInv'
  <1> SUFFICES ASSUME IInv, [Next]_vars PROVE IInv'
    OBVIOUS
  <1>1. CASE UNCHANGED vars
    <2>1. TypeOK'
      BY <1>1 DEF IInv, TypeOK, vars, screen, engine
    <2>2. QED
      BY <1>1, <2>1, PartsKept DEF IInv, vars, screen, engine
  <1>2. CASE (\E batch \in Batches : addFiles(batch)) \/ ClearAll \/ Close \/ Reopen
    BY <1>2, ScreenStep
  <1>3. ASSUME NEW r \in Runs, handleUpload(r) PROVE IInv'
    BY <1>3, StartStep
  <1>4. ASSUME NEW s \in Slots, NEW names \in Answers(chunk[s]), InitAnswered(s, names) PROVE IInv'
    BY <1>4, AnswerStep
  <1>5. ASSUME NEW s \in Slots, InitRefused(s) \/ CompleteRefused(s) PROVE IInv'
    BY <1>5, StopStep
  <1>6. ASSUME NEW s \in Slots, NEW i \in DOMAIN puts[s], PutLoaded(s, i) PROVE IInv'
    BY <1>6, LoadStep
  <1>7. ASSUME NEW s \in Slots, NEW i \in DOMAIN puts[s], PutErred(s, i) PROVE IInv'
    BY <1>7, ErrStep
  <1>8. ASSUME NEW s \in Slots, NEW i \in DOMAIN puts[s], Retry(s, i) PROVE IInv'
    BY <1>8, RetryStep
  <1>9. ASSUME NEW s \in Slots, CompleteAnswered(s) PROVE IInv'
    BY <1>9, CompleteStep
  <1>10. QED
    BY <1>1, <1>2, <1>3, <1>4, <1>5, <1>6, <1>7, <1>8, <1>9 DEF Next, User, Worker

\* The invariant holds of every upload.
THEOREM Invariance == Spec => []IInv
  <1>1. Init => IInv
    BY InitIInv
  <1>2. IInv /\ [Next]_vars => IInv'
    BY StepIInv
  <1>3. QED
    BY <1>1, <1>2, PTL DEF Spec

\* No file is with two workers, and two runs work at once only when the earlier
\* failed or its modal was closed (handleUpload in UploadModal.jsx).
THEOREM WorkersStayApart == Spec => []WorkersAreApart
  <1>1. IInv => WorkersAreApart
    BY DEF IInv, WorkersAreApart
  <1>2. QED
    BY <1>1, Invariance, PTL

\* Bytes reach the key of another file only after a short answer
\* (file = chunk[i] against res.files[i] in UploadModal.jsx).
THEOREM MispairingNeedsShortAnswer == Spec => []MispairedOnlyAfterShortAnswer
  <1>1. IInv => MispairedOnlyAfterShortAnswer
    BY DEF IInv
  <1>2. QED
    BY <1>1, Invariance, PTL

\* A run without a short answer that succeeds has reported all its files: none
\* is queued and none is with a worker.
LEMMA SuccessIsReported == IInv => SuccessMeansReported
  <1> SUFFICES ASSUME IInv, NEW r \in Runs, state[r] = "succeeded", r \notin short,
                      NEW f \in FilesOf(chosen[r])
               PROVE  Reported(r, f)
    BY DEF SuccessMeansReported
  <1>1. queue[r] = <<>> /\ \A w \in Workers : chunk[<<r, w>>] = <<>>
    BY SlotFacts DEF IInv, SuccessIsOver, PutsAreOfChunk
  <1>2. DOMAIN <<>> = {} /\ FilesOf(<<>>) = {}
    BY DEF FilesOf
  <1>3. /\ ~ \E w \in Workers : f \in FilesOf(chunk[<<r, w>>])
        /\ ~ \E k \in DOMAIN queue[r] : f \in FilesOf(queue[r][k])
    BY <1>1, <1>2
  <1>4. QED
    BY <1>3 DEF IInv, Covered

\* A list has no more files than places.
LEMMA FilesAreFew ==
  ASSUME NEW S, NEW c \in Seq(S)
  PROVE  IsFiniteSet(FilesOf(c)) /\ Cardinality(FilesOf(c)) <= Len(c)
  <1>1. Len(c) \in Nat /\ DOMAIN c = 1..Len(c) /\ c \in [1..Len(c) -> FilesOf(c)]
    BY DEF FilesOf
  <1>2. c \in Surjection(1..Len(c), FilesOf(c))
    BY <1>1 DEF FilesOf, Surjection
  <1>3. ExistsSurjection(1..Len(c), FilesOf(c))
    BY <1>2 DEF ExistsSurjection
  <1>4. IsFiniteSet(FilesOf(c))
    BY <1>1, <1>3, FS_NatSurjection
  <1>5. QED
    BY <1>1, <1>3, <1>4, FS_SurjCardinalityBound

\* A first run over all the rows sends as many files as it ticks rows, so when
\* every row has its tick every file is sent.
LEMMA TicksAreSent == IInv => AllDoneMeansAllSent
  <1> SUFFICES ASSUME IInv, NEW r \in Runs, state[r] # "new", ~disturbed,
                      Len(chosen[r]) = count, ~hasPending, NEW f \in FilesOf(chosen[r])
               PROVE  Transferred(r, f)
    BY DEF AllDoneMeansAllSent
  <1> DEFINE F == FilesOf(chosen[r])
             rows == 0..(count - 1)
  <1>1. TypeOK /\ chosen[r] \in Seq(Rows) /\ count \in Nat /\ count <= MaxRows
    <2>1. TypeOK /\ chosen[r] \in Seq(Rows) /\ count \in 0..MaxRows
      BY DEF IInv, TypeOK
    <2>2. QED
      BY <2>1, ConstantsOK
  <1>2. r \in Started /\ Cardinality(Ticked) <= Cardinality(Sent(r))
    BY DEF IInv, Ticks, Started
  <1>3. rows \subseteq Ticked
    <2>1. rows \subseteq Rows
      BY <1>1, ConstantsOK DEF Rows
    <2>2. QED
      BY <2>1 DEF hasPending, Ticked
  <1>4. IsFiniteSet(rows) /\ Cardinality(rows) = count
    <2>1. 0 \in Int /\ count - 1 \in Int
      BY <1>1
    <2> HIDE DEF rows
    <2>2. IsFiniteSet(rows) /\ Cardinality(rows) = IF 0 > count - 1 THEN 0 ELSE (count - 1) - 0 + 1
      BY <2>1, FS_Interval DEF rows
    <2>3. QED
      BY <1>1, <2>2
  <1>5. Ticked \in SUBSET Rows /\ Sent(r) \in SUBSET Rows
    BY DEF Ticked, Sent
  <1>6. IsFiniteSet(Ticked) /\ Cardinality(Ticked) \in Nat /\ Cardinality(Sent(r)) \in Nat
    BY <1>5, RowsAreFinite
  <1>7. count <= Cardinality(Ticked)
    BY <1>3, <1>4, <1>6, FS_Subset
  <1>8. IsFiniteSet(F) /\ Cardinality(F) <= count /\ Cardinality(F) \in Nat
    BY <1>1, FilesAreFew, FS_CardinalityType
  <1>9. Sent(r) \subseteq F
    <2>1. SUFFICES ASSUME NEW g \in Rows, Transferred(r, g) PROVE g \in F
      BY DEF Sent
    <2>2. CASE Reported(r, g)
      BY <2>2 DEF Reported, IInv, FilesAreChosen
    <2>3. CASE \E w \in Workers : \E i \in DOMAIN puts[<<r, w>>] : puts[<<r, w>>][i].name = g
      <3>1. PICK w \in Workers : \E i \in DOMAIN puts[<<r, w>>] : puts[<<r, w>>][i].name = g
        BY <2>3
      <3>2. g \in FilesOf(chunk[<<r, w>>])
        BY <3>1, SlotFacts DEF IInv, PutsAreOfChunk
      <3>3. QED
        BY <3>2 DEF IInv, FilesAreChosen
    <2>4. QED
      BY <2>1, <2>2, <2>3 DEF Transferred
  <1>10. Cardinality(Sent(r)) <= Cardinality(F) /\ (Cardinality(Sent(r)) = Cardinality(F) => Sent(r) = F)
    BY <1>8, <1>9, FS_Subset
  <1>11. Cardinality(Sent(r)) = Cardinality(F)
    <2> DEFINE a == Cardinality(Ticked)
               b == Cardinality(Sent(r))
               c == Cardinality(F)
    <2>1. /\ a \in Nat /\ b \in Nat /\ c \in Nat /\ count \in Nat
          /\ a <= b /\ count <= a /\ c <= count /\ b <= c
      BY <1>1, <1>2, <1>6, <1>7, <1>8, <1>10
    <2> HIDE DEF a, b, c
    <2>2. b = c
      BY ONLY <2>1
    <2>3. QED
      BY <2>2 DEF b, c
  <1>12. QED
    BY <1>10, <1>11 DEF Sent

\* What the modal says is done is done: by its toast and by its ticks
\* (handleUpload in UploadModal.jsx).
THEOREM SaidIsDone == Spec => []SaidDoneMeansDone
  <1>1. IInv => SaidDoneMeansDone
    BY SuccessIsReported, TicksAreSent DEF SaidDoneMeansDone
  <1>2. QED
    BY <1>1, Invariance, PTL

=============================================================================
