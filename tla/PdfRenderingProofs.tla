-------------------------- MODULE PdfRenderingProofs --------------------------
(* Proofs about PdfRendering, for any thumbnails, mounts and limit: the      *)
(* inductive invariant IInv, its parts, and the refinement of RenderLine.    *)
(* And about the thumbnails' URLs (FileUrls), for any files, lists, requests *)
(* and lifetimes: what each thumbnail says of its request, how old a URL may *)
(* be in the cache, and what of the list a deletion has overtaken.           *)
EXTENDS PdfRendering, MCFileUrls, SequenceTheorems, FiniteSetTheorems, TLAPS

-----------------------------------------------------------------------------
(* Sequences. *)

\* What RemoveAt leaves: the elements before, and those after one place down.
LEMMA RemoveAtFacts ==
  ASSUME NEW S, NEW s \in Seq(S), NEW i \in 1..Len(s)
  PROVE  /\ RemoveAt(s, i) \in Seq(S)
         /\ Len(RemoveAt(s, i)) = Len(s) - 1
         /\ \A j \in 1..(Len(s) - 1) : RemoveAt(s, i)[j] = IF j < i THEN s[j] ELSE s[j + 1]
  <1> DEFINE before == SubSeq(s, 1, i - 1)
             after == SubSeq(s, i + 1, Len(s))
  <1>1. /\ before \in Seq(S) /\ Len(before) = i - 1
        /\ \A j \in 1..(i - 1) : before[j] = s[j]
    BY SubSeqProperties
  <1>2. /\ after \in Seq(S) /\ Len(after) = Len(s) - i
        /\ \A j \in 1..(Len(s) - i) : after[j] = s[i + j]
    BY SubSeqProperties
  <1>3. RemoveAt(s, i) = before \o after
    BY DEF RemoveAt
  <1> HIDE DEF before, after
  <1>4. /\ before \o after \in Seq(S) /\ Len(before \o after) = Len(before) + Len(after)
        /\ \A j \in 1..(Len(before) + Len(after)) : (before \o after)[j] =
             IF j <= Len(before) THEN before[j] ELSE after[j - Len(before)]
    BY ONLY <1>1, <1>2, ConcatProperties
  <1>5. Len(s) \in Nat
    OBVIOUS
  <1>6. /\ RemoveAt(s, i) \in Seq(S) /\ Len(RemoveAt(s, i)) = Len(s) - 1
    BY ONLY <1>1, <1>2, <1>3, <1>4, <1>5, i \in 1..Len(s)
  <1>7. ASSUME NEW j \in 1..(Len(s) - 1)
        PROVE  RemoveAt(s, i)[j] = IF j < i THEN s[j] ELSE s[j + 1]
    <2>1. CASE j < i
      BY ONLY <2>1, <1>1, <1>2, <1>3, <1>4, <1>5, i \in 1..Len(s), j \in 1..(Len(s) - 1)
    <2>2. CASE ~(j < i)
      <3>1. j - (i - 1) \in 1..(Len(s) - i) /\ i + (j - (i - 1)) = j + 1
        BY <2>2, <1>5
      <3>2. (before \o after)[j] = after[j - (i - 1)]
        BY ONLY <2>2, <1>1, <1>2, <1>4, <1>5, i \in 1..Len(s), j \in 1..(Len(s) - 1)
      <3>3. QED
        BY <2>2, <3>1, <3>2, <1>2, <1>3
    <2>3. QED
      BY <2>1, <2>2
  <1>8. QED
    BY <1>6, <1>7

-----------------------------------------------------------------------------
(* Tasks and places in the line. *)

\* A task is a thumbnail and the number of one of its mounts.
LEMMA TaskIsPair ==
  /\ \A k \in Tasks : /\ k = <<k[1], k[2]>>
                      /\ k[1] \in Thumbs
                      /\ k[2] \in 1..MaxMounts[k[1]]
  /\ \A t \in Thumbs : \A n \in 1..MaxMounts[t] : <<t, n>> \in Tasks
  /\ \A k \in Tasks : k \in QueuedTasks <=> k[1] \in PdfThumbs
  /\ QueuedTasks \subseteq Tasks
  BY ConstantsOK DEF Tasks, QueuedTasks, TasksOf, Thumbs

\* A thumbnail that waits is in line at one place, which Without takes out.
LEMMA WithoutFacts ==
  ASSUME TypeOK, LineIsLive, NEW k \in Tasks
  PROVE  /\ at[k] # "queued" => Without(k) = queue
         /\ at[k] = "queued" => \E i \in DOMAIN queue :
              queue[i] = k /\ Without(k) = RemoveAt(queue, i)
  BY DEF Without, LineIsLive, TypeOK

\* The last mount of a thumbnail on the page is a task, and so is its next one.
LEMMA MountsAreTasks ==
  ASSUME TypeOK, LastMountIsLive
  PROVE  /\ \A t \in Thumbs : mounted[t] => <<t, mounts[t]>> \in Tasks
         /\ \A t \in Thumbs : mounts[t] < MaxMounts[t] => <<t, mounts[t] + 1>> \in Tasks
  <1>1. \A t \in Thumbs : mounts[t] \in Nat /\ mounts[t] <= MaxMounts[t] /\ MaxMounts[t] \in Nat
    BY ConstantsOK DEF TypeOK
  <1>2. ASSUME NEW t \in Thumbs, mounted[t]
        PROVE  <<t, mounts[t]>> \in Tasks
    <2>1. mounts[t] > 0
      BY <1>2 DEF LastMountIsLive
    <2>2. mounts[t] \in 1..MaxMounts[t]
      BY ONLY <1>1, <2>1, t \in Thumbs
    <2>3. QED
      BY <2>2, TaskIsPair
  <1>3. ASSUME NEW t \in Thumbs, mounts[t] < MaxMounts[t]
        PROVE  <<t, mounts[t] + 1>> \in Tasks
    <2>1. mounts[t] + 1 \in 1..MaxMounts[t]
      BY <1>1, <1>3
    <2>2. QED
      BY <2>1, TaskIsPair
  <1>4. QED
    BY <1>2, <1>3

\* Before anything is mounted the invariant holds.
LEMMA InitIInv == Init => IInv
  <1> SUFFICES ASSUME Init PROVE IInv
    OBVIOUS
  <1>1. TypeOK
    BY ConstantsOK DEF Init, TypeOK, Kinds, Running
  <1>2. RunningTasks = {}
    BY TaskIsPair DEF Init, RunningTasks, Running
  <1>3. IsFiniteSet(RunningTasks) /\ SlotsConserved
    BY <1>2, FS_EmptySet, ConstantsOK DEF Init, SlotsConserved
  <1>4. LastMountIsLive
    BY TaskIsPair, ConstantsOK DEF Init, LastMountIsLive
  <1>5. LineIsLive /\ NoIdleSlot /\ NoDocumentLeaks /\ ShowsItsOwnRender
    BY DEF Init, LineIsLive, NoIdleSlot, NoDocumentLeaks, ShowsItsOwnRender
  <1>6. QED
    BY <1>1, <1>3, <1>4, <1>5 DEF IInv

\* The end of a task: its slot goes to the first in line or is free.
LEMMA SettleStep ==
  ASSUME IInv, NEW k \in Tasks, at[k] \in Running, Settle(k),
         UNCHANGED <<mounts, mounted, cancelled>>
  PROVE  /\ active' \in Nat
         /\ queue' \in Seq(QueuedTasks)
         /\ at' \in [Tasks -> {"new", "queued", "dropped", "settled"} \cup Running]
         /\ doc' \in [Tasks -> {"none", "open", "destroyed"}]
         /\ at'[k] = "settled"
         /\ \A j \in Tasks : at[j] \in {"new", "settled"} => at'[j] = at[j]
         /\ IsFiniteSet(RunningTasks)'
         /\ (LastMountIsLive /\ LineIsLive /\ SlotsConserved /\ NoIdleSlot /\ NoDocumentLeaks)'
  <1>1. CASE k \in QueuedTasks /\ queue # <<>>
    <2> DEFINE h == Head(queue)
    <2>1. /\ active' = active /\ queue' = Tail(queue)
          /\ at' = [j \in Tasks |-> IF j = k THEN "settled" ELSE IF j = h THEN "lib" ELSE at[j]]
      BY <1>1 DEF Settle
    <2>2. /\ h \in QueuedTasks /\ h \in Tasks /\ h = queue[1] /\ 1 \in DOMAIN queue
          /\ Tail(queue) \in Seq(QueuedTasks) /\ Len(Tail(queue)) = Len(queue) - 1
          /\ \A i \in 1..(Len(queue) - 1) : Tail(queue)[i] = queue[i + 1]
      BY <1>1, HeadTailProperties, TaskIsPair DEF IInv, TypeOK
    <2>3. at[h] = "queued" /\ h # k
      BY <2>2 DEF IInv, LineIsLive, Running
    <2>4. RunningTasks' = (RunningTasks \ {k}) \cup {h}
      BY <1>1, <2>1, <2>2, <2>3, TaskIsPair DEF RunningTasks, Running
    <2>5. k \in RunningTasks /\ h \notin RunningTasks
      BY <1>1, <2>3 DEF RunningTasks, Running
    <2>6. IsFiniteSet(RunningTasks)' /\ Cardinality(RunningTasks)' = Cardinality(RunningTasks)
      <3>1. /\ IsFiniteSet(RunningTasks \ {k})
            /\ Cardinality(RunningTasks \ {k}) = Cardinality(RunningTasks) - 1
        BY <2>5, FS_RemoveElement DEF IInv
      <3>2. /\ IsFiniteSet((RunningTasks \ {k}) \cup {h})
            /\ Cardinality((RunningTasks \ {k}) \cup {h}) = Cardinality(RunningTasks \ {k}) + 1
        BY <2>5, <3>1, FS_AddElement
      <3>3. QED
        BY <2>4, <3>1, <3>2, FS_CardinalityType DEF IInv
    <2>7. SlotsConserved' /\ NoIdleSlot'
      BY <1>1, <2>1, <2>6 DEF IInv, SlotsConserved, NoIdleSlot
    <2>8. LastMountIsLive'
      BY <2>1, <2>3 DEF IInv, LastMountIsLive, TypeOK, Running
    <2>9. LineIsLive'
      <3>1. \A i, j \in DOMAIN queue' : queue'[i] = queue'[j] => i = j
        BY <2>1, <2>2 DEF IInv, LineIsLive, TypeOK
      <3>2. \A j \in Tasks : (\E i \in DOMAIN queue' : queue'[i] = j)
                             <=> (\E i \in DOMAIN queue : queue[i] = j) /\ j # h
        <4> SUFFICES ASSUME NEW j \in Tasks
                     PROVE  (\E i \in DOMAIN queue' : queue'[i] = j)
                              <=> (\E i \in DOMAIN queue : queue[i] = j) /\ j # h
          OBVIOUS
        <4>1. ASSUME NEW i \in DOMAIN queue', queue'[i] = j
              PROVE  i + 1 \in DOMAIN queue /\ queue[i + 1] = j /\ j # h
          BY <2>1, <2>2, <4>1 DEF IInv, LineIsLive, TypeOK
        <4>2. ASSUME NEW i \in DOMAIN queue, queue[i] = j, j # h
              PROVE  i - 1 \in DOMAIN queue' /\ queue'[i - 1] = j
          BY <2>1, <2>2, <4>2 DEF IInv, TypeOK
        <4>3. QED
          BY <4>1, <4>2
      <3>3. \A j \in Tasks : at'[j] = "queued" <=> at[j] = "queued" /\ j # h
        BY <2>1, <2>3 DEF IInv, TypeOK, Running
      <3>4. \A i \in DOMAIN queue' : i + 1 \in DOMAIN queue /\ queue'[i] = queue[i + 1]
        BY <2>1, <2>2 DEF IInv, TypeOK
      <3>5. QED
        BY <3>1, <3>2, <3>3, <3>4 DEF IInv, LineIsLive
    <2>10. NoDocumentLeaks' /\ doc' \in [Tasks -> {"none", "open", "destroyed"}]
      BY <2>1, <2>3 DEF Settle, IInv, NoDocumentLeaks, TypeOK, Running
    <2>11. QED
      BY <2>1, <2>2, <2>3, <2>6, <2>7, <2>8, <2>9, <2>10 DEF IInv, TypeOK, Running
  <1>2. CASE ~(k \in QueuedTasks /\ queue # <<>>)
    <2>1. /\ active' = IF k \in QueuedTasks THEN active - 1 ELSE active
          /\ queue' = queue
          /\ at' = [j \in Tasks |-> IF j = k THEN "settled" ELSE at[j]]
      BY <1>2 DEF Settle
    <2>2. /\ IsFiniteSet(RunningTasks)' /\ Cardinality(RunningTasks) \in Nat
          /\ Cardinality(RunningTasks)' = IF k \in QueuedTasks THEN Cardinality(RunningTasks) - 1
                                         ELSE Cardinality(RunningTasks)
          /\ Cardinality(RunningTasks)' \in Nat
      <3>1. CASE k \in QueuedTasks
        <4>1. RunningTasks' = RunningTasks \ {k} /\ k \in RunningTasks
          BY <2>1, <3>1, TaskIsPair DEF RunningTasks, Running
        <4>2. QED
          BY <3>1, <4>1, FS_RemoveElement, FS_CardinalityType DEF IInv
      <3>2. CASE k \notin QueuedTasks
        <4>1. RunningTasks' = RunningTasks
          BY <2>1, <3>2, TaskIsPair DEF RunningTasks, Running
        <4>2. QED
          BY <3>2, <4>1, FS_CardinalityType DEF IInv
      <3>3. QED
        BY <3>1, <3>2
    <2>3. SlotsConserved' /\ NoIdleSlot' /\ active' \in Nat
      BY <1>2, <2>1, <2>2, ConstantsOK DEF IInv, SlotsConserved, NoIdleSlot
    <2>4. LastMountIsLive'
      BY <2>1 DEF IInv, LastMountIsLive, TypeOK, Running
    <2>5. LineIsLive'
      BY <2>1 DEF IInv, LineIsLive, TypeOK, Running
    <2>6. NoDocumentLeaks' /\ doc' \in [Tasks -> {"none", "open", "destroyed"}]
      BY <2>1 DEF Settle, IInv, NoDocumentLeaks, TypeOK, Running
    <2>7. QED
      BY <2>1, <2>2, <2>3, <2>4, <2>5, <2>6 DEF IInv, TypeOK, Running
  <1>3. QED
    BY <1>1, <1>2

\* A PdfThumb that mounts finds the line empty if a slot is free.
LEMMA MountPdfThumbStep ==
  ASSUME IInv, NEW t \in PdfThumbs, MountPdfThumb(t)
  PROVE  IInv'
  <1> DEFINE k == <<t, mounts[t] + 1>>
  <1>a. /\ t \in Thumbs /\ ~mounted[t] /\ mounts[t] \in Nat
        /\ k \in Tasks /\ k[1] = t /\ k[2] = mounts[t] + 1
    BY MountsAreTasks DEF MountPdfThumb, IInv, TypeOK, Thumbs
  <1>b. k = <<t, mounts[t] + 1>>
    OBVIOUS
  <1> HIDE DEF k
  <1>1. /\ t \in Thumbs /\ ~mounted[t] /\ k \in QueuedTasks /\ k \in Tasks
        /\ k[1] = t /\ k[2] = mounts[t] + 1
        /\ at[k] = "new" /\ ~cancelled[k] /\ mounts[t] \in Nat
        /\ \A i \in DOMAIN queue : queue[i] # k /\ queue[i] \in Tasks /\ queue[i][1] # t
    <2>1. k \in QueuedTasks /\ at[k] = "new" /\ ~cancelled[k]
      BY <1>a, TaskIsPair DEF IInv, LastMountIsLive
    <2>2. \A i \in DOMAIN queue : queue[i] \in Tasks /\ queue[i][1] # t
      BY <1>a, TaskIsPair DEF IInv, TypeOK, LineIsLive
    <2>3. QED
      BY <1>a, <2>1, <2>2
  <1>2. /\ mounts' = [mounts EXCEPT ![t] = @ + 1] /\ mounted' = [mounted EXCEPT ![t] = TRUE]
        /\ rendered' = [rendered EXCEPT ![t] = FALSE] /\ failed' = [failed EXCEPT ![t] = FALSE]
        /\ cancelled' = cancelled /\ doc' = doc /\ mounts[t] < MaxMounts[t]
        /\ lib' \in [Kinds -> {"none", "loading", "ready", "broken"}]
    BY DEF MountPdfThumb, getPdfJs, IInv, TypeOK, Kinds
  <1>c. mounts' \in [Thumbs -> Nat] /\ \A u \in Thumbs : mounts'[u] <= MaxMounts[u]
    <2>1. mounts[t] \in Nat /\ MaxMounts[t] \in Nat /\ mounts[t] < MaxMounts[t]
      BY <1>1, <1>2, ConstantsOK DEF TypeOK
    <2>2. mounts[t] + 1 <= MaxMounts[t] /\ mounts[t] + 1 \in Nat
      BY ONLY <2>1
    <2>3. QED
      BY <1>1, <1>2, <2>2 DEF IInv, TypeOK
  <1>3. ASSUME at' \in [Tasks -> {"new", "queued", "dropped", "settled"} \cup Running],
               \A j \in Tasks : j # k => at'[j] = at[j], at'[k] \in {"queued", "lib"}
        PROVE  LastMountIsLive' /\ NoDocumentLeaks' /\ ShowsItsOwnRender'
    <2>1. LastMountIsLive'
      <3>1. \A j \in Tasks : j[1] = t /\ j[2] = mounts[t] + 1 => j = k
        BY <1>b, TaskIsPair
      <3>2. k = <<t, mounts'[t]>> /\ mounts'[t] = mounts[t] + 1
        BY <1>b, <1>1, <1>2 DEF IInv, TypeOK
      <3>3. QED
        BY <1>1, <1>2, <1>3, <3>1, <3>2, TaskIsPair DEF IInv, LastMountIsLive, TypeOK
    <2>2. NoDocumentLeaks'
      BY <1>1, <1>2, <1>3 DEF IInv, NoDocumentLeaks
    <2>3. ShowsItsOwnRender'
      <3>1. ~rendered'[t] /\ ~failed'[t]
        BY <1>1, <1>2 DEF IInv, TypeOK
      <3>2. \A u \in Thumbs : u # t /\ mounted[u] => <<u, mounts[u]>> \in Tasks /\ <<u, mounts[u]>> # k
        BY <1>b, MountsAreTasks DEF IInv
      <3>3. \A u \in Thumbs : u # t => /\ mounted'[u] = mounted[u] /\ mounts'[u] = mounts[u]
                                       /\ rendered'[u] = rendered[u] /\ failed'[u] = failed[u]
        BY <1>2 DEF IInv, TypeOK
      <3>4. QED
        BY <1>2, <1>3, <3>1, <3>2, <3>3 DEF IInv, ShowsItsOwnRender, Shows
    <2>4. QED
      BY <2>1, <2>2, <2>3
  <1>4. CASE active < MAX_CONCURRENT
    <2>1. queue = <<>>
      BY <1>4, ConstantsOK DEF IInv, NoIdleSlot, TypeOK
    <2>2. Append(queue, k) = <<k>> /\ Head(<<k>>) = k /\ Tail(<<k>>) = <<>>
      BY <2>1
    <2>3. /\ active' = active + 1 /\ queue' = <<>>
          /\ at' = [j \in Tasks |-> IF j = k THEN "lib" ELSE at[j]]
      BY <1>4, <2>2 DEF MountPdfThumb, k
    <2>4. RunningTasks' = RunningTasks \cup {k} /\ k \notin RunningTasks
      BY <1>1, <2>3, TaskIsPair DEF RunningTasks, Running
    <2>5. SlotsConserved' /\ IsFiniteSet(RunningTasks)' /\ NoIdleSlot'
      BY <1>4, <2>3, <2>4, FS_AddElement, ConstantsOK
      DEF IInv, SlotsConserved, NoIdleSlot, TypeOK
    <2>6. LineIsLive'
      BY <1>1, <2>1, <2>3 DEF IInv, LineIsLive, TypeOK
    <2>7. TypeOK'
      BY <1>1, <1>2, <1>c, <2>3 DEF IInv, TypeOK, Running
    <2>8. QED
      BY <1>1, <1>3, <2>3, <2>5, <2>6, <2>7 DEF IInv, TypeOK
  <1>5. CASE ~(active < MAX_CONCURRENT)
    <2>1. /\ active' = active /\ queue' = Append(queue, k)
          /\ at' = [j \in Tasks |-> IF j = k THEN "queued" ELSE at[j]]
      BY <1>5 DEF MountPdfThumb, k
    <2>2. /\ queue' \in Seq(QueuedTasks) /\ Len(queue') = Len(queue) + 1
          /\ \A i \in 1..Len(queue) : queue'[i] = queue[i]
          /\ queue'[Len(queue) + 1] = k
          /\ DOMAIN queue = 1..Len(queue) /\ DOMAIN queue' = 1..(Len(queue) + 1)
          /\ Len(queue) \in Nat
      BY <1>1, <2>1, AppendProperties DEF IInv, TypeOK
    <2>3. RunningTasks' = RunningTasks
      BY <1>1, <2>1, TaskIsPair DEF RunningTasks, Running
    <2>4. SlotsConserved' /\ IsFiniteSet(RunningTasks)' /\ NoIdleSlot'
      BY <1>5, <2>1, <2>3, ConstantsOK DEF IInv, SlotsConserved, NoIdleSlot, TypeOK
    <2>5. LineIsLive'
      <3>1. \A i, j \in DOMAIN queue' : queue'[i] = queue'[j] => i = j
        <4>1. \A i, j \in DOMAIN queue : queue[i] = queue[j] => i = j
          BY DEF IInv, LineIsLive
        <4>2. QED
          BY ONLY <1>1, <2>2, <4>1
      <3>2. \A j \in Tasks : (\E i \in DOMAIN queue' : queue'[i] = j)
                             <=> (\E i \in DOMAIN queue : queue[i] = j) \/ j = k
        BY ONLY <1>1, <2>2
      <3>3. \A i \in DOMAIN queue' : \/ i \in DOMAIN queue /\ queue'[i] = queue[i]
                                     \/ queue'[i] = k
        BY ONLY <1>1, <2>2
      <3>4. \A j \in Tasks : at'[j] = "queued" <=> at[j] = "queued" \/ j = k
        BY <1>1, <2>1 DEF IInv, TypeOK
      <3>5. \A i \in DOMAIN queue' :
               ~cancelled'[queue'[i]] /\ mounted'[queue'[i][1]]
                 /\ mounts'[queue'[i][1]] = queue'[i][2]
        BY <1>1, <1>2, <3>3 DEF IInv, LineIsLive, TypeOK
      <3>6. QED
        BY <3>1, <3>2, <3>4, <3>5 DEF IInv, LineIsLive
    <2>6. TypeOK'
      BY <1>1, <1>2, <1>c, <2>1, <2>2 DEF IInv, TypeOK
    <2>7. QED
      BY <1>1, <1>3, <2>1, <2>4, <2>5, <2>6 DEF IInv, TypeOK
  <1>6. QED
    BY <1>4, <1>5

\* A PdfCanvasThumb that mounts leaves the queue alone.
LEMMA MountPdfCanvasThumbStep ==
  ASSUME IInv, NEW t \in PdfCanvasThumbs, MountPdfCanvasThumb(t)
  PROVE  IInv'
  <1> DEFINE k == <<t, mounts[t] + 1>>
  <1>a. /\ t \in Thumbs /\ t \notin PdfThumbs /\ ~mounted[t] /\ mounts[t] \in Nat
        /\ k \in Tasks /\ k[1] = t /\ k[2] = mounts[t] + 1
    BY MountsAreTasks, ConstantsOK DEF MountPdfCanvasThumb, IInv, TypeOK, Thumbs
  <1>b. k = <<t, mounts[t] + 1>>
    OBVIOUS
  <1> HIDE DEF k
  <1>1. /\ t \in Thumbs /\ t \notin PdfThumbs /\ ~mounted[t] /\ k \in Tasks /\ k \notin QueuedTasks
        /\ k[1] = t /\ k[2] = mounts[t] + 1
        /\ at[k] = "new" /\ ~cancelled[k] /\ mounts[t] \in Nat
        /\ \A i \in DOMAIN queue : queue[i] # k /\ queue[i] \in Tasks /\ queue[i][1] # t
    <2>1. k \notin QueuedTasks /\ at[k] = "new" /\ ~cancelled[k]
      BY <1>a, TaskIsPair DEF IInv, LastMountIsLive
    <2>2. \A i \in DOMAIN queue : queue[i] \in Tasks /\ queue[i][1] # t
      BY <1>a, TaskIsPair DEF IInv, TypeOK, LineIsLive
    <2>3. QED
      BY <1>a, <2>1, <2>2
  <1>2. /\ mounts' = [mounts EXCEPT ![t] = @ + 1] /\ mounted' = [mounted EXCEPT ![t] = TRUE]
        /\ rendered' = [rendered EXCEPT ![t] = FALSE] /\ failed' = [failed EXCEPT ![t] = FALSE]
        /\ cancelled' = cancelled /\ doc' = doc /\ mounts[t] < MaxMounts[t]
        /\ active' = active /\ queue' = queue /\ at' = [at EXCEPT ![k] = "lib"]
        /\ lib' \in [Kinds -> {"none", "loading", "ready", "broken"}]
    BY <1>b DEF MountPdfCanvasThumb, getPdfJs, IInv, TypeOK, Kinds
  <1>c. mounts' \in [Thumbs -> Nat] /\ \A u \in Thumbs : mounts'[u] <= MaxMounts[u]
    <2>1. mounts[t] \in Nat /\ MaxMounts[t] \in Nat /\ mounts[t] < MaxMounts[t]
      BY <1>1, <1>2, ConstantsOK DEF TypeOK
    <2>2. mounts[t] + 1 <= MaxMounts[t] /\ mounts[t] + 1 \in Nat
      BY ONLY <2>1
    <2>3. QED
      BY <1>1, <1>2, <2>2 DEF IInv, TypeOK
  <1>3. TypeOK'
    BY <1>1, <1>2, <1>c DEF IInv, TypeOK, Running
  <1>4. RunningTasks' = RunningTasks
    BY <1>1, <1>2, TaskIsPair DEF IInv, TypeOK, RunningTasks, Running
  <1>5. SlotsConserved' /\ IsFiniteSet(RunningTasks)' /\ NoIdleSlot'
    BY <1>2, <1>4 DEF IInv, SlotsConserved, NoIdleSlot
  <1>6. LineIsLive'
    BY <1>1, <1>2 DEF IInv, LineIsLive, TypeOK
  <1>7. LastMountIsLive'
    <2>1. \A j \in Tasks : j[1] = t /\ j[2] = mounts[t] + 1 => j = k
      BY <1>b, TaskIsPair
    <2>2. k = <<t, mounts'[t]>> /\ mounts'[t] = mounts[t] + 1
      BY <1>b, <1>1, <1>2 DEF IInv, TypeOK
    <2>3. QED
      BY <1>1, <1>2, <2>1, <2>2, TaskIsPair DEF IInv, LastMountIsLive, TypeOK
  <1>8. NoDocumentLeaks'
    BY <1>1, <1>2 DEF IInv, NoDocumentLeaks, TypeOK
  <1>9. ShowsItsOwnRender'
    <2>1. ~rendered'[t] /\ ~failed'[t]
      BY <1>1, <1>2 DEF IInv, TypeOK
    <2>2. \A u \in Thumbs : u # t /\ mounted[u] => <<u, mounts[u]>> \in Tasks /\ <<u, mounts[u]>> # k
      BY <1>b, MountsAreTasks DEF IInv
    <2>3. \A u \in Thumbs : u # t => /\ mounted'[u] = mounted[u] /\ mounts'[u] = mounts[u]
                                     /\ rendered'[u] = rendered[u] /\ failed'[u] = failed[u]
      BY <1>2 DEF IInv, TypeOK
    <2>4. \A j \in Tasks : j # k => at'[j] = at[j]
      BY <1>2 DEF IInv, TypeOK
    <2>5. QED
      BY <1>2, <2>1, <2>2, <2>3, <2>4 DEF IInv, ShowsItsOwnRender, Shows
  <1>10. QED
    BY <1>3, <1>5, <1>6, <1>7, <1>8, <1>9 DEF IInv

\* A thumbnail that leaves takes its waiting task out of the line; a running one
\* keeps its slot until it ends.
LEMMA UnmountStep ==
  ASSUME IInv, NEW t \in Thumbs, Unmount(t)
  PROVE  IInv'
  <1> DEFINE k == <<t, mounts[t]>>
  <1>a. mounted[t] /\ mounts[t] \in Nat /\ k \in Tasks /\ k[1] = t /\ k[2] = mounts[t]
    BY MountsAreTasks DEF Unmount, IInv, TypeOK
  <1>b. k = <<t, mounts[t]>>
    OBVIOUS
  <1>1. /\ mounted' = [mounted EXCEPT ![t] = FALSE] /\ cancelled' = [cancelled EXCEPT ![k] = TRUE]
        /\ queue' = Without(k)
        /\ at' = [at EXCEPT ![k] = IF at[k] = "queued" THEN "dropped" ELSE at[k]]
        /\ \A j \in Tasks : doc'[j] \in {doc[j], "destroyed"}
        /\ doc' \in [Tasks -> {"none", "open", "destroyed"}]
        /\ mounts' = mounts /\ rendered' = rendered /\ failed' = failed /\ lib' = lib /\ active' = active
    BY <1>a DEF Unmount, IInv, TypeOK
  <1> HIDE DEF k
  <1>2. \A j \in Tasks : j[1] = t /\ j[2] = mounts[t] => j = k
    BY <1>b, TaskIsPair
  <1>3. RunningTasks' = RunningTasks
    BY <1>a, <1>1, TaskIsPair DEF IInv, TypeOK, RunningTasks, Running
  <1>4. LastMountIsLive'
    BY <1>a, <1>b, <1>1, <1>2, MountsAreTasks DEF IInv, LastMountIsLive, TypeOK
  <1>5. NoDocumentLeaks'
    BY <1>a, <1>1 DEF IInv, NoDocumentLeaks, TypeOK
  <1>6. ShowsItsOwnRender'
    <2>1. \A u \in Thumbs : u # t /\ mounted[u] => <<u, mounts[u]>> \in Tasks /\ <<u, mounts[u]>> # k
      BY <1>b, MountsAreTasks DEF IInv
    <2>2. QED
      BY <1>a, <1>1, <2>1 DEF IInv, ShowsItsOwnRender, Shows, TypeOK
  <1>7. /\ queue' \in Seq(QueuedTasks)
        /\ queue' # <<>> => queue # <<>>
        /\ LineIsLive'
    <2>1. CASE at[k] = "queued"
      <3>1. PICK i \in 1..Len(queue) : queue[i] = k /\ queue' = RemoveAt(queue, i)
        BY <1>a, <1>1, <2>1, WithoutFacts DEF IInv, TypeOK
      <3>2. /\ queue' \in Seq(QueuedTasks) /\ Len(queue') = Len(queue) - 1
            /\ \A j \in 1..(Len(queue) - 1) : queue'[j] = IF j < i THEN queue[j] ELSE queue[j + 1]
            /\ DOMAIN queue = 1..Len(queue) /\ DOMAIN queue' = 1..(Len(queue) - 1)
            /\ Len(queue) \in Nat
        <4>1. queue \in Seq(QueuedTasks)
          BY DEF IInv, TypeOK
        <4>2. /\ RemoveAt(queue, i) \in Seq(QueuedTasks) /\ Len(RemoveAt(queue, i)) = Len(queue) - 1
              /\ \A j \in 1..(Len(queue) - 1) :
                   RemoveAt(queue, i)[j] = IF j < i THEN queue[j] ELSE queue[j + 1]
          BY ONLY <4>1, i \in 1..Len(queue), RemoveAtFacts
        <4>3. QED
          BY ONLY <3>1, <4>1, <4>2
      <3>3. /\ \A h, j \in DOMAIN queue : queue[h] = queue[j] => h = j
            /\ \A j \in DOMAIN queue : queue[j] \in Tasks
        BY TaskIsPair DEF IInv, LineIsLive, TypeOK
      <3>4. \A h, j \in DOMAIN queue' : queue'[h] = queue'[j] => h = j
        BY ONLY <3>1, <3>2, <3>3
      <3>5. \A j \in DOMAIN queue' : \E h \in DOMAIN queue : queue[h] = queue'[j] /\ h # i
        BY ONLY <3>1, <3>2
      <3>6. \A h \in DOMAIN queue : h # i => \E j \in DOMAIN queue' : queue'[j] = queue[h]
        <4> SUFFICES ASSUME NEW h \in DOMAIN queue, h # i
                     PROVE  \E j \in DOMAIN queue' : queue'[j] = queue[h]
          OBVIOUS
        <4>1. CASE h < i
          BY ONLY <3>1, <3>2, <4>1, h \in DOMAIN queue
        <4>2. CASE h > i
          <5>1. h - 1 \in DOMAIN queue' /\ queue'[h - 1] = queue[h]
            BY ONLY <3>1, <3>2, <4>2, h \in DOMAIN queue
          <5>2. QED
            BY <5>1
        <4>3. QED
          BY ONLY <3>1, <3>2, <4>1, <4>2, h \in DOMAIN queue, h # i
      <3>7. \A j \in Tasks : (\E h \in DOMAIN queue' : queue'[h] = j)
                             <=> (\E h \in DOMAIN queue : queue[h] = j) /\ j # k
        <4> SUFFICES ASSUME NEW j \in Tasks
                     PROVE  (\E h \in DOMAIN queue' : queue'[h] = j)
                              <=> (\E h \in DOMAIN queue : queue[h] = j) /\ j # k
          OBVIOUS
        <4>1. ASSUME NEW h \in DOMAIN queue', queue'[h] = j
              PROVE  (\E g \in DOMAIN queue : queue[g] = j) /\ j # k
          <5>1. PICK g \in DOMAIN queue : queue[g] = queue'[h] /\ g # i
            BY <3>5
          <5>2. i \in DOMAIN queue
            BY <3>1, <3>2
          <5>3. QED
            BY ONLY <3>1, <3>3, <4>1, <5>1, <5>2
        <4>2. ASSUME NEW h \in DOMAIN queue, queue[h] = j, j # k
              PROVE  \E g \in DOMAIN queue' : queue'[g] = j
          BY ONLY <3>1, <3>6, <4>2
        <4>3. QED
          BY <4>1, <4>2
      <3>8. \A j \in Tasks : at'[j] = "queued" <=> at[j] = "queued" /\ j # k
        BY <1>a, <1>1, <2>1 DEF IInv, TypeOK
      <3>9. \A j \in DOMAIN queue' :
               ~cancelled'[queue'[j]] /\ mounted'[queue'[j][1]]
                 /\ mounts'[queue'[j][1]] = queue'[j][2]
        <4> SUFFICES ASSUME NEW h \in DOMAIN queue, h # i
                     PROVE  ~cancelled'[queue[h]] /\ mounted'[queue[h][1]]
                              /\ mounts'[queue[h][1]] = queue[h][2]
          BY <3>5
        <4>1. /\ queue[h] \in Tasks /\ queue[h] # k /\ ~cancelled[queue[h]] /\ mounted[queue[h][1]]
              /\ mounts[queue[h][1]] = queue[h][2]
          BY <3>1, <3>2, <3>3 DEF IInv, LineIsLive
        <4>2. queue[h][1] # t /\ queue[h][1] \in Thumbs
          BY <1>2, <4>1, TaskIsPair
        <4>3. QED
          BY <1>1, <4>1, <4>2 DEF IInv, TypeOK
      <3>10. QED
        BY <3>1, <3>2, <3>4, <3>7, <3>8, <3>9 DEF IInv, LineIsLive
    <2>2. CASE at[k] # "queued"
      <3>1. queue' = queue
        BY <1>a, <1>1, <2>2, WithoutFacts DEF IInv
      <3>2. \A i \in DOMAIN queue : queue[i] \in Tasks /\ queue[i] # k
        BY <1>a, <2>2, TaskIsPair DEF IInv, LineIsLive, TypeOK
      <3>3. \A i \in DOMAIN queue : queue[i][1] # t /\ queue[i][1] \in Thumbs
        BY <1>2, <3>2, TaskIsPair DEF IInv, LineIsLive
      <3>4. \A j \in Tasks : at'[j] = "queued" <=> at[j] = "queued"
        BY <1>a, <1>1, <2>2 DEF IInv, TypeOK
      <3>5. QED
        BY <1>1, <3>1, <3>2, <3>3, <3>4 DEF IInv, LineIsLive, TypeOK
    <2>3. QED
      BY <2>1, <2>2
  <1>8. SlotsConserved' /\ IsFiniteSet(RunningTasks)' /\ NoIdleSlot'
    BY <1>1, <1>3, <1>7 DEF IInv, SlotsConserved, NoIdleSlot
  <1>9. TypeOK'
    BY <1>a, <1>1, <1>7 DEF IInv, TypeOK
  <1>10. QED
    BY <1>4, <1>5, <1>6, <1>7, <1>8, <1>9 DEF IInv

\* An await that lets the task go on: it runs before and after.
LEMMA ProceedStep ==
  ASSUME IInv, NEW k \in Tasks, NEW from \in Running, NEW to \in Running,
         Proceed(k, from, to),
         \/ doc' = doc /\ (to = "paint" \/ from = "lib")
         \/ doc' = [doc EXCEPT ![k] = "open"] /\ to \in {"page", "paint"}
  PROVE  IInv'
  <1>1. /\ at[k] = from /\ at' = [at EXCEPT ![k] = to]
        /\ UNCHANGED <<mounts, mounted, rendered, failed, lib, active, queue, cancelled>>
    BY DEF Proceed
  <1>2. RunningTasks' = RunningTasks
    BY <1>1, TaskIsPair DEF IInv, TypeOK, RunningTasks
  <1>3. TypeOK'
    BY <1>1 DEF IInv, TypeOK
  <1>4. \A j \in Tasks : at[j] \in {"new", "queued", "settled"} => j # k
    BY <1>1 DEF Running
  <1>5. \A j \in Tasks : (at'[j] = "queued" <=> at[j] = "queued") /\ (j # k => at'[j] = at[j])
    BY <1>1 DEF IInv, TypeOK, Running
  <1>6. LastMountIsLive' /\ LineIsLive'
    BY <1>1, <1>4, <1>5 DEF IInv, LastMountIsLive, LineIsLive
  <1>7. SlotsConserved' /\ IsFiniteSet(RunningTasks)' /\ NoIdleSlot'
    BY <1>1, <1>2 DEF IInv, SlotsConserved, NoIdleSlot
  <1>8. NoDocumentLeaks'
    BY <1>1 DEF IInv, NoDocumentLeaks, TypeOK, Running
  <1>9. ShowsItsOwnRender'
    BY <1>1, <1>4, <1>5, MountsAreTasks DEF IInv, ShowsItsOwnRender, Shows
  <1>10. QED
    BY <1>2, <1>3, <1>6, <1>7, <1>8, <1>9 DEF IInv

\* A render that ends, painted, failed or given up, shows only in its own mount.
LEMMA EndStep ==
  ASSUME IInv, NEW k \in Tasks, at[k] \in Running, Settle(k),
         UNCHANGED <<mounts, mounted, lib, cancelled>>,
         rendered' \in [Thumbs -> BOOLEAN], failed' \in [Thumbs -> BOOLEAN],
         \A t \in Thumbs : \/ rendered'[t] = rendered[t] /\ failed'[t] = failed[t]
                           \/ t = k[1] /\ ~cancelled[k]
  PROVE  IInv'
  <1>1. /\ at'[k] = "settled"
        /\ \A j \in Tasks : at[j] \in {"new", "settled"} => at'[j] = at[j]
        /\ IsFiniteSet(RunningTasks)'
        /\ (LastMountIsLive /\ LineIsLive /\ SlotsConserved /\ NoIdleSlot /\ NoDocumentLeaks)'
    BY SettleStep
  <1>2. TypeOK'
    BY SettleStep DEF IInv, TypeOK
  <1>3. ShowsItsOwnRender'
    <2> SUFFICES ASSUME NEW t \in Thumbs, mounted[t], Shows(t)' # "spinner"
                 PROVE  /\ at'[<<t, mounts[t]>>] = "settled"
                        /\ ~cancelled[<<t, mounts[t]>>]
      BY DEF ShowsItsOwnRender
    <2>1. CASE rendered'[t] = rendered[t] /\ failed'[t] = failed[t]
      BY <1>1, <2>1, MountsAreTasks DEF IInv, ShowsItsOwnRender, Shows
    <2>2. CASE t = k[1] /\ ~cancelled[k]
      <3>1. k[2] <= mounts[k[1]]
        <4>1. ~(k[2] > mounts[k[1]])
          BY DEF IInv, LastMountIsLive, Running
        <4>2. k[2] \in Nat /\ mounts[k[1]] \in Nat
          BY TaskIsPair DEF IInv, TypeOK
        <4>3. QED
          BY ONLY <4>1, <4>2
      <3>2. k = <<t, mounts[t]>>
        BY <2>2, <3>1, TaskIsPair DEF IInv, LastMountIsLive
      <3>3. QED
        BY <1>1, <2>2, <3>2
    <2>3. QED
      BY <2>1, <2>2
  <1>4. QED
    BY <1>1, <1>2, <1>3 DEF IInv

\* Every await of a render.
LEMMA PdfjsStep ==
  ASSUME IInv, NEW k \in Tasks, Pdfjs(k)
  PROVE  IInv'
  <1>1. ASSUME at[k] \in Running, GiveUp(k)
        PROVE  IInv'
    BY <1>1, EndStep DEF GiveUp, IInv, TypeOK
  <1>2. ASSUME at[k] \in Running, Catch(k)
        PROVE  IInv'
    <2>1. /\ failed' \in [Thumbs -> BOOLEAN] /\ rendered' = rendered
          /\ \A t \in Thumbs : failed'[t] = failed[t] \/ (t = k[1] /\ ~cancelled[k])
      BY <1>2, TaskIsPair DEF Catch, IInv, TypeOK
    <2>2. QED
      BY <1>2, <2>1, EndStep DEF Catch, IInv, TypeOK
  <1>3. CASE LibraryResolved(k)
    <2>1. CASE Proceed(k, "lib", "doc") /\ UNCHANGED doc
      BY <2>1, ProceedStep DEF Running
    <2>2. QED
      BY <1>1, <1>2, <1>3, <2>1 DEF LibraryResolved, Running
  <1>4. CASE DocumentResolved(k)
    <2>1. CASE Proceed(k, "doc", "page") /\ doc' = [doc EXCEPT ![k] = "open"]
      BY <2>1, ProceedStep DEF Running
    <2>2. QED
      BY <1>1, <1>2, <1>4, <2>1 DEF DocumentResolved, Running
  <1>5. CASE PageResolved(k)
    <2>1. CASE Proceed(k, "page", "paint") /\ UNCHANGED doc
      BY <2>1, ProceedStep DEF Running
    <2>2. QED
      BY <1>1, <1>2, <1>5, <2>1 DEF PageResolved, Running
  <1>6. CASE PaintResolved(k)
    <2>1. CASE /\ ~cancelled[k] /\ rendered' = [rendered EXCEPT ![k[1]] = TRUE] /\ Settle(k)
               /\ UNCHANGED <<mounts, mounted, failed, lib, cancelled>>
      <3>1. /\ rendered' \in [Thumbs -> BOOLEAN]
            /\ \A t \in Thumbs : rendered'[t] = rendered[t] \/ t = k[1]
        BY <2>1, TaskIsPair DEF IInv, TypeOK
      <3>2. at[k] \in Running
        BY <1>6 DEF PaintResolved, Running
      <3>3. QED
        BY <2>1, <3>1, <3>2, EndStep DEF IInv, TypeOK
    <2>2. QED
      BY <1>1, <1>2, <1>6, <2>1 DEF PaintResolved, Running
  <1>7. QED
    BY <1>3, <1>4, <1>5, <1>6 DEF Pdfjs

\* Every step keeps the invariant.
LEMMA StepIInv == IInv /\ [Next]_vars => IInv'
  <1> SUFFICES ASSUME IInv, [Next]_vars PROVE IInv'
    OBVIOUS
  <1>1. ASSUME NEW kind \in Kinds, LibraryLoads(kind)
        PROVE  IInv'
    BY <1>1 DEF LibraryLoads, IInv, TypeOK, LastMountIsLive, LineIsLive, SlotsConserved, RunningTasks,
                NoIdleSlot, NoDocumentLeaks, ShowsItsOwnRender, Shows
  <1>2. CASE UNCHANGED vars
    BY <1>2 DEF vars, IInv, TypeOK, LastMountIsLive, LineIsLive, SlotsConserved, RunningTasks,
                NoIdleSlot, NoDocumentLeaks, ShowsItsOwnRender, Shows
  <1>3. QED
    BY <1>1, <1>2, MountPdfThumbStep, MountPdfCanvasThumbStep, UnmountStep, PdfjsStep DEF Next

\* The inductive invariant holds in every reachable state.
THEOREM Invariance == Spec => []IInv
  BY InitIInv, StepIInv, PTL DEF Spec

\* Mounts, tasks, the queue and the documents keep their types.
THEOREM TypeCorrect == Spec => []TypeOK
  BY Invariance, PTL DEF IInv

\* active of Pdfrenderqueue.js counts the renders that run and stays within
\* MAX_CONCURRENT, for any number of thumbnails and mounts.
THEOREM NoSlotIsLost == Spec => []SlotsConserved
  BY Invariance, PTL DEF IInv

\* While a render waits in Pdfrenderqueue.js every slot is taken.
THEOREM SlotsAreUsed == Spec => []NoIdleSlot
  BY Invariance, PTL DEF IInv

\* The line of Pdfrenderqueue.js holds the waiting tasks of thumbnails on the
\* page, each once.
THEOREM TheLineIsLive == Spec => []LineIsLive
  BY Invariance, PTL DEF IInv

\* No pdfjs document outlives its task, whichever await of Previewthumbnail.jsx
\* or UploadModal.jsx the thumbnail was unmounted at.
THEOREM DocumentsAreDestroyed == Spec => []NoDocumentLeaks
  BY Invariance, PTL DEF IInv

\* A thumbnail shows a page or a failure of its own mount.
THEOREM ThumbnailsShowTheirOwn == Spec => []ShowsItsOwnRender
  BY Invariance, PTL DEF IInv

-----------------------------------------------------------------------------
(* PdfRendering implements RenderLine. *)

\* A PdfThumb that mounts arrives.
LEMMA MountArrives ==
  ASSUME IInv, NEW t \in PdfThumbs, MountPdfThumb(t)
  PROVE  Line!Arrive(<<t, mounts[t] + 1>>) /\ <<t, mounts[t] + 1>> \in QueuedTasks
  <1> DEFINE k == <<t, mounts[t] + 1>>
  <1>1. k \in Tasks /\ k[1] = t /\ k[2] = mounts[t] + 1 /\ mounts[t] \in Nat
    BY MountsAreTasks DEF MountPdfThumb, IInv, TypeOK, Thumbs
  <1>2. /\ active' = IF active < MAX_CONCURRENT THEN active + 1 ELSE active
        /\ queue' = IF active < MAX_CONCURRENT THEN Tail(Append(queue, k)) ELSE Append(queue, k)
        /\ at' = [j \in Tasks |-> IF active < MAX_CONCURRENT /\ j = Head(Append(queue, k)) THEN "lib"
                                  ELSE IF j = k THEN "queued" ELSE at[j]]
    BY DEF MountPdfThumb
  <1> HIDE DEF k
  <1>3. k \in QueuedTasks /\ at[k] = "new"
    BY <1>1, TaskIsPair DEF IInv, LastMountIsLive
  <1>4. k \notin Line!Waiting \cup RunningTasks \cup OverTasks
    BY <1>3, <1>1 DEF Line!Waiting, RunningTasks, OverTasks, Running, IInv, LineIsLive
  <1>5. CASE active < MAX_CONCURRENT
    <2>1. queue = <<>>
      BY <1>5, ConstantsOK DEF IInv, NoIdleSlot, TypeOK
    <2>2. Append(queue, k) = <<k>> /\ Head(<<k>>) = k /\ Tail(<<k>>) = <<>>
      BY <2>1
    <2>3. queue' = queue /\ at' = [j \in Tasks |-> IF j = k THEN "lib" ELSE at[j]]
      BY <1>2, <1>5, <2>1, <2>2
    <2>4. RunningTasks' = RunningTasks \cup {k} /\ OverTasks' = OverTasks
      BY <1>3, <2>3, TaskIsPair DEF RunningTasks, OverTasks, Running
    <2>5. Cardinality(RunningTasks) < MAX_CONCURRENT
      BY <1>5 DEF IInv, SlotsConserved
    <2>6. Line!Arrive(k)
      BY <1>4, <2>3, <2>4, <2>5 DEF Line!Arrive, Line!Cardinality, Cardinality
    <2>7. QED
      BY <1>3, <2>6 DEF k
  <1>6. CASE ~(active < MAX_CONCURRENT)
    <2>1. queue' = Append(queue, k) /\ at' = [j \in Tasks |-> IF j = k THEN "queued" ELSE at[j]]
      BY <1>2, <1>6
    <2>2. RunningTasks' = RunningTasks /\ OverTasks' = OverTasks
      BY <1>3, <2>1, TaskIsPair DEF RunningTasks, OverTasks, Running
    <2>3. ~(Cardinality(RunningTasks) < MAX_CONCURRENT)
      BY <1>6 DEF IInv, SlotsConserved
    <2>4. Line!Arrive(k)
      BY <1>4, <2>1, <2>2, <2>3 DEF Line!Arrive, Line!Cardinality, Cardinality
    <2>5. QED
      BY <1>3, <2>4 DEF k
  <1>7. QED
    BY <1>5, <1>6

\* A thumbnail that leaves while its task waits leaves the line.
LEMMA UnmountLeaves ==
  ASSUME IInv, NEW t \in Thumbs, Unmount(t)
  PROVE  \/ \E i \in DOMAIN queue : Line!Leave(i)
         \/ UNCHANGED <<queue, RunningTasks, OverTasks>>
  <1> DEFINE k == <<t, mounts[t]>>
  <1>1. k \in Tasks
    BY MountsAreTasks DEF Unmount, IInv
  <1>2. /\ queue' = Without(k)
        /\ at' = [at EXCEPT ![k] = IF at[k] = "queued" THEN "dropped" ELSE at[k]]
    BY DEF Unmount
  <1> HIDE DEF k
  <1>3. RunningTasks' = RunningTasks
    BY <1>1, <1>2, TaskIsPair DEF IInv, TypeOK, RunningTasks, Running
  <1>4. CASE at[k] = "queued"
    <2>1. PICK i \in DOMAIN queue : queue[i] = k /\ queue' = RemoveAt(queue, i)
      BY <1>1, <1>2, <1>4, WithoutFacts DEF IInv
    <2>2. k \in QueuedTasks
      BY <2>1 DEF IInv, TypeOK
    <2>3. OverTasks' = OverTasks \cup {k}
      BY <1>1, <1>2, <1>4, <2>2, TaskIsPair DEF IInv, TypeOK, OverTasks
    <2>4. QED
      BY <1>3, <2>1, <2>3 DEF Line!Leave, RemoveAt
  <1>5. CASE at[k] # "queued"
    <2>1. queue' = queue
      BY <1>1, <1>2, <1>5, WithoutFacts DEF IInv
    <2>2. OverTasks' = OverTasks
      BY <1>1, <1>2, <1>5, TaskIsPair DEF IInv, TypeOK, OverTasks
    <2>3. QED
      BY <1>3, <2>1, <2>2
  <1>6. QED
    BY <1>4, <1>5

\* The end of a queued task finishes it.
LEMMA SettleFinishes ==
  ASSUME IInv, NEW k \in Tasks, at[k] \in Running, Settle(k)
  PROVE  \/ k \in RunningTasks /\ Line!Finish(k)
         \/ UNCHANGED <<queue, RunningTasks, OverTasks>>
  <1>1. CASE k \notin QueuedTasks
    <2>1. queue' = queue /\ at' = [j \in Tasks |-> IF j = k THEN "settled" ELSE at[j]]
      BY <1>1 DEF Settle
    <2>2. RunningTasks' = RunningTasks /\ OverTasks' = OverTasks
      BY <1>1, <2>1, TaskIsPair DEF RunningTasks, OverTasks, Running
    <2>3. QED
      BY <2>1, <2>2
  <1>2. CASE k \in QueuedTasks /\ queue = <<>>
    <2>1. queue' = queue /\ at' = [j \in Tasks |-> IF j = k THEN "settled" ELSE at[j]]
      BY <1>2 DEF Settle
    <2>2. RunningTasks' = RunningTasks \ {k} /\ OverTasks' = OverTasks \cup {k} /\ k \in RunningTasks
      BY <1>2, <2>1, TaskIsPair DEF RunningTasks, OverTasks, Running
    <2>3. QED
      BY <1>2, <2>1, <2>2 DEF Line!Finish
  <1>3. CASE k \in QueuedTasks /\ queue # <<>>
    <2> DEFINE h == Head(queue)
    <2>1. /\ queue' = Tail(queue)
          /\ at' = [j \in Tasks |-> IF j = k THEN "settled" ELSE IF j = h THEN "lib" ELSE at[j]]
      BY <1>3 DEF Settle
    <2>2. h \in QueuedTasks /\ h \in Tasks /\ h = queue[1] /\ 1 \in DOMAIN queue
      BY <1>3, HeadTailProperties, TaskIsPair DEF IInv, TypeOK
    <2>3. at[h] = "queued" /\ h # k
      BY <2>2 DEF IInv, LineIsLive, Running
    <2> HIDE DEF h
    <2>4. /\ RunningTasks' = (RunningTasks \ {k}) \cup {h} /\ OverTasks' = OverTasks \cup {k}
          /\ k \in RunningTasks
      BY <1>3, <2>1, <2>2, <2>3, TaskIsPair DEF RunningTasks, OverTasks, Running
    <2>5. QED
      BY <1>3, <2>1, <2>4 DEF Line!Finish, h
  <1>4. QED
    BY <1>1, <1>2, <1>3

\* Every await of a render finishes its task or changes nothing of the line.
LEMMA PdfjsFinishes ==
  ASSUME IInv, NEW k \in Tasks, Pdfjs(k)
  PROVE  \/ k \in RunningTasks /\ Line!Finish(k)
         \/ UNCHANGED <<queue, RunningTasks, OverTasks>>
  <1>1. at[k] \in Running
    BY DEF Pdfjs, LibraryResolved, DocumentResolved, PageResolved, PaintResolved, Running
  <1>2. ASSUME NEW from \in Running, NEW to \in Running, Proceed(k, from, to)
        PROVE  UNCHANGED <<queue, RunningTasks, OverTasks>>
    BY <1>1, <1>2, TaskIsPair DEF Proceed, IInv, TypeOK, RunningTasks, OverTasks, Running
  <1>3. Settle(k) \/ \E from, to \in Running : Proceed(k, from, to)
    BY DEF Pdfjs, LibraryResolved, DocumentResolved, PageResolved, PaintResolved, GiveUp, Catch, Running
  <1>4. QED
    BY <1>1, <1>2, <1>3, SettleFinishes

\* The render queue implements RenderLine: renders start in the order their
\* thumbnails came, as soon as a slot is free, and none starts twice.
THEOREM Refinement == Spec => ImplementsRenderLine
  <1>1. Init => Line!Init
    BY TaskIsPair DEF Init, Line!Init, RunningTasks, OverTasks, Running
  <1>2. IInv /\ [Next]_vars => [Line!Next]_<<queue, RunningTasks, OverTasks>>
    <2> SUFFICES ASSUME IInv, [Next]_vars
                 PROVE  Line!Next \/ UNCHANGED <<queue, RunningTasks, OverTasks>>
      OBVIOUS
    <2>1. ASSUME NEW t \in PdfThumbs, MountPdfThumb(t)
          PROVE  Line!Next
      BY <2>1, MountArrives DEF Line!Next
    <2>2. ASSUME NEW t \in PdfCanvasThumbs, MountPdfCanvasThumb(t)
          PROVE  UNCHANGED <<queue, RunningTasks, OverTasks>>
      <3>1. <<t, mounts[t] + 1>> \in Tasks /\ <<t, mounts[t] + 1>> \notin QueuedTasks
        BY <2>2, MountsAreTasks, TaskIsPair, ConstantsOK DEF MountPdfCanvasThumb, IInv, Thumbs
      <3>2. queue' = queue /\ at' = [at EXCEPT ![<<t, mounts[t] + 1>>] = "lib"]
        BY <2>2 DEF MountPdfCanvasThumb
      <3>3. QED
        BY <3>1, <3>2, TaskIsPair DEF IInv, TypeOK, RunningTasks, OverTasks
    <2>3. ASSUME NEW t \in Thumbs, Unmount(t)
          PROVE  Line!Next \/ UNCHANGED <<queue, RunningTasks, OverTasks>>
      BY <2>3, UnmountLeaves DEF Line!Next
    <2>4. ASSUME NEW kind \in Kinds, LibraryLoads(kind)
          PROVE  UNCHANGED <<queue, RunningTasks, OverTasks>>
      BY <2>4 DEF LibraryLoads, RunningTasks, OverTasks
    <2>5. ASSUME NEW k \in Tasks, Pdfjs(k)
          PROVE  Line!Next \/ UNCHANGED <<queue, RunningTasks, OverTasks>>
      BY <2>5, PdfjsFinishes DEF Line!Next
    <2>6. CASE UNCHANGED vars
      BY <2>6 DEF vars, RunningTasks, OverTasks
    <2>7. QED
      BY <2>1, <2>2, <2>3, <2>4, <2>5, <2>6 DEF Next
  <1>3. QED
    BY <1>1, <1>2, Invariance, PTL DEF Spec, ImplementsRenderLine, Line!Spec

-----------------------------------------------------------------------------
(* The thumbnails' URLs: the inductive invariant. *)

\* The assumption on the constants, spelt out.
LEMMA UrlsConstants ==
  /\ Previewable \subseteq Files /\ Thumbnailed \subseteq Files /\ Matching \subseteq Files
  /\ {TTL, UrlLife, MaxNow, MaxLists, MaxLate} \subseteq Nat /\ TTL < UrlLife
  /\ {Sent, Error, None} \cap (0..MaxNow) = {} /\ None \notin {Sent, Error}
  BY UrlsConstantsOK DEF Urls!ConstantsOK

\* What thumbnail t of file f on screen pg keeps about its request is true.
Says(f, t, pg) ==
  /\ t \in Urls!Thumb
  /\ t.loading <=> t.req # None
  /\ t.watch => ~t.fetched
  /\ f \in Urls!Pictured(pg) => Urls!IsServed(t) \/ t.retried
  /\ pg = "modal" /\ (t.watch \/ t.req # None) => f \in Thumbnailed

\* Every thumbnail does.
ThumbnailsSay == \A f \in Files : thumb[f] # None => Says(f, thumb[f], page)

\* An entry of the cache that was brought in time is used up before its URL is.
EntriesExpireFirst ==
  \A f \in Files : cache[f] # None =>
    (Urls!InTime(cache[f].url, cache[f].arrived) =>
       cache[f].expiresAt <= cache[f].url + UrlLife)

\* A list that the server has answered was read after the last deletion, or
\* knows that it was not.
ListsKnowTheirAge ==
  \A i \in DOMAIN lists :
    lists[i].files # None => lists[i].files \subseteq alive \/ lists[i].stale

ListInv == ListsKnowTheirAge /\ Urls!DeletedFilesShownOnlyOutdated
ThumbInv == ThumbnailsSay

UrlsIInv == Urls!TypeOK /\ ThumbInv /\ EntriesExpireFirst /\ ListInv


\* Before anything is fetched the invariant holds.
LEMMA UrlsInitIInv == Urls!Init => UrlsIInv
  <1> SUFFICES ASSUME Urls!Init PROVE UrlsIInv
    OBVIOUS
  <1> USE UrlsConstants
  <1>1. Urls!TypeOK
    <2>1. now \in Urls!Times
      <3>1. now = 0 /\ MaxNow \in Nat
        BY DEF Urls!Init
      <3>2. QED
        BY ONLY <3>1 DEF Urls!Times
    <2>5. lists \in Seq(Urls!List)
      BY EmptySeq DEF Urls!Init
    <2>2. thumb \in [Files -> Urls!Thumb \cup {None}]
      BY DEF Urls!Init
    <2>3. late \in [Files -> SUBSET (Urls!Request \ {Error})]
      BY DEF Urls!Init
    <2>4. cache \in [Files -> Urls!Entry \cup {None}]
      BY DEF Urls!Init
    <2>6. QED
      BY <2>1, <2>2, <2>3, <2>4, <2>5 DEF Urls!Init, Urls!TypeOK
  <1>2. ThumbInv /\ EntriesExpireFirst
    BY DEF Urls!Init, ThumbInv, ThumbnailsSay, EntriesExpireFirst
  <1>3. ListInv
    <2>1. userFiles = {} /\ \A i \in DOMAIN lists : FALSE
      <3>1. lists = <<>> /\ userFiles = {}
        BY DEF Urls!Init
      <3>2. Len(lists) = 0 /\ DOMAIN lists = 1..Len(lists)
        BY <3>1
      <3>3. QED
        BY <3>1, <3>2
    <2>2. QED
      BY <2>1 DEF ListInv, ListsKnowTheirAge, Urls!DeletedFilesShownOnlyOutdated
  <1>4. QED
    BY <1>1, <1>2, <1>3 DEF UrlsIInv

-----------------------------------------------------------------------------
(* A thumbnail and its URL. *)

\* The cache gives a URL or nothing.
LEMMA CachedFacts ==
  ASSUME Urls!TypeOK, NEW f \in Files
  PROVE  Urls!getCachedUrl(f) \in Urls!Times \cup {None}
  BY DEF Urls!TypeOK, Urls!getCachedUrl, Urls!Entry

\* What is not a time is no answer.
LEMMA NoAnswer == None \notin Urls!Times /\ Sent \notin Urls!Times /\ Error \notin Urls!Times
  BY UrlsConstants DEF Urls!Times

\* A thumbnail mounts with a URL from the cache, or watching for one.
LEMMA FreshSays ==
  ASSUME Urls!TypeOK, NEW f \in Files, NEW pg
  PROVE  /\ Urls!Fresh(f, pg) \in Urls!Thumb
         /\ Says(f, Urls!Fresh(f, pg), pg)
  <1>1. Urls!getCachedUrl(f) \in Urls!Times \cup {None}
    BY CachedFacts
  <1>2. QED
    BY <1>1, NoAnswer DEF Urls!Fresh, Says, Urls!Thumb, Urls!IsServed, Urls!Pictured

\* Whatever mounts and unmounts, thumbnails and late answers keep what they say.
LEMMA RemountKeeps ==
  ASSUME Urls!TypeOK, ThumbInv, NEW loading, NEW files, NEW text,
         Urls!Remount(page', loading, files, text), UNCHANGED now
  PROVE  /\ ThumbInv'
         /\ thumb' \in [Files -> Urls!Thumb \cup {None}]
         /\ late' \in [Files -> SUBSET (Urls!Request \ {Error})]
  <1> DEFINE shown == Urls!ShownFiles(page', loading, files, text)
             Gone(f) == thumb[f] # None /\ (f \notin shown \/ page' # page)
  <1>1. /\ thumb' = [f \in Files |-> IF f \notin shown THEN None
                                     ELSE IF thumb[f] = None \/ Gone(f) THEN Urls!Fresh(f, page')
                                     ELSE thumb[f]]
        /\ late' = [f \in Files |-> IF Gone(f) /\ page = "modal" /\ thumb[f].req # None
                                      THEN late[f] \cup ({thumb[f].req} \ {Error}) ELSE late[f]]
    BY DEF Urls!Remount
  <1> HIDE DEF shown
  <1>2. ASSUME NEW f \in Files
        PROVE  /\ thumb'[f] \in Urls!Thumb \cup {None}
               /\ thumb'[f] # None => Says(f, thumb'[f], page')
    <2>1. CASE f \notin shown
      BY <1>1, <2>1
    <2>2. CASE f \in shown /\ (thumb[f] = None \/ Gone(f))
      BY <1>1, <2>2, FreshSays
    <2>3. CASE f \in shown /\ ~(thumb[f] = None \/ Gone(f))
      <3>1. thumb'[f] = thumb[f] /\ page' = page /\ thumb[f] # None
        BY <1>1, <2>3
      <3>2. QED
        BY <3>1 DEF Urls!TypeOK, ThumbInv, ThumbnailsSay
    <2>4. QED
      BY <2>1, <2>2, <2>3
  <1>3. ASSUME NEW f \in Files
        PROVE  late'[f] \in SUBSET (Urls!Request \ {Error})
    <2>1. late[f] \in SUBSET (Urls!Request \ {Error})
      BY DEF Urls!TypeOK
    <2>2. ASSUME thumb[f] # None, thumb[f].req # None
          PROVE  thumb[f].req \in Urls!Request
      BY <2>2 DEF Urls!TypeOK, Urls!Thumb
    <2>3. QED
      BY <1>1, <2>1, <2>2
  <1>4. QED
    BY <1>1, <1>2, <1>3 DEF ThumbInv, ThumbnailsSay, Says

\* One thumbnail changes, and says the truth.
LEMMA ThumbnailKeeps ==
  ASSUME Urls!TypeOK, ThumbInv, NEW f \in Files, NEW t, Says(f, t, page),
         thumb' = [thumb EXCEPT ![f] = t], UNCHANGED <<now, page, late>>
  PROVE  ThumbInv' /\ thumb' \in [Files -> Urls!Thumb \cup {None}]
  <1>1. t \in Urls!Thumb
    BY DEF Says
  <1>2. thumb' \in [Files -> Urls!Thumb \cup {None}]
    BY <1>1 DEF Urls!TypeOK
  <1>3. \A g \in Files : thumb'[g] = IF g = f THEN t ELSE thumb[g]
    BY DEF Urls!TypeOK
  <1>4. ThumbnailsSay'
    BY <1>3 DEF ThumbInv, ThumbnailsSay, Says
  <1>5. QED
    BY <1>2, <1>4 DEF ThumbInv

\* An answer that fills the cache makes an entry that expires before its URL.
LEMMA CachingKeeps ==
  ASSUME Urls!TypeOK, EntriesExpireFirst, NEW f \in Files, NEW url \in Urls!Times,
         Urls!setCachedUrl(f, url)
  PROVE  /\ EntriesExpireFirst'
         /\ cache' \in [Files -> Urls!Entry \cup {None}]
  <1> DEFINE entry == [url |-> url, expiresAt |-> now + TTL, arrived |-> now]
  <1>1. /\ now \in Nat /\ url \in Nat /\ TTL \in Nat /\ UrlLife \in Nat
        /\ now \in Urls!Times
    <2>1. now \in Urls!Times
      BY DEF Urls!TypeOK
    <2>2. QED
      BY <2>1, UrlsConstants DEF Urls!Times
  <1>2. /\ entry \in Urls!Entry
        /\ Urls!InTime(entry.url, entry.arrived) => entry.expiresAt <= entry.url + UrlLife
    BY <1>1 DEF Urls!Entry, Urls!InTime
  <1>3. cache' = [cache EXCEPT ![f] = entry]
    BY DEF Urls!setCachedUrl
  <1> HIDE DEF entry
  <1>4. QED
    BY <1>2, <1>3 DEF Urls!TypeOK, EntriesExpireFirst

\* A thumbnail that takes the cached URL or asks for one says so.
LEMMA TakeOrAskSays ==
  ASSUME Urls!TypeOK, ThumbInv, NEW f \in Files, Urls!TakeOrAsk(f), UNCHANGED <<now, page, late>>,
         page = "modal" => f \in Thumbnailed
  PROVE  ThumbInv' /\ thumb' \in [Files -> Urls!Thumb \cup {None}]
  <1> DEFINE url == Urls!getCachedUrl(f)
             t == [url |-> url, loading |-> url = None, error |-> FALSE, fetched |-> TRUE,
                   watch |-> FALSE, timer |-> FALSE, retried |-> FALSE,
                   req |-> IF url = None THEN Sent ELSE None]
  <1>1. url \in Urls!Times \cup {None}
    BY CachedFacts
  <1> HIDE DEF url
  <1>2. Says(f, t, page)
    BY <1>1, NoAnswer, UrlsConstants DEF Says, Urls!Thumb, Urls!Request, Urls!IsServed
  <1>3. thumb' = [thumb EXCEPT ![f] = t]
    BY DEF Urls!TakeOrAsk, url
  <1>4. QED
    BY <1>2, <1>3, ThumbnailKeeps

-----------------------------------------------------------------------------
(* Steps. *)

\* A step of one thumbnail or of its request leaves the list alone.
LEMMA IdleKeeps ==
  ASSUME UrlsIInv, UNCHANGED Urls!Idle, ThumbInv', EntriesExpireFirst',
         thumb' \in [Files -> Urls!Thumb \cup {None}],
         late' \in [Files -> SUBSET (Urls!Request \ {Error})],
         cache' \in [Files -> Urls!Entry \cup {None}]
  PROVE  UrlsIInv'
  <1>1. Urls!TypeOK'
    BY DEF UrlsIInv, Urls!TypeOK, Urls!Idle, Urls!list, Urls!box
  <1>2. ListInv'
    BY DEF UrlsIInv, ListInv, ListsKnowTheirAge, Urls!DeletedFilesShownOnlyOutdated,
           Urls!Idle, Urls!list
  <1>3. QED
    BY <1>1, <1>2 DEF UrlsIInv

\* A card, in view or not, its timer and its retry button.
LEMMA CardStep ==
  ASSUME UrlsIInv, NEW f \in Files,
         Urls!CardEnters(f) \/ Urls!CardLeaves(f) \/ Urls!CardTimer(f) \/ Urls!ThumbnailEnters(f) \/ Urls!retry(f)
  PROVE  UrlsIInv'
  <1>1. /\ Urls!TypeOK /\ ThumbInv /\ EntriesExpireFirst
        /\ thumb[f] # None /\ UNCHANGED <<Urls!Idle, late, cache>>
    BY DEF UrlsIInv, Urls!CardEnters, Urls!CardLeaves, Urls!CardTimer, Urls!ThumbnailEnters,
           Urls!retry
  <1>2. UNCHANGED <<now, page, late>>
    BY <1>1 DEF Urls!Idle
  <1>3. Says(f, thumb[f], page) /\ thumb[f] \in Urls!Thumb
    BY <1>1 DEF ThumbInv, ThumbnailsSay, Says
  <1>4. ThumbInv' /\ thumb' \in [Files -> Urls!Thumb \cup {None}]
    <2>1. ASSUME Urls!CardEnters(f) PROVE ThumbInv' /\ thumb' \in [Files -> Urls!Thumb \cup {None}]
      <3> DEFINE t == [thumb[f] EXCEPT !.timer = TRUE]
      <3>1. Says(f, t, page) /\ thumb' = [thumb EXCEPT ![f] = t]
        BY <1>3, <2>1 DEF Urls!CardEnters, Says, Urls!Thumb, Urls!IsServed
      <3>2. QED
        BY <1>1, <1>2, <3>1, ThumbnailKeeps
    <2>2. ASSUME Urls!CardLeaves(f) PROVE ThumbInv' /\ thumb' \in [Files -> Urls!Thumb \cup {None}]
      <3> DEFINE t == [thumb[f] EXCEPT !.timer = FALSE]
      <3>1. Says(f, t, page) /\ thumb' = [thumb EXCEPT ![f] = t]
        BY <1>3, <2>2 DEF Urls!CardLeaves, Says, Urls!Thumb, Urls!IsServed
      <3>2. QED
        BY <1>1, <1>2, <3>1, ThumbnailKeeps
    <2>3. ASSUME Urls!CardTimer(f) PROVE ThumbInv' /\ thumb' \in [Files -> Urls!Thumb \cup {None}]
      <3>1. CASE thumb[f].fetched
        <4> DEFINE t == [thumb[f] EXCEPT !.timer = FALSE]
        <4>1. Says(f, t, page) /\ thumb' = [thumb EXCEPT ![f] = t]
          BY <1>3, <2>3, <3>1 DEF Urls!CardTimer, Says, Urls!Thumb, Urls!IsServed
        <4>2. QED
          BY <1>1, <1>2, <4>1, ThumbnailKeeps
      <3>2. CASE ~thumb[f].fetched
        BY <1>1, <1>2, <2>3, <3>2, TakeOrAskSays DEF Urls!CardTimer
      <3>3. QED
        BY <3>1, <3>2
    <2>4. ASSUME Urls!ThumbnailEnters(f) PROVE ThumbInv' /\ thumb' \in [Files -> Urls!Thumb \cup {None}]
      BY <1>1, <1>2, <1>3, <2>4, TakeOrAskSays DEF Urls!ThumbnailEnters, Says
    <2>5. ASSUME Urls!retry(f) PROVE ThumbInv' /\ thumb' \in [Files -> Urls!Thumb \cup {None}]
      <3> DEFINE t == [thumb[f] EXCEPT !.error = FALSE, !.url = None, !.fetched = FALSE,
                                       !.retried = TRUE]
      <3>1. Says(f, t, page) /\ thumb' = [thumb EXCEPT ![f] = t]
        BY <1>3, <2>5 DEF Urls!retry, Says, Urls!Thumb, Urls!IsServed
      <3>2. QED
        BY <1>1, <1>2, <3>1, ThumbnailKeeps
    <2>6. QED
      BY <2>1, <2>2, <2>3, <2>4, <2>5
  <1>5. /\ late' \in [Files -> SUBSET (Urls!Request \ {Error})]
        /\ cache' \in [Files -> Urls!Entry \cup {None}]
        /\ EntriesExpireFirst'
    BY <1>1 DEF Urls!TypeOK, EntriesExpireFirst
  <1>6. QED
    BY <1>1, <1>4, <1>5, IdleKeeps

\* A request of a thumbnail is served, answered or lost.
LEMMA UrlStep ==
  ASSUME UrlsIInv, NEW f \in Files, Urls!UrlAnswer(f)
  PROVE  UrlsIInv'
  <1>1. /\ Urls!TypeOK /\ ThumbInv /\ EntriesExpireFirst
        /\ thumb[f] # None /\ thumb[f].req # None /\ UNCHANGED <<Urls!Idle, late>>
    BY NoAnswer, UrlsConstants DEF UrlsIInv, Urls!UrlAnswer, Urls!UrlServed,
                                     Urls!UrlArrives, Urls!UrlFails
  <1>2. UNCHANGED <<now, page, late>>
    BY <1>1 DEF Urls!Idle
  <1>3. Says(f, thumb[f], page) /\ thumb[f] \in Urls!Thumb
    BY <1>1 DEF ThumbInv, ThumbnailsSay, Says
  <1>4. late' \in [Files -> SUBSET (Urls!Request \ {Error})]
    BY <1>1 DEF Urls!TypeOK
  <1>5. ASSUME Urls!UrlServed(f) PROVE UrlsIInv'
    <2> DEFINE t == [thumb[f] EXCEPT !.req = IF f \in alive THEN now ELSE Error]
    <2>1. now \in Urls!Times
      BY <1>1 DEF Urls!TypeOK
    <2>2. Says(f, t, page) /\ thumb' = [thumb EXCEPT ![f] = t]
      BY <1>3, <1>5, <1>1, <2>1, NoAnswer, UrlsConstants
      DEF Urls!UrlServed, Says, Urls!Thumb, Urls!Request, Urls!IsServed
    <2>3. ThumbInv' /\ thumb' \in [Files -> Urls!Thumb \cup {None}]
      BY <1>1, <1>2, <2>2, ThumbnailKeeps
    <2>4. /\ cache' \in [Files -> Urls!Entry \cup {None}]
          /\ EntriesExpireFirst'
      BY <1>1, <1>5 DEF Urls!TypeOK, EntriesExpireFirst, Urls!UrlServed
    <2>5. QED
      BY <1>1, <1>4, <2>3, <2>4, IdleKeeps
  <1>6. ASSUME Urls!UrlArrives(f) PROVE UrlsIInv'
    <2> DEFINE t == [thumb[f] EXCEPT !.url = thumb[f].req, !.loading = FALSE, !.req = None]
    <2>1. thumb[f].req \in Urls!Times /\ Urls!setCachedUrl(f, thumb[f].req)
      BY <1>6 DEF Urls!UrlArrives
    <2>2. Says(f, t, page) /\ thumb' = [thumb EXCEPT ![f] = t]
      BY <1>3, <1>6, <2>1, NoAnswer DEF Urls!UrlArrives, Says, Urls!Thumb, Urls!IsServed
    <2>3. ThumbInv' /\ thumb' \in [Files -> Urls!Thumb \cup {None}]
      BY <1>1, <1>2, <2>2, ThumbnailKeeps
    <2>4. /\ cache' \in [Files -> Urls!Entry \cup {None}]
          /\ EntriesExpireFirst'
      BY <1>1, <1>3, <2>1, CachingKeeps
    <2>5. QED
      BY <1>1, <1>4, <2>3, <2>4, IdleKeeps
  <1>7. ASSUME Urls!UrlFails(f) PROVE UrlsIInv'
    <2> DEFINE t == [thumb[f] EXCEPT !.error = TRUE, !.fetched = FALSE, !.loading = FALSE,
                                     !.req = None]
    <2>1. Says(f, t, page) /\ thumb' = [thumb EXCEPT ![f] = t]
      BY <1>3, <1>7, NoAnswer DEF Urls!UrlFails, Says, Urls!Thumb, Urls!IsServed
    <2>2. ThumbInv' /\ thumb' \in [Files -> Urls!Thumb \cup {None}]
      BY <1>1, <1>2, <2>1, ThumbnailKeeps
    <2>3. /\ cache' \in [Files -> Urls!Entry \cup {None}]
          /\ EntriesExpireFirst'
      BY <1>1, <1>7 DEF Urls!TypeOK, EntriesExpireFirst, Urls!UrlFails
    <2>4. QED
      BY <1>1, <1>4, <2>2, <2>3, IdleKeeps
  <1>8. QED
    BY <1>5, <1>6, <1>7 DEF Urls!UrlAnswer

\* The request of a thumbnail that is gone is served, answered or lost.
LEMMA LateStep ==
  ASSUME UrlsIInv, NEW f \in Files, Urls!LateAnswer(f)
  PROVE  UrlsIInv'
  <1>1. Urls!TypeOK /\ ThumbInv /\ EntriesExpireFirst /\ UNCHANGED <<Urls!Idle, thumb>>
    BY DEF UrlsIInv, Urls!LateAnswer, Urls!LateServed, Urls!LateArrives
  <1>2. late[f] \in SUBSET (Urls!Request \ {Error})
    BY <1>1 DEF Urls!TypeOK, ThumbInv
  <1>3. ASSUME NEW more \in SUBSET (Urls!Request \ {Error}), late' = [late EXCEPT ![f] = more]
        PROVE  /\ late' \in [Files -> SUBSET (Urls!Request \ {Error})]
               /\ thumb' \in [Files -> Urls!Thumb \cup {None}]
               /\ ThumbInv'
    <2>1. late' \in [Files -> SUBSET (Urls!Request \ {Error})] /\ thumb' \in [Files -> Urls!Thumb \cup {None}]
      BY <1>1, <1>3 DEF Urls!TypeOK
    <2>2. ThumbnailsSay'
      BY <1>1 DEF ThumbInv, ThumbnailsSay, Urls!Idle
    <2>3. QED
      BY <2>1, <2>2 DEF ThumbInv
  <1>4. ASSUME Urls!LateServed(f) PROVE UrlsIInv'
    <2> DEFINE more == (late[f] \ {Sent}) \cup {now}
    <2>1. now \in Urls!Times
      BY <1>1 DEF Urls!TypeOK
    <2>2. more \in SUBSET (Urls!Request \ {Error})
      BY <1>2, <2>1, NoAnswer DEF Urls!Request
    <2>3. late' = [late EXCEPT ![f] = more]
      BY <1>4 DEF Urls!LateServed
    <2>4. /\ cache' \in [Files -> Urls!Entry \cup {None}]
          /\ EntriesExpireFirst'
      BY <1>1, <1>4 DEF Urls!TypeOK, EntriesExpireFirst, Urls!LateServed
    <2> HIDE DEF more
    <2>5. QED
      BY <1>1, <1>3, <2>2, <2>3, <2>4, IdleKeeps
  <1>5. ASSUME NEW url \in late[f], Urls!LateArrives(f, url) PROVE UrlsIInv'
    <2> DEFINE more == late[f] \ {url}
    <2>1. /\ more \in SUBSET (Urls!Request \ {Error})
          /\ late' = [late EXCEPT ![f] = more]
      BY <1>2, <1>5 DEF Urls!LateArrives
    <2>2. /\ cache' \in [Files -> Urls!Entry \cup {None}]
          /\ EntriesExpireFirst'
      <3>1. CASE url \in Urls!Times
        BY <1>1, <1>2, <1>5, <3>1, CachingKeeps DEF Urls!LateArrives
      <3>2. CASE url \notin Urls!Times
        BY <1>1, <1>5, <3>2 DEF Urls!LateArrives, Urls!TypeOK, EntriesExpireFirst
      <3>3. QED
        BY <3>1, <3>2
    <2> HIDE DEF more
    <2>3. QED
      BY <1>1, <1>3, <2>1, <2>2, IdleKeeps
  <1>6. QED
    BY <1>4, <1>5 DEF Urls!LateAnswer

\* The screen changes, and with it what is mounted; the list and the cache may too.
LEMMA ScreenStep ==
  ASSUME UrlsIInv, NEW loading, NEW files, NEW text, Urls!Remount(page', loading, files, text),
         page' \in {"elsewhere", "files", "modal"},
         alive' \in SUBSET Files, userFiles' \in SUBSET Files, loadingFiles' \in BOOLEAN,
         lists' \in Seq(Urls!List), confirm' \in BOOLEAN,
         deleting' \in {"no", "sent", "served", "failed"},
         search' \in {"", "text"}, debouncedSearch' \in {"", "text"}, outdated' \in BOOLEAN,
         cache' = cache \/ Urls!clearUrlCache, UNCHANGED now, ListInv'
  PROVE  UrlsIInv'
  <1>1. Urls!TypeOK /\ ThumbInv /\ EntriesExpireFirst
    BY DEF UrlsIInv
  <1>2. /\ ThumbInv'
        /\ thumb' \in [Files -> Urls!Thumb \cup {None}]
        /\ late' \in [Files -> SUBSET (Urls!Request \ {Error})]
    BY <1>1, RemountKeeps
  <1>3. /\ cache' \in [Files -> Urls!Entry \cup {None}]
        /\ EntriesExpireFirst'
    BY <1>1 DEF Urls!clearUrlCache, Urls!TypeOK, EntriesExpireFirst
  <1>4. Urls!TypeOK'
    BY <1>1, <1>2, <1>3 DEF Urls!TypeOK
  <1>5. QED
    BY <1>2, <1>3, <1>4 DEF UrlsIInv

\* A list request joins the others.
LEMMA AskedKeeps ==
  ASSUME Urls!TypeOK, ListInv, Urls!fetchUserFiles, UNCHANGED userFiles,
         UNCHANGED outdated, alive' = alive \/ alive' = Files
  PROVE  ListInv' /\ lists' \in Seq(Urls!List) /\ loadingFiles' \in BOOLEAN
  <1> DEFINE asked == [files |-> None, stale |-> FALSE]
  <1>1. lists \in Seq(Urls!List) /\ asked \in Urls!List /\ lists' = Append(lists, asked)
    BY DEF Urls!TypeOK, Urls!fetchUserFiles, Urls!List
  <1>2. /\ lists' \in Seq(Urls!List) /\ DOMAIN lists' = 1..(Len(lists) + 1)
        /\ \A i \in 1..(Len(lists) + 1) : lists'[i] = IF i <= Len(lists) THEN lists[i] ELSE asked
    BY <1>1
  <1>3. ListsKnowTheirAge'
    <2>1. ASSUME NEW i \in DOMAIN lists', lists'[i].files # None
          PROVE  lists'[i].files \subseteq alive' \/ lists'[i].stale
      <3>1. i \in DOMAIN lists /\ lists'[i] = lists[i] /\ lists[i] \in Urls!List
        BY <1>1, <1>2, <2>1
      <3>2. lists[i].files \subseteq alive \/ lists[i].stale
        BY <2>1, <3>1 DEF ListInv, ListsKnowTheirAge
      <3>3. lists[i].files \subseteq Files
        BY <2>1, <3>1 DEF Urls!List
      <3>4. QED
        BY <3>1, <3>2, <3>3
    <2>2. QED
      BY <2>1 DEF ListsKnowTheirAge
  <1>4. Urls!DeletedFilesShownOnlyOutdated'
    BY DEF ListInv, Urls!DeletedFilesShownOnlyOutdated, Urls!TypeOK
  <1>5. QED
    BY <1>2, <1>3, <1>4 DEF ListInv, Urls!fetchUserFiles

\* An answer or a failure takes a list request off.
LEMMA TakenOffKeeps ==
  ASSUME Urls!TypeOK, ListsKnowTheirAge, NEW i \in DOMAIN lists, lists' = RemoveAt(lists, i),
         UNCHANGED alive
  PROVE  ListsKnowTheirAge' /\ lists' \in Seq(Urls!List)
  <1>1. lists \in Seq(Urls!List) /\ i \in 1..Len(lists)
    <2>1. lists \in Seq(Urls!List)
      BY DEF Urls!TypeOK
    <2>2. QED
      BY ONLY <2>1, i \in DOMAIN lists
  <1>2. /\ lists' \in Seq(Urls!List) /\ Len(lists') = Len(lists) - 1
        /\ \A j \in 1..(Len(lists) - 1) : lists'[j] = IF j < i THEN lists[j] ELSE lists[j + 1]
    BY <1>1, RemoveAtFacts
  <1>3. ASSUME NEW j \in DOMAIN lists'
        PROVE  \E k \in DOMAIN lists : lists'[j] = lists[k]
    <2>1. j \in 1..(Len(lists) - 1) /\ Len(lists) \in Nat
      BY <1>1, <1>2
    <2>2. j \in DOMAIN lists /\ j + 1 \in DOMAIN lists
      BY <1>1, <2>1
    <2>3. QED
      BY <1>2, <2>1, <2>2
  <1>4. QED
    BY <1>2, <1>3 DEF ListsKnowTheirAge

\* Every step of the screen, of the list and of deleting.
LEMMA ListStep ==
  ASSUME UrlsIInv,
         \/ \E pg \in {"files", "modal"} : Urls!Open(pg)
         \/ Urls!Leave \/ Urls!FilesShared \/ Urls!ListAnswer \/ Urls!SearchTimer \/ Urls!DeleteAnswer
  PROVE  UrlsIInv'
  <1>1. Urls!TypeOK /\ ListInv
    BY DEF UrlsIInv
  <1>2. ASSUME NEW pg \in {"files", "modal"}, Urls!Open(pg) PROVE UrlsIInv'
    <2>1. ListInv' /\ lists' \in Seq(Urls!List) /\ loadingFiles' \in BOOLEAN
      BY <1>1, <1>2, AskedKeeps DEF Urls!Open
    <2>2. Urls!Remount(page', TRUE, userFiles, "") /\ page' \in {"elsewhere", "files", "modal"}
      BY <1>2 DEF Urls!Open
    <2>3. QED
      BY <1>1, <1>2, <2>1, <2>2, ScreenStep DEF Urls!Open, Urls!TypeOK
  <1>3. ASSUME Urls!Leave PROVE UrlsIInv'
    <2>1. ListInv'
      BY <1>1, <1>3 DEF Urls!Leave, Urls!list, ListInv, ListsKnowTheirAge,
                        Urls!DeletedFilesShownOnlyOutdated
    <2>2. Urls!Remount(page', loadingFiles, userFiles, "") /\ page' \in {"elsewhere", "files", "modal"}
      BY <1>3 DEF Urls!Leave
    <2>3. QED
      BY <1>1, <1>3, <2>1, <2>2, ScreenStep DEF Urls!Leave, Urls!list, Urls!box, Urls!TypeOK
  <1>4. ASSUME Urls!FilesShared PROVE UrlsIInv'
    <2>1. ListInv' /\ lists' \in Seq(Urls!List) /\ loadingFiles' \in BOOLEAN
      BY <1>1, <1>4, AskedKeeps DEF Urls!FilesShared
    <2>2. Urls!Remount(page', TRUE, userFiles, debouncedSearch)
      BY <1>4 DEF Urls!FilesShared
    <2>3. QED
      BY <1>1, <1>4, <2>1, <2>2, ScreenStep DEF Urls!FilesShared, Urls!box, Urls!TypeOK
  <1>5. ASSUME NEW i \in DOMAIN lists, Urls!ListServed(i) PROVE UrlsIInv'
    <2> DEFINE served == [lists[i] EXCEPT !.files = alive]
    <2>1. lists \in Seq(Urls!List) /\ i \in 1..Len(lists) /\ lists[i] \in Urls!List /\ alive \in SUBSET Files
      <3>1. lists \in Seq(Urls!List) /\ alive \in SUBSET Files
        BY <1>1 DEF Urls!TypeOK
      <3>2. QED
        BY ONLY <3>1, i \in DOMAIN lists
    <2>2. served \in Urls!List /\ served.files = alive
      BY <2>1 DEF Urls!List
    <2>3. lists' = [lists EXCEPT ![i] = served]
      BY <1>5 DEF Urls!ListServed
    <2> HIDE DEF served
    <2>4. lists' \in Seq(Urls!List) /\ DOMAIN lists' = DOMAIN lists
      BY <2>1, <2>2, <2>3
    <2>5. ListInv'
      BY <1>1, <1>5, <2>1, <2>2, <2>3, <2>4
      DEF Urls!ListServed, ListInv, ListsKnowTheirAge, Urls!DeletedFilesShownOnlyOutdated
    <2>6. Urls!TypeOK'
      BY <1>1, <1>5, <2>4 DEF Urls!ListServed, Urls!TypeOK, Urls!box
    <2>7. ThumbInv' /\ EntriesExpireFirst'
      BY <1>5 DEF UrlsIInv, Urls!ListServed, ThumbInv, ThumbnailsSay,
                  EntriesExpireFirst
    <2>8. QED
      BY <2>5, <2>6, <2>7 DEF UrlsIInv
  <1>6. ASSUME NEW i \in DOMAIN lists, Urls!ListArrives(i) PROVE UrlsIInv'
    <2>1. lists[i] \in Urls!List /\ lists[i].files # None
      <3>1. lists \in Seq(Urls!List) /\ lists[i].files # None
        BY <1>1, <1>6 DEF Urls!TypeOK, Urls!ListArrives
      <3>2. QED
        BY ONLY <3>1, i \in DOMAIN lists
    <2>2. lists[i].files \in SUBSET Files /\ lists[i].stale \in BOOLEAN
      BY <2>1 DEF Urls!List
    <2>3. ListsKnowTheirAge' /\ lists' \in Seq(Urls!List)
      BY <1>1, <1>6, TakenOffKeeps DEF Urls!ListArrives, ListInv, RemoveAt, Urls!RemoveAt
    <2>4. Urls!DeletedFilesShownOnlyOutdated'
      BY <1>1, <1>6, <2>1 DEF Urls!ListArrives, ListInv, ListsKnowTheirAge,
                              Urls!DeletedFilesShownOnlyOutdated
    <2>5. Urls!Remount(page', FALSE, lists[i].files, debouncedSearch)
      BY <1>6 DEF Urls!ListArrives
    <2>6. ListInv'
      BY <2>3, <2>4 DEF ListInv
    <2>7. QED
      BY <1>1, <1>6, <2>2, <2>3, <2>5, <2>6, ScreenStep DEF Urls!ListArrives, Urls!box,
                                                            Urls!TypeOK
  <1>7. ASSUME NEW i \in DOMAIN lists, Urls!ListFails(i) PROVE UrlsIInv'
    <2>1. ListsKnowTheirAge' /\ lists' \in Seq(Urls!List)
      BY <1>1, <1>7, TakenOffKeeps DEF Urls!ListFails, ListInv, RemoveAt, Urls!RemoveAt
    <2>2. ListInv'
      BY <1>1, <1>7, <2>1 DEF Urls!ListFails, ListInv, Urls!DeletedFilesShownOnlyOutdated
    <2>3. Urls!Remount(page', FALSE, userFiles, debouncedSearch)
      BY <1>7 DEF Urls!ListFails
    <2>4. QED
      BY <1>1, <1>7, <2>1, <2>2, <2>3, ScreenStep DEF Urls!ListFails, Urls!box, Urls!TypeOK
  <1>8. ASSUME Urls!SearchTimer PROVE UrlsIInv'
    <2>1. ListInv'
      BY <1>1, <1>8 DEF Urls!SearchTimer, Urls!list, ListInv, ListsKnowTheirAge,
                        Urls!DeletedFilesShownOnlyOutdated
    <2>2. Urls!Remount(page', loadingFiles, userFiles, search)
      BY <1>8 DEF Urls!SearchTimer
    <2>3. QED
      BY <1>1, <1>8, <2>1, <2>2, ScreenStep DEF Urls!SearchTimer, Urls!list, Urls!TypeOK
  <1>9. ASSUME Urls!DeleteServed PROVE UrlsIInv'
    <2>1. lists \in Seq(Urls!List) /\ alive \in SUBSET Files
      BY <1>1 DEF Urls!TypeOK
    <2>2. \/ UNCHANGED <<alive, lists, outdated>>
          \/ /\ alive' = {} /\ outdated' = TRUE
             /\ lists' = [i \in DOMAIN lists |->
                            [lists[i] EXCEPT !.stale = lists[i].stale \/ lists[i].files # None]]
      BY <1>9 DEF Urls!DeleteServed
    <2>3. lists' \in Seq(Urls!List) /\ ListInv'
      <3>1. CASE UNCHANGED <<alive, lists, outdated>>
        BY <1>1, <1>9, <2>1, <3>1 DEF Urls!DeleteServed, ListInv, ListsKnowTheirAge,
                                      Urls!DeletedFilesShownOnlyOutdated
      <3>2. CASE /\ alive' = {} /\ outdated' = TRUE
                 /\ lists' = [i \in DOMAIN lists |->
                      [lists[i] EXCEPT !.stale = lists[i].stale \/ lists[i].files # None]]
        <4>1. \A i \in 1..Len(lists) :
                [lists[i] EXCEPT !.stale = lists[i].stale \/ lists[i].files # None] \in Urls!List
          <5>1. ASSUME NEW i \in 1..Len(lists)
                PROVE  [lists[i] EXCEPT !.stale = lists[i].stale \/ lists[i].files # None] \in Urls!List
            <6>1. lists[i] \in Urls!List
              BY <2>1
            <6>2. (lists[i].stale \/ lists[i].files # None) \in BOOLEAN
              OBVIOUS
            <6>3. QED
              BY <6>1, <6>2 DEF Urls!List
          <5>2. QED
            BY <5>1
        <4>2. DOMAIN lists = 1..Len(lists) /\ Len(lists) \in Nat
          BY <2>1
        <4>3. lists' \in Seq(Urls!List) /\ DOMAIN lists' = DOMAIN lists
          BY <3>2, <4>1, <4>2
        <4>4. ASSUME NEW i \in DOMAIN lists'
              PROVE  lists'[i].files # None => lists'[i].stale
          <5>1. i \in DOMAIN lists /\ lists[i] \in Urls!List
            BY <2>1, <4>3
          <5>2. QED
            BY <3>2, <5>1 DEF Urls!List
        <4>5. QED
          BY <3>2, <4>3, <4>4 DEF ListInv, ListsKnowTheirAge, Urls!DeletedFilesShownOnlyOutdated
      <3>3. QED
        BY <2>2, <3>1, <3>2
    <2>4. /\ deleting' \in {"no", "sent", "served", "failed"} /\ alive' \in SUBSET Files
          /\ outdated' \in BOOLEAN
      BY <1>1, <1>9, <2>2 DEF Urls!DeleteServed, Urls!TypeOK
    <2>5. Urls!TypeOK'
      BY <1>1, <1>9, <2>3, <2>4 DEF Urls!DeleteServed, Urls!TypeOK, Urls!box
    <2>6. ThumbInv' /\ EntriesExpireFirst'
      BY <1>9 DEF UrlsIInv, Urls!DeleteServed, ThumbInv, ThumbnailsSay,
                  EntriesExpireFirst
    <2>7. QED
      BY <2>3, <2>5, <2>6 DEF UrlsIInv
  <1>10. ASSUME Urls!DeleteAnswered PROVE UrlsIInv'
    <2>1. ListInv'
      BY <1>1, <1>10 DEF Urls!DeleteAnswered, ListInv, ListsKnowTheirAge,
                         Urls!DeletedFilesShownOnlyOutdated
    <2>2. Urls!Remount(page', loadingFiles, {}, debouncedSearch)
      BY <1>10 DEF Urls!DeleteAnswered
    <2>3. QED
      BY <1>1, <1>10, <2>1, <2>2, ScreenStep DEF Urls!DeleteAnswered, Urls!box, Urls!TypeOK
  <1>11. ASSUME Urls!DeleteRefused PROVE UrlsIInv'
    BY <1>11 DEF Urls!DeleteRefused, UrlsIInv, Urls!TypeOK, Urls!list, Urls!box, ThumbInv,
                 ThumbnailsSay,
                 EntriesExpireFirst, ListInv, ListsKnowTheirAge,
                 Urls!DeletedFilesShownOnlyOutdated
  <1>12. QED
    BY <1>2, <1>3, <1>4, <1>5, <1>6, <1>7, <1>8, <1>9, <1>10, <1>11 DEF Urls!ListAnswer,
       Urls!DeleteAnswer

\* Time passes, and nothing else changes.
LEMMA TickStep ==
  ASSUME UrlsIInv, Urls!Tick
  PROVE  UrlsIInv'
  <1>1. now' \in Urls!Times
    <2>1. now \in Urls!Times /\ now < MaxNow /\ now' = now + 1
      BY DEF UrlsIInv, Urls!TypeOK, Urls!Tick
    <2>2. QED
      BY <2>1, UrlsConstants DEF Urls!Times
  <1>2. Urls!TypeOK'
    BY <1>1 DEF UrlsIInv, Urls!TypeOK, Urls!Tick, Urls!list, Urls!box
  <1>3. ThumbnailsSay' /\ EntriesExpireFirst' /\ ListInv'
    BY DEF UrlsIInv, Urls!Tick, Urls!list, ThumbInv, ThumbnailsSay, EntriesExpireFirst, ListInv,
           ListsKnowTheirAge, Urls!DeletedFilesShownOnlyOutdated
  <1>4. QED
    BY <1>2, <1>3 DEF UrlsIInv, ThumbInv

\* Typing, the modal of delete-all and the trash button touch no thumbnail.
LEMMA UserStep ==
  ASSUME UrlsIInv,
         \/ Urls!Type \/ Urls!AskDeleteAll \/ Urls!CancelDeleteAll \/ Urls!handleDeleteAll
         \/ \E f \in Files : Urls!handleDelete(f)
  PROVE  UrlsIInv'
  <1>1. /\ ThumbInv' /\ ListInv'
        /\ cache' = cache \/ \E f \in Files : Urls!removeCachedUrl(f)
    BY DEF UrlsIInv, Urls!Type, Urls!AskDeleteAll, Urls!CancelDeleteAll, Urls!handleDeleteAll,
           Urls!handleDelete, Urls!list, Urls!box,
           ThumbInv, ThumbnailsSay, ListInv, ListsKnowTheirAge,
           Urls!DeletedFilesShownOnlyOutdated
  <1>2. /\ EntriesExpireFirst'
        /\ cache' \in [Files -> Urls!Entry \cup {None}]
    BY <1>1 DEF UrlsIInv, Urls!TypeOK, EntriesExpireFirst, Urls!removeCachedUrl
  <1>3. /\ search' \in {"", "text"} /\ confirm' \in BOOLEAN
        /\ deleting' \in {"no", "sent", "served", "failed"}
        /\ UNCHANGED <<now, page, alive, Urls!list, debouncedSearch, thumb, late>>
    BY DEF UrlsIInv, Urls!TypeOK, Urls!Type, Urls!AskDeleteAll, Urls!CancelDeleteAll,
           Urls!handleDeleteAll, Urls!handleDelete, Urls!box
  <1>4. Urls!TypeOK'
    BY <1>2, <1>3 DEF UrlsIInv, Urls!TypeOK, Urls!list
  <1>5. QED
    BY <1>1, <1>2, <1>4 DEF UrlsIInv

\* The invariant is inductive.
LEMMA UrlsStepIInv == UrlsIInv /\ [Urls!Next]_(Urls!vars) => UrlsIInv'
  <1> SUFFICES ASSUME UrlsIInv, [Urls!Next]_(Urls!vars) PROVE UrlsIInv'
    OBVIOUS
  <1>1. CASE UNCHANGED Urls!vars
    <2>1. UNCHANGED <<now, page, alive, Urls!list, confirm, deleting, Urls!box, thumb, late, cache>>
      BY <1>1 DEF Urls!vars
    <2>2. Urls!TypeOK'
      BY <2>1 DEF UrlsIInv, Urls!TypeOK, Urls!list, Urls!box
    <2>3. ThumbInv'
      BY <2>1 DEF UrlsIInv, ThumbInv, ThumbnailsSay
    <2>4. EntriesExpireFirst' /\ ListInv'
      BY <2>1 DEF UrlsIInv, EntriesExpireFirst, ListInv, ListsKnowTheirAge,
                  Urls!DeletedFilesShownOnlyOutdated, Urls!list
    <2>5. QED
      BY <2>2, <2>3, <2>4 DEF UrlsIInv
  <1>2. CASE Urls!Next
    BY <1>2, CardStep, UrlStep, LateStep, ListStep, TickStep, UserStep DEF Urls!Next, Urls!User
  <1>3. QED
    BY <1>1, <1>2

\* Thumbnails, requests, the cache and the list keep the inductive invariant.
THEOREM UrlsInvariance == UrlsSpec => []UrlsIInv
  BY UrlsInitIInv, UrlsStepIInv, PTL DEF UrlsSpec, Urls!Spec

-----------------------------------------------------------------------------
(* What follows for the URLs. *)

\* A spinner means a request under way, and a thumbnail that should show a
\* picture has its URL, a request, the failure on the screen or an observer that
\* will fetch, whatever unmounted, failed or came from the cache meanwhile; a
\* card whose retry button was pressed is excepted (useInViewUrl, FileThumbnail).
THEOREM ThumbnailsSayTheTruth == UrlsSpec => []ThumbnailsSayWhatIsAsked
  <1>1. UrlsIInv => Urls!ThumbnailsSayWhatIsAsked
    <2> SUFFICES ASSUME UrlsIInv PROVE Urls!ThumbnailsSayWhatIsAsked
      OBVIOUS
    <2>1. Urls!TypeOK /\ Urls!NoStuckCard
      BY DEF UrlsIInv, ThumbInv, ThumbnailsSay, Says, Urls!NoStuckCard
    <2>2. ASSUME NEW f \in Files, thumb[f] # None
          PROVE  Urls!Shows(f) = "spinner" <=> thumb[f].req # None
      <3>1. Says(f, thumb[f], page) /\ thumb[f].loading \in BOOLEAN /\ thumb[f].error \in BOOLEAN
        BY <2>2 DEF UrlsIInv, ThumbInv, ThumbnailsSay, Says, Urls!Thumb, Urls!IsServed
      <3>2. CASE page = "modal"
        BY <3>1, <3>2 DEF Urls!Shows, Urls!ThumbnailShows, Says
      <3>3. CASE page # "modal"
        BY <3>1, <3>3 DEF Urls!Shows, Urls!CardShows, Says
      <3>4. QED
        BY <3>2, <3>3
    <2>3. QED
      BY <2>1, <2>2 DEF Urls!SpinsWhileAsked, Urls!ThumbnailsSayWhatIsAsked
  <1>2. QED
    BY <1>1, UrlsInvariance, PTL DEF ThumbnailsSayWhatIsAsked

\* No URL comes from the cache after it ceased to work, if the answer that
\* brought it took no longer than the safety minute (urlCache.js).
THEOREM CachedUrlsWork == UrlsSpec => []CacheServesWorkingUrls
  <1>1. UrlsIInv => Urls!CacheServesWorkingUrls
    <2> SUFFICES ASSUME UrlsIInv, NEW f \in Files, Urls!getCachedUrl(f) # None,
                        Urls!InTime(cache[f].url, cache[f].arrived)
                 PROVE  now <= Urls!getCachedUrl(f) + UrlLife
      BY DEF Urls!CacheServesWorkingUrls
    <2>1. cache[f] # None /\ ~(now > cache[f].expiresAt) /\ Urls!getCachedUrl(f) = cache[f].url
      BY DEF Urls!getCachedUrl
    <2>2. cache[f] \in Urls!Entry /\ now \in Urls!Times
      BY <2>1 DEF UrlsIInv, Urls!TypeOK
    <2>3. cache[f].expiresAt <= cache[f].url + UrlLife
      BY <2>1 DEF UrlsIInv, EntriesExpireFirst
    <2>4. QED
      BY <2>1, <2>2, <2>3, UrlsConstants DEF Urls!Times, Urls!Entry
  <1>2. QED
    BY <1>1, UrlsInvariance, PTL DEF CacheServesWorkingUrls

\* A deleted file is shown only by a list read before the deletion
\* (fetchUserFiles and deleteAllFiles in FileSlices.js).
THEOREM DeletedFilesGo == UrlsSpec => []DeletedFilesShownOnlyOutdated
  <1>1. UrlsIInv => Urls!DeletedFilesShownOnlyOutdated
    BY DEF UrlsIInv, ListInv
  <1>2. QED
    BY <1>1, UrlsInvariance, PTL DEF DeletedFilesShownOnlyOutdated
=============================================================================
