----------------------------- MODULE WsRoomsProofs ------------------------------
(* Proofs about WsRooms, for any processes and sockets: the types, that a     *)
(* process has one subscription to its room, that nobody is told twice, and   *)
(* that sockets hear what was said in order.                                  *)
EXTENDS WsRooms, SequenceTheorems, TLAPS

-----------------------------------------------------------------------------
(* Sequences. *)

\* What RemoveAt leaves: the elements before, and those after one place down.
LEMMA RemoveAtFacts ==
  ASSUME NEW S, NEW s \in Seq(S), NEW i \in 1..Len(s)
  PROVE  /\ RemoveAt(s, i) \in Seq(S)
         /\ Len(RemoveAt(s, i)) = Len(s) - 1
         /\ \A j \in 1..(Len(s) - 1) : RemoveAt(s, i)[j] = IF j < i THEN s[j] ELSE s[j + 1]
  <1> DEFINE before == SubSeq(s, 1, i - 1)
             after == SubSeq(s, i + 1, Len(s))
  <1>1. /\ before \in Seq(S) /\ Len(before) = i - 1
        /\ \A j \in 1..(i - 1) : before[j] = s[j]
    BY SubSeqProperties
  <1>2. /\ after \in Seq(S) /\ Len(after) = Len(s) - i
        /\ \A j \in 1..(Len(s) - i) : after[j] = s[i + j]
    BY SubSeqProperties
  <1>3. RemoveAt(s, i) = before \o after
    BY DEF RemoveAt
  <1> HIDE DEF before, after
  <1>4. /\ before \o after \in Seq(S) /\ Len(before \o after) = Len(before) + Len(after)
        /\ \A j \in 1..(Len(before) + Len(after)) : (before \o after)[j] =
             IF j <= Len(before) THEN before[j] ELSE after[j - Len(before)]
    BY ONLY <1>1, <1>2, ConcatProperties
  <1>5. Len(s) \in Nat
    OBVIOUS
  <1>6. /\ RemoveAt(s, i) \in Seq(S) /\ Len(RemoveAt(s, i)) = Len(s) - 1
    BY ONLY <1>1, <1>2, <1>3, <1>4, <1>5, i \in 1..Len(s)
  <1>7. ASSUME NEW j \in 1..(Len(s) - 1)
        PROVE  RemoveAt(s, i)[j] = IF j < i THEN s[j] ELSE s[j + 1]
    <2>1. CASE j < i
      BY ONLY <2>1, <1>1, <1>2, <1>3, <1>4, <1>5, i \in 1..Len(s), j \in 1..(Len(s) - 1)
    <2>2. CASE ~(j < i)
      <3>1. j - (i - 1) \in 1..(Len(s) - i) /\ i + (j - (i - 1)) = j + 1
        BY <2>2, <1>5
      <3>2. (before \o after)[j] = after[j - (i - 1)]
        BY ONLY <2>2, <1>1, <1>2, <1>4, <1>5, i \in 1..Len(s), j \in 1..(Len(s) - 1)
      <3>3. QED
        BY <2>2, <3>1, <3>2, <1>2, <1>3
    <2>3. QED
      BY <2>1, <2>2
  <1>8. QED
    BY <1>6, <1>7

-----------------------------------------------------------------------------
(* Sequences that have nothing twice. *)

Once(s) == \A i, j \in 1..Len(s) : s[i] = s[j] => i = j

\* An element more at the end.
LEMMA AppendOnce ==
  ASSUME NEW S, NEW s \in Seq(S), NEW e \in S
  PROVE  /\ \A x : Contains(Append(s, e), x) <=> Contains(s, x) \/ x = e
         /\ Once(s) /\ ~Contains(s, e) => Once(Append(s, e))
  <1> DEFINE more == Append(s, e)
  <1>1. /\ Len(more) = Len(s) + 1 /\ more[Len(s) + 1] = e /\ Len(s) \in Nat
        /\ \A i \in 1..Len(s) : more[i] = s[i]
    BY AppendProperties
  <1> HIDE DEF more
  <1>2. \A i \in 1..Len(more) : i \in 1..Len(s) \/ i = Len(s) + 1
    BY <1>1
  <1>3. 1..Len(s) \subseteq 1..Len(more) /\ Len(s) + 1 \in 1..Len(more)
    BY <1>1
  <1>4. ASSUME NEW x
        PROVE  Contains(more, x) <=> Contains(s, x) \/ x = e
    BY <1>1, <1>2, <1>3 DEF Contains
  <1>5. ASSUME Once(s), ~Contains(s, e)
        PROVE  Once(more)
    BY <1>1, <1>2, <1>5 DEF Once, Contains
  <1>6. QED
    BY <1>4, <1>5 DEF more

\* The first element taken.
LEMMA TailOnce ==
  ASSUME NEW S, NEW s \in Seq(S), s # <<>>, Once(s)
  PROVE  /\ Once(Tail(s)) /\ Contains(s, Head(s))
         /\ \A x : Contains(Tail(s), x) <=> Contains(s, x) /\ x # Head(s)
  <1> DEFINE tail == Tail(s)
  <1>1. /\ Len(tail) = Len(s) - 1 /\ Len(s) \in Nat
        /\ \A i \in 1..Len(tail) : tail[i] = s[i + 1]
    BY HeadTailProperties
  <1>2. Head(s) = s[1] /\ 1 \in 1..Len(s)
    BY EmptySeq
  <1> HIDE DEF tail
  <1>3. \A i \in 1..Len(tail) : i + 1 \in 1..Len(s) /\ i + 1 # 1
    BY <1>1
  <1>4. Once(tail)
    <2> SUFFICES ASSUME NEW i \in 1..Len(tail), NEW j \in 1..Len(tail), tail[i] = tail[j]
                 PROVE  i = j
      BY DEF Once
    <2>1. i + 1 = j + 1
      BY <1>1, <1>3 DEF Once
    <2>2. QED
      BY <2>1
  <1>5. ASSUME NEW x, Contains(tail, x)
        PROVE  Contains(s, x) /\ x # Head(s)
    BY <1>1, <1>2, <1>3, <1>5 DEF Contains, Once
  <1>6. ASSUME NEW x, Contains(s, x), x # Head(s)
        PROVE  Contains(tail, x)
    <2>1. PICK i \in 1..Len(s) : s[i] = x
      BY <1>6 DEF Contains
    <2>2. i - 1 \in 1..Len(tail) /\ (i - 1) + 1 = i
      BY <1>1, <1>2, <1>6, <2>1
    <2>3. tail[i - 1] = x
      BY <1>1, <2>1, <2>2
    <2>4. QED
      BY <2>2, <2>3 DEF Contains
  <1>7. Contains(s, Head(s))
    BY <1>2 DEF Contains
  <1>8. QED
    BY <1>4, <1>5, <1>6, <1>7 DEF tail

\* An element taken out of the middle.
LEMMA RemoveAtOnce ==
  ASSUME NEW S, NEW s \in Seq(S), NEW i \in 1..Len(s), Once(s)
  PROVE  /\ Once(RemoveAt(s, i))
         /\ \A x : Contains(RemoveAt(s, i), x) => Contains(s, x) /\ x # s[i]
  <1> DEFINE less == RemoveAt(s, i)
  <1>1. /\ Len(less) = Len(s) - 1 /\ Len(s) \in Nat
        /\ \A j \in 1..(Len(s) - 1) : less[j] = IF j < i THEN s[j] ELSE s[j + 1]
    BY RemoveAtFacts
  <1> HIDE DEF less
  <1> DEFINE from == [j \in 1..Len(less) |-> IF j < i THEN j ELSE j + 1]
  <1>2. ASSUME NEW j \in 1..Len(less)
        PROVE  from[j] \in 1..Len(s) /\ from[j] # i /\ less[j] = s[from[j]]
    BY <1>1
  <1>3. \A j, k \in 1..Len(less) : from[j] = from[k] => j = k
    BY <1>1
  <1> HIDE DEF from
  <1>4. Once(less)
    <2> SUFFICES ASSUME NEW j \in 1..Len(less), NEW k \in 1..Len(less), less[j] = less[k]
                 PROVE  j = k
      BY DEF Once
    <2>1. s[from[j]] = s[from[k]] /\ from[j] \in 1..Len(s) /\ from[k] \in 1..Len(s)
      BY <1>2
    <2>2. from[j] = from[k]
      BY <2>1 DEF Once
    <2>3. QED
      BY <1>3, <2>2
  <1>5. \A x : Contains(less, x) => Contains(s, x) /\ x # s[i]
    BY <1>2 DEF Contains, Once
  <1>6. QED
    BY <1>4, <1>5 DEF less
-----------------------------------------------------------------------------
\* Who is in the room is on the list of its process.
SocketsAreListed ==
  \A s \in Sockets : conn[s] = "in" =>
    \E i \in DOMAIN rooms[home[s]] : rooms[home[s]][i] = s

\* A socket that has not entered has made no task.
NewMadeNoTask == \A s \in Sockets : conn[s] = "new" => at[s] = "new"

\* A process's task was made there, and it has one while its list is not empty.
TasksAreOfRooms ==
  \A p \in Processes :
    /\ pubsub_tasks[p] # None =>
         home[pubsub_tasks[p]] = p /\ conn[pubsub_tasks[p]] # "new"
    /\ rooms[p] # <<>> => pubsub_tasks[p] # None

\* What is being sent is there.
SendersHaveEvents == \A t \in Tasks : left[t] # <<>> => channel[t] # <<>>

IInv ==
  /\ TypeOK
  /\ SendersHaveEvents
  /\ OneSubscription
  /\ SocketsAreListed
  /\ NewMadeNoTask
  /\ TasksAreOfRooms

\* Taking a socket off its list leaves a list with all the others.
LEMMA WithoutFacts ==
  ASSUME TypeOK, SocketsAreListed, NEW s \in Sockets, conn[s] = "in"
  PROVE  /\ Without(home[s], s) \in Seq(Sockets)
         /\ \A r \in Sockets \ {s} :
              (\E i \in DOMAIN rooms[home[s]] : rooms[home[s]][i] = r) =>
                \E i \in DOMAIN Without(home[s], s) : Without(home[s], s)[i] = r
  <1> DEFINE list == rooms[home[s]]
             without == Without(home[s], s)
  <1>1. list \in Seq(Sockets)
    BY DEF TypeOK
  <1>2. PICK i \in DOMAIN list : list[i] = s /\ without = RemoveAt(list, i)
    BY DEF SocketsAreListed, Without
  <1> HIDE DEF list, without
  <1>3. i \in 1..Len(list) /\ Len(list) \in Nat
    BY <1>1, <1>2
  <1>4. /\ without \in Seq(Sockets) /\ Len(without) = Len(list) - 1
        /\ \A j \in 1..(Len(list) - 1) : without[j] = IF j < i THEN list[j] ELSE list[j + 1]
    BY ONLY <1>1, <1>2, <1>3, RemoveAtFacts
  <1>5. ASSUME NEW r \in Sockets \ {s}, NEW j \in DOMAIN list, list[j] = r
        PROVE  \E k \in DOMAIN without : without[k] = r
    <2>1. j \in 1..Len(list) /\ j # i /\ DOMAIN without = 1..(Len(list) - 1)
      BY <1>1, <1>2, <1>3, <1>4, <1>5
    <2>2. CASE j < i
      <3>1. j \in 1..(Len(list) - 1) /\ without[j] = list[j]
        BY <2>1, <2>2, <1>3, <1>4
      <3>2. QED
        BY <3>1, <2>1, <1>5
    <2>3. CASE j > i
      <3>1. j - 1 \in 1..(Len(list) - 1) /\ ~(j - 1 < i) /\ (j - 1) + 1 = j
        BY <2>1, <2>3, <1>3
      <3>2. without[j - 1] = list[j]
        BY <3>1, <1>4
      <3>3. QED
        BY <3>1, <3>2, <2>1, <1>5
    <2>4. QED
      BY <2>1, <2>2, <2>3, <1>3
  <1>6. QED
    BY <1>4, <1>5 DEF list, without

-----------------------------------------------------------------------------
(* Types. *)

\* What Redis hands out and what sockets hear are events.
LEMMA HandedOutTypes ==
  ASSUME TypeOK, NEW e \in Events
  PROVE  /\ Taken(e) => published' \in Seq(Events) /\ channel' \in [Tasks -> Seq(Events)]
         /\ \A s \in Sockets : Hears(s, e) => heard' \in [Sockets -> Seq(Events)]
  <1>1. Taken(e) => published' \in Seq(Events) /\ channel' \in [Tasks -> Seq(Events)]
    BY DEF TypeOK, Taken
  <1>2. ASSUME NEW s \in Sockets, Hears(s, e)
        PROVE  heard' \in [Sockets -> Seq(Events)]
    BY <1>2 DEF TypeOK, Hears
  <1>3. QED
    BY <1>1, <1>2

SendsOK == sends \in Seq(Calls) /\ Len(sends) <= MaxEvents

\* Every step keeps the types.
LEMMA TypesKept ==
  ASSUME TypeOK, SocketsAreListed, SendersHaveEvents, [Next]_vars
  PROVE  TypeOK'
  <1> USE DEF Tasks
  <1>1. ASSUME NEW s \in Sockets, connect(s)
        PROVE  TypeOK'
    <2>1. rooms' \in [Processes -> Seq(Sockets)]
      BY <1>1 DEF TypeOK, connect
    <2>2. /\ conn' \in [Sockets -> {"new", "in", "gone"}]
          /\ home[s] \in Processes
      BY <1>1 DEF TypeOK, connect
    <2>3. /\ pubsub_tasks' \in [Processes -> Tasks \cup {None}]
          /\ at' \in [Tasks -> {"new", "subscribing", "listening", "ended"}]
      <3>1. /\ pubsub_tasks \in [Processes -> Tasks \cup {None}]
            /\ at \in [Tasks -> {"new", "subscribing", "listening", "ended"}]
        BY DEF TypeOK
      <3>2. Subscribe(s) \/ UNCHANGED <<pubsub_tasks, at>>
        BY <1>1 DEF connect
      <3>3. QED
        BY ONLY <2>2, <3>1, <3>2, s \in Sockets DEF Subscribe, Tasks
    <2>4. QED
      BY <1>1, <2>1, <2>2, <2>3 DEF TypeOK, connect, history
  <1>2. ASSUME NEW s \in Sockets, disconnect(s)
        PROVE  TypeOK'
    <2>1. rooms' \in [Processes -> Seq(Sockets)]
      BY <1>2, WithoutFacts DEF TypeOK, disconnect
    <2>2. /\ conn' \in [Sockets -> {"new", "in", "gone"}]
          /\ pubsub_tasks' \in [Processes -> Tasks \cup {None}]
      BY <1>2 DEF TypeOK, disconnect
    <2>3. at' \in [Tasks -> {"new", "subscribing", "listening", "ended"}]
      <3>1. at \in [Tasks -> {"new", "subscribing", "listening", "ended"}]
        BY DEF TypeOK
      <3>2. at' = at \/ at' = [at EXCEPT ![pubsub_tasks[home[s]]] = "ended"]
        BY <1>2 DEF disconnect, tasks
      <3>3. QED
        BY ONLY <3>1, <3>2
    <2>4. /\ channel' \in [Tasks -> Seq(Events)]
          /\ left' \in [Tasks -> Seq(Sockets)]
      <3>1. channel \in [Tasks -> Seq(Events)] /\ left \in [Tasks -> Seq(Sockets)]
        BY DEF TypeOK
      <3>2. channel' = channel \/ channel' = [channel EXCEPT ![pubsub_tasks[home[s]]] = <<>>]
        BY <1>2 DEF disconnect, tasks
      <3>3. left' = left \/ left' = [left EXCEPT ![pubsub_tasks[home[s]]] = <<>>]
        BY <1>2 DEF disconnect, tasks
      <3>4. <<>> \in Seq(Events) /\ <<>> \in Seq(Sockets)
        OBVIOUS
      <3>5. QED
        BY ONLY <3>1, <3>2, <3>3, <3>4
    <2>5. QED
      BY <1>2, <2>1, <2>2, <2>3, <2>4 DEF TypeOK, disconnect, history
  <1>3. ASSUME NEW t \in Tasks, Subscribed(t)
        PROVE  TypeOK'
    BY <1>3 DEF TypeOK, Subscribed, room, history
  <1>4. ASSUME NEW t \in Tasks, SubscriptionFails(t)
        PROVE  TypeOK'
    BY <1>4, ConstantsOK DEF TypeOK, SubscriptionFails, RedisFails, room
  <1>5. ASSUME NEW t \in Tasks, Reconnects(t)
        PROVE  TypeOK'
    BY <1>5, ConstantsOK DEF TypeOK, Reconnects, RedisFails, room
  <1>6. ASSUME NEW t \in Tasks, Takes(t)
        PROVE  TypeOK'
    BY <1>6 DEF TypeOK, Takes, room, history
  <1>7. ASSUME NEW t \in Tasks, SendsOn(t)
        PROVE  TypeOK'
    <2>1. left[t] \in Seq(Sockets) /\ left[t] # <<>> /\ channel[t] \in Seq(Events) /\ channel[t] # <<>>
      BY <1>7 DEF TypeOK, SendsOn, SendersHaveEvents
    <2>2. /\ Head(left[t]) \in Sockets /\ Tail(left[t]) \in Seq(Sockets)
          /\ Head(channel[t]) \in Events /\ Tail(channel[t]) \in Seq(Events)
      BY <2>1, HeadTailProperties
    <2>3. heard' \in [Sockets -> Seq(Events)]
      BY <1>7, <2>2, HandedOutTypes DEF SendsOn
    <2>4. QED
      BY <1>7, <2>2, <2>3 DEF TypeOK, SendsOn, room
  <1>8. ASSUME NEW p \in Processes, send_to_room(p)
        PROVE  TypeOK'
    <2>1. SendsOK'
      <3>1. /\ sends \in Seq(Calls) /\ Len(sends) < MaxEvents /\ MaxEvents \in Nat
            /\ redis_active[p] \in BOOLEAN /\ rooms[p] \in Seq(Sockets)
        BY <1>8, ConstantsOK DEF TypeOK, send_to_room
      <3>2. PICK c \in Calls : sends' = Append(sends, c)
        <4>1. CASE redis_active[p]
          <5>1. [from |-> p, at |-> "publish", left |-> <<>>] \in Calls
            BY DEF Calls
          <5>2. QED
            BY <1>8, <4>1, <5>1 DEF send_to_room
        <4>2. CASE ~redis_active[p]
          <5>1. [from |-> p, at |-> "local", left |-> rooms[p]] \in Calls
            BY <3>1 DEF Calls
          <5>2. QED
            BY <1>8, <4>2, <5>1 DEF send_to_room
        <4>3. QED
          BY <4>1, <4>2
      <3>3. QED
        BY ONLY <3>1, <3>2 DEF SendsOK
    <2>2. QED
      BY <1>8, <2>1 DEF TypeOK, SendsOK, send_to_room, room, tasks, history
  <1>9. ASSUME NEW e \in DOMAIN sends
        PROVE  /\ sends[e] \in Calls /\ e \in Events
               /\ \A c \in Calls : sends' = [sends EXCEPT ![e] = c] => SendsOK'
    <2>1. sends \in Seq(Calls) /\ Len(sends) <= MaxEvents
      BY DEF TypeOK
    <2>2. e \in 1..Len(sends) /\ sends[e] \in Calls /\ e \in Events
      BY <2>1, ConstantsOK DEF Events
    <2>3. ASSUME NEW c \in Calls, sends' = [sends EXCEPT ![e] = c]
          PROVE  SendsOK'
      <3>1. /\ [sends EXCEPT ![e] = c] \in Seq(Calls)
            /\ Len([sends EXCEPT ![e] = c]) = Len(sends)
        BY ONLY <2>1, <2>2, c \in Calls, ExceptSeq
      <3>2. QED
        BY <3>1, <2>1, <2>3 DEF SendsOK
    <2>4. QED
      BY <2>2, <2>3
  <1>10. ASSUME NEW e \in DOMAIN sends, Published(e)
         PROVE  TypeOK'
    <2>1. SendsOK'
      <3>1. [sends[e] EXCEPT !.at = "over"] \in Calls
        BY <1>9 DEF Calls
      <3>2. sends' = [sends EXCEPT ![e] = [sends[e] EXCEPT !.at = "over"]]
        BY <1>10 DEF Published
      <3>3. QED
        BY <3>1, <3>2, <1>9
    <2>2. published' \in Seq(Events) /\ channel' \in [Tasks -> Seq(Events)]
      BY <1>9, <1>10, HandedOutTypes DEF Published
    <2>3. QED
      BY <1>10, <2>1, <2>2 DEF TypeOK, SendsOK, Published, room
  <1>11. ASSUME NEW e \in DOMAIN sends, PublishFails(e)
         PROVE  TypeOK'
    <2>1. /\ sends[e].from \in Processes
          /\ [from |-> sends[e].from, at |-> "local", left |-> rooms[sends[e].from]] \in Calls
      BY <1>9 DEF Calls, TypeOK
    <2>2. SendsOK'
      BY <2>1, <1>9, <1>11 DEF PublishFails
    <2>3. /\ published' \in Seq(Events) /\ channel' \in [Tasks -> Seq(Events)]
          /\ doubtful' \subseteq Events
      BY <1>9, <1>11, HandedOutTypes DEF PublishFails, TypeOK
    <2>4. redis_active' \in [Processes -> BOOLEAN] /\ failures' \in 0..MaxFailures
      <3>1. /\ redis_active \in [Processes -> BOOLEAN] /\ failures \in 0..MaxFailures
            /\ redis_active' = [redis_active EXCEPT ![sends[e].from] = FALSE]
            /\ failures < MaxFailures /\ failures' = failures + 1 /\ sends[e].from \in Processes
        BY <1>11, <2>1 DEF PublishFails, RedisFails, TypeOK
      <3>2. QED
        BY ONLY <3>1, ConstantsOK
    <2>5. QED
      BY <1>11, <2>2, <2>3, <2>4 DEF TypeOK, SendsOK, PublishFails, room
  <1>12. ASSUME NEW e \in DOMAIN sends, SendsLocally(e)
         PROVE  TypeOK'
    <2>1. sends[e].left \in Seq(Sockets)
      BY <1>9 DEF Calls
    <2>2. CASE sends[e].left = <<>>
      <3>1. [sends[e] EXCEPT !.at = "over"] \in Calls
        BY <1>9 DEF Calls
      <3>2. sends' = [sends EXCEPT ![e] = [sends[e] EXCEPT !.at = "over"]] /\ heard' = heard
        BY <1>12, <2>2 DEF SendsLocally
      <3>3. SendsOK'
        BY <3>1, <3>2, <1>9
      <3>4. QED
        BY <1>12, <3>2, <3>3 DEF TypeOK, SendsOK, SendsLocally, room, tasks
    <2>3. CASE sends[e].left # <<>>
      <3>1. Head(sends[e].left) \in Sockets /\ Tail(sends[e].left) \in Seq(Sockets)
        BY <2>1, <2>3, HeadTailProperties
      <3>2. [sends[e] EXCEPT !.left = Tail(@)] \in Calls
        BY <1>9, <3>1 DEF Calls
      <3>3. /\ sends' = [sends EXCEPT ![e] = [sends[e] EXCEPT !.left = Tail(@)]]
            /\ Hears(Head(sends[e].left), e)
        BY <1>12, <2>3 DEF SendsLocally
      <3>4. SendsOK' /\ heard' \in [Sockets -> Seq(Events)]
        BY <3>1, <3>2, <3>3, <1>9, <1>12, HandedOutTypes
      <3>5. QED
        BY <1>12, <3>4 DEF TypeOK, SendsOK, SendsLocally, room, tasks
    <2>4. QED
      BY <2>2, <2>3
  <1>13. CASE UNCHANGED vars
    BY <1>13 DEF TypeOK, vars, room, tasks, history
  <1>14. QED
    BY <1>1, <1>2, <1>3, <1>4, <1>5, <1>6, <1>7, <1>8, <1>10, <1>11, <1>12, <1>13
       DEF Next, Runs

-----------------------------------------------------------------------------
(* The invariant. *)

\* What the sockets and the tasks share survives a step that touches neither.
LEMMA SubscriptionsKept ==
  ASSUME IInv, UNCHANGED <<home, conn, rooms, pubsub_tasks, at>>, failures' = failures
  PROVE  OneSubscription' /\ SocketsAreListed' /\ NewMadeNoTask' /\ TasksAreOfRooms'
  BY DEF IInv, OneSubscription, Live, SocketsAreListed, NewMadeNoTask, TasksAreOfRooms

\* A failing call of Redis takes a task, or none, and no room.
LEMMA FailuresKeep ==
  ASSUME IInv, UNCHANGED <<home, conn, rooms, pubsub_tasks>>, RedisFails,
         \A t \in Tasks : at'[t] = at[t] \/ (at'[t] = "ended" /\ at[t] # "new")
  PROVE  OneSubscription' /\ SocketsAreListed' /\ NewMadeNoTask' /\ TasksAreOfRooms'
  <1>1. failures' # 0
    BY DEF IInv, TypeOK, RedisFails
  <1>2. OneSubscription'
    BY <1>1 DEF IInv, OneSubscription, Live
  <1>3. NewMadeNoTask'
    BY DEF IInv, TypeOK, NewMadeNoTask, Tasks
  <1>4. QED
    BY <1>2, <1>3 DEF IInv, SocketsAreListed, TasksAreOfRooms

\* A socket that enters: the list has it, and a task if it had none.
LEMMA EnteringKeeps ==
  ASSUME IInv, NEW s \in Sockets, connect(s)
  PROVE  OneSubscription' /\ SocketsAreListed' /\ NewMadeNoTask' /\ TasksAreOfRooms'
  <1> DEFINE p == home[s]
             list == rooms[p]
  <1>1. /\ p \in Processes /\ list \in Seq(Sockets) /\ conn[s] = "new" /\ at[s] = "new"
        /\ home' = home /\ failures' = failures
    BY DEF IInv, TypeOK, NewMadeNoTask, connect, history
  <1>2. /\ rooms'[p] = Append(list, s)
        /\ \A q \in Processes \ {p} : rooms'[q] = rooms[q]
    BY <1>1 DEF IInv, TypeOK, connect
  <1>3. /\ conn'[s] = "in"
        /\ \A r \in Sockets \ {s} : conn'[r] = conn[r]
    BY DEF IInv, TypeOK, connect
  <1>4. /\ \A r \in Sockets : conn[r] # "new" => conn'[r] # "new"
        /\ \A q \in Processes : pubsub_tasks[q] # None => pubsub_tasks[q] \in Sockets
    BY <1>1, <1>3 DEF IInv, TypeOK, Tasks
  <1> HIDE DEF list
  <1>5. /\ Append(list, s) # <<>>
        /\ \A i \in DOMAIN list : i \in DOMAIN Append(list, s) /\ Append(list, s)[i] = list[i]
        /\ Len(list) + 1 \in DOMAIN Append(list, s) /\ Append(list, s)[Len(list) + 1] = s
    BY <1>1
  <1>6. SocketsAreListed'
    <2>1. ASSUME NEW r \in Sockets, conn'[r] = "in"
          PROVE  \E i \in DOMAIN rooms'[home[r]] : rooms'[home[r]][i] = r
      <3>1. CASE r = s
        BY <3>1, <1>1, <1>2, <1>5
      <3>2. CASE r # s
        <4>1. PICK i \in DOMAIN rooms[home[r]] : rooms[home[r]][i] = r
          BY <2>1, <3>2, <1>3 DEF IInv, SocketsAreListed
        <4>2. home[r] \in Processes
          BY DEF IInv, TypeOK
        <4>3. QED
          BY <4>1, <4>2, <1>2, <1>5 DEF list
      <3>3. QED
        BY <3>1, <3>2
    <2>2. QED
      BY <2>1, <1>1 DEF SocketsAreListed
  <1>7. CASE list = <<>>
    <2>1. /\ pubsub_tasks'[p] = s /\ at'[s] = "subscribing" /\ s # None
          /\ \A q \in Processes \ {p} : pubsub_tasks'[q] = pubsub_tasks[q]
          /\ \A t \in Tasks \ {s} : at'[t] = at[t]
      BY <1>1, <1>7, ConstantsOK DEF list, IInv, TypeOK, connect, Subscribe, Tasks
    <2>2. NewMadeNoTask'
      BY <2>1, <1>3 DEF IInv, NewMadeNoTask, Tasks
    <2>3. TasksAreOfRooms'
      BY <2>1, <1>1, <1>2, <1>3, <1>4 DEF IInv, TasksAreOfRooms
    <2>4. ASSUME NEW t \in Tasks, Live(t)'
          PROVE  t = pubsub_tasks'[home[t]] /\ rooms'[home[t]] # <<>>
      <3>1. CASE t = s
        BY <3>1, <2>1, <1>2, <1>5
      <3>2. CASE t # s
        <4>1. Live(t) /\ home[t] \in Processes
          BY <3>2, <2>4, <2>1 DEF Live, IInv, TypeOK, Tasks
        <4>2. t = pubsub_tasks[home[t]] /\ rooms[home[t]] # <<>>
          BY <4>1 DEF IInv, OneSubscription
        <4>3. home[t] # p
          BY <4>2, <1>7 DEF list
        <4>4. QED
          BY <4>1, <4>2, <4>3, <2>1, <1>2
      <3>3. QED
        BY <3>1, <3>2
    <2>5. ASSUME NEW q \in Processes, rooms'[q] # <<>>, failures' = 0
          PROVE  at'[pubsub_tasks'[q]] \in {"subscribing", "listening"}
      <3>1. CASE q = p
        BY <3>1, <2>1 DEF Live
      <3>2. CASE q # p
        <4>1. Live(pubsub_tasks[q]) /\ pubsub_tasks[q] # None
          BY <3>2, <2>5, <1>1, <1>2 DEF IInv, OneSubscription, TasksAreOfRooms
        <4>2. pubsub_tasks[q] \in Tasks \ {s}
          BY <4>1, <1>1 DEF Live, IInv, TypeOK
        <4>3. QED
          BY <4>1, <4>2, <3>2, <2>1 DEF Live
      <3>3. QED
        BY <3>1, <3>2
    <2>6. OneSubscription'
      BY <2>4, <2>5, <1>1 DEF OneSubscription, Live
    <2>7. QED
      BY <1>6, <2>2, <2>3, <2>6
  <1>8. CASE list # <<>>
    <2>1. pubsub_tasks' = pubsub_tasks /\ at' = at
      BY <1>8 DEF list, connect
    <2>2. \A q \in Processes : rooms'[q] # <<>> <=> rooms[q] # <<>>
      BY <1>2, <1>5, <1>8 DEF list
    <2>3. \A t \in Tasks : home[t] \in Processes
      BY DEF IInv, TypeOK, Tasks
    <2>4. OneSubscription'
      BY <2>1, <2>2, <2>3, <1>1 DEF IInv, OneSubscription, Live
    <2>5. NewMadeNoTask'
      BY <2>1, <1>3 DEF IInv, NewMadeNoTask
    <2>6. TasksAreOfRooms'
      BY <2>1, <2>2, <1>1, <1>4 DEF IInv, TasksAreOfRooms
    <2>7. QED
      BY <1>6, <2>4, <2>5, <2>6
  <1>9. QED
    BY <1>7, <1>8

\* A socket that leaves: the last one takes the task with it.
LEMMA LeavingKeeps ==
  ASSUME IInv, NEW s \in Sockets, disconnect(s)
  PROVE  OneSubscription' /\ SocketsAreListed' /\ NewMadeNoTask' /\ TasksAreOfRooms'
  <1> DEFINE p == home[s]
             task == pubsub_tasks[p]
             without == Without(p, s)
  <1>1. /\ p \in Processes /\ conn[s] = "in" /\ home' = home /\ failures' = failures
        /\ \A t \in Tasks : home[t] \in Processes
    BY DEF IInv, TypeOK, disconnect, history, Tasks
  <1>2. /\ rooms'[p] = without
        /\ \A q \in Processes \ {p} : rooms'[q] = rooms[q]
    BY <1>1 DEF IInv, TypeOK, disconnect
  <1>3. /\ conn'[s] = "gone"
        /\ \A r \in Sockets \ {s} : conn'[r] = conn[r]
    BY DEF IInv, TypeOK, disconnect
  <1>4. \A r \in Sockets \ {s} :
          (\E i \in DOMAIN rooms[p] : rooms[p][i] = r) => \E i \in DOMAIN without : without[i] = r
    BY <1>1, WithoutFacts DEF IInv
  <1>5. SocketsAreListed'
    <2>1. ASSUME NEW r \in Sockets, conn'[r] = "in"
          PROVE  \E i \in DOMAIN rooms'[home[r]] : rooms'[home[r]][i] = r
      <3>1. r # s /\ conn[r] = "in" /\ home[r] \in Processes
        BY <2>1, <1>3 DEF IInv, TypeOK
      <3>2. PICK i \in DOMAIN rooms[home[r]] : rooms[home[r]][i] = r
        BY <3>1 DEF IInv, SocketsAreListed
      <3>3. QED
        BY <3>1, <3>2, <1>2, <1>4
    <2>2. QED
      BY <2>1, <1>1 DEF SocketsAreListed
  <1>6. SocketsAreListed /\ rooms[p] # <<>>
    BY <1>1 DEF IInv, SocketsAreListed
  <1>7. task \in Tasks /\ home[task] = p
    BY <1>1, <1>6 DEF IInv, TypeOK, TasksAreOfRooms
  <1>8. /\ \A r \in Sockets : conn[r] # "new" => conn'[r] # "new"
        /\ \A r \in Sockets : conn'[r] = "new" => conn[r] = "new" /\ r # s
        /\ \A q \in Processes : pubsub_tasks[q] # None => pubsub_tasks[q] \in Sockets
    BY <1>1, <1>3 DEF IInv, TypeOK, Tasks
  <1>9. conn[task] # "new"
    BY <1>1, <1>6, <1>7 DEF IInv, TasksAreOfRooms
  <1>10. CASE without = <<>>
    <2>1. /\ pubsub_tasks'[p] = None /\ at'[task] = "ended"
          /\ \A q \in Processes \ {p} : pubsub_tasks'[q] = pubsub_tasks[q]
          /\ \A t \in Tasks \ {task} : at'[t] = at[t]
      BY <1>1, <1>7, <1>10 DEF IInv, TypeOK, disconnect
    <2>2. NewMadeNoTask'
      BY <2>1, <1>8, <1>9 DEF IInv, NewMadeNoTask, Tasks
    <2>3. TasksAreOfRooms'
      BY <2>1, <1>1, <1>2, <1>10, <1>8 DEF IInv, TasksAreOfRooms
    <2>4. ASSUME NEW t \in Tasks, Live(t)'
          PROVE  t = pubsub_tasks'[home[t]] /\ rooms'[home[t]] # <<>>
      <3>1. t # task /\ Live(t)
        BY <2>1, <2>4 DEF Live
      <3>2. t = pubsub_tasks[home[t]] /\ rooms[home[t]] # <<>>
        BY <3>1 DEF IInv, OneSubscription
      <3>3. home[t] # p
        BY <3>1, <3>2
      <3>4. QED
        BY <3>2, <3>3, <2>1, <1>1, <1>2
    <2>5. ASSUME NEW q \in Processes, rooms'[q] # <<>>, failures' = 0
          PROVE  at'[pubsub_tasks'[q]] \in {"subscribing", "listening"}
      <3>1. q # p
        BY <2>5, <1>2, <1>10
      <3>2. Live(pubsub_tasks[q]) /\ pubsub_tasks[q] # None
        BY <3>1, <2>5, <1>1, <1>2 DEF IInv, OneSubscription, TasksAreOfRooms
      <3>3. pubsub_tasks[q] \in Tasks \ {task}
        BY <3>1, <3>2, <1>7 DEF IInv, TypeOK, TasksAreOfRooms
      <3>4. QED
        BY <3>1, <3>2, <3>3, <2>1 DEF Live
    <2>6. OneSubscription'
      BY <2>4, <2>5, <1>1 DEF OneSubscription, Live
    <2>7. QED
      BY <1>5, <2>2, <2>3, <2>6
  <1>11. CASE without # <<>>
    <2>1. pubsub_tasks' = pubsub_tasks /\ at' = at
      BY <1>11 DEF disconnect, tasks
    <2>2. \A q \in Processes : rooms'[q] # <<>> <=> rooms[q] # <<>>
      BY <1>2, <1>6, <1>11
    <2>3. OneSubscription'
      BY <2>1, <2>2, <1>1 DEF IInv, OneSubscription, Live
    <2>4. NewMadeNoTask'
      BY <2>1, <1>8 DEF IInv, NewMadeNoTask
    <2>5. TasksAreOfRooms'
      BY <2>1, <2>2, <1>1, <1>8 DEF IInv, TasksAreOfRooms
    <2>6. QED
      BY <1>5, <2>3, <2>4, <2>5
  <1>12. QED
    BY <1>10, <1>11

\* What is being sent stays until it was sent to all.
LEMMA SendersKept ==
  ASSUME IInv, [Next]_vars
  PROVE  SendersHaveEvents'
  <1> USE DEF Tasks
  <1>1. ASSUME NEW s \in Sockets, connect(s)
        PROVE  SendersHaveEvents'
    BY <1>1 DEF IInv, SendersHaveEvents, connect
  <1>2. ASSUME NEW s \in Sockets, disconnect(s)
        PROVE  SendersHaveEvents'
    BY <1>2 DEF IInv, TypeOK, SendersHaveEvents, disconnect, tasks
  <1>3. ASSUME NEW t \in Tasks,
               Subscribed(t) \/ SubscriptionFails(t) \/ Reconnects(t) \/ Takes(t)
        PROVE  SendersHaveEvents'
    BY <1>3 DEF IInv, TypeOK, SendersHaveEvents, Subscribed, SubscriptionFails, Reconnects, Takes
  <1>4. ASSUME NEW t \in Tasks, SendsOn(t)
        PROVE  SendersHaveEvents'
    <2>1. left[t] \in Seq(Sockets) /\ left[t] # <<>>
      BY <1>4 DEF IInv, TypeOK, SendsOn
    <2>2. Len(left[t]) = 1 => Tail(left[t]) = <<>>
      <3>1. Tail(left[t]) \in Seq(Sockets) /\ Len(Tail(left[t])) = Len(left[t]) - 1
        BY <2>1, HeadTailProperties
      <3>2. Tail(left[t]) # <<>> => Len(Tail(left[t])) \in Nat \ {0}
        BY ONLY <3>1, EmptySeq
      <3>3. QED
        BY <3>1, <3>2
    <2>3. /\ left'[t] = Tail(left[t])
          /\ \A r \in Tasks \ {t} : left'[r] = left[r] /\ channel'[r] = channel[r]
          /\ Len(left[t]) # 1 => channel' = channel
      BY <1>4 DEF IInv, TypeOK, SendsOn
    <2>4. channel[t] # <<>>
      BY <2>1 DEF IInv, SendersHaveEvents
    <2>5. QED
      BY <2>2, <2>3, <2>4 DEF IInv, SendersHaveEvents
  <1>5. ASSUME NEW e \in DOMAIN sends, Taken(e), left' = left
        PROVE  SendersHaveEvents'
    <2>1. ASSUME NEW t \in Tasks
          PROVE  channel[t] # <<>> => channel'[t] # <<>>
      <3>1. channel[t] \in Seq(Events)
        BY DEF IInv, TypeOK
      <3>2. Append(channel[t], e) # <<>>
        BY <3>1, AppendProperties
      <3>3. channel'[t] = Append(channel[t], e) \/ channel'[t] = channel[t]
        BY <1>5 DEF Taken
      <3>4. QED
        BY <3>2, <3>3
    <2>2. QED
      BY <2>1, <1>5 DEF IInv, SendersHaveEvents
  <1>6. CASE UNCHANGED tasks
    BY <1>6 DEF IInv, SendersHaveEvents, tasks
  <1>7. ASSUME NEW e \in DOMAIN sends, Published(e) \/ PublishFails(e) \/ SendsLocally(e)
        PROVE  SendersHaveEvents'
    BY <1>5, <1>7 DEF Published, PublishFails, SendsLocally, IInv, SendersHaveEvents, tasks
  <1>8. QED
    BY <1>1, <1>2, <1>3, <1>4, <1>6, <1>7 DEF Next, Runs, send_to_room, vars

\* IInv holds at the start and every step keeps it.
THEOREM Invariance == Spec => []IInv
  <1>1. Init => IInv
    <2>1. Init => TypeOK
      BY ConstantsOK DEF Init, TypeOK, Tasks, Calls
    <2>2. Init => /\ OneSubscription /\ SocketsAreListed /\ NewMadeNoTask
                  /\ TasksAreOfRooms /\ SendersHaveEvents
      BY DEF Init, OneSubscription, Live, SocketsAreListed, NewMadeNoTask, TasksAreOfRooms,
             SendersHaveEvents, Tasks
    <2>3. QED
      BY <2>1, <2>2 DEF IInv
  <1>2. IInv /\ [Next]_vars => IInv'
    <2> SUFFICES ASSUME IInv, [Next]_vars
                 PROVE  IInv'
      OBVIOUS
    <2> DEFINE Rest == OneSubscription /\ SocketsAreListed /\ NewMadeNoTask /\ TasksAreOfRooms
    <2>1. TypeOK' /\ SendersHaveEvents'
      BY TypesKept, SendersKept DEF IInv
    <2>2. ASSUME NEW s \in Sockets, connect(s) \/ disconnect(s)
          PROVE  Rest'
      BY <2>2, EnteringKeeps, LeavingKeeps
    <2>3. ASSUME NEW t \in Tasks, Subscribed(t)
          PROVE  Rest'
      <3>1. /\ at[t] = "subscribing" /\ at'[t] = "listening"
            /\ \A r \in Tasks \ {t} : at'[r] = at[r]
            /\ UNCHANGED <<home, conn, rooms, pubsub_tasks, failures>>
        BY <2>3 DEF IInv, TypeOK, Subscribed, room, history
      <3>2. \A r \in Tasks : /\ (at'[r] \in {"subscribing", "listening"}) <=> Live(r)
                             /\ at[r] = "new" => at'[r] = "new"
        BY <3>1 DEF Live
      <3>3. \A p \in Processes : rooms[p] # <<>> => pubsub_tasks[p] \in Tasks
        BY DEF IInv, TypeOK, TasksAreOfRooms
      <3>4. OneSubscription'
        BY <3>1, <3>2, <3>3 DEF IInv, OneSubscription, Live
      <3>5. QED
        BY <3>1, <3>2, <3>4 DEF IInv, SocketsAreListed, NewMadeNoTask, TasksAreOfRooms, Tasks
    <2>4. ASSUME NEW t \in Tasks, SubscriptionFails(t)
          PROVE  Rest'
      <3>1. /\ UNCHANGED <<home, conn, rooms, pubsub_tasks>> /\ RedisFails
            /\ \A r \in Tasks : at'[r] = at[r] \/ (at'[r] = "ended" /\ at[r] # "new")
        BY <2>4 DEF IInv, TypeOK, SubscriptionFails, room
      <3>2. QED
        BY <3>1, FailuresKeep
    <2>5. ASSUME NEW t \in Tasks, Reconnects(t)
          PROVE  Rest'
      BY <2>5, FailuresKeep DEF Reconnects, room
    <2>6. ASSUME NEW e \in DOMAIN sends, PublishFails(e)
          PROVE  Rest'
      BY <2>6, FailuresKeep DEF PublishFails, room
    <2>7. CASE UNCHANGED <<home, conn, rooms, pubsub_tasks, at, failures>>
      <3>1. /\ UNCHANGED <<home, conn, rooms, pubsub_tasks, at>>
            /\ failures' = failures
        BY <2>7
      <3>2. QED
        BY <3>1, <2>1, SubscriptionsKept DEF IInv
    <2>8. \/ \E s \in Sockets : connect(s) \/ disconnect(s)
          \/ \E t \in Tasks : Subscribed(t) \/ SubscriptionFails(t) \/ Reconnects(t)
          \/ \E e \in DOMAIN sends : PublishFails(e)
          \/ UNCHANGED <<home, conn, rooms, pubsub_tasks, at, failures>>
      BY DEF Next, Runs, Takes, SendsOn, send_to_room, Published, SendsLocally,
             vars, room, tasks, history
    <2>9. QED
      BY <2>1, <2>2, <2>3, <2>4, <2>5, <2>6, <2>7, <2>8 DEF IInv
  <1>3. QED
    BY <1>1, <1>2, PTL DEF Spec

-----------------------------------------------------------------------------
(* What is heard. *)

\* A room's list has the sockets that are in it, each once.
RoomsAreOfTheirs ==
  \A p \in Processes :
    /\ Once(rooms[p])
    /\ \A s \in Sockets : Contains(rooms[p], s) => home[s] = p /\ conn[s] = "in"

\* Only a listening task has something to send, to sockets of its process and
\* to each of them once.
LoopsAreOfRooms ==
  \A t \in Tasks :
    /\ at[t] # "listening" => channel[t] = <<>> /\ left[t] = <<>>
    /\ Once(left[t])
    /\ \A s \in Sockets : Contains(left[t], s) => home[s] = home[t]

\* Redis takes an event once, and who then broadcasts it all the same does not
\* know that it was taken.
TakenOnce ==
  /\ Once(published)
  /\ \A e \in Events : Contains(published, e) =>
       /\ e \in DOMAIN sends
       /\ sends[e].at # "publish"
       /\ sends[e].at = "local" => e \in doubtful
  /\ \A t \in Tasks :
       /\ Once(channel[t])
       /\ \A e \in Events : Contains(channel[t], e) => Contains(published, e)
  /\ \A e \in DOMAIN sends : Once(sends[e].left)

\* Event e will not be sent to s by task t again.
IsPast(s, e, t) ==
  home[t] = home[s] /\ Contains(channel[t], e) =>
    e = Head(channel[t]) /\ left[t] # <<>> /\ ~Contains(left[t], s)

\* What a socket heard will not come again, unless it is doubtful.
HeardIsPast ==
  \A s \in Sockets, e \in Events : Contains(heard[s], e) =>
    /\ e \in DOMAIN sends
    /\ sends[e].at # "publish"
    /\ e \notin doubtful =>
         /\ sends[e].at = "local" => ~Contains(sends[e].left, s)
         /\ \A t \in Tasks : IsPast(s, e, t)

\* Until Redis fails every process uses it.
RedisIsUsed ==
  failures = 0 =>
    /\ \A p \in Processes : redis_active[p]
    /\ \A e \in DOMAIN sends : sends[e].at # "local"

NewHeardNothing == \A s \in Sockets : conn[s] = "new" => heard[s] = <<>>

OnceInv ==
  /\ RoomsAreOfTheirs
  /\ LoopsAreOfRooms
  /\ TakenOnce
  /\ TwiceOnlyIfDoubtful
  /\ HeardIsPast
  /\ RedisIsUsed
  /\ NewHeardNothing

\* A socket in the room: its process's list is not empty and it has a task.
LEMMA TaskOfRoom ==
  ASSUME IInv, NEW s \in Sockets, conn[s] = "in"
  PROVE  /\ Contains(rooms[home[s]], s) /\ rooms[home[s]] # <<>>
         /\ home[s] \in Processes
         /\ pubsub_tasks[home[s]] \in Tasks /\ home[pubsub_tasks[home[s]]] = home[s]
  <1>1. home[s] \in Processes /\ rooms[home[s]] \in Seq(Sockets)
    BY DEF IInv, TypeOK
  <1>2. PICK i \in DOMAIN rooms[home[s]] : rooms[home[s]][i] = s
    BY DEF IInv, SocketsAreListed
  <1>3. Contains(rooms[home[s]], s) /\ rooms[home[s]] # <<>>
    BY <1>1, <1>2 DEF Contains
  <1>4. QED
    BY <1>1, <1>3 DEF IInv, TypeOK, TasksAreOfRooms

\* A step that enters or leaves keeps each list's members in the room.
LEMMA RoomsKept ==
  ASSUME IInv, RoomsAreOfTheirs, [Next]_vars
  PROVE  RoomsAreOfTheirs'
  <1>1. ASSUME NEW s \in Sockets, connect(s)
        PROVE  RoomsAreOfTheirs'
    <2> DEFINE p == home[s]
               list == rooms[p]
    <2>1. /\ p \in Processes /\ list \in Seq(Sockets) /\ conn[s] = "new" /\ home' = home
          /\ rooms'[p] = Append(list, s)
          /\ \A q \in Processes \ {p} : rooms'[q] = rooms[q]
          /\ conn'[s] = "in" /\ \A r \in Sockets \ {s} : conn'[r] = conn[r]
      BY <1>1 DEF IInv, TypeOK, connect
    <2>2. Once(list) /\ ~Contains(list, s)
      BY <2>1 DEF RoomsAreOfTheirs
    <2> HIDE DEF list
    <2>3. /\ Once(Append(list, s))
          /\ \A r : Contains(Append(list, s), r) <=> Contains(list, r) \/ r = s
      BY ONLY <2>1, <2>2, s \in Sockets, AppendOnce
    <2>4. ASSUME NEW q \in Processes
          PROVE  /\ Once(rooms'[q])
                 /\ \A r \in Sockets : Contains(rooms'[q], r) => home'[r] = q /\ conn'[r] = "in"
      <3>1. \A r \in Sockets : Contains(rooms[q], r) => home[r] = q /\ conn[r] = "in" /\ r # s
        BY <2>1 DEF RoomsAreOfTheirs
      <3>2. CASE q = p
        BY <3>1, <3>2, <2>1, <2>3 DEF list
      <3>3. CASE q # p
        <4>1. rooms'[q] = rooms[q] /\ Once(rooms[q])
          BY <3>3, <2>1 DEF RoomsAreOfTheirs
        <4>2. QED
          BY <4>1, <3>1, <2>1
      <3>4. QED
        BY <3>2, <3>3
    <2>5. QED
      BY <2>4 DEF RoomsAreOfTheirs
  <1>2. ASSUME NEW s \in Sockets, disconnect(s)
        PROVE  RoomsAreOfTheirs'
    <2> DEFINE p == home[s]
               list == rooms[p]
               without == Without(p, s)
    <2>1. /\ p \in Processes /\ list \in Seq(Sockets) /\ conn[s] = "in" /\ home' = home
          /\ rooms'[p] = without
          /\ \A q \in Processes \ {p} : rooms'[q] = rooms[q]
          /\ \A r \in Sockets \ {s} : conn'[r] = conn[r]
      BY <1>2 DEF IInv, TypeOK, disconnect
    <2>2. PICK i \in DOMAIN list : list[i] = s /\ without = RemoveAt(list, i)
      BY <2>1 DEF IInv, SocketsAreListed, Without
    <2>3. Once(list) /\ i \in 1..Len(list)
      BY <2>1 DEF RoomsAreOfTheirs
    <2> HIDE DEF list, without
    <2>4. /\ Once(without)
          /\ \A r : Contains(without, r) => Contains(list, r) /\ r # s
      BY ONLY <2>1, <2>2, <2>3, RemoveAtOnce
    <2>5. QED
      BY <2>1, <2>4 DEF RoomsAreOfTheirs, list
  <1>3. CASE UNCHANGED <<home, conn, rooms>>
    BY <1>3 DEF RoomsAreOfTheirs
  <1>4. QED
    BY <1>1, <1>2, <1>3
    DEF Next, Runs, Subscribed, Takes, SendsOn, SubscriptionFails, Reconnects, send_to_room,
        Published, PublishFails, SendsLocally, vars, room

\* Nothing is in the empty sequence.
LEMMA EmptyHasNothing == Once(<<>>) /\ \A x : ~Contains(<<>>, x)
  BY EmptySeq DEF Once, Contains

\* Every step leaves what is to be sent to the sockets of the task's room.
LEMMA LoopsKept ==
  ASSUME IInv, RoomsAreOfTheirs, LoopsAreOfRooms, [Next]_vars
  PROVE  LoopsAreOfRooms'
  <1> USE DEF Tasks
  <1>a. /\ at \in [Tasks -> {"new", "subscribing", "listening", "ended"}]
        /\ channel \in [Tasks -> Seq(Events)] /\ left \in [Tasks -> Seq(Sockets)]
        /\ \A t \in Tasks : home[t] \in Processes
    BY DEF IInv, TypeOK
  <1>1. ASSUME NEW s \in Sockets, connect(s)
        PROVE  LoopsAreOfRooms'
    <2>1. at[s] = "new" /\ home' = home /\ channel' = channel /\ left' = left
      BY <1>1 DEF IInv, NewMadeNoTask, connect
    <2>2. \A t \in Tasks : at'[t] # "listening" => at[t] # "listening"
      BY <1>1, <1>a, <2>1 DEF connect, Subscribe
    <2>3. QED
      BY <2>1, <2>2 DEF LoopsAreOfRooms
  <1>2. ASSUME NEW s \in Sockets, disconnect(s)
        PROVE  LoopsAreOfRooms'
    <2> DEFINE task == pubsub_tasks[home[s]]
    <2>1. task \in Tasks /\ home' = home
      BY <1>2, TaskOfRoom DEF disconnect
    <2>2. CASE UNCHANGED tasks
      BY <2>1, <2>2 DEF tasks, LoopsAreOfRooms
    <2>3. CASE ~UNCHANGED tasks
      <3>1. /\ channel'[task] = <<>> /\ left'[task] = <<>>
            /\ \A t \in Tasks \ {task} :
                 at'[t] = at[t] /\ channel'[t] = channel[t] /\ left'[t] = left[t]
        BY <1>2, <1>a, <2>1, <2>3 DEF disconnect
      <3>2. QED
        BY <2>1, <3>1, EmptyHasNothing DEF LoopsAreOfRooms
    <2>4. QED
      BY <2>2, <2>3
  <1>3. ASSUME NEW t \in Tasks, Subscribed(t)
        PROVE  LoopsAreOfRooms'
    <2>1. /\ \A r \in Tasks : at'[r] # "listening" => at[r] # "listening"
          /\ UNCHANGED <<home, channel, left>>
      BY <1>3, <1>a DEF Subscribed, room
    <2>2. QED
      BY <2>1 DEF LoopsAreOfRooms
  <1>4. ASSUME NEW t \in Tasks, SubscriptionFails(t) \/ Reconnects(t)
        PROVE  LoopsAreOfRooms'
    <2>1. /\ channel'[t] = <<>> /\ left[t] = <<>> /\ home' = home /\ left' = left
          /\ \A r \in Tasks \ {t} : at'[r] = at[r] /\ channel'[r] = channel[r]
      BY <1>4, <1>a DEF SubscriptionFails, Reconnects, room
    <2>2. QED
      BY <2>1 DEF LoopsAreOfRooms
  <1>5. ASSUME NEW t \in Tasks, Takes(t)
        PROVE  LoopsAreOfRooms'
    <2>1. /\ at[t] = "listening" /\ left'[t] = rooms[home[t]]
          /\ home' = home /\ at' = at /\ channel' = channel
          /\ \A r \in Tasks \ {t} : left'[r] = left[r]
      BY <1>5, <1>a DEF Takes, room
    <2>2. QED
      BY <1>a, <2>1 DEF LoopsAreOfRooms, RoomsAreOfTheirs
  <1>6. ASSUME NEW t \in Tasks, SendsOn(t)
        PROVE  LoopsAreOfRooms'
    <2>1. /\ left[t] # <<>> /\ left'[t] = Tail(left[t]) /\ home' = home /\ at' = at
          /\ \A r \in Tasks \ {t} : left'[r] = left[r] /\ channel'[r] = channel[r]
      BY <1>6, <1>a DEF SendsOn, room
    <2>2. at[t] = "listening" /\ Once(left[t]) /\ left[t] \in Seq(Sockets)
      BY <1>a, <2>1 DEF LoopsAreOfRooms
    <2>3. /\ Once(left'[t])
          /\ \A x : Contains(left'[t], x) => Contains(left[t], x)
      BY ONLY <2>1, <2>2, TailOnce
    <2>4. QED
      BY <2>1, <2>2, <2>3 DEF LoopsAreOfRooms
  <1>7. ASSUME NEW e, Taken(e), UNCHANGED <<home, at, left>>
        PROVE  LoopsAreOfRooms'
    BY <1>7, <1>a DEF Taken, LoopsAreOfRooms
  <1>8. CASE UNCHANGED <<home, tasks>>
    BY <1>8 DEF LoopsAreOfRooms, tasks
  <1>9. ASSUME NEW e \in DOMAIN sends, Published(e) \/ PublishFails(e) \/ SendsLocally(e)
        PROVE  LoopsAreOfRooms'
    <2>1. /\ UNCHANGED <<home, at, left>>
          /\ channel' = channel \/ Taken(e)
      BY <1>9 DEF Published, PublishFails, SendsLocally, room, tasks
    <2>2. QED
      BY <2>1, <1>7, <1>8 DEF tasks
  <1>10. QED
    BY <1>1, <1>2, <1>3, <1>4, <1>5, <1>6, <1>8, <1>9
    DEF Next, Runs, send_to_room, vars, room

\* The calls of send_to_room, and what is left of each.
LEMMA CallFacts ==
  ASSUME IInv
  PROVE  /\ DOMAIN sends = 1..Len(sends) /\ Len(sends) \in Nat /\ sends \in Seq(Calls)
         /\ \A e \in DOMAIN sends :
              /\ e \in Events /\ sends[e] \in Calls
              /\ sends[e].left \in Seq(Sockets) /\ sends[e].from \in Processes
              /\ rooms[sends[e].from] \in Seq(Sockets)
  <1>1. sends \in Seq(Calls) /\ Len(sends) <= MaxEvents
    BY DEF IInv, TypeOK
  <1>2. DOMAIN sends = 1..Len(sends) /\ Len(sends) \in Nat
    BY <1>1
  <1>3. ASSUME NEW e \in DOMAIN sends
        PROVE  e \in Events /\ sends[e] \in Calls
    BY <1>1, <1>2, ConstantsOK DEF Events
  <1>4. ASSUME NEW e \in DOMAIN sends
        PROVE  /\ sends[e].left \in Seq(Sockets) /\ sends[e].from \in Processes
               /\ rooms[sends[e].from] \in Seq(Sockets)
    BY <1>3 DEF Calls, IInv, TypeOK
  <1>5. QED
    BY <1>1, <1>2, <1>3, <1>4

\* What a step of call e does to the calls: the others stay, and e becomes over,
\* local, or has one socket less to send to.
LEMMA CallMoves ==
  ASSUME IInv, NEW e \in DOMAIN sends
  PROVE  /\ Published(e) =>
              sends' = [sends EXCEPT ![e] = [sends[e] EXCEPT !.at = "over"]]
         /\ SendsLocally(e) =>
              IF sends[e].left = <<>>
                THEN sends' = [sends EXCEPT ![e] = [sends[e] EXCEPT !.at = "over"]]
                ELSE sends' = [sends EXCEPT ![e] = [sends[e] EXCEPT !.left = Tail(sends[e].left)]]
         /\ \A c : sends' = [sends EXCEPT ![e] = c] =>
              /\ DOMAIN sends' = DOMAIN sends /\ sends'[e] = c
              /\ \A f \in DOMAIN sends \ {e} : sends'[f] = sends[f]
  BY CallFacts DEF Published, SendsLocally

\* What Redis hands out it took, and takes no more.
LEMMA TakenKept ==
  ASSUME IInv, RoomsAreOfTheirs, TakenOnce, [Next]_vars
  PROVE  TakenOnce'
  <1> USE DEF Tasks
  <1>a. /\ channel \in [Tasks -> Seq(Events)] /\ published \in Seq(Events)
        /\ rooms \in [Processes -> Seq(Sockets)]
    BY DEF IInv, TypeOK
  <1>b. /\ DOMAIN sends = 1..Len(sends) /\ Len(sends) \in Nat /\ sends \in Seq(Calls)
        /\ \A e \in DOMAIN sends :
             /\ e \in Events /\ sends[e] \in Calls
             /\ sends[e].left \in Seq(Sockets) /\ sends[e].from \in Processes
    BY CallFacts
  <1>c. ASSUME UNCHANGED <<published, sends, doubtful>>,
               \A t \in Tasks : \/ channel'[t] = channel[t]
                                \/ channel'[t] = <<>>
                                \/ channel[t] # <<>> /\ channel'[t] = Tail(channel[t])
        PROVE  TakenOnce'
    <2>1. ASSUME NEW t \in Tasks
          PROVE  /\ Once(channel'[t])
                 /\ \A x : Contains(channel'[t], x) => Contains(channel[t], x)
      <3>1. Once(channel[t]) /\ channel[t] \in Seq(Events)
        BY <1>a DEF TakenOnce
      <3>2. CASE channel'[t] = channel[t]
        BY <3>1, <3>2
      <3>3. CASE channel'[t] = <<>>
        BY <3>3, EmptyHasNothing
      <3>4. CASE channel[t] # <<>> /\ channel'[t] = Tail(channel[t])
        BY ONLY <3>1, <3>4, TailOnce
      <3>5. QED
        BY <1>c, <3>2, <3>3, <3>4
    <2>2. QED
      BY <1>c, <2>1 DEF TakenOnce
  <1>1. CASE UNCHANGED <<published, sends, doubtful, channel>>
    BY <1>1, <1>c
  <1>2. ASSUME NEW s \in Sockets, disconnect(s)
        PROVE  TakenOnce'
    <2>1. pubsub_tasks[home[s]] \in Tasks
      BY <1>2, TaskOfRoom DEF disconnect
    <2>2. \A t \in Tasks : channel'[t] = channel[t] \/ channel'[t] = <<>>
      BY <1>2, <1>a, <2>1 DEF disconnect, tasks
    <2>3. UNCHANGED <<published, sends, doubtful>>
      BY <1>2 DEF disconnect, history
    <2>4. QED
      BY <1>c, <2>2, <2>3
  <1>3. ASSUME NEW t \in Tasks, SubscriptionFails(t) \/ Reconnects(t)
        PROVE  TakenOnce'
    <2>1. \A r \in Tasks : channel'[r] = channel[r] \/ channel'[r] = <<>>
      BY <1>3, <1>a DEF SubscriptionFails, Reconnects
    <2>2. UNCHANGED <<published, sends, doubtful>>
      BY <1>3 DEF SubscriptionFails, Reconnects
    <2>3. QED
      BY <1>c, <2>1, <2>2
  <1>4. ASSUME NEW t \in Tasks, SendsOn(t)
        PROVE  TakenOnce'
    <2>1. channel[t] # <<>>
      BY <1>4 DEF SendsOn, IInv, SendersHaveEvents
    <2>2. \A r \in Tasks : \/ channel'[r] = channel[r]
                           \/ channel[r] # <<>> /\ channel'[r] = Tail(channel[r])
      BY <1>4, <1>a, <2>1 DEF SendsOn
    <2>3. UNCHANGED <<published, sends, doubtful>>
      BY <1>4 DEF SendsOn
    <2>4. QED
      BY <1>c, <2>2, <2>3
  <1>5. ASSUME NEW p \in Processes, send_to_room(p)
        PROVE  TakenOnce'
    <2>1. UNCHANGED <<published, doubtful, channel>>
      BY <1>5 DEF send_to_room, history, tasks
    <2>2. PICK c \in Calls : sends' = Append(sends, c) /\ Once(c.left)
      <3>1. CASE redis_active[p]
        <4>1. [from |-> p, at |-> "publish", left |-> <<>>] \in Calls
          BY DEF Calls
        <4>2. QED
          BY <1>5, <3>1, <4>1, EmptyHasNothing DEF send_to_room
      <3>2. CASE ~redis_active[p]
        <4>1. [from |-> p, at |-> "local", left |-> rooms[p]] \in Calls /\ Once(rooms[p])
          BY <1>a DEF Calls, RoomsAreOfTheirs
        <4>2. QED
          BY <1>5, <3>2, <4>1 DEF send_to_room
      <3>3. QED
        BY <3>1, <3>2
    <2>3. /\ DOMAIN sends' = 1..(Len(sends) + 1)
          /\ \A e \in DOMAIN sends : sends'[e] = sends[e]
          /\ sends'[Len(sends) + 1] = c
      BY ONLY <1>b, <2>2, AppendProperties
    <2>4. \A e \in DOMAIN sends' : e \in DOMAIN sends \/ e = Len(sends) + 1
      BY <1>b, <2>3
    <2>5. \A e \in DOMAIN sends' : Once(sends'[e].left)
      BY <2>2, <2>3, <2>4 DEF TakenOnce
    <2>6. \A e \in DOMAIN sends : e \in DOMAIN sends'
      BY <1>b, <2>3
    <2>7. QED
      BY <2>1, <2>3, <2>5, <2>6 DEF TakenOnce
  <1>d. ASSUME NEW e \in DOMAIN sends, NEW c, sends' = [sends EXCEPT ![e] = c],
               Once(c.left), c.at # "publish"
        PROVE  /\ \A f \in DOMAIN sends' : Once(sends'[f].left)
               /\ DOMAIN sends' = DOMAIN sends /\ sends'[e] = c
               /\ \A f \in DOMAIN sends \ {e} : sends'[f] = sends[f]
    <2>1. /\ DOMAIN sends' = DOMAIN sends /\ sends'[e] = c
          /\ \A f \in DOMAIN sends \ {e} : sends'[f] = sends[f]
      BY <1>d, CallMoves
    <2>2. QED
      BY <1>d, <2>1 DEF TakenOnce
  <1>e. ASSUME NEW e \in DOMAIN sends, Taken(e), sends[e].at = "publish",
               sends'[e].at = "over" \/ (sends'[e].at = "local" /\ e \in doubtful'),
               DOMAIN sends' = DOMAIN sends, \A f \in DOMAIN sends \ {e} : sends'[f] = sends[f],
               \A f \in DOMAIN sends' : Once(sends'[f].left), doubtful \subseteq doubtful'
        PROVE  TakenOnce'
    <2>1. e \in Events /\ ~Contains(published, e)
      BY <1>b, <1>e DEF TakenOnce
    <2>2. /\ Once(published')
          /\ \A x : Contains(published', x) <=> Contains(published, x) \/ x = e
      <3>1. published' = Append(published, e) /\ Once(published)
        BY <1>e DEF Taken, TakenOnce
      <3>2. QED
        BY ONLY <3>1, <2>1, <1>a, AppendOnce
    <2>3. ASSUME NEW t \in Tasks
          PROVE  /\ Once(channel'[t])
                 /\ \A x \in Events : Contains(channel'[t], x) => Contains(published', x)
      <3>1. Once(channel[t]) /\ ~Contains(channel[t], e) /\ channel[t] \in Seq(Events)
        BY <1>a, <2>1 DEF TakenOnce
      <3>2. CASE channel'[t] = channel[t]
        BY <3>1, <3>2, <2>2 DEF TakenOnce
      <3>3. CASE channel'[t] = Append(channel[t], e)
        <4>1. /\ Once(channel'[t])
              /\ \A x : Contains(channel'[t], x) <=> Contains(channel[t], x) \/ x = e
          BY ONLY <3>1, <3>3, <2>1, AppendOnce
        <4>2. QED
          BY <4>1, <2>2 DEF TakenOnce
      <3>4. QED
        BY <1>e, <3>2, <3>3 DEF Taken
    <2>4. ASSUME NEW x \in Events, Contains(published', x)
          PROVE  /\ x \in DOMAIN sends' /\ sends'[x].at # "publish"
                 /\ sends'[x].at = "local" => x \in doubtful'
      <3>1. CASE x = e
        BY <3>1, <1>e
      <3>2. CASE x # e
        BY <3>2, <2>2, <2>4, <1>e DEF TakenOnce
      <3>3. QED
        BY <3>1, <3>2
    <2>5. QED
      BY <1>e, <2>2, <2>3, <2>4 DEF TakenOnce
  <1>6. ASSUME NEW e \in DOMAIN sends, Published(e)
        PROVE  TakenOnce'
    <2> DEFINE c == [sends[e] EXCEPT !.at = "over"]
    <2>1. sends' = [sends EXCEPT ![e] = c]
      BY <1>6, CallMoves
    <2>2. c.left = sends[e].left /\ c.at = "over"
      BY <1>b DEF Calls
    <2>3. Once(c.left)
      BY <2>2 DEF TakenOnce
    <2>4. /\ Taken(e) /\ sends[e].at = "publish" /\ doubtful' = doubtful
      BY <1>6 DEF Published
    <2> HIDE DEF c
    <2>5. /\ \A f \in DOMAIN sends' : Once(sends'[f].left)
          /\ DOMAIN sends' = DOMAIN sends /\ sends'[e] = c
          /\ \A f \in DOMAIN sends \ {e} : sends'[f] = sends[f]
      BY <2>1, <2>2, <2>3, <1>d
    <2>6. QED
      BY <2>2, <2>4, <2>5, <1>e
  <1>7. ASSUME NEW e \in DOMAIN sends, PublishFails(e)
        PROVE  TakenOnce'
    <2> DEFINE c == [from |-> sends[e].from, at |-> "local", left |-> rooms[sends[e].from]]
    <2>1. sends' = [sends EXCEPT ![e] = c] /\ sends[e].at = "publish"
      BY <1>7 DEF PublishFails
    <2>2. Once(c.left) /\ c.at = "local"
      BY <1>b DEF RoomsAreOfTheirs
    <2> HIDE DEF c
    <2>3. /\ \A f \in DOMAIN sends' : Once(sends'[f].left)
          /\ DOMAIN sends' = DOMAIN sends /\ sends'[e] = c
          /\ \A f \in DOMAIN sends \ {e} : sends'[f] = sends[f]
      BY <2>1, <2>2, <1>d
    <2>4. CASE UNCHANGED <<published, channel, doubtful>>
      <3>1. ASSUME NEW x \in Events, Contains(published', x)
            PROVE  /\ x \in DOMAIN sends' /\ sends'[x].at # "publish"
                   /\ sends'[x].at = "local" => x \in doubtful'
        <4>1. x \in DOMAIN sends /\ x # e
          BY <3>1, <2>1, <2>4 DEF TakenOnce
        <4>2. QED
          BY <3>1, <4>1, <2>3, <2>4 DEF TakenOnce
      <3>2. QED
        BY <3>1, <2>3, <2>4 DEF TakenOnce
    <2>5. CASE Taken(e) /\ doubtful' = doubtful \cup {e}
      <3>1. doubtful \subseteq doubtful' /\ e \in doubtful'
        BY <2>5
      <3>2. QED
        BY <2>1, <2>2, <2>3, <2>5, <3>1, <1>e
    <2>6. QED
      BY <1>7, <2>4, <2>5 DEF PublishFails
  <1>8. ASSUME NEW e \in DOMAIN sends, SendsLocally(e)
        PROVE  TakenOnce'
    <2>1. PICK c : /\ sends' = [sends EXCEPT ![e] = c] /\ Once(c.left) /\ c.at \in {"over", "local"}
      <3>1. Once(sends[e].left) /\ sends[e].at = "local"
        BY <1>8 DEF TakenOnce, SendsLocally
      <3>2. CASE sends[e].left = <<>>
        <4>1. LET c == [sends[e] EXCEPT !.at = "over"] IN c.left = sends[e].left /\ c.at = "over"
          BY <1>b DEF Calls
        <4>2. QED
          BY <1>8, <3>1, <3>2, <4>1, CallMoves
      <3>3. CASE sends[e].left # <<>>
        <4>1. LET c == [sends[e] EXCEPT !.left = Tail(sends[e].left)] IN
                c.left = Tail(sends[e].left) /\ c.at = "local"
          BY <1>b, <3>1 DEF Calls
        <4>2. Once(Tail(sends[e].left))
          BY <1>b, <3>1, <3>3, TailOnce
        <4>3. QED
          BY <1>8, <3>3, <4>1, <4>2, CallMoves
      <3>4. QED
        BY <3>2, <3>3
    <2>2. /\ \A f \in DOMAIN sends' : Once(sends'[f].left)
          /\ DOMAIN sends' = DOMAIN sends /\ sends'[e] = c
          /\ \A f \in DOMAIN sends \ {e} : sends'[f] = sends[f]
      BY <2>1, <1>d
    <2>3. UNCHANGED <<published, channel, doubtful>> /\ sends[e].at = "local"
      BY <1>8 DEF SendsLocally, tasks
    <2>4. QED
      BY <2>1, <2>2, <2>3 DEF TakenOnce
  <1>9. QED
    BY <1>1, <1>2, <1>3, <1>4, <1>5, <1>6, <1>7, <1>8
    DEF Next, Runs, connect, Subscribed, Takes, vars, history, tasks

\* What a socket hears: the one event more, if it is there.
LEMMA HearingFacts ==
  ASSUME IInv, NEW s \in Sockets, NEW e \in Events, Hears(s, e)
  PROVE  /\ conn[s] = "in" =>
              /\ heard'[s] = Append(heard[s], e)
              /\ \A x : Contains(heard'[s], x) <=> Contains(heard[s], x) \/ x = e
         /\ \A r \in Sockets : r # s \/ conn[s] # "in" => heard'[r] = heard[r]
  <1>1. heard \in [Sockets -> Seq(Events)]
    BY DEF IInv, TypeOK
  <1>2. /\ conn[s] = "in" => heard'[s] = Append(heard[s], e)
        /\ \A r \in Sockets : r # s \/ conn[s] # "in" => heard'[r] = heard[r]
    BY <1>1 DEF Hears
  <1>3. \A x : Contains(Append(heard[s], e), x) <=> Contains(heard[s], x) \/ x = e
    BY <1>1, AppendOnce
  <1>4. QED
    BY <1>2, <1>3

\* Hearing what was not heard yet, or is doubtful, leaves only doubtful events twice.
LEMMA HearingOnce ==
  ASSUME IInv, TwiceOnlyIfDoubtful, NEW s \in Sockets, NEW e \in Events, Hears(s, e),
         conn[s] = "in" => ~Contains(heard[s], e) \/ e \in doubtful, doubtful' = doubtful
  PROVE  TwiceOnlyIfDoubtful'
  <1>1. ASSUME NEW r \in Sockets, NEW i \in DOMAIN heard'[r], NEW j \in DOMAIN heard'[r],
               i # j, heard'[r][i] = heard'[r][j]
        PROVE  heard'[r][i] \in doubtful
    <2>1. CASE heard'[r] = heard[r]
      BY <1>1, <2>1 DEF TwiceOnlyIfDoubtful
    <2>2. CASE heard'[r] # heard[r]
      <3>1. r = s /\ conn[s] = "in" /\ heard'[r] = Append(heard[r], e)
        BY <2>2, HearingFacts
      <3>2. heard[r] \in Seq(Events)
        BY DEF IInv, TypeOK
      <3>3. /\ DOMAIN heard'[r] = 1..(Len(heard[r]) + 1) /\ heard'[r][Len(heard[r]) + 1] = e
            /\ \A k \in 1..Len(heard[r]) : heard'[r][k] = heard[r][k]
            /\ DOMAIN heard[r] = 1..Len(heard[r]) /\ Len(heard[r]) \in Nat
        BY <3>1, <3>2, AppendProperties
      <3>4. CASE i \in 1..Len(heard[r]) /\ j \in 1..Len(heard[r])
        BY <1>1, <3>3, <3>4 DEF TwiceOnlyIfDoubtful
      <3>5. CASE i = Len(heard[r]) + 1 /\ j \in 1..Len(heard[r])
        BY <1>1, <3>1, <3>3, <3>5 DEF Contains
      <3>6. CASE j = Len(heard[r]) + 1 /\ i \in 1..Len(heard[r])
        BY <1>1, <3>1, <3>3, <3>6 DEF Contains
      <3>7. QED
        BY <1>1, <3>3, <3>4, <3>5, <3>6
    <2>3. QED
      BY <2>1, <2>2
  <1>2. QED
    BY <1>1 DEF TwiceOnlyIfDoubtful

\* A socket is sent what is new to it, and has then no more to get of it.
LEMMA HeardKept ==
  ASSUME IInv, RoomsAreOfTheirs, LoopsAreOfRooms, TakenOnce, TwiceOnlyIfDoubtful, HeardIsPast,
         [Next]_vars
  PROVE  TwiceOnlyIfDoubtful' /\ HeardIsPast'
  <1> USE DEF Tasks
  <1>a. /\ channel \in [Tasks -> Seq(Events)] /\ left \in [Tasks -> Seq(Sockets)]
        /\ \A t \in Tasks : home[t] \in Processes
    BY DEF IInv, TypeOK
  <1>b. /\ DOMAIN sends = 1..Len(sends) /\ Len(sends) \in Nat /\ sends \in Seq(Calls)
        /\ \A e \in DOMAIN sends :
             /\ e \in Events /\ sends[e] \in Calls
             /\ sends[e].left \in Seq(Sockets) /\ sends[e].from \in Processes
    BY CallFacts
  <1>c. ASSUME UNCHANGED <<heard, sends, doubtful, home>>,
               \A t \in Tasks : \/ channel'[t] = channel[t] /\ left'[t] = left[t]
                                \/ channel'[t] = <<>>
        PROVE  TwiceOnlyIfDoubtful' /\ HeardIsPast'
    <2>1. ASSUME NEW s \in Sockets, NEW e \in Events, NEW t \in Tasks, IsPast(s, e, t)
          PROVE  IsPast(s, e, t)'
      BY <1>c, <2>1, EmptyHasNothing DEF IsPast
    <2>2. QED
      BY <1>c, <2>1 DEF TwiceOnlyIfDoubtful, HeardIsPast
  <1>1. CASE UNCHANGED <<heard, sends, doubtful, home, channel, left>>
    BY <1>1, <1>c
  <1>2. ASSUME NEW s \in Sockets, disconnect(s)
        PROVE  TwiceOnlyIfDoubtful' /\ HeardIsPast'
    <2>1. pubsub_tasks[home[s]] \in Tasks
      BY <1>2, TaskOfRoom DEF disconnect
    <2>2. \A t \in Tasks : (channel'[t] = channel[t] /\ left'[t] = left[t]) \/ channel'[t] = <<>>
      BY <1>2, <1>a, <2>1 DEF disconnect, tasks
    <2>3. UNCHANGED <<heard, sends, doubtful, home>>
      BY <1>2 DEF disconnect, history
    <2>4. QED
      BY <1>c, <2>2, <2>3
  <1>3. ASSUME NEW t \in Tasks, SubscriptionFails(t) \/ Reconnects(t)
        PROVE  TwiceOnlyIfDoubtful' /\ HeardIsPast'
    <2>1. \A r \in Tasks : (channel'[r] = channel[r] /\ left'[r] = left[r]) \/ channel'[r] = <<>>
      BY <1>3, <1>a DEF SubscriptionFails, Reconnects
    <2>2. UNCHANGED <<heard, sends, doubtful, home>>
      BY <1>3 DEF SubscriptionFails, Reconnects, room
    <2>3. QED
      BY <1>c, <2>1, <2>2
  <1>4. ASSUME NEW t \in Tasks, Takes(t)
        PROVE  TwiceOnlyIfDoubtful' /\ HeardIsPast'
    <2>1. /\ left[t] = <<>> /\ UNCHANGED <<heard, sends, doubtful, home, channel>>
          /\ \A r \in Tasks \ {t} : left'[r] = left[r]
      BY <1>4, <1>a DEF Takes, room, history
    <2>2. ASSUME NEW s \in Sockets, NEW e \in Events, NEW r \in Tasks, IsPast(s, e, r)
          PROVE  IsPast(s, e, r)'
      BY <2>1, <2>2 DEF IsPast
    <2>3. QED
      BY <2>1, <2>2 DEF TwiceOnlyIfDoubtful, HeardIsPast
  <1>5. ASSUME NEW t \in Tasks, SendsOn(t)
        PROVE  TwiceOnlyIfDoubtful' /\ HeardIsPast'
    <2> DEFINE r == Head(left[t])
               e == Head(channel[t])
    <2>1. /\ left[t] # <<>> /\ left'[t] = Tail(left[t]) /\ Hears(r, e)
          /\ channel'[t] = IF Len(left[t]) = 1 THEN Tail(channel[t]) ELSE channel[t]
          /\ \A q \in Tasks \ {t} : left'[q] = left[q] /\ channel'[q] = channel[q]
          /\ UNCHANGED <<home, sends, doubtful>>
      BY <1>5, <1>a DEF SendsOn, room
    <2>2. /\ channel[t] # <<>> /\ channel[t] \in Seq(Events) /\ left[t] \in Seq(Sockets)
          /\ Once(channel[t]) /\ Once(left[t])
      BY <1>a, <2>1 DEF IInv, SendersHaveEvents, TakenOnce, LoopsAreOfRooms
    <2>3. /\ e \in Events /\ Contains(channel[t], e)
          /\ \A x : Contains(Tail(channel[t]), x) <=> Contains(channel[t], x) /\ x # e
      BY <2>2, TailOnce, HeadTailProperties
    <2>4. /\ r \in Sockets /\ Contains(left[t], r)
          /\ \A x : Contains(Tail(left[t]), x) <=> Contains(left[t], x) /\ x # r
      BY <2>1, <2>2, TailOnce, HeadTailProperties
    <2>5. /\ Len(left[t]) # 1 => Tail(left[t]) # <<>>
          /\ at[t] = "listening" /\ home[r] = home[t]
      <3>1. Len(Tail(left[t])) = Len(left[t]) - 1 /\ Len(left[t]) \in Nat
        BY <2>1, <2>2, HeadTailProperties
      <3>2. Tail(left[t]) = <<>> => Len(left[t]) = 1
        <4>1. Tail(left[t]) = <<>> => Len(left[t]) - 1 = 0
          BY <3>1, EmptySeq
        <4>2. QED
          BY <3>1, <4>1
      <3>3. QED
        BY <3>2, <2>1, <2>4 DEF LoopsAreOfRooms
    <2>6. ~Contains(heard[r], e) \/ e \in doubtful
      BY <2>1, <2>3, <2>4, <2>5 DEF HeardIsPast, IsPast
    <2>7. e \in DOMAIN sends /\ sends[e].at # "publish" /\ (sends[e].at = "local" => e \in doubtful)
      BY <2>3 DEF TakenOnce
    <2> HIDE DEF r, e
    <2>8. ASSUME NEW s \in Sockets, NEW x \in Events, NEW q \in Tasks,
                 (Contains(heard[s], x) /\ IsPast(s, x, q)) \/ (s = r /\ x = e)
          PROVE  IsPast(s, x, q)'
      <3> SUFFICES ASSUME home[q] = home[s], Contains(channel'[q], x)
                   PROVE  x = Head(channel'[q]) /\ left'[q] # <<>> /\ ~Contains(left'[q], s)
        BY <2>1 DEF IsPast
      <3>1. CASE q = t
        <4>1. Contains(channel[t], x)
          BY <3>1, <2>1, <2>3
        <4>2. x = e /\ ~Contains(Tail(left[t]), s)
          BY <3>1, <4>1, <2>8, <2>4 DEF IsPast, e
        <4>3. Len(left[t]) # 1
          BY <4>2, <3>1, <2>1, <2>3
        <4>4. QED
          BY <4>2, <4>3, <3>1, <2>1, <2>5 DEF e
      <3>2. CASE q # t
        <4>1. CASE Contains(heard[s], x) /\ IsPast(s, x, q)
          BY <4>1, <3>2, <2>1 DEF IsPast
        <4>2. CASE s = r /\ x = e
          <5>1. Contains(channel[q], x)
            BY <3>2, <2>1
          <5>2. at[q] = "listening"
            BY <5>1, EmptyHasNothing DEF LoopsAreOfRooms
          <5>3. q = pubsub_tasks[home[q]] /\ t = pubsub_tasks[home[t]]
            BY <5>2, <2>5 DEF IInv, OneSubscription, Live
          <5>4. QED
            BY <5>3, <3>2, <4>2, <2>5
        <4>3. QED
          BY <4>1, <4>2, <2>8
      <3>3. QED
        BY <3>1, <3>2
    <2>9. ASSUME NEW s \in Sockets, NEW x \in Events, Contains(heard'[s], x)
          PROVE  Contains(heard[s], x) \/ (s = r /\ x = e)
      BY <2>9, <2>1, <2>3, <2>4, HearingFacts
    <2>10. HeardIsPast'
      <3> SUFFICES ASSUME NEW s \in Sockets, NEW x \in Events, Contains(heard'[s], x)
                   PROVE  /\ x \in DOMAIN sends
                          /\ sends[x].at # "publish"
                          /\ x \notin doubtful =>
                               /\ sends[x].at = "local" => ~Contains(sends[x].left, s)
                               /\ \A q \in Tasks : IsPast(s, x, q)'
        BY <2>1 DEF HeardIsPast
      <3>1. CASE Contains(heard[s], x)
        BY <3>1, <2>8 DEF HeardIsPast
      <3>2. CASE s = r /\ x = e
        BY <3>2, <2>7, <2>8
      <3>3. QED
        BY <3>1, <3>2, <2>9
    <2>11. TwiceOnlyIfDoubtful'
      BY <2>1, <2>3, <2>4, <2>6, HearingOnce
    <2>12. QED
      BY <2>10, <2>11
  <1>6. ASSUME NEW p \in Processes, send_to_room(p)
        PROVE  TwiceOnlyIfDoubtful' /\ HeardIsPast'
    <2>1. PICK c : sends' = Append(sends, c)
      BY <1>6 DEF send_to_room
    <2>2. \A e \in DOMAIN sends : e \in DOMAIN sends' /\ sends'[e] = sends[e]
      BY <1>b, <2>1
    <2>3. UNCHANGED <<heard, doubtful, home, channel, left>>
      BY <1>6 DEF send_to_room, room, tasks, history
    <2>4. QED
      BY <2>2, <2>3 DEF TwiceOnlyIfDoubtful, HeardIsPast, IsPast
  <1>7. ASSUME NEW e \in DOMAIN sends, Published(e) \/ PublishFails(e)
        PROVE  TwiceOnlyIfDoubtful' /\ HeardIsPast'
    <2>1. /\ sends[e].at = "publish" /\ UNCHANGED <<heard, home, left>>
          /\ doubtful \subseteq doubtful' /\ (channel' = channel \/ Taken(e))
      BY <1>7 DEF Published, PublishFails, room
    <2>2. /\ DOMAIN sends' = DOMAIN sends
          /\ \A f \in DOMAIN sends \ {e} : sends'[f] = sends[f]
      <3>1. PICK c : sends' = [sends EXCEPT ![e] = c]
        BY <1>7, CallMoves DEF PublishFails
      <3>2. QED
        BY <3>1, CallMoves
    <2>3. ASSUME NEW s \in Sockets, NEW x \in Events, NEW t \in Tasks, x # e, IsPast(s, x, t)
          PROVE  IsPast(s, x, t)'
      <3>1. channel[t] \in Seq(Events) /\ e \in Events
        BY <1>a, <1>b
      <3>2. CASE channel'[t] = channel[t]
        BY <3>2, <2>1, <2>3 DEF IsPast
      <3>3. CASE channel'[t] = Append(channel[t], e)
        <4>1. Contains(channel'[t], x) <=> Contains(channel[t], x)
          BY <3>1, <3>3, <2>3, AppendOnce
        <4>2. Contains(channel[t], x) => Head(channel'[t]) = Head(channel[t])
          <5>1. Contains(channel[t], x) => Len(channel[t]) >= 1
            BY <3>1 DEF Contains
          <5>2. QED
            BY <5>1, <3>1, <3>3
        <4>3. QED
          BY <4>1, <4>2, <2>1, <2>3 DEF IsPast
      <3>4. QED
        BY <3>2, <3>3, <2>1 DEF Taken
    <2>4. HeardIsPast'
      <3> SUFFICES ASSUME NEW s \in Sockets, NEW x \in Events, Contains(heard[s], x)
                   PROVE  /\ x \in DOMAIN sends'
                          /\ sends'[x].at # "publish"
                          /\ x \notin doubtful' =>
                               /\ sends'[x].at = "local" => ~Contains(sends'[x].left, s)
                               /\ \A t \in Tasks : IsPast(s, x, t)'
        BY <2>1 DEF HeardIsPast
      <3>1. x # e /\ x \in DOMAIN sends
        BY <2>1 DEF HeardIsPast
      <3>2. QED
        BY <3>1, <2>1, <2>2, <2>3 DEF HeardIsPast
    <2>5. TwiceOnlyIfDoubtful'
      BY <2>1 DEF TwiceOnlyIfDoubtful
    <2>6. QED
      BY <2>4, <2>5
  <1>8. ASSUME NEW e \in DOMAIN sends, SendsLocally(e)
        PROVE  TwiceOnlyIfDoubtful' /\ HeardIsPast'
    <2>1. sends[e].at = "local" /\ UNCHANGED <<home, channel, left, doubtful>>
      BY <1>8 DEF SendsLocally, room, tasks
    <2>2. CASE sends[e].left = <<>>
      <3>1. heard' = heard /\ sends' = [sends EXCEPT ![e] = [sends[e] EXCEPT !.at = "over"]]
        BY <1>8, <2>2, CallMoves DEF SendsLocally
      <3>2. [sends[e] EXCEPT !.at = "over"].at = "over"
        BY <1>b DEF Calls
      <3>3. /\ DOMAIN sends' = DOMAIN sends /\ sends'[e].at = "over"
            /\ \A f \in DOMAIN sends \ {e} : sends'[f] = sends[f]
        BY <3>1, <3>2, CallMoves
      <3>4. QED
        BY <3>1, <3>3, <2>1 DEF TwiceOnlyIfDoubtful, HeardIsPast, IsPast
    <2>3. CASE sends[e].left # <<>>
      <3> DEFINE r == Head(sends[e].left)
                 c == [sends[e] EXCEPT !.left = Tail(sends[e].left)]
      <3>1. Hears(r, e) /\ sends' = [sends EXCEPT ![e] = c]
        BY <1>8, <2>3, CallMoves DEF SendsLocally
      <3>2. c.at = "local" /\ c.left = Tail(sends[e].left)
        BY <1>b, <2>1 DEF Calls
      <3>3. sends[e].left \in Seq(Sockets) /\ Once(sends[e].left) /\ e \in Events
        BY <1>b DEF TakenOnce
      <3>4. /\ r \in Sockets /\ Contains(sends[e].left, r)
            /\ \A x : Contains(Tail(sends[e].left), x) <=> Contains(sends[e].left, x) /\ x # r
        BY <2>3, <3>3, TailOnce, HeadTailProperties
      <3>5. ~Contains(heard[r], e) \/ e \in doubtful
        BY <2>1, <3>3, <3>4 DEF HeardIsPast
      <3> HIDE DEF r, c
      <3>6. /\ DOMAIN sends' = DOMAIN sends /\ sends'[e] = c
            /\ \A f \in DOMAIN sends \ {e} : sends'[f] = sends[f]
        BY <3>1, CallMoves
      <3>7. e \notin doubtful => \A t \in Tasks : ~Contains(channel[t], e)
        BY <2>1, <3>3 DEF TakenOnce
      <3>8. ASSUME NEW s \in Sockets, NEW x \in Events, Contains(heard'[s], x)
            PROVE  Contains(heard[s], x) \/ (s = r /\ x = e)
        BY <3>8, <3>1, <3>3, <3>4, HearingFacts
      <3>9. HeardIsPast'
        <4> SUFFICES ASSUME NEW s \in Sockets, NEW x \in Events, Contains(heard'[s], x)
                     PROVE  /\ x \in DOMAIN sends'
                            /\ sends'[x].at # "publish"
                            /\ x \notin doubtful =>
                                 /\ sends'[x].at = "local" => ~Contains(sends'[x].left, s)
                                 /\ \A t \in Tasks : IsPast(s, x, t)
          BY <2>1 DEF HeardIsPast, IsPast
        <4>1. CASE x = e
          <5>1. x \in DOMAIN sends' /\ sends'[x].at # "publish"
            BY <4>1, <3>2, <3>6
          <5>2. x \notin doubtful => ~Contains(sends'[x].left, s)
            <6>1. CASE s = r
              BY <6>1, <4>1, <3>2, <3>4, <3>6
            <6>2. CASE s # r
              BY <6>2, <4>1, <3>2, <3>4, <3>6, <3>8, <2>1 DEF HeardIsPast
            <6>3. QED
              BY <6>1, <6>2
          <5>3. x \notin doubtful => \A t \in Tasks : IsPast(s, x, t)
            BY <4>1, <3>7 DEF IsPast
          <5>4. QED
            BY <5>1, <5>2, <5>3
        <4>2. CASE x # e
          <5>1. Contains(heard[s], x)
            BY <4>2, <3>8
          <5>2. QED
            BY <5>1, <4>2, <3>6 DEF HeardIsPast
        <4>3. QED
          BY <4>1, <4>2
      <3>10. TwiceOnlyIfDoubtful'
        BY <2>1, <3>1, <3>3, <3>4, <3>5, HearingOnce
      <3>11. QED
        BY <3>9, <3>10
    <2>4. QED
      BY <2>2, <2>3
  <1>9. QED
    BY <1>1, <1>2, <1>3, <1>4, <1>5, <1>6, <1>7, <1>8
    DEF Next, Runs, connect, Subscribed, vars, room, history, tasks

\* A process leaves Redis alone only after a failure, and says nothing locally.
LEMMA RedisUseKept ==
  ASSUME IInv, RedisIsUsed, [Next]_vars
  PROVE  RedisIsUsed'
  <1>a. /\ DOMAIN sends = 1..Len(sends) /\ Len(sends) \in Nat /\ sends \in Seq(Calls)
        /\ failures \in Nat
    BY CallFacts, ConstantsOK DEF IInv, TypeOK
  <1>1. CASE RedisFails
    <2>1. failures' # 0
      BY <1>a, <1>1 DEF RedisFails
    <2>2. QED
      BY <2>1 DEF RedisIsUsed
  <1>2. ASSUME NEW p \in Processes, send_to_room(p)
        PROVE  RedisIsUsed'
    <2> SUFFICES ASSUME failures' = 0
                 PROVE  /\ \A q \in Processes : redis_active'[q]
                        /\ \A e \in DOMAIN sends' : sends'[e].at # "local"
      BY DEF RedisIsUsed
    <2>1. /\ redis_active' = redis_active /\ \A q \in Processes : redis_active[q]
          /\ \A e \in DOMAIN sends : sends[e].at # "local"
      BY <1>2 DEF send_to_room, history, RedisIsUsed
    <2>2. sends' = Append(sends, [from |-> p, at |-> "publish", left |-> <<>>])
      BY <1>2, <2>1 DEF send_to_room
    <2>3. \A e \in DOMAIN sends' : sends'[e].at # "local"
      BY <1>a, <2>1, <2>2
    <2>4. QED
      BY <2>1, <2>3
  <1>3. ASSUME NEW e \in DOMAIN sends, Published(e)
        PROVE  RedisIsUsed'
    <2>1. failures' = failures /\ redis_active' = redis_active
      BY <1>3 DEF Published
    <2>2. /\ DOMAIN sends' = DOMAIN sends /\ sends'[e].at = "over"
          /\ \A f \in DOMAIN sends \ {e} : sends'[f] = sends[f]
      <3>1. [sends[e] EXCEPT !.at = "over"].at = "over"
        BY CallFacts DEF Calls
      <3>2. QED
        BY <1>3, <3>1, CallMoves
    <2>3. QED
      BY <2>1, <2>2 DEF RedisIsUsed
  <1>4. ASSUME NEW e \in DOMAIN sends, SendsLocally(e)
        PROVE  RedisIsUsed'
    <2>1. failures' = failures /\ sends[e].at = "local"
      BY <1>4 DEF SendsLocally
    <2>2. QED
      BY <2>1 DEF RedisIsUsed
  <1>5. CASE UNCHANGED <<failures, redis_active, sends>>
    BY <1>5 DEF RedisIsUsed
  <1>6. QED
    BY <1>1, <1>2, <1>3, <1>4, <1>5
    DEF Next, Runs, connect, disconnect, Subscribed, Takes, SendsOn, SubscriptionFails, Reconnects,
        PublishFails, vars, history

\* Only who is in the room is sent anything.
LEMMA NewHeardNothingKept ==
  ASSUME IInv, LoopsAreOfRooms, NewHeardNothing, [Next]_vars
  PROVE  NewHeardNothing'
  <1>1. ASSUME NEW s \in Sockets, connect(s) \/ disconnect(s)
        PROVE  NewHeardNothing'
    <2>1. heard' = heard /\ \A r \in Sockets : conn'[r] = "new" => conn[r] = "new"
      BY <1>1 DEF connect, disconnect, history, IInv, TypeOK
    <2>2. QED
      BY <2>1 DEF NewHeardNothing
  <1>2. ASSUME NEW s \in Sockets, NEW e \in Events, Hears(s, e), conn' = conn
        PROVE  NewHeardNothing'
    BY <1>2, HearingFacts DEF NewHeardNothing
  <1>3. ASSUME NEW t \in Tasks, SendsOn(t)
        PROVE  NewHeardNothing'
    <2>1. /\ left[t] \in Seq(Sockets) /\ left[t] # <<>>
          /\ channel[t] \in Seq(Events) /\ channel[t] # <<>>
      BY <1>3 DEF SendsOn, IInv, TypeOK, SendersHaveEvents
    <2>2. Head(left[t]) \in Sockets /\ Head(channel[t]) \in Events
      BY <2>1, HeadTailProperties
    <2>3. QED
      BY <1>2, <1>3, <2>2 DEF SendsOn, room
  <1>4. ASSUME NEW e \in DOMAIN sends, SendsLocally(e)
        PROVE  NewHeardNothing'
    <2>1. sends[e].left \in Seq(Sockets) /\ e \in Events /\ conn' = conn
      BY <1>4, CallFacts DEF SendsLocally, room
    <2>2. CASE sends[e].left = <<>>
      BY <1>4, <2>1, <2>2 DEF SendsLocally, NewHeardNothing
    <2>3. CASE sends[e].left # <<>>
      <3>1. Head(sends[e].left) \in Sockets
        BY <2>1, <2>3, HeadTailProperties
      <3>2. QED
        BY <1>2, <1>4, <2>1, <2>3, <3>1 DEF SendsLocally
    <2>4. QED
      BY <2>2, <2>3
  <1>5. CASE UNCHANGED <<conn, heard>>
    BY <1>5 DEF NewHeardNothing
  <1>6. QED
    BY <1>1, <1>3, <1>4, <1>5
    DEF Next, Runs, Subscribed, Takes, SubscriptionFails, Reconnects, send_to_room, Published,
        PublishFails, vars, room, history

\* OnceInv holds at the start and every step keeps it.
THEOREM HeardOnce == Spec => []OnceInv
  <1>1. Init => OnceInv
    <2> SUFFICES ASSUME Init
                 PROVE  OnceInv
      OBVIOUS
    <2>1. RoomsAreOfTheirs /\ LoopsAreOfRooms
      BY EmptyHasNothing DEF Init, RoomsAreOfTheirs, LoopsAreOfRooms, Tasks
    <2>2. TakenOnce
      BY EmptyHasNothing DEF Init, TakenOnce, Tasks
    <2>3. TwiceOnlyIfDoubtful /\ HeardIsPast /\ NewHeardNothing
      BY EmptyHasNothing DEF Init, TwiceOnlyIfDoubtful, HeardIsPast, NewHeardNothing
    <2>4. RedisIsUsed
      BY DEF Init, RedisIsUsed
    <2>5. QED
      BY <2>1, <2>2, <2>3, <2>4 DEF OnceInv
  <1>2. IInv /\ OnceInv /\ [Next]_vars => OnceInv'
    BY RoomsKept, LoopsKept, TakenKept, HeardKept, RedisUseKept, NewHeardNothingKept DEF OnceInv
  <1>3. QED
    BY <1>1, <1>2, Invariance, PTL DEF Spec

-----------------------------------------------------------------------------
(* In which order. *)

\* How much of what was published task t is done with.
Read(t) == Len(published) - Len(channel[t])

\* The sockets a loop has passed are one event ahead of it.
Ahead(s, t) == IF left[t] # <<>> /\ ~Contains(left[t], s) THEN 1 ELSE 0

\* What s heard is a stretch of what was published, after the first i.
IsStretch(s, i) ==
  /\ i + Len(heard[s]) <= Len(published)
  /\ \A j \in 1..Len(heard[s]) : heard[s][j] = published[i + j]

\* A socket in the room has come as far as its process's task.
IsInStep(s, i) ==
  heard[s] # <<>> /\ conn[s] = "in" =>
    LET t == pubsub_tasks[home[s]] IN
    at[t] = "listening" /\ i + Len(heard[s]) = Read(t) + Ahead(s, t)

\* What Redis has for a task is the end of what was published.
ChannelsAreEnds ==
  \A t \in Tasks : at[t] = "listening" =>
    /\ Len(channel[t]) <= Len(published)
    /\ \A j \in 1..Len(channel[t]) : channel[t][j] = published[Read(t) + j]

SocketsAreInStep ==
  \A s \in Sockets : \E i \in 0..Len(published) : IsStretch(s, i) /\ IsInStep(s, i)

InStep == failures = 0 => ChannelsAreEnds /\ SocketsAreInStep

\* A task that sends an event on to a socket, or to the last one.
LEMMA SendingKeepsStep ==
  ASSUME IInv, OnceInv, ChannelsAreEnds, SocketsAreInStep, NEW t \in Tasks, SendsOn(t)
  PROVE  ChannelsAreEnds' /\ SocketsAreInStep'
  <1> USE DEF Tasks
  <1> DEFINE last == Len(left[t]) = 1
  <1>a. /\ at \in [Tasks -> {"new", "subscribing", "listening", "ended"}]
        /\ channel \in [Tasks -> Seq(Events)] /\ left \in [Tasks -> Seq(Sockets)]
        /\ heard \in [Sockets -> Seq(Events)] /\ published \in Seq(Events)
    BY DEF IInv, TypeOK
  <1>b. /\ left[t] # <<>> /\ left[t] \in Seq(Sockets) /\ Once(left[t])
        /\ channel[t] # <<>> /\ channel[t] \in Seq(Events)
    BY <1>a DEF SendsOn, IInv, SendersHaveEvents, OnceInv, LoopsAreOfRooms
  <1>c. Head(left[t]) \in Sockets /\ Head(channel[t]) \in Events
    BY <1>b, HeadTailProperties
  <1>d. PICK r \in Sockets, e \in Events : r = Head(left[t]) /\ e = Head(channel[t])
    BY <1>c
  <1>1. /\ left'[t] = Tail(left[t]) /\ Hears(r, e)
        /\ last => channel'[t] = Tail(channel[t])
        /\ ~last => channel'[t] = channel[t]
        /\ \A q \in Tasks \ {t} : left'[q] = left[q] /\ channel'[q] = channel[q]
        /\ UNCHANGED <<home, conn, pubsub_tasks, at, published>>
    BY <1>a, <1>d DEF SendsOn, room
  <1>3. /\ e = channel[t][1] /\ Len(channel[t]) \in Nat /\ Len(channel[t]) >= 1
        /\ Len(Tail(channel[t])) = Len(channel[t]) - 1
        /\ \A j \in 1..Len(Tail(channel[t])) : Tail(channel[t])[j] = channel[t][j + 1]
    BY <1>b, <1>d, HeadTailProperties, EmptySeq
  <1>4. /\ Contains(left[t], r)
        /\ \A x : Contains(Tail(left[t]), x) <=> Contains(left[t], x) /\ x # r
    BY <1>b, <1>d, TailOnce
  <1>5. /\ last <=> Tail(left[t]) = <<>>
        /\ at[t] = "listening" /\ home[r] = home[t]
    <2>1. Len(Tail(left[t])) = Len(left[t]) - 1 /\ Len(left[t]) \in Nat /\ Tail(left[t]) \in Seq(Sockets)
      BY <1>b, HeadTailProperties
    <2>2. Tail(left[t]) = <<>> <=> Len(left[t]) - 1 = 0
      BY <2>1, EmptySeq
    <2>3. last <=> Tail(left[t]) = <<>>
      BY <2>1, <2>2
    <2>4. QED
      BY <2>3, <1>b, <1>4 DEF OnceInv, LoopsAreOfRooms
  <1>6. /\ Len(channel[t]) <= Len(published) /\ Len(published) \in Nat
        /\ \A j \in 1..Len(channel[t]) : channel[t][j] = published[Read(t) + j]
    BY <1>a, <1>5 DEF ChannelsAreEnds
  <1>7. Read(t) \in Nat /\ Read(t) + 1 <= Len(published) /\ e = published[Read(t) + 1]
    <2>1. Read(t) \in Nat /\ Read(t) + 1 <= Len(published)
      BY <1>3, <1>6 DEF Read
    <2>2. 1 \in 1..Len(channel[t])
      BY <1>3
    <2>3. QED
      BY <2>1, <2>2, <1>3, <1>6
  <1>8. /\ \A q \in Tasks \ {t} : Read(q)' = Read(q)
        /\ last => Read(t)' = Read(t) + 1
        /\ ~last => Read(t)' = Read(t)
    <2>1. \A q \in Tasks : Read(q)' = Len(published) - Len(channel'[q])
      BY <1>1 DEF Read
    <2>2. last => Len(channel'[t]) = Len(channel[t]) - 1
      BY <1>1, <1>3
    <2>3. \A q \in Tasks \ {t} : Read(q)' = Read(q)
      BY <2>1, <1>1 DEF Read
    <2>4. ~last => Read(t)' = Read(t)
      BY <2>1, <1>1 DEF Read
    <2>5. last => Read(t)' = Read(t) + 1
      <3>1. last => Read(t)' = Len(published) - (Len(channel[t]) - 1)
        BY <2>1, <2>2
      <3>2. Len(published) - (Len(channel[t]) - 1) = Read(t) + 1
        BY <1>3, <1>6 DEF Read
      <3>3. QED
        BY <3>1, <3>2
    <2>6. QED
      BY <2>3, <2>4, <2>5
  <1>9. /\ \A q \in Tasks \ {t}, s \in Sockets : Ahead(s, q)' = Ahead(s, q)
        /\ \A s \in Sockets : last => Ahead(s, t)' = 0 /\ (s # r => Ahead(s, t) = 1)
        /\ \A s \in Sockets : ~last /\ s # r => Ahead(s, t)' = Ahead(s, t)
        /\ ~last => Ahead(r, t)' = 1
        /\ Ahead(r, t) = 0
    <2>1. last => \A s \in Sockets : s # r => ~Contains(left[t], s)
      BY <1>4, <1>5, EmptyHasNothing
    <2>2. \A q \in Tasks, s \in Sockets :
            Ahead(s, q)' = IF left'[q] # <<>> /\ ~Contains(left'[q], s) THEN 1 ELSE 0
      BY DEF Ahead
    <2> HIDE DEF last
    <2>3. \A q \in Tasks \ {t}, s \in Sockets : Ahead(s, q)' = Ahead(s, q)
      BY <2>2, <1>1 DEF Ahead
    <2>4. \A s \in Sockets : last => Ahead(s, t)' = 0 /\ (s # r => Ahead(s, t) = 1)
      BY <2>1, <2>2, <1>b, <1>1, <1>5 DEF Ahead
    <2>5. \A s \in Sockets : ~last /\ s # r => Ahead(s, t)' = Ahead(s, t)
      BY <2>2, <1>b, <1>1, <1>4, <1>5 DEF Ahead
    <2>6. (~last => Ahead(r, t)' = 1) /\ Ahead(r, t) = 0
      BY <2>2, <1>1, <1>4, <1>5 DEF Ahead
    <2>7. QED
      BY <2>3, <2>4, <2>5, <2>6
  <1> HIDE DEF last
  <1>10. ChannelsAreEnds'
    <2> SUFFICES ASSUME NEW q \in Tasks, at[q] = "listening"
                 PROVE  /\ Len(channel'[q]) <= Len(published)
                        /\ \A j \in 1..Len(channel'[q]) : channel'[q][j] = published[Read(q)' + j]
      BY <1>1 DEF ChannelsAreEnds
    <2>1. CASE q # t
      BY <2>1, <1>1, <1>8 DEF ChannelsAreEnds
    <2>2. CASE q = t /\ ~last
      BY <2>2, <1>1, <1>8 DEF ChannelsAreEnds
    <2>3. CASE q = t /\ last
      <3>1. channel'[t] = Tail(channel[t]) /\ Read(t)' = Read(t) + 1
        BY <2>3, <1>1, <1>8
      <3>2. ASSUME NEW j \in 1..Len(channel'[t])
            PROVE  channel'[t][j] = published[Read(t)' + j]
        <4>1. j + 1 \in 1..Len(channel[t]) /\ channel'[t][j] = channel[t][j + 1]
          BY <3>1, <1>3
        <4>2. channel[t][j + 1] = published[Read(t) + (j + 1)]
          BY <4>1, <1>6
        <4>3. Read(t) + (j + 1) = Read(t)' + j
          BY <3>1, <1>7
        <4>4. QED
          BY <4>1, <4>2, <4>3
      <3>3. QED
        BY <2>3, <3>1, <3>2, <1>3, <1>6
    <2>4. QED
      BY <2>1, <2>2, <2>3
  <1>11. ASSUME NEW s \in Sockets, s # r \/ conn[s] # "in"
         PROVE  \E i \in 0..Len(published)' : (IsStretch(s, i) /\ IsInStep(s, i))'
    <2>1. PICK i \in 0..Len(published) : IsStretch(s, i) /\ IsInStep(s, i)
      BY DEF SocketsAreInStep
    <2>2. heard'[s] = heard[s]
      BY <1>1, <1>11, HearingFacts
    <2>3. IsStretch(s, i)'
      BY <2>1, <2>2, <1>1 DEF IsStretch
    <2>4. ASSUME heard[s] # <<>>, conn[s] = "in"
          PROVE  \E q \in Tasks : /\ q = pubsub_tasks[home[s]] /\ at[q] = "listening"
                                   /\ i + Len(heard[s]) = Read(q)' + Ahead(s, q)'
      <3>1. PICK q \in Tasks : /\ q = pubsub_tasks[home[s]] /\ at[q] = "listening"
                               /\ i + Len(heard[s]) = Read(q) + Ahead(s, q)
        BY <2>1, <2>4, TaskOfRoom DEF IsInStep
      <3>2. CASE q # t
        BY <3>1, <3>2, <1>8, <1>9
      <3>3. CASE q = t
        <4>1. s # r
          BY <2>4, <1>11
        <4>2. Read(t)' + Ahead(s, t)' = Read(t) + Ahead(s, t)
          BY <4>1, <1>7, <1>8, <1>9
        <4>3. QED
          BY <3>1, <3>3, <4>2
      <3>4. QED
        BY <3>2, <3>3
    <2>5. IsInStep(s, i)'
      BY <2>2, <2>4, <1>1 DEF IsInStep
    <2>6. QED
      BY <2>1, <2>3, <2>5, <1>1
  <1>12. ASSUME conn[r] = "in"
         PROVE  \E i \in 0..Len(published)' : (IsStretch(r, i) /\ IsInStep(r, i))'
    <2>1. heard'[r] = Append(heard[r], e) /\ heard[r] \in Seq(Events)
      BY <1>a, <1>1, <1>12, HearingFacts
    <2>2. /\ Len(heard'[r]) = Len(heard[r]) + 1 /\ heard'[r][Len(heard[r]) + 1] = e
          /\ Len(heard[r]) \in Nat
          /\ \A j \in 1..Len(heard[r]) : heard'[r][j] = heard[r][j]
      BY ONLY <2>1, <1>3, AppendProperties
    <2>3. t = pubsub_tasks[home[r]]
      BY <1>5 DEF IInv, OneSubscription, Live
    <2>4. PICK i \in 0..Len(published) :
            /\ i + Len(heard[r]) = Read(t)
            /\ \A j \in 1..Len(heard[r]) : heard[r][j] = published[i + j]
      <3>1. CASE heard[r] = <<>>
        <4>1. Len(heard[r]) = 0 /\ Read(t) \in 0..Len(published)
          BY <3>1, <1>6, <1>7
        <4>2. Read(t) + Len(heard[r]) = Read(t) /\ 1..Len(heard[r]) = {}
          BY <4>1, <1>7
        <4>3. QED
          BY <4>1, <4>2
      <3>2. CASE heard[r] # <<>>
        <4>1. PICK i \in 0..Len(published) : IsStretch(r, i) /\ IsInStep(r, i)
          BY <1>4 DEF SocketsAreInStep
        <4>2. i + Len(heard[r]) = Read(t)
          BY <3>2, <4>1, <1>7, <1>9, <1>12, <2>3 DEF IsInStep
        <4>3. QED
          BY <4>1, <4>2 DEF IsStretch
      <3>3. QED
        BY <3>1, <3>2
    <2>5. IsStretch(r, i)'
      <3>1. i + Len(heard'[r]) <= Len(published)
        BY <2>2, <2>4, <1>6, <1>7
      <3>2. ASSUME NEW j \in 1..Len(heard'[r])
            PROVE  heard'[r][j] = published[i + j]
        <4>1. CASE j \in 1..Len(heard[r])
          BY <4>1, <2>2, <2>4
        <4>2. CASE j = Len(heard[r]) + 1
          <5>1. i + j = Read(t) + 1
            BY <4>2, <2>2, <2>4
          <5>2. QED
            BY <4>2, <5>1, <2>2, <1>7
        <4>3. QED
          BY <4>1, <4>2, <2>2
      <3>3. QED
        BY <3>1, <3>2, <1>1 DEF IsStretch
    <2>6. i + Len(heard'[r]) = Read(t)' + Ahead(r, t)'
      <3>1. i + Len(heard'[r]) = Read(t) + 1
        BY <2>2, <2>4, <1>7
      <3>2. CASE last
        BY <3>1, <3>2, <1>8, <1>9
      <3>3. CASE ~last
        BY <3>1, <3>3, <1>8, <1>9
      <3>4. QED
        BY <3>2, <3>3
    <2>7. IsInStep(r, i)'
      BY <2>3, <2>6, <1>1, <1>5 DEF IsInStep
    <2>8. QED
      BY <2>5, <2>7, <1>1
  <1>13. SocketsAreInStep'
    BY <1>11, <1>12 DEF SocketsAreInStep
  <1>14. QED
    BY <1>10, <1>13

\* An event that Redis takes goes to the end of every channel listened to.
LEMMA TakingKeepsStep ==
  ASSUME IInv, ChannelsAreEnds, SocketsAreInStep, NEW e \in Events, Taken(e),
         UNCHANGED <<home, conn, pubsub_tasks, at, left, heard>>
  PROVE  ChannelsAreEnds' /\ SocketsAreInStep'
  <1> USE DEF Tasks
  <1>a. /\ channel \in [Tasks -> Seq(Events)] /\ published \in Seq(Events)
        /\ heard \in [Sockets -> Seq(Events)]
    BY DEF IInv, TypeOK
  <1>1. /\ Len(published') = Len(published) + 1 /\ Len(published) \in Nat
        /\ published'[Len(published) + 1] = e
        /\ \A j \in 1..Len(published) : published'[j] = published[j]
    BY <1>a, AppendProperties DEF Taken
  <1>2. ASSUME NEW t \in Tasks, at[t] = "listening"
        PROVE  /\ Len(channel'[t]) = Len(channel[t]) + 1 /\ Len(channel[t]) \in Nat
               /\ channel'[t][Len(channel[t]) + 1] = e
               /\ \A j \in 1..Len(channel[t]) : channel'[t][j] = channel[t][j]
               /\ Read(t)' = Read(t)
    <2>1. channel'[t] = Append(channel[t], e) /\ channel[t] \in Seq(Events)
      BY <1>a, <1>2 DEF Taken
    <2>2. /\ Len(channel'[t]) = Len(channel[t]) + 1 /\ Len(channel[t]) \in Nat
          /\ channel'[t][Len(channel[t]) + 1] = e
          /\ \A j \in 1..Len(channel[t]) : channel'[t][j] = channel[t][j]
      BY ONLY <2>1, e \in Events, AppendProperties
    <2>3. Read(t)' = Read(t)
      BY <2>2, <1>1 DEF Read
    <2>4. QED
      BY <2>2, <2>3
  <1>3. ASSUME NEW t \in Tasks, at[t] = "listening"
        PROVE  /\ Len(channel'[t]) <= Len(published')
               /\ \A j \in 1..Len(channel'[t]) : channel'[t][j] = published'[Read(t)' + j]
    <2>1. /\ Len(channel[t]) <= Len(published)
          /\ \A j \in 1..Len(channel[t]) : channel[t][j] = published[Read(t) + j]
      BY <1>3 DEF ChannelsAreEnds
    <2>2. Read(t) \in Nat /\ Read(t) + Len(channel[t]) = Len(published)
      BY <2>1, <1>1, <1>2, <1>3 DEF Read
    <2>3. ASSUME NEW j \in 1..Len(channel'[t])
          PROVE  channel'[t][j] = published'[Read(t)' + j]
      <3>1. CASE j \in 1..Len(channel[t])
        <4>1. Read(t) + j \in 1..Len(published)
          BY <3>1, <2>2, <1>1, <1>2, <1>3
        <4>2. QED
          BY <3>1, <4>1, <2>1, <1>1, <1>2, <1>3
      <3>2. CASE j = Len(channel[t]) + 1
        <4>1. Read(t) + j = Len(published) + 1
          BY <3>2, <2>2, <1>1, <1>2, <1>3
        <4>2. QED
          BY <3>2, <4>1, <1>1, <1>2, <1>3
      <3>3. QED
        BY <3>1, <3>2, <1>2, <1>3
    <2>4. QED
      BY <2>1, <2>3, <1>1, <1>2, <1>3
  <1>4. ASSUME NEW s \in Sockets
        PROVE  \E i \in 0..Len(published') : (IsStretch(s, i) /\ IsInStep(s, i))'
    <2>1. PICK i \in 0..Len(published) : IsStretch(s, i) /\ IsInStep(s, i)
      BY DEF SocketsAreInStep
    <2>2. heard'[s] = heard[s] /\ Len(heard[s]) \in Nat /\ i \in 0..Len(published')
      BY <1>a, <1>1
    <2>3. IsStretch(s, i)'
      <3>1. i + Len(heard[s]) <= Len(published')
        BY <2>1, <2>2, <1>1 DEF IsStretch
      <3>2. ASSUME NEW j \in 1..Len(heard[s])
            PROVE  heard[s][j] = published'[i + j]
        <4>1. i + j \in 1..Len(published) /\ heard[s][j] = published[i + j]
          BY <2>1, <2>2, <1>1 DEF IsStretch
        <4>2. QED
          BY <4>1, <1>1
      <3>3. QED
        BY <3>1, <3>2, <2>2 DEF IsStretch
    <2>4. ASSUME heard[s] # <<>>, conn[s] = "in"
          PROVE  \E q \in Tasks : /\ q = pubsub_tasks[home[s]] /\ at[q] = "listening"
                                  /\ i + Len(heard[s]) = Read(q)' + Ahead(s, q)'
      <3>1. PICK q \in Tasks : /\ q = pubsub_tasks[home[s]] /\ at[q] = "listening"
                               /\ i + Len(heard[s]) = Read(q) + Ahead(s, q)
        BY <2>1, <2>4, TaskOfRoom DEF IsInStep
      <3>2. Read(q)' = Read(q) /\ Ahead(s, q)' = Ahead(s, q)
        BY <3>1, <1>2 DEF Ahead
      <3>3. QED
        BY <3>1, <3>2
    <2>5. IsInStep(s, i)'
      BY <2>2, <2>4 DEF IsInStep
    <2>6. QED
      BY <2>2, <2>3, <2>5
  <1>5. QED
    BY <1>3, <1>4 DEF ChannelsAreEnds, SocketsAreInStep

\* A step that hands nothing out and publishes nothing: the sockets of the room
\* keep their task and their place in its loop.
LEMMA PlacesKeepStep ==
  ASSUME IInv, ChannelsAreEnds, SocketsAreInStep, UNCHANGED <<published, heard, home>>,
         \A t \in Tasks : at'[t] = "listening" =>
           (at[t] = "listening" /\ channel'[t] = channel[t]) \/ channel'[t] = <<>>,
         \A s \in Sockets : heard[s] # <<>> /\ conn'[s] = "in" =>
           /\ conn[s] = "in" /\ pubsub_tasks'[home[s]] = pubsub_tasks[home[s]]
           /\ \A t \in Tasks : t = pubsub_tasks[home[s]] /\ at[t] = "listening" =>
                /\ at'[t] = at[t] /\ channel'[t] = channel[t]
                /\ Ahead(s, t)' = Ahead(s, t)
  PROVE  ChannelsAreEnds' /\ SocketsAreInStep'
  <1> USE DEF Tasks
  <1>1. ChannelsAreEnds'
    <2>1. published \in Seq(Events) /\ Len(published) \in Nat
      BY DEF IInv, TypeOK
    <2>2. ASSUME NEW t \in Tasks, at'[t] = "listening"
          PROVE  /\ Len(channel'[t]) <= Len(published')
                 /\ \A j \in 1..Len(channel'[t]) : channel'[t][j] = published'[Read(t)' + j]
      <3>1. CASE at[t] = "listening" /\ channel'[t] = channel[t]
        <4>1. Read(t)' = Read(t)
          BY <3>1 DEF Read
        <4>2. QED
          BY <3>1, <4>1 DEF ChannelsAreEnds
      <3>2. CASE channel'[t] = <<>>
        <4>1. Len(channel'[t]) = 0
          BY <3>2
        <4>2. QED
          BY <4>1, <2>1
      <3>3. QED
        BY <2>2, <3>1, <3>2
    <2>3. QED
      BY <2>2 DEF ChannelsAreEnds
  <1>2. ASSUME NEW s \in Sockets
        PROVE  \E i \in 0..Len(published') : (IsStretch(s, i) /\ IsInStep(s, i))'
    <2>1. PICK i \in 0..Len(published) : IsStretch(s, i) /\ IsInStep(s, i)
      BY DEF SocketsAreInStep
    <2>2. IsStretch(s, i)'
      BY <2>1 DEF IsStretch
    <2>3. ASSUME heard[s] # <<>>, conn'[s] = "in"
          PROVE  \E q \in Tasks : /\ q = pubsub_tasks'[home[s]] /\ at'[q] = "listening"
                                  /\ i + Len(heard[s]) = Read(q)' + Ahead(s, q)'
      <3>1. conn[s] = "in" /\ pubsub_tasks'[home[s]] = pubsub_tasks[home[s]]
        BY <2>3
      <3>2. PICK q \in Tasks : /\ q = pubsub_tasks[home[s]] /\ at[q] = "listening"
                               /\ i + Len(heard[s]) = Read(q) + Ahead(s, q)
        BY <2>1, <2>3, <3>1, TaskOfRoom DEF IsInStep
      <3>3. at'[q] = at[q] /\ channel'[q] = channel[q] /\ Ahead(s, q)' = Ahead(s, q)
        BY <2>3, <3>2
      <3>4. Read(q)' = Read(q)
        BY <3>3 DEF Read
      <3>5. QED
        BY <3>1, <3>2, <3>3, <3>4
    <2>4. IsInStep(s, i)'
      BY <2>3 DEF IsInStep
    <2>5. QED
      BY <2>1, <2>2, <2>4
  <1>3. QED
    BY <1>1, <1>2 DEF SocketsAreInStep

\* Until Redis fails every step keeps the sockets in step.
LEMMA InStepKept ==
  ASSUME IInv, OnceInv, InStep, [Next]_vars
  PROVE  InStep'
  <1> USE DEF Tasks
  <1> SUFFICES ASSUME failures' = 0
               PROVE  ChannelsAreEnds' /\ SocketsAreInStep'
    BY DEF InStep
  <1>a. /\ channel \in [Tasks -> Seq(Events)] /\ left \in [Tasks -> Seq(Sockets)]
        /\ at \in [Tasks -> {"new", "subscribing", "listening", "ended"}]
        /\ conn \in [Sockets -> {"new", "in", "gone"}] /\ failures \in Nat
        /\ pubsub_tasks \in [Processes -> Tasks \cup {None}]
    BY ConstantsOK DEF IInv, TypeOK
  <1>b. ~RedisFails
    BY <1>a DEF RedisFails
  <1>c. failures = 0
    BY <1>a, <1>b
    DEF Next, Runs, connect, disconnect, Subscribed, Takes, SendsOn, SubscriptionFails, Reconnects,
        send_to_room, Published, PublishFails, SendsLocally, vars, history
  <1>d. ChannelsAreEnds /\ SocketsAreInStep
    BY <1>c DEF InStep
  <1>1. ASSUME NEW s \in Sockets, connect(s)
        PROVE  ChannelsAreEnds' /\ SocketsAreInStep'
    <2>1. /\ UNCHANGED <<published, heard, home, channel, left>>
          /\ at[s] = "new" /\ heard[s] = <<>> /\ home[s] \in Processes
          /\ \A r \in Sockets \ {s} : conn'[r] = conn[r]
      BY <1>1, <1>a DEF connect, history, OnceInv, NewHeardNothing, IInv, TypeOK, NewMadeNoTask
    <2>2. \A t \in Tasks : t # s => at'[t] = at[t]
      BY <1>1, <1>a DEF connect, Subscribe
    <2>3. at'[s] # "listening"
      BY <1>1, <1>a, <2>1 DEF connect, Subscribe
    <2>4. ASSUME NEW r \in Sockets, heard[r] # <<>>, conn'[r] = "in"
          PROVE  conn[r] = "in" /\ pubsub_tasks'[home[r]] = pubsub_tasks[home[r]]
      <3>1. r # s /\ conn[r] = "in"
        BY <2>1, <2>4
      <3>2. rooms[home[r]] # <<>> /\ home[r] \in Processes
        BY <3>1, TaskOfRoom
      <3>3. QED
        BY <1>1, <1>a, <3>1, <3>2, <2>1 DEF connect, Subscribe
    <2>5. \A r \in Sockets, t \in Tasks : Ahead(r, t)' = Ahead(r, t)
      BY <2>1 DEF Ahead
    <2>6. ASSUME NEW t \in Tasks, at'[t] = "listening"
          PROVE  at[t] = "listening" /\ channel'[t] = channel[t]
      BY <2>1, <2>2, <2>3, <2>6
    <2>7. ASSUME NEW r \in Sockets, heard[r] # <<>>, conn'[r] = "in"
          PROVE  /\ conn[r] = "in" /\ pubsub_tasks'[home[r]] = pubsub_tasks[home[r]]
                 /\ \A t \in Tasks : t = pubsub_tasks[home[r]] /\ at[t] = "listening" =>
                      /\ at'[t] = at[t] /\ channel'[t] = channel[t]
                      /\ Ahead(r, t)' = Ahead(r, t)
      BY <2>1, <2>2, <2>4, <2>5, <2>7
    <2>8. QED
      BY <1>d, <2>1, <2>6, <2>7, PlacesKeepStep
  <1>2. ASSUME NEW s \in Sockets, disconnect(s)
        PROVE  ChannelsAreEnds' /\ SocketsAreInStep'
    <2>1. PICK task \in Tasks : task = pubsub_tasks[home[s]] /\ home[task] = home[s]
      BY <1>2, TaskOfRoom DEF disconnect
    <2>2. /\ UNCHANGED <<published, heard, home>> /\ home[s] \in Processes
          /\ conn'[s] = "gone" /\ \A r \in Sockets \ {s} : conn'[r] = conn[r]
          /\ \A q \in Processes \ {home[s]} : pubsub_tasks'[q] = pubsub_tasks[q]
          /\ \A t \in Tasks \ {task} :
               at'[t] = at[t] /\ channel'[t] = channel[t] /\ left'[t] = left[t]
      BY <1>2, <1>a, <2>1 DEF disconnect, history, tasks, IInv, TypeOK
    <2>3. \/ pubsub_tasks' = pubsub_tasks /\ UNCHANGED tasks
          \/ at'[task] = "ended" /\ Without(home[s], s) = <<>>
      BY <1>2, <1>a, <2>1 DEF disconnect
    <2>4. ASSUME NEW r \in Sockets, conn'[r] = "in", home[r] = home[s]
          PROVE  pubsub_tasks' = pubsub_tasks /\ UNCHANGED tasks
      <3>1. r # s /\ conn[r] = "in"
        BY <2>2, <2>4
      <3>2. PICK i \in DOMAIN rooms[home[s]] : rooms[home[s]][i] = r
        BY <3>1, <2>4 DEF IInv, SocketsAreListed
      <3>3. Without(home[s], s) # <<>>
        BY <1>2, <3>1, <3>2, WithoutFacts DEF disconnect, IInv
      <3>4. QED
        BY <3>3, <2>3
    <2>5. ASSUME NEW t \in Tasks, at'[t] = "listening"
          PROVE  at[t] = "listening" /\ channel'[t] = channel[t]
      BY <2>2, <2>3, <2>5 DEF tasks
    <2>6. ASSUME NEW r \in Sockets, heard[r] # <<>>, conn'[r] = "in"
          PROVE  /\ conn[r] = "in" /\ pubsub_tasks'[home[r]] = pubsub_tasks[home[r]]
                 /\ \A t \in Tasks : t = pubsub_tasks[home[r]] /\ at[t] = "listening" =>
                      /\ at'[t] = at[t] /\ channel'[t] = channel[t]
                      /\ Ahead(r, t)' = Ahead(r, t)
      <3>1. conn[r] = "in"
        BY <2>2, <2>6
      <3>2. CASE home[r] = home[s]
        <4>1. pubsub_tasks' = pubsub_tasks /\ at' = at /\ channel' = channel /\ left' = left
          BY <3>2, <2>4, <2>6 DEF tasks
        <4>2. \A t \in Tasks : Ahead(r, t)' = Ahead(r, t)
          BY <4>1 DEF Ahead
        <4>3. QED
          BY <3>1, <4>1, <4>2
      <3>3. CASE home[r] # home[s]
        <4>1. pubsub_tasks'[home[r]] = pubsub_tasks[home[r]]
          BY <3>1, <3>3, <2>2, TaskOfRoom
        <4>2. pubsub_tasks[home[r]] # task
          BY <3>1, <3>3, <2>1, TaskOfRoom
        <4>3. \A t \in Tasks \ {task} : Ahead(r, t)' = Ahead(r, t)
          BY <2>2 DEF Ahead
        <4>4. QED
          BY <3>1, <4>1, <4>2, <4>3, <2>2
      <3>4. QED
        BY <3>2, <3>3
    <2>7. QED
      BY <1>d, <2>2, <2>5, <2>6, PlacesKeepStep
  <1>3. ASSUME NEW t \in Tasks, Subscribed(t)
        PROVE  ChannelsAreEnds' /\ SocketsAreInStep'
    <2>1. /\ UNCHANGED <<published, heard, home, conn, pubsub_tasks, channel, left>>
          /\ at[t] = "subscribing" /\ channel[t] = <<>>
          /\ \A r \in Tasks \ {t} : at'[r] = at[r]
      BY <1>3, <1>a DEF Subscribed, room, history, OnceInv, LoopsAreOfRooms
    <2>2. \A r \in Sockets, q \in Tasks : Ahead(r, q)' = Ahead(r, q)
      BY <2>1 DEF Ahead
    <2>3. QED
      BY <1>d, <2>1, <2>2, PlacesKeepStep
  <1>4. ASSUME NEW t \in Tasks, Takes(t)
        PROVE  ChannelsAreEnds' /\ SocketsAreInStep'
    <2>1. /\ UNCHANGED <<published, heard, home, conn, pubsub_tasks, at, channel>>
          /\ left[t] = <<>> /\ left'[t] = rooms[home[t]]
          /\ \A q \in Tasks \ {t} : left'[q] = left[q]
      BY <1>4, <1>a DEF Takes, room, history
    <2>2. ASSUME NEW s \in Sockets, conn[s] = "in", NEW q \in Tasks, q = pubsub_tasks[home[s]]
          PROVE  Ahead(s, q)' = Ahead(s, q)
      <3>1. CASE q # t
        BY <3>1, <2>1 DEF Ahead
      <3>2. CASE q = t
        <4>1. Contains(left'[t], s)
          <5>1. Contains(rooms[home[s]], s) /\ home[pubsub_tasks[home[s]]] = home[s]
            BY <2>2, TaskOfRoom
          <5>2. home[t] = home[s]
            BY <5>1, <2>2, <3>2
          <5>3. QED
            BY <5>1, <5>2, <2>1
        <4>2. QED
          BY <4>1, <3>2, <2>1 DEF Ahead
      <3>3. QED
        BY <3>1, <3>2
    <2>3. QED
      BY <1>d, <2>1, <2>2, PlacesKeepStep
  <1>5. ASSUME NEW t \in Tasks, SendsOn(t)
        PROVE  ChannelsAreEnds' /\ SocketsAreInStep'
    BY <1>5, <1>d, SendingKeepsStep
  <1>6. ASSUME NEW e \in DOMAIN sends, Published(e)
        PROVE  ChannelsAreEnds' /\ SocketsAreInStep'
    <2>1. /\ e \in Events /\ Taken(e)
          /\ UNCHANGED <<home, conn, pubsub_tasks, at, left, heard>>
      BY <1>6, CallFacts DEF Published, room
    <2>2. QED
      BY <1>d, <2>1, TakingKeepsStep
  <1>7. ASSUME NEW e \in DOMAIN sends, SendsLocally(e)
        PROVE  FALSE
    BY <1>7, <1>c DEF SendsLocally, OnceInv, RedisIsUsed
  <1>8. CASE UNCHANGED <<room, tasks, published, heard>>
    <2>1. UNCHANGED <<published, heard, home, conn, pubsub_tasks, at, channel, left>>
      BY <1>8 DEF room, tasks
    <2>2. QED
      BY <1>d, <2>1 DEF ChannelsAreEnds, SocketsAreInStep, IsStretch, IsInStep, Read, Ahead
  <1>9. QED
    BY <1>b, <1>1, <1>2, <1>3, <1>4, <1>5, <1>6, <1>7, <1>8
    DEF Next, Runs, SubscriptionFails, Reconnects, PublishFails, send_to_room, vars, history

\* The sockets are in step in every state.
THEOREM StepsAgree == Spec => []InStep
  <1>1. Init => InStep
    <2> SUFFICES ASSUME Init
                 PROVE  ChannelsAreEnds /\ SocketsAreInStep
      BY DEF InStep
    <2>1. ChannelsAreEnds
      BY DEF Init, ChannelsAreEnds, Tasks
    <2>2. ASSUME NEW s \in Sockets
          PROVE  0 \in 0..Len(published) /\ IsStretch(s, 0) /\ IsInStep(s, 0)
      <3>1. heard[s] = <<>> /\ published = <<>>
        BY DEF Init
      <3>2. Len(heard[s]) = 0 /\ Len(published) = 0
        BY <3>1
      <3>3. 1..Len(heard[s]) = {}
        BY <3>2
      <3>4. QED
        BY <3>1, <3>2, <3>3 DEF IsStretch, IsInStep
    <2>3. SocketsAreInStep
      BY <2>2 DEF SocketsAreInStep
    <2>4. QED
      BY <2>1, <2>3
  <1>2. IInv /\ OnceInv /\ InStep /\ [Next]_vars => InStep'
    BY InStepKept
  <1>3. QED
    BY <1>1, <1>2, Invariance, HeardOnce, PTL DEF Spec

\* Who is in the room hears what was said: a stretch of it in its order, with
\* nothing left out, as long as Redis does not fail; and an event twice only if
\* its publishing failed after Redis had taken it (ws_manager.py).
THEOREM RoomsHearInOrder == Spec => []RoomHearsInOrder
  <1>1. IInv /\ OnceInv /\ InStep => RoomHearsInOrder
    <2> SUFFICES ASSUME IInv, InStep, failures = 0, NEW s \in Sockets
                 PROVE  \E i \in 0..Len(published) :
                          heard[s] = SubSeq(published, i + 1, i + Len(heard[s]))
      BY DEF RoomHearsInOrder, HeardAsPublished, IInv, OnceInv
    <2>1. PICK i \in 0..Len(published) : IsStretch(s, i)
      BY DEF InStep, SocketsAreInStep
    <2>2. published \in Seq(Events) /\ heard[s] \in Seq(Events)
      BY DEF IInv, TypeOK
    <2> DEFINE m == i + 1
               n == i + Len(heard[s])
               part == SubSeq(published, m, n)
    <2>3. /\ m \in 1..(Len(published) + 1) /\ n \in (m - 1)..Len(published)
          /\ n - m + 1 = Len(heard[s]) /\ Len(heard[s]) \in Nat
      BY <2>1, <2>2 DEF IsStretch
    <2>4. /\ part \in Seq(Events) /\ Len(part) = n - m + 1
          /\ \A j \in 1..(n - m + 1) : part[j] = published[m + j - 1]
      <3> HIDE DEF m, n
      <3>1. QED
        BY ONLY <2>2, <2>3, SubSeqProperties
    <2> HIDE DEF part
    <2>5. \A j \in 1..Len(heard[s]) : part[j] = heard[s][j]
      <3>1. ASSUME NEW j \in 1..Len(heard[s])
            PROVE  part[j] = heard[s][j]
        <4>1. m + j - 1 = i + j /\ j \in 1..(n - m + 1)
          BY <2>3
        <4>2. QED
          BY <4>1, <2>1, <2>4 DEF IsStretch
      <3>2. QED
        BY <3>1
    <2>6. Len(part) = Len(heard[s])
      BY <2>3, <2>4
    <2>7. part = heard[s]
      BY ONLY <2>2, <2>4, <2>5, <2>6, SeqEqual
    <2>8. QED
      BY <2>7 DEF part
  <1>2. QED
    BY <1>1, Invariance, HeardOnce, StepsAgree, PTL

\* Every reachable state of the rooms has its types (ws_manager.py).
THEOREM TypeCorrect == Spec => []TypeOK
  BY Invariance, PTL DEF IInv

\* A process never listens twice to a room, never listens for a room it has
\* nobody in, and listens for every other until Redis fails (ws_manager.py).
THEOREM RoomsListenOnce == Spec => []OneSubscription
  BY Invariance, PTL DEF IInv
=============================================================================
