-------------------------------- MODULE WsRooms ---------------------------------
(***************************************************************************)
(* The room of a QR code's owner, as the worker processes keep it          *)
(* (ws_manager.py): a list of WebSockets per process and, while it is not  *)
(* empty, one task per process that subscribes to the room's Redis channel *)
(* and sends what comes there to the sockets of its process, one await     *)
(* after the other.  Who has something to say publishes it; a process that *)
(* Redis failed once broadcasts to its own sockets from then on.           *)
(*                                                                         *)
(* Rooms share nothing but redis_active, so there is one.  A WebSocket     *)
(* that reconnects is another one.                                         *)
(***************************************************************************)
EXTENDS Naturals, Sequences, FiniteSets, SequencesExt

CONSTANTS
  Processes,   \* worker processes (2)
  Sockets,     \* WebSockets ever opened
  MaxEvents,   \* bound: notifications sent
  MaxFailures, \* bound: calls of Redis that fail, connections that break
  None

ASSUME ConstantsOK ==
  /\ MaxEvents \in Nat
  /\ MaxFailures \in Nat
  /\ None \notin Sockets

Events == 1..MaxEvents
\* A task is named by the socket whose entering made it.
Tasks == Sockets

VARIABLES
  home,          \* the process each socket is connected to
  conn,          \* the state of each socket
  rooms,         \* the room's sockets in each process; the empty room is none
  pubsub_tasks,  \* the room's task in each process, None if it has none
  at,            \* where each task is
  channel,       \* what Redis has for each task's subscription
  left,          \* the sockets it has still to send the first of these to
  redis_active,
  sends,         \* send_to_room calls: the process, the await, the sockets left
  published,     \* history: events in the order Redis took them
  heard,         \* history: what each socket was sent
  failures,      \* history: calls of Redis that failed, connections that broke
  doubtful       \* history: events whose publishing failed although Redis took them

room == <<home, conn, rooms, pubsub_tasks>>
tasks == <<at, channel, left>>
history == <<published, heard, failures, doubtful>>
vars == <<room, tasks, redis_active, sends, history>>

\* A call of send_to_room.
Calls == [from : Processes, at : {"publish", "local", "over"}, left : Seq(Sockets)]

TypeOK ==
  /\ home \in [Sockets -> Processes]
  /\ conn \in [Sockets -> {"new", "in", "gone"}]
  /\ rooms \in [Processes -> Seq(Sockets)]
  /\ pubsub_tasks \in [Processes -> Tasks \cup {None}]
  /\ at \in [Tasks -> {"new", "subscribing", "listening", "ended"}]
  /\ channel \in [Tasks -> Seq(Events)]
  /\ left \in [Tasks -> Seq(Sockets)]
  /\ redis_active \in [Processes -> BOOLEAN]
  /\ sends \in Seq(Calls)
  /\ Len(sends) <= MaxEvents
  /\ published \in Seq(Events)
  /\ heard \in [Sockets -> Seq(Events)]
  /\ failures \in 0..MaxFailures
  /\ doubtful \subseteq Events

Init ==
  /\ home \in [Sockets -> Processes]
  /\ conn = [s \in Sockets |-> "new"]
  /\ rooms = [p \in Processes |-> <<>>]
  /\ pubsub_tasks = [p \in Processes |-> None]
  /\ at = [t \in Tasks |-> "new"]
  /\ channel = [t \in Tasks |-> <<>>]
  /\ left = [t \in Tasks |-> <<>>]
  /\ redis_active = [p \in Processes |-> TRUE]
  /\ sends = <<>>
  /\ published = <<>>
  /\ heard = [s \in Sockets |-> <<>>]
  /\ failures = 0
  /\ doubtful = {}

-----------------------------------------------------------------------------
(* Entering and leaving. *)

\* Starts the room's task in s's process.
Subscribe(s) ==
  /\ pubsub_tasks' = [pubsub_tasks EXCEPT ![home[s]] = s]
  /\ at' = [at EXCEPT ![s] = "subscribing"]

\* Mutant: every socket that enters starts a task.
connect_SubscribesAgain(s) ==
  /\ conn[s] = "new"
  /\ conn' = [conn EXCEPT ![s] = "in"]
  /\ rooms' = [rooms EXCEPT ![home[s]] = Append(@, s)]
  /\ Subscribe(s)
  /\ UNCHANGED <<home, channel, left, redis_active, sends, history>>

\* The first socket of the room starts the task.
connect(s) ==
  /\ conn[s] = "new"
  /\ conn' = [conn EXCEPT ![s] = "in"]
  /\ rooms' = [rooms EXCEPT ![home[s]] = Append(@, s)]
  /\ IF rooms[home[s]] = <<>> THEN Subscribe(s) ELSE UNCHANGED <<pubsub_tasks, at>>
  /\ UNCHANGED <<home, channel, left, redis_active, sends, history>>

Without(p, s) == RemoveAt(rooms[p], CHOOSE i \in DOMAIN rooms[p] : rooms[p][i] = s)

\* The last one cancels it: a cancelled task sends nothing more.
disconnect(s) ==
  LET p == home[s]
      task == pubsub_tasks[p] IN
  /\ conn[s] = "in"
  /\ conn' = [conn EXCEPT ![s] = "gone"]
  /\ rooms' = [rooms EXCEPT ![p] = Without(p, s)]
  /\ IF Without(p, s) = <<>>
       THEN /\ pubsub_tasks' = [pubsub_tasks EXCEPT ![p] = None]
            /\ at' = [at EXCEPT ![task] = "ended"]
            /\ channel' = [channel EXCEPT ![task] = <<>>]
            /\ left' = [left EXCEPT ![task] = <<>>]
       ELSE UNCHANGED <<pubsub_tasks, tasks>>
  /\ UNCHANGED <<home, redis_active, sends, history>>

-----------------------------------------------------------------------------
(* A room's task, _subscribe_to_redis_room. *)

\* A call of Redis fails, or its connection.
RedisFails == failures < MaxFailures /\ failures' = failures + 1

Subscribed(t) ==
  /\ at[t] = "subscribing"
  /\ at' = [at EXCEPT ![t] = "listening"]
  /\ UNCHANGED <<room, channel, left, redis_active, sends, history>>

\* subscribe or listen raises: the task is over, the room keeps its entry.
SubscriptionFails(t) ==
  /\ at[t] \in {"subscribing", "listening"} /\ left[t] = <<>>
  /\ at' = [at EXCEPT ![t] = "ended"]
  /\ channel' = [channel EXCEPT ![t] = <<>>]
  /\ redis_active' = [redis_active EXCEPT ![home[t]] = FALSE]
  /\ RedisFails
  /\ UNCHANGED <<room, left, sends, published, heard, doubtful>>

\* The client library connects again by itself: what came meanwhile is lost.
Reconnects(t) ==
  /\ at[t] = "listening" /\ left[t] = <<>> /\ channel[t] # <<>>
  /\ channel' = [channel EXCEPT ![t] = <<>>]
  /\ RedisFails
  /\ UNCHANGED <<room, at, left, redis_active, sends, published, heard, doubtful>>

\* A send to a socket that is gone raises, which is ignored.
Hears(s, e) == heard' = IF conn[s] = "in" THEN [heard EXCEPT ![s] = Append(@, e)] ELSE heard

\* A message is there: the loop runs over the sockets of this moment.
Takes(t) ==
  /\ at[t] = "listening" /\ left[t] = <<>> /\ channel[t] # <<>>
  /\ left' = [left EXCEPT ![t] = rooms[home[t]]]
  /\ UNCHANGED <<room, at, channel, redis_active, sends, history>>

\* Mutant: a send to a socket that is gone never returns.
SendsOn_Waits(t) ==
  /\ left[t] # <<>>
  /\ conn[Head(left[t])] = "in"
  /\ Hears(Head(left[t]), Head(channel[t]))
  /\ left' = [left EXCEPT ![t] = Tail(@)]
  /\ channel' = IF Len(left[t]) = 1 THEN [channel EXCEPT ![t] = Tail(@)] ELSE channel
  /\ UNCHANGED <<room, at, redis_active, sends, published, failures, doubtful>>

SendsOn(t) ==
  /\ left[t] # <<>>
  /\ Hears(Head(left[t]), Head(channel[t]))
  /\ left' = [left EXCEPT ![t] = Tail(@)]
  /\ channel' = IF Len(left[t]) = 1 THEN [channel EXCEPT ![t] = Tail(@)] ELSE channel
  /\ UNCHANGED <<room, at, redis_active, sends, published, failures, doubtful>>

-----------------------------------------------------------------------------
(* send_to_room. *)

\* Event e is the e-th call; a process that lost Redis does not ask it again.
send_to_room(p) ==
  /\ Len(sends) < MaxEvents
  /\ sends' = Append(sends, IF redis_active[p]
                              THEN [from |-> p, at |-> "publish", left |-> <<>>]
                              ELSE [from |-> p, at |-> "local", left |-> rooms[p]])
  /\ UNCHANGED <<room, tasks, redis_active, history>>

\* Redis hands e to who is subscribed.
Taken(e) ==
  /\ published' = Append(published, e)
  /\ channel' = [t \in Tasks |-> IF at[t] = "listening" THEN Append(channel[t], e)
                                 ELSE channel[t]]

Published(e) ==
  /\ sends[e].at = "publish"
  /\ Taken(e)
  /\ sends' = [sends EXCEPT ![e].at = "over"]
  /\ UNCHANGED <<room, at, left, redis_active, heard, failures, doubtful>>

\* publish raises, before Redis took the event or after.
PublishFails(e) ==
  LET p == sends[e].from IN
  /\ sends[e].at = "publish"
  /\ \/ UNCHANGED <<published, channel, doubtful>>
     \/ Taken(e) /\ doubtful' = doubtful \cup {e}
  /\ redis_active' = [redis_active EXCEPT ![p] = FALSE]
  /\ sends' = [sends EXCEPT ![e] = [from |-> p, at |-> "local", left |-> rooms[p]]]
  /\ RedisFails
  /\ UNCHANGED <<room, at, left, heard>>

\* The local broadcast, one socket of the list after the other.
SendsLocally(e) ==
  /\ sends[e].at = "local"
  /\ IF sends[e].left = <<>>
       THEN sends' = [sends EXCEPT ![e].at = "over"] /\ UNCHANGED heard
       ELSE /\ Hears(Head(sends[e].left), e)
            /\ sends' = [sends EXCEPT ![e].left = Tail(@)]
  /\ UNCHANGED <<room, tasks, redis_active, published, failures, doubtful>>

-----------------------------------------------------------------------------
Runs(t) == Subscribed(t) \/ Takes(t) \/ SendsOn(t)

Next ==
  \/ \E s \in Sockets : connect(s) \/ disconnect(s)
  \/ \E t \in Tasks : Runs(t) \/ SubscriptionFails(t) \/ Reconnects(t)
  \/ \E p \in Processes : send_to_room(p)
  \/ \E e \in DOMAIN sends : Published(e) \/ PublishFails(e) \/ SendsLocally(e)

Spec == Init /\ [][Next]_vars

\* The event loops run the tasks that are ready.
FairSpec == Spec /\ \A t \in Tasks : WF_vars(Runs(t))

-----------------------------------------------------------------------------
(* Safety. *)

Live(t) == at[t] \in {"subscribing", "listening"}

\* A process has a live subscription to the room while it has sockets there,
\* and only one, however they come and go; it is gone earlier only if Redis
\* failed (is_new_room, pubsub_tasks and task.cancel in ws_manager.py).
OneSubscription ==
  /\ \A t \in Tasks : Live(t) => t = pubsub_tasks[home[t]] /\ rooms[home[t]] # <<>>
  /\ \A p \in Processes : rooms[p] # <<>> /\ failures = 0 => Live(pubsub_tasks[p])

\* Unless Redis failed, a socket hears a stretch of what was published, in its
\* order, nothing twice and nothing left out in between, whatever sockets enter
\* and leave while the lists are gone through (the loop over a copy of the room's list).
HeardAsPublished ==
  failures = 0 =>
    \A s \in Sockets : \E i \in 0..Len(published) :
      heard[s] = SubSeq(published, i + 1, i + Len(heard[s]))

\* A socket hears an event twice only if its publishing failed after Redis had
\* taken it: then it is broadcast once more (the fallback of send_to_room).
TwiceOnlyIfDoubtful ==
  \A s \in Sockets : \A i, j \in DOMAIN heard[s] :
    i # j /\ heard[s][i] = heard[s][j] => heard[s][i] \in doubtful

\* Who is in the room hears what was said, once and in order (ws_manager.py).
RoomHearsInOrder == TypeOK /\ OneSubscription /\ HeardAsPublished /\ TwiceOnlyIfDoubtful

-----------------------------------------------------------------------------
(* Liveness. *)

\* The task of s's room has e, and has not begun to send it.
Awaits(s, e) ==
  LET task == pubsub_tasks[home[s]] IN
  /\ conn[s] = "in" /\ task # None
  /\ Contains(channel[task], e) /\ ~Contains(heard[s], e)
  /\ left[task] = <<>>

\* Who is in the room when its task finds an event hears it or has left, unless
\* Redis fails (_subscribe_to_redis_room).
EveryoneHears ==
  \A s \in Sockets, e \in Events :
    Awaits(s, e) ~> (Contains(heard[s], e) \/ conn[s] = "gone" \/ failures > 0)
=============================================================================
