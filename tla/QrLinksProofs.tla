----------------------------- MODULE QrLinksProofs -----------------------------
(* Proofs about QrLinks, for any people, codes, requests and sockets; and, at *)
(* the end, about ClientSession, the page a lookup leads to: one request owns *)
(* the loading flag, the token kept for sharing is the session's, and the     *)
(* panel lists the files of its session unless they were overtaken.           *)
EXTENDS QrLinks, MCClientSession, SequenceTheorems, FiniteSetTheorems, TLAPS

-----------------------------------------------------------------------------
(* Sequences. *)

\* What RemoveAt leaves: the elements before, and those after one place down.
LEMMA RemoveAtFacts ==
  ASSUME NEW S, NEW s \in Seq(S), NEW i \in 1..Len(s)
  PROVE  /\ RemoveAt(s, i) \in Seq(S)
         /\ Len(RemoveAt(s, i)) = Len(s) - 1
         /\ \A j \in 1..(Len(s) - 1) : RemoveAt(s, i)[j] = IF j < i THEN s[j] ELSE s[j + 1]
  <1> DEFINE before == SubSeq(s, 1, i - 1)
             after == SubSeq(s, i + 1, Len(s))
  <1>1. /\ before \in Seq(S) /\ Len(before) = i - 1
        /\ \A j \in 1..(i - 1) : before[j] = s[j]
    BY SubSeqProperties
  <1>2. /\ after \in Seq(S) /\ Len(after) = Len(s) - i
        /\ \A j \in 1..(Len(s) - i) : after[j] = s[i + j]
    BY SubSeqProperties
  <1>3. RemoveAt(s, i) = before \o after
    BY DEF RemoveAt
  <1> HIDE DEF before, after
  <1>4. /\ before \o after \in Seq(S) /\ Len(before \o after) = Len(before) + Len(after)
        /\ \A j \in 1..(Len(before) + Len(after)) : (before \o after)[j] =
             IF j <= Len(before) THEN before[j] ELSE after[j - Len(before)]
    BY ONLY <1>1, <1>2, ConcatProperties
  <1>5. Len(s) \in Nat
    OBVIOUS
  <1>6. /\ RemoveAt(s, i) \in Seq(S) /\ Len(RemoveAt(s, i)) = Len(s) - 1
    BY ONLY <1>1, <1>2, <1>3, <1>4, <1>5, i \in 1..Len(s)
  <1>7. ASSUME NEW j \in 1..(Len(s) - 1)
        PROVE  RemoveAt(s, i)[j] = IF j < i THEN s[j] ELSE s[j + 1]
    <2>1. CASE j < i
      BY ONLY <2>1, <1>1, <1>2, <1>3, <1>4, <1>5, i \in 1..Len(s), j \in 1..(Len(s) - 1)
    <2>2. CASE ~(j < i)
      <3>1. j - (i - 1) \in 1..(Len(s) - i) /\ i + (j - (i - 1)) = j + 1
        BY <2>2, <1>5
      <3>2. (before \o after)[j] = after[j - (i - 1)]
        BY ONLY <2>2, <1>1, <1>2, <1>4, <1>5, i \in 1..Len(s), j \in 1..(Len(s) - 1)
      <3>3. QED
        BY <2>2, <3>1, <3>2, <1>2, <1>3
    <2>3. QED
      BY <2>1, <2>2
  <1>8. QED
    BY <1>6, <1>7

-----------------------------------------------------------------------------
(* Requests, the socket and the card. *)

\* Before anybody asks the invariant holds.
LEMMA InitIInv == Init => IInv
  <1> SUFFICES ASSUME Init PROVE IInv
    OBVIOUS
  <1>1. 0 \in Code /\ 0 \in 0..MAX_ATTEMPTS /\ issued = 0 /\ codes = {}
    BY ConstantsOK DEF Code, Init
  <1>2. TypeOK
    <2>1. guest \in BOOLEAN /\ expired \in BOOLEAN /\ raced \in BOOLEAN /\ called \in BOOLEAN
          /\ qrPage \in BOOLEAN /\ reconnectTimeout \in BOOLEAN /\ quit \in BOOLEAN
      BY DEF Init
    <2>2. codes \subseteq 1..issued /\ issued \in Code /\ room \in Code
          /\ reconnectAttempts \in 0..MAX_ATTEMPTS
      BY <1>1 DEF Init
    <2>3. QR \in [QRToken : Code, loading : BOOLEAN]
      BY <1>1 DEF Init
    <2>4. card \in [name : Maybe, loading : BOOLEAN, error : BOOLEAN, receiver_QR : Maybe]
      BY DEF Init, Maybe
    <2>5. gens \in Seq([from : {"App", "QR"}, at : {"cached", "sent", "making", "done"}, code : Code])
      BY EmptySeq DEF Init
    <2>6. lookups \in Seq(People)
      BY EmptySeq DEF Init
    <2>7. sockets \in [Sockets -> State] /\ socket \in Sockets \cup {None}
      BY DEF Init, State
    <2>8. QED
      BY <2>1, <2>2, <2>3, <2>4, <2>5, <2>6, <2>7 DEF TypeOK
  <1>3. AppAsksOnce /\ SocketIsCurrent /\ CardConnectsItsPerson
    BY DEF Init, AppAsksOnce, SocketIsCurrent, CardConnectsItsPerson, Live
  <1>4. QED
    BY <1>2, <1>3 DEF IInv

\* The code of a request is one the server can have made, or none.
LEMMA CodeInRange ==
  ASSUME IInv, NEW i \in DOMAIN gens
  PROVE  gens[i].code \in Code
  <1> DEFINE G == [from : {"App", "QR"}, at : {"cached", "sent", "making", "done"}, code : Code]
  <1>1. gens \in Seq(G)
    BY DEF IInv, TypeOK
  <1> HIDE DEF G
  <1>2. gens[i] \in G
    BY ONLY <1>1, i \in DOMAIN gens
  <1>3. QED
    BY <1>2 DEF G

\* A request for a code that is taken off the list leaves the others.
LEMMA AnswerTaken ==
  ASSUME IInv, NEW i \in DOMAIN gens, gens' = RemoveAt(gens, i)
  PROVE  /\ gens' \in Seq([from : {"App", "QR"}, at : {"cached", "sent", "making", "done"}, code : Code])
         /\ \A h, j \in DOMAIN gens' : gens'[h].from = "App" /\ gens'[j].from = "App" => h = j
         /\ \A j \in DOMAIN gens' : \E h \in DOMAIN gens : gens'[j] = gens[h] /\ h # i
  <1> DEFINE G == [from : {"App", "QR"}, at : {"cached", "sent", "making", "done"}, code : Code]
  <1>1. gens \in Seq(G) /\ DOMAIN gens = 1..Len(gens) /\ Len(gens) \in Nat
    BY DEF IInv, TypeOK
  <1> HIDE DEF G
  <1>2. /\ gens' \in Seq(G) /\ Len(gens') = Len(gens) - 1
        /\ \A j \in 1..(Len(gens) - 1) : gens'[j] = IF j < i THEN gens[j] ELSE gens[j + 1]
    BY ONLY <1>1, RemoveAtFacts, i \in DOMAIN gens, gens' = RemoveAt(gens, i)
  <1>3. DOMAIN gens' = 1..(Len(gens) - 1)
    BY ONLY <1>1, <1>2
  <1>4. \A j \in DOMAIN gens' : /\ j < i => gens'[j] = gens[j] /\ j \in DOMAIN gens
                                /\ j >= i => gens'[j] = gens[j + 1] /\ j + 1 \in DOMAIN gens
    BY ONLY <1>1, <1>2, <1>3, i \in DOMAIN gens
  <1>5. \A h, j \in DOMAIN gens : gens[h].from = "App" /\ gens[j].from = "App" => h = j
    BY DEF IInv, AppAsksOnce
  <1>6. \A h, j \in DOMAIN gens' : gens'[h].from = "App" /\ gens'[j].from = "App" => h = j
    BY ONLY <1>1, <1>3, <1>4, <1>5, i \in DOMAIN gens
  <1>7. \A j \in DOMAIN gens' : \E h \in DOMAIN gens : gens'[j] = gens[h] /\ h # i
    BY ONLY <1>1, <1>3, <1>4, i \in DOMAIN gens
  <1>8. QED
    BY <1>2, <1>6, <1>7 DEF G

\* A request that is sent is the last on the list.
LEMMA RequestSent ==
  ASSUME IInv, NEW who \in {"App", "QR"}, GenerateQRCode(who), who = "App" => ~called
  PROVE  /\ gens' \in Seq([from : {"App", "QR"}, at : {"cached", "sent", "making", "done"}, code : Code])
         /\ \A h, j \in DOMAIN gens' : gens'[h].from = "App" /\ gens'[j].from = "App" => h = j
         /\ \A j \in DOMAIN gens' : \/ j \in DOMAIN gens /\ gens'[j] = gens[j]
                                    \/ gens'[j].from = who
         /\ QR' \in [QRToken : Code, loading : BOOLEAN]
         /\ raced' \in BOOLEAN
  <1> DEFINE G == [from : {"App", "QR"}, at : {"cached", "sent", "making", "done"}, code : Code]
             g == [from |-> who, code |-> QR.QRToken, at |-> IF QR.QRToken # 0 THEN "cached" ELSE "sent"]
  <1>1. gens \in Seq(G) /\ DOMAIN gens = 1..Len(gens) /\ Len(gens) \in Nat /\ g \in G
    BY DEF IInv, TypeOK
  <1>2. g.from = who /\ gens' = Append(gens, g)
    BY DEF GenerateQRCode
  <1>3. QR' \in [QRToken : Code, loading : BOOLEAN] /\ raced' \in BOOLEAN
    BY DEF GenerateQRCode, IInv, TypeOK
  <1> HIDE DEF G, g
  <1>4. /\ gens' \in Seq(G) /\ DOMAIN gens' = 1..(Len(gens) + 1) /\ gens'[Len(gens) + 1] = g
        /\ \A j \in 1..Len(gens) : gens'[j] = gens[j]
    BY ONLY <1>1, <1>2, AppendProperties
  <1>5. /\ \A h, j \in DOMAIN gens : gens[h].from = "App" /\ gens[j].from = "App" => h = j
        /\ \A j \in DOMAIN gens : gens[j].from = "App" => called
    BY DEF IInv, AppAsksOnce
  <1>6. \A h, j \in DOMAIN gens' : gens'[h].from = "App" /\ gens'[j].from = "App" => h = j
    BY ONLY <1>1, <1>2, <1>4, <1>5, who = "App" => ~called
  <1>7. \A j \in DOMAIN gens' : \/ j \in DOMAIN gens /\ gens'[j] = gens[j]
                                \/ gens'[j].from = who
    BY ONLY <1>1, <1>2, <1>4
  <1>8. QED
    BY <1>3, <1>4, <1>6, <1>7 DEF G

\* A new socket is the only one: it opens when none lives.
LEMMA SocketMade ==
  ASSUME IInv, NEW c \in Code, connectSocket(c), \A s \in Sockets : sockets[s] = "free"
  PROVE  /\ sockets' \in [Sockets -> State] /\ socket' \in Sockets /\ room' \in Code
         /\ reconnectTimeout' = FALSE
         /\ \A s \in Sockets : /\ sockets'[s] \in {"connecting", "open"} => socket' = s
                                /\ sockets'[s] # "closing"
  BY DEF connectSocket, IInv, TypeOK, State

\* With a new socket that is the only one, the socket that lives is current.
LEMMA SocketCurrent ==
  ASSUME quit' = FALSE, reconnectTimeout' = FALSE,
         \A s \in Sockets : /\ sockets'[s] \in {"connecting", "open"} => socket' = s
                            /\ sockets'[s] # "closing"
  PROVE  SocketIsCurrent'
  <1>1. \A s \in Sockets : Live(s)' => socket' = s
    BY DEF Live
  <1>2. (\A s \in Sockets : sockets[s] = "closing" => quit)'
    OBVIOUS
  <1>3. ~reconnectTimeout' /\ ~quit'
    OBVIOUS
  <1>4. QED
    BY <1>1, <1>2, <1>3, Zenon DEF SocketIsCurrent

\* What does not touch the socket or the card keeps their part.
LEMMA PartsKept ==
  ASSUME IInv
  PROVE  /\ UNCHANGED wire => SocketIsCurrent'
         /\ UNCHANGED person => CardConnectsItsPerson'
         /\ UNCHANGED <<wire, gens, called>> => AppAsksOnce'
         /\ /\ UNCHANGED wire
            /\ \A h, j \in DOMAIN gens' : gens'[h].from = "App" /\ gens'[j].from = "App" => h = j
            /\ \A j \in DOMAIN gens' : gens'[j].from = "App" => called'
            /\ (~called' \/ \E j \in DOMAIN gens' : gens'[j].from = "App") =>
                 (~called \/ \E j \in DOMAIN gens : gens[j].from = "App")
            => AppAsksOnce'
  BY DEF IInv, SocketIsCurrent, CardConnectsItsPerson, AppAsksOnce, wire, person, Live

\* What happens to codes keeps the invariant.
LEMMA CodeStep ==
  ASSUME IInv, AppMounts \/ CodeAnswer \/ CodeExpires \/ OpenQrPage \/ CloseQrPage \/ HandleRegenQR
  PROVE  IInv'
  <1>1. CASE AppMounts
    <2>1. GenerateQRCode("App") /\ ~called /\ called' = TRUE /\ UNCHANGED <<server, qrPage, wire, person>>
      BY <1>1 DEF AppMounts
    <2>2. TypeOK'
      BY <2>1, RequestSent DEF IInv, TypeOK, server, wire, person
    <2>3. QED
      BY <2>1, <2>2, RequestSent, PartsKept DEF IInv
  <1>2. CASE OpenQrPage \/ HandleRegenQR
    <2>1. GenerateQRCode("QR") /\ qrPage' = TRUE /\ UNCHANGED <<server, called, wire, person>>
      BY <1>2 DEF OpenQrPage, HandleRegenQR, IInv, TypeOK
    <2>2. TypeOK'
      BY <2>1, RequestSent DEF IInv, TypeOK, server, wire, person
    <2>3. \A j \in DOMAIN gens' : gens'[j].from = "App" => j \in DOMAIN gens /\ gens[j].from = "App"
      BY <2>1, RequestSent
    <2>4. AppAsksOnce'
      BY <2>1, <2>3, RequestSent, PartsKept DEF IInv, AppAsksOnce
    <2>5. QED
      BY <2>1, <2>2, <2>4, PartsKept DEF IInv
  <1>3. CASE CodeExpires \/ CloseQrPage
    <2>1. /\ UNCHANGED <<wire, person, gens, called, guest, issued, raced, QR>>
          /\ codes' \in {codes, {}} /\ qrPage' \in BOOLEAN /\ expired' \in BOOLEAN
      BY <1>3 DEF CodeExpires, CloseQrPage, server, code, IInv, TypeOK
    <2>2. TypeOK'
      BY <2>1 DEF IInv, TypeOK, wire, person
    <2>3. QED
      BY <2>1, <2>2, PartsKept DEF IInv
  <1>4. ASSUME NEW i \in DOMAIN gens, CodeLookedUp(i) \/ CodeMade(i)
        PROVE  IInv'
    <2>1. /\ UNCHANGED <<guest, expired, raced, QR, called, qrPage, wire, person>>
          /\ codes' \subseteq 1..issued' /\ issued' \in Code
      <3>1. issued \in 0..MaxCodes /\ MaxCodes \in Nat /\ codes \subseteq 1..issued
        BY ConstantsOK DEF IInv, TypeOK, Code
      <3>2. CASE CodeLookedUp(i)
        BY <3>1, <3>2 DEF CodeLookedUp, Code
      <3>3. CASE CodeMade(i)
        <4>1. issued' = issued + 1 /\ issued < MaxCodes /\ codes' = codes \cup {issued'}
          BY <3>3 DEF CodeMade
        <4>2. issued' \in 0..MaxCodes /\ codes' \subseteq 1..issued'
          BY ONLY <3>1, <4>1
        <4>3. QED
          BY <3>3, <4>2 DEF CodeMade, Code
      <3>4. QED
        BY <1>4, <3>2, <3>3
    <2>2. PICK c \in Code, a \in {"done", "making"} :
            gens' = [gens EXCEPT ![i].at = a, ![i].code = c] \/ gens' = [gens EXCEPT ![i].at = a]
      <3>1. codes \subseteq Code
        BY ConstantsOK DEF IInv, TypeOK, Code
      <3>2. QED
        BY <1>4, <2>1, <3>1 DEF CodeLookedUp, CodeMade, IInv, TypeOK
    <2>3. /\ gens' \in Seq([from : {"App", "QR"}, at : {"cached", "sent", "making", "done"}, code : Code])
          /\ DOMAIN gens' = DOMAIN gens
          /\ \A j \in DOMAIN gens : gens'[j].from = gens[j].from
      <3> DEFINE G == [from : {"App", "QR"}, at : {"cached", "sent", "making", "done"}, code : Code]
                 g == [gens[i] EXCEPT !.at = a]
                 h == [gens[i] EXCEPT !.at = a, !.code = c]
      <3>1. gens \in Seq(G) /\ gens[i] \in G
        <4>1. gens \in Seq(G)
          BY DEF IInv, TypeOK
        <4> HIDE DEF G
        <4>2. QED
          BY ONLY <4>1, i \in DOMAIN gens
      <3>2. g \in G /\ g.from = gens[i].from /\ h \in G /\ h.from = gens[i].from
        BY <3>1
      <3>3. gens' = [gens EXCEPT ![i] = g] \/ gens' = [gens EXCEPT ![i] = h]
        BY <2>2
      <3> HIDE DEF G, g, h
      <3>4. PICK e \in {g, h} : gens' = [gens EXCEPT ![i] = e]
        BY <3>3
      <3>5. e \in G /\ e.from = gens[i].from
        BY <3>2, <3>4
      <3>6. gens' \in Seq(G) /\ DOMAIN gens' = DOMAIN gens
        BY ONLY <3>1, <3>4, <3>5, i \in DOMAIN gens
      <3>7. \A j \in DOMAIN gens : gens'[j].from = gens[j].from
        BY ONLY <3>1, <3>4, <3>5, i \in DOMAIN gens
      <3>8. QED
        BY <3>6, <3>7 DEF G
    <2>4. AppAsksOnce'
      BY <2>1, <2>3, PartsKept DEF IInv, AppAsksOnce
    <2>5. TypeOK'
      BY <2>1, <2>3 DEF IInv, TypeOK, wire, person
    <2>6. QED
      BY <2>1, <2>4, <2>5, PartsKept DEF IInv
  <1>5. ASSUME NEW i \in DOMAIN gens, CodeFails(i) \/ (CodeArrives(i) /\ gens[i].from # "App")
        PROVE  IInv'
    <2>1. /\ gens' = RemoveAt(gens, i) /\ called' = called
          /\ UNCHANGED <<server, raced, qrPage, wire, person>>
          /\ QR' \in [QRToken : Code, loading : BOOLEAN]
      <3>1. QR \in [QRToken : Code, loading : BOOLEAN]
        BY DEF IInv, TypeOK
      <3>2. CASE CodeFails(i)
        BY <3>1, <3>2 DEF CodeFails
      <3>3. CASE CodeArrives(i) /\ gens[i].from # "App"
        BY <3>3, CodeInRange DEF CodeArrives
      <3>4. QED
        BY <1>5, <3>2, <3>3
    <2>2. AppAsksOnce'
      BY <2>1, AnswerTaken, PartsKept DEF IInv, AppAsksOnce
    <2>3. TypeOK'
      BY <2>1, AnswerTaken DEF IInv, TypeOK, server, wire, person
    <2>4. QED
      BY <2>1, <2>2, <2>3, PartsKept DEF IInv
  <1>6. ASSUME NEW i \in DOMAIN gens, CodeArrives(i), gens[i].from = "App"
        PROVE  IInv'
    <2>1. /\ connectSocket(gens[i].code) /\ quit' = FALSE /\ reconnectAttempts' = reconnectAttempts
          /\ called /\ gens' = RemoveAt(gens, i) /\ QR' = [QRToken |-> gens[i].code, loading |-> FALSE]
          /\ UNCHANGED <<server, raced, called, qrPage, person>>
      BY <1>6 DEF CodeArrives
    <2>2. gens[i].code \in Code
      BY CodeInRange
    <2>3. \A s \in Sockets : sockets[s] = "free"
      BY <1>6 DEF IInv, AppAsksOnce
    <2>4. \A j \in DOMAIN gens' : gens'[j].from # "App"
      BY <1>6, <2>1, AnswerTaken DEF IInv, AppAsksOnce
    <2>5. AppAsksOnce'
      BY <2>1, <2>4 DEF AppAsksOnce
    <2>6. SocketIsCurrent'
      <3>1. /\ reconnectTimeout' = FALSE
            /\ \A s \in Sockets : /\ sockets'[s] \in {"connecting", "open"} => socket' = s
                                 /\ sockets'[s] # "closing"
        BY <2>1, <2>3 DEF connectSocket, IInv, TypeOK
      <3>2. QED
        BY <2>1, <3>1, SocketCurrent
    <2>7. TypeOK'
      BY <2>1, <2>2, <2>3, AnswerTaken, SocketMade DEF IInv, TypeOK, server, person
    <2>8. QED
      BY <2>1, <2>5, <2>6, <2>7, PartsKept DEF IInv
  <1>7. QED
    BY <1>1, <1>2, <1>3, <1>4, <1>5, <1>6 DEF CodeAnswer

\* What happens to the socket keeps the invariant.
LEMMA SocketStep ==
  ASSUME IInv,
         Reconnect \/ disconnectSocket \/ \E s \in Sockets : SocketOpens(s) \/ SocketCloses(s)
  PROVE  IInv'
  <1>0. MAX_ATTEMPTS \in Nat /\ reconnectAttempts \in 0..MAX_ATTEMPTS
    BY ConstantsOK DEF IInv, TypeOK
  <1>1. CASE Reconnect
    <2>1. /\ reconnectTimeout /\ reconnectAttempts' = reconnectAttempts + 1 /\ connectSocket(room)
          /\ UNCHANGED <<server, code, quit, person>>
      BY <1>1 DEF Reconnect
    <2>2. /\ \A s \in Sockets : sockets[s] = "free"
          /\ reconnectAttempts < MAX_ATTEMPTS /\ ~quit /\ room \in Code
      BY <2>1 DEF IInv, SocketIsCurrent, TypeOK
    <2>3. reconnectAttempts' \in 0..MAX_ATTEMPTS
      BY <1>0, <2>1, <2>2
    <2>4. AppAsksOnce'
      BY <2>1 DEF IInv, AppAsksOnce, code
    <2>5. SocketIsCurrent'
      <3>1. /\ reconnectTimeout' = FALSE
            /\ \A s \in Sockets : /\ sockets'[s] \in {"connecting", "open"} => socket' = s
                                 /\ sockets'[s] # "closing"
        BY <2>1, <2>2 DEF connectSocket, IInv, TypeOK
      <3>2. quit' = FALSE
        BY <2>1, <2>2, Zenon DEF IInv, TypeOK
      <3>3. QED
        BY <3>1, <3>2, SocketCurrent
    <2>6. TypeOK'
      BY <2>1, <2>2, <2>3, SocketMade DEF IInv, TypeOK, server, code, person
    <2>7. QED
      BY <2>1, <2>4, <2>5, <2>6, PartsKept DEF IInv
  <1>2. CASE disconnectSocket
    <2>1. /\ reconnectAttempts' = MAX_ATTEMPTS /\ reconnectTimeout' = FALSE /\ socket' = None
          /\ sockets' = IF socket = None THEN sockets ELSE [sockets EXCEPT ![socket] = "closing"]
          /\ quit' = TRUE /\ UNCHANGED <<server, code, room, person>>
      BY <1>2 DEF disconnectSocket
    <2>2. \A s \in Sockets : ~(sockets'[s] \in {"connecting", "open"})
      BY <2>1, ConstantsOK DEF IInv, SocketIsCurrent, TypeOK, Live
    <2>3. AppAsksOnce'
      BY <2>1 DEF IInv, AppAsksOnce, code
    <2>4. SocketIsCurrent'
      BY <2>1, <2>2 DEF SocketIsCurrent, Live
    <2>5. TypeOK'
      <3>1. socket \in Sockets \cup {None} /\ sockets \in [Sockets -> State] /\ "closing" \in State
        BY DEF IInv, TypeOK, State
      <3>2. sockets' \in [Sockets -> State]
        BY ONLY <2>1, <3>1
      <3>3. reconnectAttempts' \in 0..MAX_ATTEMPTS
        BY <1>0, <2>1
      <3>4. QED
        BY <2>1, <3>2, <3>3 DEF IInv, TypeOK, server, code, person
    <2>6. QED
      BY <2>1, <2>3, <2>4, <2>5, PartsKept DEF IInv
  <1>3. ASSUME NEW s \in Sockets, SocketOpens(s)
        PROVE  IInv'
    <2>1. /\ sockets[s] = "connecting" /\ sockets' = [sockets EXCEPT ![s] = "open"]
          /\ reconnectAttempts' = 0
          /\ UNCHANGED <<server, code, socket, room, reconnectTimeout, quit, person>>
      BY <1>3 DEF SocketOpens
    <2>2. ~quit /\ ~reconnectTimeout
      BY <2>1 DEF IInv, SocketIsCurrent, Live
    <2>3. AppAsksOnce'
      BY <2>1 DEF IInv, AppAsksOnce, code
    <2>4. SocketIsCurrent'
      BY <2>1, <2>2 DEF IInv, SocketIsCurrent, Live, TypeOK
    <2>5. TypeOK'
      BY <1>0, <2>1 DEF IInv, TypeOK, server, code, person, State
    <2>6. QED
      BY <2>1, <2>3, <2>4, <2>5, PartsKept DEF IInv
  <1>4. ASSUME NEW s \in Sockets, SocketCloses(s)
        PROVE  IInv'
    <2>1. /\ sockets[s] # "free" /\ sockets' = [sockets EXCEPT ![s] = "free"] /\ socket' = None
          /\ reconnectTimeout' = (reconnectTimeout \/ reconnectAttempts < MAX_ATTEMPTS)
          /\ UNCHANGED <<server, code, room, reconnectAttempts, quit, person>>
      BY <1>4 DEF SocketCloses
    <2>2. \A r \in Sockets : r # s => ~Live(r)
      BY <2>1 DEF IInv, SocketIsCurrent, Live, TypeOK, State
    <2>3. ~reconnectTimeout /\ (sockets[s] = "closing" => quit)
      BY <2>1 DEF IInv, SocketIsCurrent
    <2>4. AppAsksOnce'
      BY <2>1 DEF IInv, AppAsksOnce, code
    <2>5. SocketIsCurrent'
      <3>1. \A r \in Sockets : ~Live(r)'
        BY <2>1, <2>2 DEF IInv, TypeOK, Live
      <3>2. CASE quit
        <4>1. reconnectTimeout' = FALSE
          <5>1. reconnectAttempts = MAX_ATTEMPTS
            BY <3>2 DEF IInv, SocketIsCurrent
          <5>2. ~(reconnectAttempts < MAX_ATTEMPTS)
            BY ONLY <1>0, <5>1
          <5>3. QED
            BY <2>1, <2>3, <5>2, Zenon
        <4>2. QED
          BY <2>1, <3>1, <3>2, <4>1 DEF IInv, SocketIsCurrent, TypeOK
      <3>3. CASE ~quit
        <4>1. \A r \in Sockets : sockets'[r] = "free"
          BY <2>1, <2>2, <3>3 DEF IInv, SocketIsCurrent, TypeOK, Live, State
        <4>2. reconnectTimeout' => reconnectAttempts' < MAX_ATTEMPTS
          BY <2>1, <2>3
        <4>3. QED
          BY <2>1, <3>1, <3>3, <4>1, <4>2 DEF SocketIsCurrent
      <3>4. QED
        BY <3>2, <3>3
    <2>6. TypeOK'
      BY <2>1 DEF IInv, TypeOK, server, code, person, State
    <2>7. QED
      BY <2>1, <2>4, <2>5, <2>6, PartsKept DEF IInv
  <1>5. QED
    BY <1>1, <1>2, <1>3, <1>4

\* What happens to the card keeps the invariant.
LEMMA CardStep ==
  ASSUME IInv,
         LookupAnswer \/ clearReceiver \/ \E p \in People : handleSearch(p) \/ handleQRScan(p)
  PROVE  IInv'
  <1>1. UNCHANGED <<server, code, wire>>
    BY DEF LookupAnswer, LookupArrives, LookupFails, clearReceiver, handleSearch, handleQRScan
  <1>2. SocketIsCurrent' /\ AppAsksOnce'
    BY <1>1, PartsKept DEF code
  <1>3. /\ card' \in [name : Maybe, loading : BOOLEAN, error : BOOLEAN, receiver_QR : Maybe]
        /\ lookups' \in Seq(People)
        /\ CardConnectsItsPerson'
    <2>0. card \in [name : Maybe, loading : BOOLEAN, error : BOOLEAN, receiver_QR : Maybe]
      BY DEF IInv, TypeOK
    <2>1. CASE \E i \in DOMAIN lookups : LookupArrives(i) \/ LookupFails(i)
      <3>1. PICK i \in DOMAIN lookups : LookupArrives(i) \/ LookupFails(i)
        BY <2>1
      <3>2. lookups' = RemoveAt(lookups, i)
        BY <3>1 DEF LookupArrives, LookupFails
      <3>3. lookups' \in Seq(People) /\ lookups[i] \in People
        BY <3>2, RemoveAtFacts DEF IInv, TypeOK
      <3>4. CASE LookupArrives(i)
        BY <2>0, <3>3, <3>4 DEF LookupArrives, Token, Maybe, CardConnectsItsPerson
      <3>5. CASE LookupFails(i)
        BY <2>0, <3>3, <3>5 DEF LookupFails, IInv, CardConnectsItsPerson
      <3>6. QED
        BY <3>1, <3>4, <3>5
    <2>2. CASE clearReceiver
      BY <2>0, <2>2 DEF clearReceiver, cleared, IInv, TypeOK, CardConnectsItsPerson, Maybe
    <2>3. ASSUME NEW p \in People, handleSearch(p) \/ handleQRScan(p)
          PROVE  /\ card' \in [name : Maybe, loading : BOOLEAN, error : BOOLEAN, receiver_QR : Maybe]
                 /\ lookups' \in Seq(People)
                 /\ CardConnectsItsPerson'
      <3>1. lookups' = Append(lookups, p) /\ lookups \in Seq(People)
        BY <2>3 DEF handleSearch, handleQRScan, IInv, TypeOK
      <3>2. lookups' \in Seq(People)
        BY ONLY <3>1, p \in People, AppendProperties
      <3>3. card' \in [name : Maybe, loading : BOOLEAN, error : BOOLEAN, receiver_QR : Maybe]
            /\ card'.name = None
        <4>1. cleared(card) \in [name : Maybe, loading : BOOLEAN, error : BOOLEAN, receiver_QR : Maybe]
              /\ cleared(card).name = None
          BY <2>0 DEF cleared, Maybe
        <4>2. CASE handleSearch(p)
          BY <4>1, <4>2 DEF handleSearch, Maybe
        <4>3. CASE handleQRScan(p)
          BY <4>1, <4>3 DEF handleQRScan
        <4>4. QED
          BY <2>3, <4>2, <4>3
      <3>4. QED
        BY <3>2, <3>3 DEF CardConnectsItsPerson
    <2>4. QED
      BY <2>1, <2>2, <2>3 DEF LookupAnswer
  <1>4. TypeOK'
    BY <1>1, <1>3 DEF IInv, TypeOK, server, code, wire
  <1>5. QED
    BY <1>2, <1>3, <1>4 DEF IInv

\* Every step keeps the invariant.
LEMMA StepIInv == IInv /\ [Next]_vars => IInv'
  <1> SUFFICES ASSUME IInv, [Next]_vars PROVE IInv'
    OBVIOUS
  <1>1. CASE UNCHANGED vars
    <2>1. TypeOK'
      BY <1>1 DEF vars, server, code, wire, person, IInv, TypeOK
    <2>2. QED
      BY <1>1, <2>1, PartsKept DEF vars, code, IInv
  <1>2. QED
    BY <1>1, CodeStep, SocketStep, CardStep DEF Next, User

\* The inductive invariant holds in every reachable state.
THEOREM Invariance == Spec => []IInv
  BY InitIInv, StepIInv, PTL DEF Spec

\* The slice, the requests and the socket's variables keep their types.
THEOREM TypeCorrect == Spec => []TypeOK
  BY Invariance, PTL DEF IInv

\* "Connect Session" on the card of QRuserInfoCard.jsx is for the person it
\* names or for nobody, for any searches and scans.
THEOREM CardsConnectTheirPerson == Spec => []CardConnectsItsPerson
  BY Invariance, PTL DEF IInv

\* socket.js has one live socket at most, none beside a reconnection, and after
\* disconnectSocket none at all and none scheduled.
THEOREM SocketsInHand == Spec => []SocketsAreInHand
  <1>1. IInv => QuietAfterDisconnect
    BY DEF IInv, TypeOK, SocketIsCurrent, QuietAfterDisconnect, Live, State
  <1>2. IInv => OneSocket
    <2> DEFINE live == {s \in Sockets : sockets[s] \in {"connecting", "open"}}
    <2> SUFFICES ASSUME IInv PROVE Cardinality(live) <= 1 /\ (reconnectTimeout => live = {})
      BY DEF OneSocket
    <2>1. live \subseteq {socket} /\ (reconnectTimeout => live = {})
      BY DEF IInv, SocketIsCurrent, Live
    <2> HIDE DEF live
    <2>2. IsFiniteSet(live) /\ Cardinality(live) <= Cardinality({socket})
      BY <2>1, FS_Singleton, FS_Subset
    <2>3. Cardinality(live) <= 1
      BY <2>2, FS_Singleton
    <2>4. QED
      BY <2>1, <2>3
  <1>3. QED
    BY <1>1, <1>2, Invariance, PTL DEF SocketsAreInHand
-----------------------------------------------------------------------------
(* The code on the page works, and the socket listens in its room. *)

\* Without a race the first answer is for the only request, and every later
\* request is answered with the code the slice already has.
FirstOrCached ==
  /\ QR.QRToken = 0 => Len(gens) <= 1 /\ \A i \in DOMAIN gens : gens[i].at # "cached"
  /\ QR.QRToken # 0 => \A i \in DOMAIN gens : gens[i].at = "cached" /\ gens[i].code = QR.QRToken

\* The codes handed out and shown are the server's, until a guest's expires.
CodesAreOfServer ==
  /\ \A i \in DOMAIN gens : gens[i].at = "done" => gens[i].code # 0 /\ (gens[i].code \in codes \/ expired)
  /\ QR.QRToken # 0 => QR.QRToken \in codes \/ expired

\* The room is the shown code's: App takes both from one answer.
RoomIsOfCode == room \in {0, QR.QRToken}

LiveInv == ~raced => FirstOrCached /\ CodesAreOfServer /\ RoomIsOfCode

\* The list of requests is a sequence, whose places are its numbers.
LEMMA RequestList ==
  ASSUME IInv
  PROVE  /\ gens \in Seq([from : {"App", "QR"}, at : {"cached", "sent", "making", "done"}, code : Code])
         /\ Len(gens) \in Nat /\ DOMAIN gens = 1..Len(gens)
         /\ (gens = <<>>) <=> (Len(gens) = 0)
  <1> DEFINE G == [from : {"App", "QR"}, at : {"cached", "sent", "making", "done"}, code : Code]
  <1>1. gens \in Seq(G)
    BY DEF IInv, TypeOK
  <1> HIDE DEF G
  <1>2. Len(gens) \in Nat /\ DOMAIN gens = 1..Len(gens) /\ ((gens = <<>>) <=> (Len(gens) = 0))
    BY ONLY <1>1, EmptySeq
  <1>3. QED
    BY <1>1, <1>2 DEF G

\* What changes neither codes nor room keeps the shown code live, and so does
\* what a guest's code expires in.
LEMMA LiveKept ==
  ASSUME LiveInv, UNCHANGED <<raced, QR, gens, room>>,
         UNCHANGED <<codes, expired>> \/ expired' = TRUE
  PROVE  LiveInv'
  BY DEF LiveInv, FirstOrCached, CodesAreOfServer, RoomIsOfCode

\* GenerateQRCode: with a token it answers from the slice, without one it is
\* the only request or a race.
LEMMA AskKeepsLive ==
  ASSUME IInv, LiveInv, NEW who \in {"App", "QR"}, GenerateQRCode(who), UNCHANGED <<codes, expired, room>>
  PROVE  LiveInv'
  <1> DEFINE G == [from : {"App", "QR"}, at : {"cached", "sent", "making", "done"}, code : Code]
             g == [from |-> who, code |-> QR.QRToken, at |-> IF QR.QRToken # 0 THEN "cached" ELSE "sent"]
  <1>1. gens \in Seq(G) /\ DOMAIN gens = 1..Len(gens) /\ Len(gens) \in Nat
        /\ ((gens = <<>>) <=> (Len(gens) = 0))
    BY RequestList
  <1>2. g \in G /\ QR'.QRToken = QR.QRToken
    BY DEF GenerateQRCode, IInv, TypeOK
  <1>3. /\ g.code = QR.QRToken
        /\ QR.QRToken # 0 => g.at = "cached"
        /\ QR.QRToken = 0 => g.at = "sent"
    OBVIOUS
  <1>4. gens' = Append(gens, g) /\ raced' = (raced \/ (QR.QRToken = 0 /\ gens # <<>>))
    BY DEF GenerateQRCode
  <1> HIDE DEF G, g
  <1>5. /\ Len(gens') = Len(gens) + 1 /\ DOMAIN gens' = 1..(Len(gens) + 1) /\ gens'[Len(gens) + 1] = g
        /\ \A j \in 1..Len(gens) : gens'[j] = gens[j]
    BY ONLY <1>1, <1>2, <1>4, AppendProperties
  <1>6. \A j \in DOMAIN gens' : (j \in DOMAIN gens /\ gens'[j] = gens[j]) \/ gens'[j] = g
    BY ONLY <1>1, <1>5
  <1>7. SUFFICES ASSUME ~raced' PROVE FirstOrCached' /\ CodesAreOfServer' /\ RoomIsOfCode'
    BY DEF LiveInv
  <1>8. FirstOrCached /\ CodesAreOfServer /\ RoomIsOfCode /\ (QR.QRToken = 0 => gens = <<>>)
    BY <1>4, <1>7 DEF LiveInv
  <1>9. QR'.QRToken = 0 => Len(gens') <= 1 /\ \A j \in DOMAIN gens' : gens'[j].at # "cached"
    <2>1. SUFFICES ASSUME QR'.QRToken = 0 PROVE Len(gens') <= 1 /\ (\A j \in DOMAIN gens' : gens'[j].at # "cached")
      OBVIOUS
    <2>2. Len(gens) = 0 /\ g.at = "sent"
      BY <1>1, <1>2, <1>3, <1>8, <2>1
    <2>3. Len(gens') <= 1 /\ \A j \in DOMAIN gens' : gens'[j] = g
      BY ONLY <1>1, <1>5, <2>2
    <2>4. QED
      BY <2>2, <2>3
  <1>10. QR'.QRToken # 0 => \A j \in DOMAIN gens' : gens'[j].at = "cached" /\ gens'[j].code = QR'.QRToken
    BY <1>2, <1>3, <1>6, <1>8 DEF FirstOrCached
  <1>11. CodesAreOfServer'
    BY <1>2, <1>3, <1>6, <1>8 DEF CodesAreOfServer
  <1>12. QED
    BY <1>2, <1>8, <1>9, <1>10, <1>11 DEF FirstOrCached, RoomIsOfCode

\* The server answers with a code it has; while it does no other code is shown.
LEMMA ServerKeepsLive ==
  ASSUME IInv, LiveInv, NEW i \in DOMAIN gens, CodeLookedUp(i) \/ CodeMade(i)
  PROVE  LiveInv'
  <1>1. /\ UNCHANGED <<expired, raced, QR, room>>
        /\ gens[i].at \in {"sent", "making"}
    BY DEF CodeLookedUp, CodeMade, wire
  <1>2. SUFFICES ASSUME ~raced PROVE FirstOrCached' /\ CodesAreOfServer' /\ RoomIsOfCode'
    BY <1>1 DEF LiveInv
  <1>3. FirstOrCached /\ CodesAreOfServer /\ RoomIsOfCode
    BY <1>2 DEF LiveInv
  <1>4. QR.QRToken = 0
    BY <1>1, <1>3 DEF FirstOrCached
  <1>5. Len(gens) <= 1 /\ Len(gens) \in Nat /\ DOMAIN gens = 1..Len(gens)
    BY <1>3, <1>4, RequestList DEF FirstOrCached
  <1>6. DOMAIN gens = {i} /\ Len(gens) = 1
    BY ONLY <1>5, i \in DOMAIN gens
  <1>7. PICK e :
          /\ gens' = [gens EXCEPT ![i] = e]
          /\ e.at \in {"making", "done"}
          /\ e.at = "done" => e.code # 0 /\ e.code \in codes'
    <2>1. gens[i] \in [from : {"App", "QR"}, at : {"cached", "sent", "making", "done"}, code : Code]
      BY RequestList, ElementOfSeq
    <2>2. codes \subseteq 1..issued /\ issued \in Nat
      BY ConstantsOK DEF IInv, TypeOK, Code
    <2>3. CASE CodeLookedUp(i) /\ ~guest /\ codes # {}
      <3>1. PICK c \in codes : gens' = [gens EXCEPT ![i].at = "done", ![i].code = c]
        BY <2>3 DEF CodeLookedUp
      <3>2. codes' = codes /\ c # 0
        <4>1. codes' = codes
          BY <2>3 DEF CodeLookedUp
        <4>2. c # 0
          BY ONLY <2>2, c \in codes
        <4>3. QED
          BY <4>1, <4>2
      <3> DEFINE e == [gens[i] EXCEPT !.at = "done", !.code = c]
      <3>3. gens' = [gens EXCEPT ![i] = e] /\ e.at = "done" /\ e.code = c
        BY <2>1, <3>1
      <3> HIDE DEF e
      <3>4. e.code # 0 /\ e.code \in codes'
        BY <3>2, <3>3, c \in codes
      <3>5. QED
        BY ONLY <3>3, <3>4
    <2>4. CASE CodeLookedUp(i) /\ ~(~guest /\ codes # {})
      <3> DEFINE e == [gens[i] EXCEPT !.at = "making"]
      <3>1. gens' = [gens EXCEPT ![i] = e] /\ e.at = "making"
        BY <2>1, <2>4 DEF CodeLookedUp
      <3>2. QED
        BY <3>1
    <2>5. CASE CodeMade(i)
      <3> DEFINE e == [gens[i] EXCEPT !.at = "done", !.code = issued']
      <3>1. gens' = [gens EXCEPT ![i] = e] /\ e.at = "done" /\ e.code = issued'
        BY <2>1, <2>5 DEF CodeMade
      <3>2. issued' # 0 /\ issued' \in codes'
        BY <2>2, <2>5 DEF CodeMade
      <3>3. QED
        BY <3>1, <3>2
    <2>6. QED
      BY <2>3, <2>4, <2>5
  <1>8. DOMAIN gens' = {i} /\ gens'[i] = e /\ Len(gens') = 1
    <2>1. gens \in Seq([from : {"App", "QR"}, at : {"cached", "sent", "making", "done"}, code : Code])
      BY RequestList
    <2>2. DOMAIN gens' = DOMAIN gens /\ gens'[i] = e
      BY <1>7
    <2>3. Len(gens') = 1
      BY <1>5, <1>6, <2>2, LenProperties
    <2>4. QED
      BY <1>6, <2>2, <2>3
  <1>9. FirstOrCached'
    <2>1. QR'.QRToken = 0 /\ Len(gens') <= 1
      BY <1>1, <1>4, <1>8
    <2>2. \A j \in DOMAIN gens' : gens'[j].at # "cached"
      BY <1>7, <1>8
    <2>3. QED
      BY <2>1, <2>2 DEF FirstOrCached
  <1>10. CodesAreOfServer'
    BY <1>1, <1>4, <1>7, <1>8 DEF CodesAreOfServer
  <1>11. QED
    BY <1>1, <1>3, <1>9, <1>10 DEF RoomIsOfCode

\* An answer gives the slice and the room one code, and a failure neither.
LEMMA AnswerKeepsLive ==
  ASSUME IInv, LiveInv, NEW i \in DOMAIN gens, CodeArrives(i) \/ CodeFails(i)
  PROVE  LiveInv'
  <1>1. gens' = RemoveAt(gens, i) /\ UNCHANGED <<server, raced>>
    BY DEF CodeArrives, CodeFails
  <1>2. SUFFICES ASSUME ~raced PROVE FirstOrCached' /\ CodesAreOfServer' /\ RoomIsOfCode'
    BY <1>1 DEF LiveInv
  <1>3. FirstOrCached /\ CodesAreOfServer /\ RoomIsOfCode /\ codes' = codes /\ expired' = expired
    BY <1>1, <1>2 DEF LiveInv, server
  <1>4. \A j \in DOMAIN gens' : \E h \in DOMAIN gens : gens'[j] = gens[h] /\ h # i
    BY <1>1, AnswerTaken
  <1>5. Len(gens) \in Nat /\ DOMAIN gens = 1..Len(gens)
    BY RequestList
  <1>6. CASE QR.QRToken = 0
    <2>1. DOMAIN gens = {i} /\ Len(gens) = 1 /\ gens[i].at # "cached"
      <3>1. Len(gens) <= 1 /\ gens[i].at # "cached"
        BY <1>3, <1>6 DEF FirstOrCached
      <3>2. DOMAIN gens = {i} /\ Len(gens) = 1
        BY ONLY <1>5, <3>1, i \in DOMAIN gens
      <3>3. QED
        BY <3>1, <3>2
    <2>2. DOMAIN gens' = {} /\ Len(gens') = 0
      <3>1. DOMAIN gens' = {}
        BY <1>4, <2>1
      <3>2. Len(gens') \in Nat /\ DOMAIN gens' = 1..Len(gens')
        BY <1>1, AnswerTaken, LenProperties
      <3>3. QED
        BY ONLY <3>1, <3>2
    <2>3. FirstOrCached'
      BY <2>2 DEF FirstOrCached
    <2>4. CASE CodeFails(i)
      <3>1. QR'.QRToken = 0 /\ room' = room
        BY <1>6, <2>4 DEF CodeFails, wire, IInv, TypeOK
      <3>2. QED
        BY <1>3, <1>6, <2>2, <2>3, <3>1 DEF CodesAreOfServer, RoomIsOfCode
    <2>5. CASE CodeArrives(i)
      <3>1. QR'.QRToken = gens[i].code /\ room' \in {room, gens[i].code} /\ gens[i].at = "done"
        BY <2>1, <2>5 DEF CodeArrives, connectSocket, wire
      <3>2. CodesAreOfServer'
        BY <1>3, <2>2, <3>1 DEF CodesAreOfServer
      <3>3. RoomIsOfCode'
        BY <1>3, <1>6, <3>1 DEF RoomIsOfCode
      <3>4. QED
        BY <2>3, <3>2, <3>3
    <2>6. QED
      BY <2>4, <2>5
  <1>7. CASE QR.QRToken # 0
    <2>1. gens[i].at = "cached" /\ gens[i].code = QR.QRToken
      BY <1>3, <1>7 DEF FirstOrCached
    <2>2. CodeArrives(i)
      BY <2>1 DEF CodeFails
    <2>3. QR'.QRToken = QR.QRToken /\ room' \in {room, QR.QRToken}
      BY <2>1, <2>2 DEF CodeArrives, connectSocket, wire
    <2>4. FirstOrCached'
      BY <1>3, <1>4, <1>7, <2>3 DEF FirstOrCached
    <2>5. CodesAreOfServer'
      BY <1>3, <1>4, <1>7, <2>3 DEF CodesAreOfServer
    <2>6. QED
      BY <1>3, <2>3, <2>4, <2>5 DEF RoomIsOfCode
  <1>8. QED
    BY <1>6, <1>7

\* Every step keeps the shown code live.
LEMMA LiveStep == IInv /\ LiveInv /\ [Next]_vars => LiveInv'
  <1> SUFFICES ASSUME IInv, LiveInv, [Next]_vars PROVE LiveInv'
    OBVIOUS
  <1>1. CASE AppMounts \/ OpenQrPage \/ HandleRegenQR
    <2>1. PICK who \in {"App", "QR"} : GenerateQRCode(who) /\ UNCHANGED <<server, wire>>
      BY <1>1 DEF AppMounts, OpenQrPage, HandleRegenQR
    <2>2. UNCHANGED <<codes, expired, room>>
      BY <2>1 DEF server, wire
    <2>3. QED
      BY <2>1, <2>2, AskKeepsLive
  <1>2. CASE CodeAnswer
    BY <1>2, ServerKeepsLive, AnswerKeepsLive DEF CodeAnswer
  <1>3. CASE CodeExpires
    BY <1>3, LiveKept DEF CodeExpires, code, wire
  <1>4. CASE CloseQrPage
    BY <1>4, LiveKept DEF CloseQrPage, server, wire
  <1>5. CASE Reconnect \/ disconnectSocket \/ \E s \in Sockets : SocketOpens(s) \/ SocketCloses(s)
    <2>1. UNCHANGED <<server, code, room>>
      BY <1>5 DEF Reconnect, disconnectSocket, SocketOpens, SocketCloses, connectSocket
    <2>2. QED
      BY <2>1, LiveKept DEF server, code
  <1>6. CASE LookupAnswer \/ clearReceiver \/ \E p \in People : handleSearch(p) \/ handleQRScan(p)
    <2>1. UNCHANGED <<server, code, wire>>
      BY <1>6 DEF LookupAnswer, LookupArrives, LookupFails, clearReceiver, handleSearch, handleQRScan
    <2>2. QED
      BY <2>1, LiveKept DEF server, code, wire
  <1>7. CASE UNCHANGED vars
    BY <1>7, LiveKept DEF vars, server, code, wire
  <1>8. QED
    BY <1>1, <1>2, <1>3, <1>4, <1>5, <1>6, <1>7 DEF Next, User

\* Unless two requests race, the code on the page is one the server has (or a
\* guest's that expired) and the socket's room is its owner's, for any number of
\* codes, requests and reconnections.
THEOREM ShownCodesAreLive == Spec => []ShownCodeIsLive
  <1>1. Init => LiveInv
    BY DEF Init, LiveInv, FirstOrCached, CodesAreOfServer, RoomIsOfCode
  <1>2. LiveInv => ShownCodeIsLive
    BY DEF LiveInv, CodesAreOfServer, RoomIsOfCode, ShownCodeIsLive, ShownCodeWorks, ListensToShownCode
  <1>3. QED
    BY <1>1, <1>2, Invariance, LiveStep, PTL DEF Spec

-----------------------------------------------------------------------------
(* The Session page (ClientSession). *)

\* RemoveAt means the same in the Session page's instance.
LEMMA SessionRemoveAt ==
  ASSUME NEW S, NEW s \in Seq(S), NEW i \in 1..Len(s)
  PROVE  /\ Session!RemoveAt(s, i) \in Seq(S)
         /\ Len(Session!RemoveAt(s, i)) = Len(s) - 1
         /\ \A j \in 1..(Len(s) - 1) :
              Session!RemoveAt(s, i)[j] = IF j < i THEN s[j] ELSE s[j + 1]
  <1>1. Session!RemoveAt(s, i) = RemoveAt(s, i)
    BY DEF Session!RemoveAt, RemoveAt
  <1>2. QED
    BY <1>1, RemoveAtFacts

-----------------------------------------------------------------------------
(* The inductive invariant. *)

SessionSlices == [loading : BOOLEAN, error : BOOLEAN, success : BOOLEAN, name : Session!Maybe,
           isSender : BOOLEAN, receiver_qr_token : Session!Maybe, session_id : Session!Maybe,
           check_loading : BOOLEAN, check_success : BOOLEAN, check_name : Session!Maybe]
SessionRequests == [op : {"create", "revoke"}, who : Session!Maybe,
                    answer : {Sent, Refused} \cup Session!Maybe]
SessionFetches == [of : Partners, stale : BOOLEAN, byEvent : BOOLEAN]
SessionFiles == [of : Session!Maybe, loading : BOOLEAN, byEvent : BOOLEAN]

\* The last list asked for is the one the panel wants, or an event's, and not
\* overtaken yet.
NewestIsWanted ==
  /\ fileFetches # <<>>
  /\ \/ fileFetches[Len(fileFetches)].of = Session!Wanted(sessionPage, ses)
     \/ fileFetches[Len(fileFetches)].byEvent
  /\ ~fileFetches[Len(fileFetches)].stale

\* The last list asked for was answered: those still out are older.
NewestWasAnswered ==
  /\ \A i \in DOMAIN fileFetches : fileFetches[i].stale
  /\ late \/ sessionFiles.of = Session!Wanted(sessionPage, ses) \/ sessionFiles.byEvent

\* What the panel wants, or an event named, was the last thing asked for.
PanelHasAsked ==
  Session!Wanted(sessionPage, ses) # NoOne => NewestIsWanted \/ NewestWasAnswered

SessionInv ==
  /\ Session!TypeOK
  /\ Session!OneSessionRequest
  /\ Session!ShareTokenIsLive
  /\ PanelHasAsked

-----------------------------------------------------------------------------
(* What the steps share. *)

\* A rerender leaves the page, the slice and the lists of their types.
LEMMA RerenderTypes ==
  ASSUME Session!TypeOK, NEW pg \in {"session", "files"}, NEW s \in SessionSlices,
         Session!Rerender(pg, s)
  PROVE  /\ sessionPage' \in {"session", "files"} /\ ses' \in SessionSlices
         /\ modal' \in BOOLEAN /\ selected' \in BOOLEAN
         /\ sessionFiles' \in SessionFiles /\ fileFetches' \in Seq(SessionFetches)
  <1>1. Session!Wanted(pg, s) \in Session!Maybe
    BY DEF Session!Wanted, SessionSlices, Session!Maybe
  <1>2. fileFetches' \in Seq(SessionFetches)
    <2>1. fileFetches \in Seq(SessionFetches)
      BY DEF Session!TypeOK, SessionFetches
    <2>2. CASE Session!Wanted(pg, s) # NoOne
      <3>1. [of |-> Session!Wanted(pg, s), stale |-> FALSE, byEvent |-> FALSE] \in SessionFetches
        BY <1>1, <2>2 DEF Session!Maybe, SessionFetches
      <3>2. QED
        BY <2>1, <3>1 DEF Session!Rerender, Session!Asked
    <2>3. CASE Session!Wanted(pg, s) = NoOne
      BY <2>1, <2>3 DEF Session!Rerender
    <2>4. QED
      BY <2>2, <2>3
  <1>3. sessionFiles' \in SessionFiles
    BY DEF Session!TypeOK, Session!Rerender, Session!Asked, SessionFiles
  <1>4. modal' \in BOOLEAN /\ selected' \in BOOLEAN
    BY DEF Session!Rerender, Session!Remount
  <1>5. QED
    BY <1>2, <1>3, <1>4 DEF Session!Rerender, Session!Remount

\* A rerender asks for what the panel has come to want.
LEMMA RerenderAsks ==
  ASSUME Session!TypeOK, PanelHasAsked, NEW pg, NEW s, Session!Rerender(pg, s), late' = late
  PROVE  PanelHasAsked'
  <1> SUFFICES ASSUME Session!Wanted(sessionPage', ses') # NoOne
               PROVE  NewestIsWanted' \/ NewestWasAnswered'
    BY DEF PanelHasAsked, Session!Wanted, Session!Mounted
  <1>1. sessionPage' = pg /\ ses' = s /\ Session!Wanted(pg, s) # NoOne
    BY DEF Session!Rerender, Session!Remount
  <1>2. CASE Session!Wanted(pg, s) # Session!Wanted(sessionPage, ses)
    <2>1. fileFetches' = Append(fileFetches, [of |-> Session!Wanted(pg, s), stale |-> FALSE, byEvent |-> FALSE])
      BY <1>1, <1>2 DEF Session!Rerender, Session!Asked
    <2>2. fileFetches \in Seq(SessionFetches)
      BY DEF Session!TypeOK, SessionFetches
    <2>3. /\ fileFetches' # <<>>
          /\ fileFetches'[Len(fileFetches')] = [of |-> Session!Wanted(pg, s), stale |-> FALSE, byEvent |-> FALSE]
      BY <2>1, <2>2
    <2>4. QED
      BY <1>1, <2>3 DEF NewestIsWanted, Session!Wanted, Session!Mounted
  <1>3. CASE Session!Wanted(pg, s) = Session!Wanted(sessionPage, ses)
    <2>1. fileFetches' = fileFetches /\ sessionFiles' = sessionFiles
      BY <1>3 DEF Session!Rerender
    <2>2. NewestIsWanted \/ NewestWasAnswered
      BY <1>1, <1>3 DEF PanelHasAsked
    <2>3. Session!Wanted(sessionPage, ses)' = Session!Wanted(sessionPage, ses)
      BY <1>1, <1>3 DEF Session!Wanted, Session!Mounted
    <2>4. QED
      BY <2>1, <2>2, <2>3 DEF NewestIsWanted, NewestWasAnswered
  <1>4. QED
    BY <1>2, <1>3

\* The answer to a list takes it out, and marks those asked for before it.
LEMMA AnsweredFacts ==
  ASSUME Session!TypeOK, NEW i \in DOMAIN fileFetches, Session!Answered(i)
  PROVE  /\ fileFetches' \in Seq(SessionFetches) /\ Len(fileFetches') = Len(fileFetches) - 1
         /\ i \in 1..Len(fileFetches) /\ Len(fileFetches) \in Nat
         /\ \A j \in DOMAIN fileFetches' :
              /\ j < i => fileFetches'[j].stale
              /\ j >= i => fileFetches'[j] = fileFetches[j + 1]
  <1> DEFINE marked == [j \in DOMAIN fileFetches |-> [fileFetches[j] EXCEPT !.stale = @ \/ j < i]]
  <1>1. fileFetches \in Seq(SessionFetches)
    BY DEF Session!TypeOK, SessionFetches
  <1>2. i \in 1..Len(fileFetches) /\ Len(fileFetches) \in Nat /\ DOMAIN fileFetches = 1..Len(fileFetches)
    BY <1>1
  <1>3. ASSUME NEW j \in 1..Len(fileFetches)
        PROVE  /\ marked[j] \in SessionFetches
               /\ j < i => marked[j].stale
               /\ j >= i => marked[j] = fileFetches[j]
    <2>1. fileFetches[j] \in SessionFetches
      BY <1>1
    <2>2. marked[j] = [of |-> fileFetches[j].of, stale |-> fileFetches[j].stale \/ j < i,
                         byEvent |-> fileFetches[j].byEvent]
      BY <1>2, <2>1 DEF SessionFetches
    <2> HIDE DEF marked
    <2>3. /\ fileFetches[j].of \in Partners /\ fileFetches[j].stale \in BOOLEAN
          /\ fileFetches[j].byEvent \in BOOLEAN
      BY <2>1 DEF SessionFetches
    <2>4. CASE j < i
      <3>1. (fileFetches[j].stale \/ j < i) = TRUE
        BY <2>4
      <3>2. marked[j] = [of |-> fileFetches[j].of, stale |-> TRUE, byEvent |-> fileFetches[j].byEvent]
        BY <2>2, <3>1, Zenon
      <3>3. marked[j] \in SessionFetches /\ marked[j].stale
        BY <2>3, <3>2 DEF SessionFetches
      <3>4. ~(j >= i)
        BY <1>2, <2>4
      <3>5. QED
        BY <3>3, <3>4
    <2>5. CASE j >= i
      <3>1. (fileFetches[j].stale \/ j < i) = fileFetches[j].stale
        BY <1>2, <2>3, <2>5
      <3>2. marked[j] = [of |-> fileFetches[j].of, stale |-> fileFetches[j].stale,
                           byEvent |-> fileFetches[j].byEvent]
        BY <2>2, <3>1, Zenon
      <3>3. marked[j] = fileFetches[j]
        BY <2>1, <3>2 DEF SessionFetches
      <3>4. QED
        BY <1>2, <2>1, <2>5, <3>3
    <2>6. QED
      BY <1>2, <2>4, <2>5
  <1>4. marked \in Seq(SessionFetches) /\ Len(marked) = Len(fileFetches)
    <2>1. \A j \in 1..Len(fileFetches) : marked[j] \in SessionFetches
      BY <1>3
    <2>2. QED
      BY <1>2, <2>1
  <1>5. \A j \in 1..Len(fileFetches) : /\ j < i => marked[j].stale
                                       /\ j >= i => marked[j] = fileFetches[j]
    BY <1>3
  <1>6. fileFetches' = Session!RemoveAt(marked, i)
    BY DEF Session!Answered
  <1> HIDE DEF marked
  <1>7. /\ fileFetches' \in Seq(SessionFetches) /\ Len(fileFetches') = Len(fileFetches) - 1
        /\ \A j \in 1..(Len(fileFetches) - 1) :
             fileFetches'[j] = IF j < i THEN marked[j] ELSE marked[j + 1]
    BY ONLY <1>2, <1>4, <1>6, SessionRemoveAt
  <1>8. DOMAIN fileFetches' = 1..(Len(fileFetches) - 1)
    BY <1>7
  <1>9. QED
    BY <1>2, <1>5, <1>7, <1>8

\* A list that comes or fails leaves the panel's list asked for or answered.
LEMMA AnswersKeepAsked ==
  ASSUME Session!TypeOK, PanelHasAsked, NEW i \in DOMAIN fileFetches,
         Session!FilesArrive(i) \/ Session!FilesFail(i)
  PROVE  PanelHasAsked'
  <1> DEFINE want == Session!Wanted(sessionPage, ses)
  <1> SUFFICES ASSUME want # NoOne
               PROVE  NewestIsWanted' \/ NewestWasAnswered'
    BY DEF PanelHasAsked, Session!Wanted, Session!Mounted, Session!FilesArrive, Session!FilesFail
  <1>1. Session!Answered(i) /\ Session!Wanted(sessionPage, ses)' = want
    BY DEF Session!FilesArrive, Session!FilesFail, Session!Wanted, Session!Mounted
  <1>2. /\ fileFetches' \in Seq(SessionFetches) /\ Len(fileFetches') = Len(fileFetches) - 1
        /\ i \in 1..Len(fileFetches) /\ Len(fileFetches) \in Nat
        /\ \A j \in DOMAIN fileFetches' :
             /\ j < i => fileFetches'[j].stale
             /\ j >= i => fileFetches'[j] = fileFetches[j + 1]
    BY <1>1, AnsweredFacts
  <1>3. DOMAIN fileFetches' = 1..(Len(fileFetches) - 1) /\ fileFetches \in Seq(SessionFetches)
    BY <1>2 DEF Session!TypeOK, SessionFetches
  <1> HIDE DEF want
  <1>4. CASE NewestIsWanted /\ i = Len(fileFetches)
    <2>1. \A j \in DOMAIN fileFetches' : fileFetches'[j].stale
      BY <1>2, <1>3, <1>4
    <2>2. (fileFetches[i].of = want \/ fileFetches[i].byEvent) /\ ~fileFetches[i].stale
      BY <1>4 DEF NewestIsWanted, want
    <2>3. late' \/ sessionFiles'.of = want \/ sessionFiles'.byEvent
      <3>1. CASE Session!FilesArrive(i)
        BY <2>2, <3>1 DEF Session!FilesArrive
      <3>2. CASE Session!FilesFail(i)
        BY <2>2, <3>2 DEF Session!FilesFail
      <3>3. QED
        BY <3>1, <3>2
    <2>4. QED
      BY <1>1, <2>1, <2>3 DEF NewestWasAnswered
  <1>5. CASE NewestIsWanted /\ i # Len(fileFetches)
    <2>1. /\ Len(fileFetches') \in DOMAIN fileFetches' /\ Len(fileFetches') >= i
          /\ Len(fileFetches') + 1 = Len(fileFetches)
      BY <1>2, <1>3, <1>5
    <2>2. fileFetches'[Len(fileFetches')] = fileFetches[Len(fileFetches)] /\ fileFetches' # <<>>
      BY <1>2, <2>1
    <2>3. QED
      BY <1>1, <1>5, <2>2 DEF NewestIsWanted, want
  <1>6. CASE NewestWasAnswered
    <2>1. ASSUME NEW j \in DOMAIN fileFetches'
          PROVE  fileFetches'[j].stale
      <3>1. CASE j < i
        BY <3>1, <1>2
      <3>2. CASE j >= i
        <4>1. j + 1 \in DOMAIN fileFetches
          BY <3>2, <1>2, <1>3
        <4>2. QED
          BY <4>1, <3>2, <1>2, <1>6 DEF NewestWasAnswered
      <3>3. QED
        BY <3>1, <3>2, <1>2, <1>3
    <2>2. late' \/ sessionFiles'.of = want \/ sessionFiles'.byEvent
      <3>1. fileFetches[i].stale /\ (late \/ sessionFiles.of = want \/ sessionFiles.byEvent)
        BY <1>6 DEF NewestWasAnswered, want
      <3>2. sessionFiles \in SessionFiles
        BY DEF Session!TypeOK, SessionFiles
      <3>3. QED
        BY <3>1, <3>2 DEF Session!FilesArrive, Session!FilesFail, SessionFiles
    <2>3. QED
      BY <1>1, <2>1, <2>2 DEF NewestWasAnswered
  <1>7. NewestIsWanted \/ NewestWasAnswered
    BY DEF PanelHasAsked, want
  <1>8. QED
    BY <1>4, <1>5, <1>6, <1>7

-----------------------------------------------------------------------------
(* Types. *)

\* A rerender keeps the types when the rest of the step does.
LEMMA RerenderKeepsTypes ==
  ASSUME Session!TypeOK, NEW pg, NEW s, Session!Rerender(pg, s), pg \in {"session", "files"},
         ses' \in SessionSlices,
         session' \in Session!Maybe, unheard' \in BOOLEAN, requests' \in Seq(SessionRequests),
         checks' \in Seq({Sent, Refused} \cup Partners), fileShares' = fileShares, late' = late,
         listening' \in BOOLEAN, events' \in 0..MaxEvents
  PROVE  Session!TypeOK'
  <1>1. /\ sessionPage' \in {"session", "files"} /\ ses' \in SessionSlices
        /\ modal' \in BOOLEAN /\ selected' \in BOOLEAN
        /\ sessionFiles' \in SessionFiles /\ fileFetches' \in Seq(SessionFetches)
    <2>1. s \in SessionSlices
      BY DEF Session!Rerender, Session!Remount
    <2>2. QED
      BY <2>1, RerenderTypes
  <1>2. fileShares' \in Seq(Partners) /\ late' \in BOOLEAN
    BY DEF Session!TypeOK
  <1>3. QED
    BY <1>1, <1>2 DEF Session!TypeOK, SessionSlices, SessionRequests, SessionFetches, SessionFiles,
                               Session!Maybe

\* What clearSessionState clears and what it leaves.
LEMMA ClearedFacts ==
  ASSUME NEW s \in SessionSlices
  PROVE  /\ Session!clearedSession(s) \in SessionSlices
         /\ Session!clearedSession(s).receiver_qr_token = NoOne
         /\ ~Session!clearedSession(s).success
         /\ Session!clearedSession(s).loading = s.loading
         /\ Session!clearedSession(s).check_loading = s.check_loading
         /\ Session!clearedSession(s).check_success = s.check_success
  BY DEF SessionSlices, Session!clearedSession, Session!Maybe

\* The sequences of what is on its way, and what taking one out leaves.
LEMMA InFlightTypes ==
  ASSUME Session!TypeOK
  PROVE  /\ requests \in Seq(SessionRequests) /\ checks \in Seq({Sent, Refused} \cup Partners)
         /\ ses \in SessionSlices
         /\ \A i \in DOMAIN requests :
              /\ requests[i] \in SessionRequests
              /\ Session!RemoveAt(requests, i) \in Seq(SessionRequests)
              /\ Len(Session!RemoveAt(requests, i)) = Len(requests) - 1
         /\ \A i \in DOMAIN checks : Session!RemoveAt(checks, i) \in Seq({Sent, Refused} \cup Partners)
         /\ \A i \in DOMAIN fileShares : Session!RemoveAt(fileShares, i) \in Seq(Partners)
  <1>1. /\ requests \in Seq(SessionRequests) /\ checks \in Seq({Sent, Refused} \cup Partners)
        /\ fileShares \in Seq(Partners) /\ ses \in SessionSlices
    BY DEF Session!TypeOK, SessionRequests, SessionSlices
  <1>2. ASSUME NEW i \in DOMAIN requests
        PROVE  /\ requests[i] \in SessionRequests
               /\ Session!RemoveAt(requests, i) \in Seq(SessionRequests)
               /\ Len(Session!RemoveAt(requests, i)) = Len(requests) - 1
    <2>1. i \in 1..Len(requests)
      BY <1>1
    <2>2. requests[i] \in SessionRequests
      BY <1>1, <2>1
    <2>3. QED
      BY ONLY <1>1, <2>1, <2>2, SessionRemoveAt
  <1>3. ASSUME NEW i \in DOMAIN checks
        PROVE  Session!RemoveAt(checks, i) \in Seq({Sent, Refused} \cup Partners)
    <2>1. i \in 1..Len(checks)
      BY <1>1
    <2>2. QED
      BY ONLY <1>1, <2>1, SessionRemoveAt
  <1>4. ASSUME NEW i \in DOMAIN fileShares
        PROVE  Session!RemoveAt(fileShares, i) \in Seq(Partners)
    <2>1. i \in 1..Len(fileShares)
      BY <1>1
    <2>2. QED
      BY ONLY <1>1, <2>1, SessionRemoveAt
  <1>5. QED
    BY <1>1, <1>2, <1>3, <1>4

\* Every step keeps the types.
LEMMA TypesKept ==
  ASSUME Session!TypeOK, [Session!Next]_(Session!vars)
  PROVE  Session!TypeOK'
  <1> USE DEF Session!Maybe
  <1> DEFINE Checks == Seq({Sent, Refused} \cup Partners)
             Mine == Seq(SessionRequests)
  <1>a. /\ requests \in Mine /\ checks \in Checks /\ ses \in SessionSlices
        /\ \A i \in DOMAIN requests :
             /\ requests[i] \in SessionRequests /\ Session!RemoveAt(requests, i) \in Mine
        /\ \A i \in DOMAIN checks : Session!RemoveAt(checks, i) \in Checks
        /\ \A i \in DOMAIN fileShares : Session!RemoveAt(fileShares, i) \in Seq(Partners)
    BY InFlightTypes
  <1>b. /\ session \in Session!Maybe /\ unheard \in BOOLEAN /\ sessionPage \in {"session", "files"}
        /\ listening \in BOOLEAN /\ events \in 0..MaxEvents /\ MaxEvents \in Nat
    BY SessionConstantsOK DEF Session!ConstantsOK, Session!TypeOK
  <1> HIDE DEF Checks, Mine
  <1>1. ASSUME NEW p \in Session!Maybe, Session!handleSessionCreate(p)
        PROVE  Session!TypeOK'
    <2>1. ses' \in SessionSlices
      BY <1>1, <1>a DEF Session!handleSessionCreate, Session!Rerender, Session!Remount, SessionSlices,
                        SessionRequests
    <2>2. requests' \in Mine
      <3>1. [op |-> "create", who |-> p, answer |-> Sent] \in SessionRequests
        BY DEF SessionRequests
      <3>2. requests' = Append(requests, [op |-> "create", who |-> p, answer |-> Sent])
        BY <1>1 DEF Session!handleSessionCreate
      <3>3. QED
        BY <1>a, <3>1, <3>2 DEF Mine
    <2>3. /\ session' \in Session!Maybe /\ unheard' \in BOOLEAN /\ requests' \in Mine
          /\ checks' \in Checks
          /\ fileShares' = fileShares /\ late' = late /\ listening' \in BOOLEAN /\ events' \in 0..MaxEvents
      BY <1>1, <1>a, <1>b, <2>2 DEF Session!handleSessionCreate
    <2>4. QED
      BY <1>1, <1>b, <2>1, <2>3, RerenderKeepsTypes DEF Session!handleSessionCreate, Checks, Mine
  <1>2. ASSUME Session!handleTerminate
        PROVE  Session!TypeOK'
    <2>1. ses' \in SessionSlices
      BY <1>2, <1>a DEF Session!handleTerminate, Session!Rerender, Session!Remount, SessionSlices, SessionRequests
    <2>2. requests' \in Mine
      <3>1. [op |-> "revoke", who |-> NoOne, answer |-> Sent] \in SessionRequests
        BY DEF SessionRequests
      <3>2. requests' = Append(requests, [op |-> "revoke", who |-> NoOne, answer |-> Sent])
        BY <1>2 DEF Session!handleTerminate
      <3>3. QED
        BY <1>a, <3>1, <3>2 DEF Mine
    <2>3. /\ session' \in Session!Maybe /\ unheard' \in BOOLEAN /\ requests' \in Mine
          /\ checks' \in Checks
          /\ fileShares' = fileShares /\ late' = late /\ listening' \in BOOLEAN /\ events' \in 0..MaxEvents
      BY <1>2, <1>a, <1>b, <2>2 DEF Session!handleTerminate
    <2>4. QED
      BY <1>2, <1>b, <2>1, <2>3, RerenderKeepsTypes DEF Session!handleTerminate, Checks, Mine
  <1>3. ASSUME NEW i \in DOMAIN requests, Session!CreateArrives(i)
        PROVE  Session!TypeOK'
    <2>1. ses' \in SessionSlices
      BY <1>3, <1>a DEF Session!CreateArrives, Session!Rerender, Session!Remount, SessionSlices, SessionRequests
    <2>2. /\ session' \in Session!Maybe /\ unheard' \in BOOLEAN /\ requests' \in Mine
          /\ checks' \in Checks
          /\ fileShares' = fileShares /\ late' = late /\ listening' \in BOOLEAN /\ events' \in 0..MaxEvents
      BY <1>3, <1>a, <1>b DEF Session!CreateArrives, SessionRequests
    <2>3. QED
      BY <1>3, <1>b, <2>1, <2>2, RerenderKeepsTypes DEF Session!CreateArrives, Checks, Mine
  <1>4. ASSUME NEW i \in DOMAIN requests, Session!CreateFails(i)
        PROVE  Session!TypeOK'
    <2>1. ses' \in SessionSlices
      BY <1>4, <1>a DEF Session!CreateFails, Session!Rerender, Session!Remount, SessionSlices, SessionRequests
    <2>2. /\ session' \in Session!Maybe /\ unheard' \in BOOLEAN /\ requests' \in Mine
          /\ checks' \in Checks
          /\ fileShares' = fileShares /\ late' = late /\ listening' \in BOOLEAN /\ events' \in 0..MaxEvents
      BY <1>4, <1>a, <1>b DEF Session!CreateFails
    <2>3. QED
      BY <1>4, <1>b, <2>1, <2>2, RerenderKeepsTypes DEF Session!CreateFails, Checks, Mine
  <1>5. ASSUME NEW i \in DOMAIN requests, Session!RevokeArrives(i)
        PROVE  Session!TypeOK'
    <2>1. ses' \in SessionSlices
      <3>1. [ses EXCEPT !.loading = FALSE, !.check_success = FALSE] \in SessionSlices
        BY <1>a DEF SessionSlices
      <3>2. QED
        BY <1>5, <3>1, ClearedFacts DEF Session!RevokeArrives, Session!Rerender, Session!Remount
    <2>2. /\ session' \in Session!Maybe /\ unheard' \in BOOLEAN /\ requests' \in Mine
          /\ checks' \in Checks
          /\ fileShares' = fileShares /\ late' = late /\ listening' \in BOOLEAN /\ events' \in 0..MaxEvents
      BY <1>5, <1>a, <1>b DEF Session!RevokeArrives
    <2>3. QED
      BY <1>5, <1>b, <2>1, <2>2, RerenderKeepsTypes DEF Session!RevokeArrives, Checks, Mine
  <1>6. ASSUME NEW i \in DOMAIN requests, Session!RevokeFails(i)
        PROVE  Session!TypeOK'
    <2>1. ses' \in SessionSlices
      BY <1>6, <1>a DEF Session!RevokeFails, Session!Rerender, Session!Remount, SessionSlices, SessionRequests
    <2>2. /\ session' \in Session!Maybe /\ unheard' \in BOOLEAN /\ requests' \in Mine
          /\ checks' \in Checks
          /\ fileShares' = fileShares /\ late' = late /\ listening' \in BOOLEAN /\ events' \in 0..MaxEvents
      BY <1>6, <1>a, <1>b DEF Session!RevokeFails
    <2>3. QED
      BY <1>6, <1>b, <2>1, <2>2, RerenderKeepsTypes DEF Session!RevokeFails, Checks, Mine
  <1>7. ASSUME Session!Disconnect
        PROVE  Session!TypeOK'
    <2>1. ses' \in SessionSlices
      BY <1>7, <1>a, ClearedFacts DEF Session!Disconnect, Session!Rerender, Session!Remount
    <2>2. /\ session' \in Session!Maybe /\ unheard' \in BOOLEAN /\ requests' \in Mine
          /\ checks' \in Checks
          /\ fileShares' = fileShares /\ late' = late /\ listening' \in BOOLEAN /\ events' \in 0..MaxEvents
      BY <1>7, <1>a, <1>b DEF Session!Disconnect
    <2>3. QED
      BY <1>7, <1>b, <2>1, <2>2, RerenderKeepsTypes DEF Session!Disconnect, Checks, Mine
  <1>8. ASSUME Session!OpenSession
        PROVE  Session!TypeOK'
    <2>1. ses' \in SessionSlices
      BY <1>8, <1>a DEF Session!OpenSession, Session!Rerender, Session!Remount, SessionSlices, SessionRequests
    <2>2. checks' \in Checks
      <3>1. checks' = Append(checks, Sent)
        BY <1>8 DEF Session!OpenSession
      <3>2. QED
        BY <1>a, <3>1 DEF Checks
    <2>3. /\ session' \in Session!Maybe /\ unheard' \in BOOLEAN /\ requests' \in Mine
          /\ checks' \in Checks
          /\ fileShares' = fileShares /\ late' = late /\ listening' \in BOOLEAN /\ events' \in 0..MaxEvents
      BY <1>8, <1>a, <1>b, <2>2 DEF Session!OpenSession
    <2>4. QED
      BY <1>8, <1>b, <2>1, <2>3, RerenderKeepsTypes DEF Session!OpenSession, Checks, Mine
  <1>9. ASSUME Session!OpenFiles
        PROVE  Session!TypeOK'
    <2>1. ses' \in SessionSlices
      BY <1>9, <1>a DEF Session!OpenFiles, Session!Rerender, Session!Remount, SessionSlices, SessionRequests
    <2>2. /\ session' \in Session!Maybe /\ unheard' \in BOOLEAN /\ requests' \in Mine
          /\ checks' \in Checks
          /\ fileShares' = fileShares /\ late' = late /\ listening' \in BOOLEAN /\ events' \in 0..MaxEvents
      BY <1>9, <1>a, <1>b DEF Session!OpenFiles
    <2>3. QED
      BY <1>9, <1>b, <2>1, <2>2, RerenderKeepsTypes DEF Session!OpenFiles, Checks, Mine
  <1>10. ASSUME NEW i \in DOMAIN checks, Session!CheckArrives(i)
        PROVE  Session!TypeOK'
    <2>1. ses' \in SessionSlices
      BY <1>10, <1>a DEF Session!CheckArrives, Session!Rerender, Session!Remount, SessionSlices, SessionRequests
    <2>2. /\ session' \in Session!Maybe /\ unheard' \in BOOLEAN /\ requests' \in Mine
          /\ checks' \in Checks
          /\ fileShares' = fileShares /\ late' = late /\ listening' \in BOOLEAN /\ events' \in 0..MaxEvents
      BY <1>10, <1>a, <1>b DEF Session!CheckArrives
    <2>3. QED
      BY <1>10, <1>b, <2>1, <2>2, RerenderKeepsTypes DEF Session!CheckArrives, Checks, Mine
  <1>11. ASSUME NEW i \in DOMAIN checks, Session!CheckFails(i)
        PROVE  Session!TypeOK'
    <2>1. ses' \in SessionSlices
      BY <1>11, <1>a DEF Session!CheckFails, Session!Rerender, Session!Remount, SessionSlices, SessionRequests
    <2>2. /\ session' \in Session!Maybe /\ unheard' \in BOOLEAN /\ requests' \in Mine
          /\ checks' \in Checks
          /\ fileShares' = fileShares /\ late' = late /\ listening' \in BOOLEAN /\ events' \in 0..MaxEvents
      BY <1>11, <1>a, <1>b DEF Session!CheckFails
    <2>3. QED
      BY <1>11, <1>b, <2>1, <2>2, RerenderKeepsTypes DEF Session!CheckFails, Checks, Mine
  <1>12. ASSUME NEW p \in Partners, Session!Connected(p)
        PROVE  Session!TypeOK'
    <2>1. ses' \in SessionSlices
      BY <1>12, <1>a DEF Session!Connected, Session!Rerender, Session!Remount, SessionSlices, SessionRequests
    <2>2. /\ session' \in Session!Maybe /\ unheard' \in BOOLEAN /\ requests' \in Mine
          /\ checks' \in Checks
          /\ fileShares' = fileShares /\ late' = late /\ listening' \in BOOLEAN /\ events' \in 0..MaxEvents
      BY <1>12, <1>a, <1>b DEF Session!Connected
    <2>3. QED
      BY <1>12, <1>b, <2>1, <2>2, RerenderKeepsTypes DEF Session!Connected, Checks, Mine
  <1>13. ASSUME NEW i \in DOMAIN requests, Session!RevokeServed(i)
         PROVE  Session!TypeOK'
    <2>1. PICK a \in {NoOne, Refused} : requests' = [requests EXCEPT ![i].answer = a]
      BY <1>13 DEF Session!RevokeServed
    <2>2. requests' = [requests EXCEPT ![i] = [requests[i] EXCEPT !.answer = a]]
      BY <2>1
    <2>3. [requests[i] EXCEPT !.answer = a] \in SessionRequests
      BY <1>a DEF SessionRequests
    <2>4. requests' \in Seq(SessionRequests)
      BY <1>a, <2>2, <2>3 DEF Mine
    <2>5. session' \in Session!Maybe
      BY <1>13, <1>b DEF Session!RevokeServed
    <2>6. QED
      BY <1>13, <2>4, <2>5 DEF Session!RevokeServed, Session!TypeOK, SessionRequests,
                               Session!sharing
  <1>14. ASSUME NEW i \in DOMAIN checks, Session!CheckServed(i)
         PROVE  Session!TypeOK'
    <2>1. checks' \in Checks
      BY <1>14, <1>a, <1>b DEF Session!CheckServed, Checks
    <2>2. QED
      BY <1>14, <2>1 DEF Session!CheckServed, Session!TypeOK, Checks, Session!sharing
  <1>15. ASSUME NEW i \in DOMAIN fileFetches, Session!FilesArrive(i)
         PROVE  Session!TypeOK'
    <2>1. fileFetches' \in Seq(SessionFetches)
      BY <1>15, AnsweredFacts DEF Session!FilesArrive
    <2>2. fileFetches[i] \in SessionFetches
      <3>1. fileFetches \in Seq(SessionFetches)
        BY DEF Session!TypeOK, SessionFetches
      <3>2. QED
        BY <3>1
    <2>3. sessionFiles' \in SessionFiles /\ late' \in BOOLEAN
      BY <1>15, <2>2 DEF Session!FilesArrive, SessionFetches, SessionFiles, Session!Maybe
    <2>4. QED
      BY <1>15, <2>1, <2>3 DEF Session!FilesArrive, Session!TypeOK, SessionFetches, SessionFiles, Session!sharing
  <1>16. ASSUME NEW i \in DOMAIN fileFetches, Session!FilesFail(i)
         PROVE  Session!TypeOK'
    <2>1. fileFetches' \in Seq(SessionFetches)
      BY <1>16, AnsweredFacts DEF Session!FilesFail
    <2>2. sessionFiles' \in SessionFiles /\ late' \in BOOLEAN
      BY <1>16 DEF Session!FilesFail, Session!TypeOK, SessionFiles
    <2>3. QED
      BY <1>16, <2>1, <2>2 DEF Session!FilesFail, Session!TypeOK, SessionFetches, SessionFiles, Session!sharing
  <1>17. ASSUME NEW p \in Partners, Session!FilesShared(p)
         PROVE  Session!TypeOK'
    <2>1. fileFetches' \in Seq(SessionFetches)
      <3>1. [of |-> p, stale |-> FALSE, byEvent |-> TRUE] \in SessionFetches /\ fileFetches \in Seq(SessionFetches)
        BY DEF Session!TypeOK, SessionFetches
      <3>2. QED
        BY <1>17, <3>1 DEF Session!FilesShared, Session!Asked
    <2>2. sessionFiles' \in SessionFiles
      BY <1>17 DEF Session!FilesShared, Session!Asked, Session!TypeOK, SessionFiles
    <2>3. events' \in 0..MaxEvents
      BY <1>17, <1>b DEF Session!FilesShared
    <2>4. QED
      BY <1>17, <2>1, <2>2, <2>3 DEF Session!FilesShared, Session!TypeOK, SessionFetches,
                                     SessionFiles, Session!sharing
  <1>18. ASSUME NEW i \in DOMAIN fileShares, Session!ShareArrives(i)
         PROVE  Session!TypeOK'
    <2>1. fileShares' \in Seq(Partners)
      BY <1>18, <1>a DEF Session!ShareArrives
    <2>2. selected' \in BOOLEAN
      BY <1>18 DEF Session!ShareArrives, Session!TypeOK
    <2>3. QED
      BY <1>18, <2>1, <2>2 DEF Session!ShareArrives, Session!TypeOK
  <1>19. CASE Session!handleShareSelected
    BY <1>19 DEF Session!handleShareSelected, Session!TypeOK
  <1>20. CASE Session!SessionEnds \/ Session!OpenModal \/ Session!CloseModal \/ Session!toggleSelect
    BY <1>20 DEF Session!SessionEnds, Session!OpenModal, Session!CloseModal, Session!toggleSelect,
                 Session!TypeOK, Session!sharing
  <1>21. CASE Session!Reload
    BY <1>21, EmptySeq DEF Session!Reload, Session!ses0, Session!noFiles, Session!TypeOK
  <1>22. CASE UNCHANGED Session!vars
    BY <1>22 DEF Session!vars, Session!sharing, Session!TypeOK
  <1>23. QED
    BY <1>1, <1>2, <1>3, <1>4, <1>5, <1>6, <1>7, <1>8, <1>9, <1>10, <1>11, <1>12, <1>13,
       <1>14, <1>15, <1>16, <1>17, <1>18, <1>19, <1>20, <1>21, <1>22
    DEF Session!Next, Session!RequestAnswer, Session!CheckAnswer, Session!FilesAnswer,
        Session!Event, Session!User

-----------------------------------------------------------------------------
(* The request in flight, and the token kept for sharing. *)

\* The steps that touch the requests keep the flag theirs: a click waits for the
\* flag, and the only request there is clears it.
LEMMA OneRequestKept ==
  ASSUME Session!TypeOK, Session!OneSessionRequest, [Session!Next]_(Session!vars)
  PROVE  Session!OneSessionRequest'
  <1>a. /\ requests \in Seq(SessionRequests) /\ Len(requests) \in Nat /\ ses \in SessionSlices
        /\ \A i \in DOMAIN requests :
             /\ Session!RemoveAt(requests, i) \in Seq(SessionRequests)
             /\ Len(Session!RemoveAt(requests, i)) = Len(requests) - 1
    BY InFlightTypes
  <1>b. ASSUME ses'.loading = ses.loading, requests' = requests
        PROVE  Session!OneSessionRequest'
    BY <1>b DEF Session!OneSessionRequest
  <1>c. ASSUME NEW r, requests' = Append(requests, r), r \in SessionRequests, ~ses.loading,
               ses'.loading
        PROVE  Session!OneSessionRequest'
    <2>1. requests = <<>>
      BY <1>c DEF Session!OneSessionRequest
    <2>2. requests' = <<r>>
      BY <1>c, <2>1
    <2>3. QED
      BY <1>c, <2>2 DEF Session!OneSessionRequest
  <1>d. ASSUME NEW i \in DOMAIN requests, requests' = Session!RemoveAt(requests, i), ~ses'.loading
        PROVE  Session!OneSessionRequest'
    <2>1. Len(requests') = 0 /\ requests' \in Seq(SessionRequests)
      <3>1. Len(requests) = 1
        <4>1. Len(requests) \in Nat /\ Len(requests) >= 1
          BY <1>a
        <4>2. Len(requests) <= 1
          BY DEF Session!OneSessionRequest
        <4>3. QED
          BY ONLY <4>1, <4>2, Z3
      <3>2. QED
        BY <1>a, <1>d, <3>1
    <2>2. requests' = <<>>
      BY <2>1
    <2>3. QED
      BY <1>d, <2>1, <2>2 DEF Session!OneSessionRequest
  <1>1. ASSUME NEW p \in Session!Maybe, Session!handleSessionCreate(p)
        PROVE  Session!OneSessionRequest'
    <2>1. [op |-> "create", who |-> p, answer |-> Sent] \in SessionRequests
      BY DEF SessionRequests, Session!Maybe
    <2>2. ~ses.loading /\ ses'.loading
      BY <1>1, <1>a DEF Session!handleSessionCreate, Session!Rerender, Session!Remount, SessionSlices
    <2>3. requests' = Append(requests, [op |-> "create", who |-> p, answer |-> Sent])
      BY <1>1 DEF Session!handleSessionCreate
    <2>4. QED
      BY <1>c, <2>1, <2>2, <2>3
  <1>2. CASE Session!handleTerminate
    <2>1. [op |-> "revoke", who |-> NoOne, answer |-> Sent] \in SessionRequests
      BY DEF SessionRequests, Session!Maybe
    <2>2. ~ses.loading /\ ses'.loading
      BY <1>2, <1>a DEF Session!handleTerminate, Session!PanelShown, Session!Rerender, Session!Remount, SessionSlices
    <2>3. requests' = Append(requests, [op |-> "revoke", who |-> NoOne, answer |-> Sent])
      BY <1>2 DEF Session!handleTerminate
    <2>4. QED
      BY <1>c, <2>1, <2>2, <2>3
  <1>3. ASSUME NEW i \in DOMAIN requests,
               Session!CreateArrives(i) \/ Session!CreateFails(i) \/ Session!RevokeFails(i)
        PROVE  Session!OneSessionRequest'
    <2>1. requests' = Session!RemoveAt(requests, i) /\ ~ses'.loading
      BY <1>3, <1>a DEF Session!CreateArrives, Session!CreateFails, Session!RevokeFails,
                        Session!Rerender, Session!Remount, SessionSlices
    <2>2. QED
      BY <1>d, <2>1
  <1>4. ASSUME NEW i \in DOMAIN requests, Session!RevokeArrives(i)
        PROVE  Session!OneSessionRequest'
    <2>1. requests' = Session!RemoveAt(requests, i) /\ ~ses'.loading
      <3>1. /\ [ses EXCEPT !.loading = FALSE, !.check_success = FALSE] \in SessionSlices
            /\ ~[ses EXCEPT !.loading = FALSE, !.check_success = FALSE].loading
        BY <1>a DEF SessionSlices
      <3>2. QED
        BY <1>4, <3>1, ClearedFacts DEF Session!RevokeArrives, Session!Rerender, Session!Remount
    <2>2. QED
      BY <1>d, <2>1
  <1>5. ASSUME NEW i \in DOMAIN requests, Session!RevokeServed(i)
        PROVE  Session!OneSessionRequest'
    <2>1. PICK a : requests' = [requests EXCEPT ![i].answer = a]
      BY <1>5 DEF Session!RevokeServed
    <2>2. DOMAIN requests' = DOMAIN requests /\ requests' \in Seq(SessionRequests)
      BY <1>5, <2>1, TypesKept DEF Session!TypeOK, SessionRequests, Session!Next,
                                   Session!RequestAnswer
    <2>3. Len(requests') = Len(requests) /\ (requests' = <<>> <=> requests = <<>>)
      BY <1>a, <2>2
    <2>4. QED
      BY <1>5, <2>3 DEF Session!RevokeServed, Session!OneSessionRequest
  <1>6. CASE Session!Disconnect
    <2>1. ses'.loading = ses.loading /\ requests' = requests
      BY <1>6, <1>a, ClearedFacts DEF Session!Disconnect, Session!Rerender, Session!Remount
    <2>2. QED
      BY <1>b, <2>1
  <1>7. ASSUME NEW i \in DOMAIN checks,
               Session!CheckArrives(i) \/ Session!CheckFails(i) \/ Session!CheckServed(i)
        PROVE  Session!OneSessionRequest'
    <2>1. ses'.loading = ses.loading /\ requests' = requests
      BY <1>7, <1>a DEF Session!CheckArrives, Session!CheckFails, Session!CheckServed,
                        Session!Rerender, Session!Remount, SessionSlices
    <2>2. QED
      BY <1>b, <2>1
  <1>8. ASSUME NEW p \in Partners, Session!Connected(p) \/ Session!FilesShared(p)
        PROVE  Session!OneSessionRequest'
    <2>1. ses'.loading = ses.loading /\ requests' = requests
      BY <1>8, <1>a DEF Session!Connected, Session!FilesShared, Session!Rerender, Session!Remount, SessionSlices
    <2>2. QED
      BY <1>b, <2>1
  <1>9. CASE Session!OpenSession \/ Session!OpenFiles
    <2>1. ses'.loading = ses.loading /\ requests' = requests
      BY <1>9, <1>a DEF Session!OpenSession, Session!OpenFiles, Session!Rerender, Session!Remount, SessionSlices
    <2>2. QED
      BY <1>b, <2>1
  <1>10. CASE Session!Reload
    BY <1>10 DEF Session!Reload, Session!ses0, Session!OneSessionRequest
  <1>11. ASSUME NEW i \in DOMAIN fileFetches, Session!FilesArrive(i) \/ Session!FilesFail(i)
         PROVE  Session!OneSessionRequest'
    BY <1>11, <1>b DEF Session!FilesArrive, Session!FilesFail
  <1>12. ASSUME NEW i \in DOMAIN fileShares, Session!ShareArrives(i)
         PROVE  Session!OneSessionRequest'
    BY <1>12, <1>b DEF Session!ShareArrives
  <1>13. CASE Session!SessionEnds \/ Session!OpenModal \/ Session!CloseModal
                \/ Session!toggleSelect \/ Session!handleShareSelected
              \/ UNCHANGED Session!vars
    BY <1>13, <1>b DEF Session!SessionEnds, Session!OpenModal, Session!CloseModal,
                       Session!toggleSelect, Session!handleShareSelected, Session!vars
  <1>14. QED
    BY <1>1, <1>2, <1>3, <1>4, <1>5, <1>6, <1>7, <1>8, <1>9, <1>10, <1>11, <1>12, <1>13
    DEF Session!Next, Session!RequestAnswer, Session!CheckAnswer, Session!FilesAnswer,
        Session!Event, Session!User

\* A revocation that was answered and did not reach the browser yet.
BeingRevoked ==
  \E i \in DOMAIN requests : requests[i].op = "revoke" /\ requests[i].answer = NoOne

\* The token changes with the cookie, or is dropped; the cookie's session ends
\* unheard, or with an answer on its way.
LEMMA TokenKept ==
  ASSUME Session!TypeOK, Session!OneSessionRequest, Session!ShareTokenIsLive,
         [Session!Next]_(Session!vars)
  PROVE  Session!ShareTokenIsLive'
  <1> USE DEF BeingRevoked
  <1> DEFINE token == ses.receiver_qr_token
  <1>a. /\ requests \in Seq(SessionRequests) /\ ses \in SessionSlices
        /\ \A i \in DOMAIN requests : requests[i] \in SessionRequests
    BY InFlightTypes
  <1>b. ASSUME token' = token, session' = session, unheard => unheard', requests' = requests
        PROVE  Session!ShareTokenIsLive'
    BY <1>b DEF Session!ShareTokenIsLive
  <1>c. ASSUME token' = NoOne
        PROVE  Session!ShareTokenIsLive'
    BY <1>c DEF Session!ShareTokenIsLive
  <1>d. ASSUME NEW i \in DOMAIN requests, NEW j \in DOMAIN requests
        PROVE  i = j
    BY <1>a DEF Session!OneSessionRequest
  <1>e. ASSUME requests = <<>>, token' = token, session' = session, unheard' = unheard
        PROVE  Session!ShareTokenIsLive'
    BY <1>e DEF Session!ShareTokenIsLive
  <1>1. ASSUME NEW p \in Session!Maybe, Session!handleSessionCreate(p)
        PROVE  Session!ShareTokenIsLive'
    <2>1. requests = <<>>
      BY <1>1 DEF Session!handleSessionCreate, Session!OneSessionRequest
    <2>2. token' = token /\ session' = session /\ unheard' = unheard
      BY <1>1, <1>a DEF Session!handleSessionCreate, Session!Rerender, Session!Remount, SessionSlices
    <2>3. QED
      BY <1>e, <2>1, <2>2
  <1>2. CASE Session!handleTerminate
    <2>1. requests = <<>>
      BY <1>2 DEF Session!handleTerminate, Session!PanelShown, Session!OneSessionRequest
    <2>2. token' = token /\ session' = session /\ unheard' = unheard
      BY <1>2, <1>a DEF Session!handleTerminate, Session!Rerender, Session!Remount, SessionSlices
    <2>3. QED
      BY <1>e, <2>1, <2>2
  <1>3. ASSUME NEW i \in DOMAIN requests, Session!CreateArrives(i)
        PROVE  Session!ShareTokenIsLive'
    <2>1. session' = requests[i].who /\ token' = requests[i].who
      BY <1>3, <1>a DEF Session!CreateArrives, Session!Rerender, Session!Remount, SessionSlices
    <2>2. QED
      BY <2>1 DEF Session!ShareTokenIsLive
  <1>4. ASSUME NEW i \in DOMAIN requests, Session!CreateFails(i)
        PROVE  Session!ShareTokenIsLive'
    <2>1. token' = NoOne
      BY <1>4, <1>a DEF Session!CreateFails, Session!Rerender, Session!Remount, SessionSlices
    <2>2. QED
      BY <1>c, <2>1
  <1>5. ASSUME NEW i \in DOMAIN requests, Session!RevokeServed(i)
        PROVE  Session!ShareTokenIsLive'
    <2>1. token' = token /\ unheard' = unheard
      BY <1>5 DEF Session!RevokeServed
    <2>2. ~BeingRevoked
      BY <1>5, <1>d, SessionConstantsOK DEF Session!ConstantsOK, Session!RevokeServed
    <2>3. CASE requests' = [requests EXCEPT ![i].answer = NoOne]
      <3>1. /\ i \in DOMAIN requests' /\ requests'[i].op = "revoke"
            /\ requests'[i].answer = NoOne
        BY <1>5, <1>a, <2>3 DEF Session!RevokeServed, SessionRequests
      <3>2. QED
        BY <3>1 DEF Session!ShareTokenIsLive
    <2>4. CASE session' = session
      BY <2>1, <2>2, <2>4 DEF Session!ShareTokenIsLive
    <2>5. QED
      BY <1>5, <2>3, <2>4 DEF Session!RevokeServed
  <1>6. ASSUME NEW i \in DOMAIN requests, Session!RevokeArrives(i)
        PROVE  Session!ShareTokenIsLive'
    <2>1. [ses EXCEPT !.loading = FALSE, !.check_success = FALSE] \in SessionSlices
      BY <1>a DEF SessionSlices
    <2>2. token' = NoOne
      BY <1>6, <2>1, ClearedFacts DEF Session!RevokeArrives, Session!Rerender, Session!Remount
    <2>3. QED
      BY <1>c, <2>2
  <1>7. ASSUME NEW i \in DOMAIN requests, Session!RevokeFails(i)
        PROVE  Session!ShareTokenIsLive'
    <2>1. token' = token /\ session' = session
      BY <1>7, <1>a DEF Session!RevokeFails, Session!Rerender, Session!Remount, SessionSlices
    <2>2. unheard' = (unheard \/ requests[i].answer = NoOne)
      BY <1>7 DEF Session!RevokeFails
    <2>3. BeingRevoked \/ unheard => unheard'
      BY <2>2, <1>d
    <2>4. QED
      BY <2>1, <2>3 DEF Session!ShareTokenIsLive
  <1>8. CASE Session!Disconnect
    <2>1. token' = NoOne
      BY <1>8, <1>a, ClearedFacts DEF Session!Disconnect, Session!Rerender, Session!Remount
    <2>2. QED
      BY <1>c, <2>1
  <1>9. CASE Session!SessionEnds
    BY <1>9 DEF Session!SessionEnds, Session!ShareTokenIsLive
  <1>10. ASSUME NEW i \in DOMAIN checks,
                Session!CheckArrives(i) \/ Session!CheckFails(i) \/ Session!CheckServed(i)
         PROVE  Session!ShareTokenIsLive'
    <2>1. token' = token /\ session' = session /\ unheard' = unheard /\ requests' = requests
      BY <1>10, <1>a DEF Session!CheckArrives, Session!CheckFails, Session!CheckServed,
                         Session!Rerender, Session!Remount, SessionSlices
    <2>2. QED
      BY <1>b, <2>1
  <1>11. ASSUME NEW p \in Partners, Session!Connected(p) \/ Session!FilesShared(p)
         PROVE  Session!ShareTokenIsLive'
    <2>1. token' = token /\ session' = session /\ unheard' = unheard /\ requests' = requests
      BY <1>11, <1>a DEF Session!Connected, Session!FilesShared, Session!Rerender, Session!Remount, SessionSlices
    <2>2. QED
      BY <1>b, <2>1
  <1>12. CASE Session!OpenSession \/ Session!OpenFiles
    <2>1. token' = token /\ session' = session /\ unheard' = unheard /\ requests' = requests
      BY <1>12, <1>a DEF Session!OpenSession, Session!OpenFiles, Session!Rerender, Session!Remount, SessionSlices
    <2>2. QED
      BY <1>b, <2>1
  <1>13. CASE Session!Reload
    <2>1. token' = NoOne
      BY <1>13 DEF Session!Reload, Session!ses0
    <2>2. QED
      BY <1>c, <2>1
  <1>14. ASSUME NEW i \in DOMAIN fileFetches, Session!FilesArrive(i) \/ Session!FilesFail(i)
         PROVE  Session!ShareTokenIsLive'
    BY <1>14, <1>b DEF Session!FilesArrive, Session!FilesFail
  <1>15. ASSUME NEW i \in DOMAIN fileShares, Session!ShareArrives(i)
         PROVE  Session!ShareTokenIsLive'
    BY <1>15, <1>b DEF Session!ShareArrives
  <1>16. CASE Session!OpenModal \/ Session!CloseModal \/ Session!toggleSelect
                \/ Session!handleShareSelected \/ UNCHANGED Session!vars
    BY <1>16, <1>b DEF Session!OpenModal, Session!CloseModal, Session!toggleSelect,
                       Session!handleShareSelected, Session!vars
  <1>17. QED
    BY <1>1, <1>2, <1>3, <1>4, <1>5, <1>6, <1>7, <1>8, <1>9, <1>10, <1>11, <1>12, <1>13,
       <1>14, <1>15, <1>16
    DEF Session!Next, Session!RequestAnswer, Session!CheckAnswer, Session!FilesAnswer,
        Session!Event, Session!User

-----------------------------------------------------------------------------
(* The lists of files, and the theorems. *)

\* The panel has asked for what it wants, whatever the step.
LEMMA AskedKept ==
  ASSUME Session!TypeOK, PanelHasAsked, [Session!Next]_(Session!vars)
  PROVE  PanelHasAsked'
  <1>b. ASSUME UNCHANGED <<sessionPage, ses, fileFetches, sessionFiles, late>>
        PROVE  PanelHasAsked'
    BY <1>b DEF PanelHasAsked, NewestIsWanted, NewestWasAnswered, Session!Wanted, Session!Mounted
  <1>1. ASSUME NEW p \in Session!Maybe, Session!handleSessionCreate(p)
        PROVE  PanelHasAsked'
    BY <1>1, RerenderAsks DEF Session!handleSessionCreate
  <1>2. CASE Session!handleTerminate
    BY <1>2, RerenderAsks DEF Session!handleTerminate
  <1>3. ASSUME NEW i \in DOMAIN requests, Session!CreateArrives(i)
        PROVE  PanelHasAsked'
    BY <1>3, RerenderAsks DEF Session!CreateArrives
  <1>4. ASSUME NEW i \in DOMAIN requests, Session!CreateFails(i)
        PROVE  PanelHasAsked'
    BY <1>4, RerenderAsks DEF Session!CreateFails
  <1>5. ASSUME NEW i \in DOMAIN requests, Session!RevokeArrives(i)
        PROVE  PanelHasAsked'
    BY <1>5, RerenderAsks DEF Session!RevokeArrives
  <1>6. ASSUME NEW i \in DOMAIN requests, Session!RevokeFails(i)
        PROVE  PanelHasAsked'
    BY <1>6, RerenderAsks DEF Session!RevokeFails
  <1>7. CASE Session!Disconnect
    BY <1>7, RerenderAsks DEF Session!Disconnect
  <1>8. CASE Session!OpenSession
    BY <1>8, RerenderAsks DEF Session!OpenSession
  <1>9. CASE Session!OpenFiles
    BY <1>9, RerenderAsks DEF Session!OpenFiles
  <1>10. ASSUME NEW i \in DOMAIN checks, Session!CheckArrives(i)
         PROVE  PanelHasAsked'
    BY <1>10, RerenderAsks DEF Session!CheckArrives
  <1>11. ASSUME NEW i \in DOMAIN checks, Session!CheckFails(i)
         PROVE  PanelHasAsked'
    BY <1>11, RerenderAsks DEF Session!CheckFails
  <1>12. ASSUME NEW p \in Partners, Session!Connected(p) \/ Session!FilesShared(p)
         PROVE  PanelHasAsked'
    <2>1. CASE Session!Connected(p)
      BY <2>1, RerenderAsks DEF Session!Connected
    <2>2. CASE Session!FilesShared(p)
      <3> DEFINE asked == [of |-> p, stale |-> FALSE, byEvent |-> TRUE]
      <3>1. fileFetches \in Seq(SessionFetches) /\ fileFetches' = Append(fileFetches, asked)
        BY <2>2 DEF Session!FilesShared, Session!Asked, Session!TypeOK, SessionFetches
      <3>2. fileFetches' # <<>> /\ fileFetches'[Len(fileFetches')] = asked
        BY <3>1
      <3>3. QED
        BY <3>2 DEF PanelHasAsked, NewestIsWanted
    <2>3. QED
      BY <1>12, <2>1, <2>2
  <1>13. CASE Session!Reload
    BY <1>13 DEF Session!Reload, PanelHasAsked, Session!Wanted, Session!Mounted
  <1>14. ASSUME NEW i \in DOMAIN fileFetches, Session!FilesArrive(i) \/ Session!FilesFail(i)
         PROVE  PanelHasAsked'
    BY <1>14, AnswersKeepAsked
  <1>15. ASSUME NEW i \in DOMAIN requests, Session!RevokeServed(i)
         PROVE  PanelHasAsked'
    BY <1>15, <1>b DEF Session!RevokeServed
  <1>16. ASSUME NEW i \in DOMAIN checks, Session!CheckServed(i)
         PROVE  PanelHasAsked'
    BY <1>16, <1>b DEF Session!CheckServed
  <1>17. ASSUME NEW i \in DOMAIN fileShares, Session!ShareArrives(i)
         PROVE  PanelHasAsked'
    BY <1>17, <1>b DEF Session!ShareArrives
  <1>18. CASE Session!SessionEnds \/ Session!OpenModal \/ Session!CloseModal
                \/ Session!toggleSelect \/ Session!handleShareSelected
              \/ UNCHANGED Session!vars
    BY <1>18, <1>b DEF Session!SessionEnds, Session!OpenModal, Session!CloseModal,
                       Session!toggleSelect, Session!handleShareSelected, Session!vars
  <1>19. QED
    BY <1>1, <1>2, <1>3, <1>4, <1>5, <1>6, <1>7, <1>8, <1>9, <1>10, <1>11, <1>12, <1>13,
       <1>14, <1>15, <1>16, <1>17, <1>18
    DEF Session!Next, Session!RequestAnswer, Session!CheckAnswer, Session!FilesAnswer,
        Session!Event, Session!User

\* The inductive invariant: the types, the flag, the token and the list asked
\* for hold in every state.
THEOREM SessionInvariance == SessionSpec => []SessionInv
  <1>1. Session!Init => SessionInv
    <2> SUFFICES ASSUME Session!Init
                 PROVE  SessionInv
      OBVIOUS
    <2>1. Session!TypeOK
      <3>1. 0 \in 0..MaxEvents
        BY SessionConstantsOK DEF Session!ConstantsOK
      <3>2. Session!ses0 \in SessionSlices
        BY DEF Session!ses0, SessionSlices, Session!Maybe
      <3>3. ses \in SessionSlices /\ events \in 0..MaxEvents /\ session \in Session!Maybe
        BY <3>1, <3>2 DEF Session!Init, Session!Fresh
      <3>4. /\ requests = <<>> /\ checks = <<>> /\ fileShares = <<>> /\ fileFetches = <<>>
            /\ sessionFiles \in [of : Session!Maybe, loading : BOOLEAN, byEvent : BOOLEAN]
        BY DEF Session!Init, Session!Fresh, Session!noFiles, SessionFiles, Session!Maybe
      <3>5. QED
        BY <3>3, <3>4, EmptySeq DEF Session!Init, Session!Fresh, Session!TypeOK, SessionSlices
    <2>2. Session!OneSessionRequest /\ Session!ShareTokenIsLive
      BY DEF Session!Init, Session!Fresh, Session!ses0, Session!OneSessionRequest,
             Session!ShareTokenIsLive
    <2>3. PanelHasAsked
      BY DEF Session!Init, Session!Fresh, PanelHasAsked, Session!Wanted, Session!Mounted
    <2>4. QED
      BY <2>1, <2>2, <2>3 DEF SessionInv
  <1>2. SessionInv /\ [Session!Next]_(Session!vars) => SessionInv'
    BY TypesKept, OneRequestKept, TokenKept, AskedKept DEF SessionInv
  <1>3. QED
    BY <1>1, <1>2, PTL DEF SessionSpec, Session!Spec

\* A create and a revoke never race: at most one is on its way, and the flag
\* that disables the button and hides the panel is set exactly then
\* (ShareSessionSlice.js, QRuserInfoCard, ActiveSession).
THEOREM OneRequestOwnsTheFlag == SessionSpec => []RequestsAgree
  <1>1. SessionInv => RequestsAgree
    BY DEF SessionInv, RequestsAgree, Session!RequestsAgree
  <1>2. QED
    BY <1>1, SessionInvariance, PTL

\* Files are shared into, and listed from, the session the panel shows: the
\* token is the cookie's session's unless it ended unheard or is being revoked,
\* and with every list answered the files are that session's, unless the last
\* list failed, an older one came after it, or FILES_SHARED had asked for the
\* list on the screen, whichever session it named.
THEOREM PanelAndSessionAgree == SessionSpec => []PanelIsOfItsSession
  <1>1. SessionInv => PanelIsOfItsSession
    <2> SUFFICES ASSUME SessionInv
                 PROVE  Session!WrongFilesOnlyFromElsewhere
      BY DEF SessionInv, PanelIsOfItsSession, Session!PanelIsOfItsSession
    <2>1. NewestIsWanted => fileFetches # <<>>
      BY DEF NewestIsWanted
    <2>2. NewestWasAnswered =>
            late \/ sessionFiles.of = Session!Wanted(sessionPage, ses) \/ sessionFiles.byEvent
      BY DEF NewestWasAnswered
    <2>3. QED
      BY <2>1, <2>2 DEF SessionInv, PanelHasAsked, Session!WrongFilesOnlyFromElsewhere
  <1>2. QED
    BY <1>1, SessionInvariance, PTL

\* The answer that a session is terminated takes its panel off the screen, or a
\* check of the session is still to be answered.
THEOREM TerminatedIsHidden == SessionSpec => TerminateHidesSession
  <1> DEFINE Hides == \A i \in DOMAIN requests :
               Session!RevokeArrives(i) => ~Session!Mounted(sessionPage, ses)' \/ ses'.check_loading
  <1>1. SessionInv /\ [Session!Next]_(Session!vars) => [Hides]_(Session!vars)
    <2> SUFFICES ASSUME SessionInv, NEW i \in DOMAIN requests, Session!RevokeArrives(i)
                 PROVE  ~Session!Mounted(sessionPage, ses)' \/ ses'.check_loading
      OBVIOUS
    <2> DEFINE answered == [ses EXCEPT !.loading = FALSE, !.check_success = FALSE]
    <2>1. answered \in SessionSlices /\ ~answered.loading /\ ~answered.check_success
      <3>1. ses \in SessionSlices
        BY InFlightTypes DEF SessionInv
      <3>2. QED
        BY <3>1 DEF SessionSlices
    <2>2. ses' = Session!clearedSession(answered)
      BY DEF Session!RevokeArrives, Session!Rerender, Session!Remount
    <2> HIDE DEF answered
    <2>3. ~ses'.loading /\ ~ses'.success /\ ~ses'.check_success
      BY <2>1, <2>2, ClearedFacts
    <2>4. QED
      BY <2>3 DEF Session!Mounted
  <1>2. QED
    BY <1>1, SessionInvariance, PTL DEF SessionSpec, Session!Spec, TerminateHidesSession,
                                          Session!TerminateHidesSession
=============================================================================
