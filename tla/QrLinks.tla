-------------------------------- MODULE QrLinks --------------------------------
(***************************************************************************)
(* The two ends of a QR code in the browser.  Its own: App and the QR page *)
(* ask the server for the user's code, App opens the socket on the room of *)
(* the code it was given, and the socket reconnects until it is told not   *)
(* to.  And somebody else's: the card of the person a search by email or a *)
(* scanned code finds (App.jsx, QR.jsx, socket.js, QrSlice.js,             *)
(* Session.jsx, QRScanner.jsx, QRuserInfoCard.jsx).                        *)
(*                                                                         *)
(* A code is a number, 0 stands for none.  Its id and its token, and the   *)
(* room of its owner, are one value.                                       *)
(***************************************************************************)
EXTENDS Naturals, Sequences, FiniteSets, SequencesExt, FiniteSetsExt

CONSTANTS
  People,
  Tokenless,    \* people without a permanent QR code
  MAX_ATTEMPTS,
  MaxCodes,     \* bound: codes the server makes
  MaxGens,      \* bound: GenerateQRCode requests in flight
  MaxLookups,   \* bound: lookups in flight
  Sockets,      \* bound: sockets not yet closed
  None

ASSUME ConstantsOK ==
  /\ Tokenless \subseteq People
  /\ {MAX_ATTEMPTS, MaxCodes, MaxGens, MaxLookups} \subseteq Nat
  /\ None \notin People \cup Sockets

VARIABLES
  guest,       \* nobody is signed in
  codes,       \* the codes the server has
  issued,      \* codes made so far
  expired,     \* history: a guest's code expired
  raced,       \* history: two requests for a code were in flight together
  QR,          \* QrSlice: QRToken and its loading flag
  gens,        \* GenerateQRCode requests
  called,      \* App's hasGenerated: it has asked
  qrPage,      \* the QR page is open
  sockets,     \* the state of each socket
  socket,      \* socket.js: the current one
  room,        \* the room App connected to
  reconnectTimeout, \* a reconnection is scheduled
  reconnectAttempts,
  quit,        \* history: disconnected, and App has not connected since
  card,        \* QrSlice: the person found
  lookups      \* SearchEmail and ResolveQR requests: the person of each

server == <<guest, codes, issued, expired>>
code == <<raced, QR, gens, called, qrPage>>
wire == <<sockets, socket, room, reconnectTimeout, reconnectAttempts, quit>>
person == <<card, lookups>>
vars == <<server, code, wire, person>>

Maybe == People \cup {None}
Code == 0..MaxCodes
State == {"free", "connecting", "open", "closing"}

TypeOK ==
  /\ guest \in BOOLEAN
  /\ codes \subseteq 1..issued
  /\ issued \in Code
  /\ expired \in BOOLEAN
  /\ raced \in BOOLEAN
  /\ QR \in [QRToken : Code, loading : BOOLEAN]
  /\ gens \in Seq([from : {"App", "QR"}, at : {"cached", "sent", "making", "done"}, code : Code])
  /\ called \in BOOLEAN
  /\ qrPage \in BOOLEAN
  /\ sockets \in [Sockets -> State]
  /\ socket \in Sockets \cup {None}
  /\ room \in Code
  /\ reconnectTimeout \in BOOLEAN
  /\ reconnectAttempts \in 0..MAX_ATTEMPTS
  /\ quit \in BOOLEAN
  /\ card \in [name : Maybe, loading : BOOLEAN, error : BOOLEAN, receiver_QR : Maybe]
  /\ lookups \in Seq(People)

Init ==
  /\ guest \in BOOLEAN
  /\ codes = {}
  /\ issued = 0
  /\ expired = FALSE
  /\ raced = FALSE
  /\ QR = [QRToken |-> 0, loading |-> FALSE]
  /\ gens = <<>>
  /\ called = FALSE
  /\ qrPage = FALSE
  /\ sockets = [s \in Sockets |-> "free"]
  /\ socket = None
  /\ room = 0
  /\ reconnectTimeout = FALSE
  /\ reconnectAttempts = 0
  /\ quit = FALSE
  /\ card = [name |-> None, loading |-> FALSE, error |-> FALSE, receiver_QR |-> None]
  /\ lookups = <<>>

-----------------------------------------------------------------------------
(* The user's own code *)

\* Mutant: the token in the slice is not looked at.
GenerateQRCode_NoCache(who) ==
  /\ Len(gens) < MaxGens
  /\ gens' = Append(gens, [from |-> who, code |-> QR.QRToken,
                           at |-> "sent"])
  /\ QR' = [QR EXCEPT !.loading = TRUE]
  /\ raced' = (raced \/ (QR.QRToken = 0 /\ gens # <<>>))

\* GenerateQRCode: with a token in the slice it answers itself, and without the
\* code's id; else it asks the server.
GenerateQRCode(who) ==
  /\ Len(gens) < MaxGens
  /\ gens' = Append(gens, [from |-> who, code |-> QR.QRToken,
                           at |-> IF QR.QRToken # 0 THEN "cached" ELSE "sent"])
  /\ QR' = [QR EXCEPT !.loading = TRUE]
  /\ raced' = (raced \/ (QR.QRToken = 0 /\ gens # <<>>))

\* App asks for a code when it is mounted, and never again.  Its effect runs with
\* the first page's, before any answer.
AppMounts ==
  /\ ~called
  /\ called' = TRUE
  /\ GenerateQRCode("App")
  /\ UNCHANGED <<server, qrPage, wire, person>>

\* The QR page asks as it opens, before App does when it is the first page.
OpenQrPage ==
  /\ ~qrPage
  /\ qrPage' = TRUE
  /\ GenerateQRCode("QR")
  /\ UNCHANGED <<server, called, wire, person>>

CloseQrPage ==
  /\ qrPage
  /\ qrPage' = FALSE
  /\ UNCHANGED <<server, raced, QR, gens, called, wire, person>>

\* "Regenerate QR".
HandleRegenQR ==
  /\ qrPage
  /\ ~QR.loading
  /\ GenerateQRCode("QR")
  /\ UNCHANGED <<server, called, qrPage, wire, person>>

\* The server finds the user's code; a guest's codes it deletes.
CodeLookedUp(i) ==
  /\ gens[i].at = "sent"
  /\ IF ~guest /\ codes # {}
       THEN \E c \in codes : gens' = [gens EXCEPT ![i].at = "done", ![i].code = c]
       ELSE gens' = [gens EXCEPT ![i].at = "making"]
  /\ codes' = IF guest THEN {} ELSE codes
  /\ UNCHANGED <<guest, issued, expired, raced, QR, called, qrPage, wire, person>>

\* It makes a new one.
CodeMade(i) ==
  /\ gens[i].at = "making"
  /\ issued < MaxCodes
  /\ issued' = issued + 1
  /\ codes' = codes \cup {issued'}
  /\ gens' = [gens EXCEPT ![i].at = "done", ![i].code = issued']
  /\ UNCHANGED <<guest, expired, raced, QR, called, qrPage, wire, person>>

\* connectSocket: the pending reconnection is dropped for the new socket.
connectSocket(c) ==
  /\ \E s \in Sockets :
       /\ sockets[s] = "free"
       /\ sockets' = [sockets EXCEPT ![s] = "connecting"]
       /\ socket' = s
  /\ room' = c
  /\ reconnectTimeout' = FALSE

\* The answer: the slice takes the token, and App connects to the room.
CodeArrives(i) ==
  /\ called
  /\ gens[i].at \in {"cached", "done"}
  /\ gens' = RemoveAt(gens, i)
  /\ QR' = [QRToken |-> gens[i].code, loading |-> FALSE]
  /\ IF gens[i].from = "App"
       THEN connectSocket(gens[i].code) /\ quit' = FALSE /\ UNCHANGED reconnectAttempts
       ELSE UNCHANGED wire
  /\ UNCHANGED <<server, raced, called, qrPage, person>>

\* The request fails.  App has no answer to read the room from, and stays
\* without a socket.
CodeFails(i) ==
  /\ called
  /\ gens[i].at # "cached"
  /\ gens' = RemoveAt(gens, i)
  /\ QR' = [QR EXCEPT !.loading = FALSE]
  /\ UNCHANGED <<server, raced, called, qrPage, wire, person>>

\* A guest's code lives ten minutes; the page goes on showing it.
CodeExpires ==
  /\ guest
  /\ codes # {}
  /\ codes' = {}
  /\ expired' = TRUE
  /\ UNCHANGED <<guest, issued, code, wire, person>>

-----------------------------------------------------------------------------
(* The socket *)

\* onopen.
SocketOpens(s) ==
  /\ sockets[s] = "connecting"
  /\ sockets' = [sockets EXCEPT ![s] = "open"]
  /\ reconnectAttempts' = 0
  /\ UNCHANGED <<server, code, socket, room, reconnectTimeout, quit, person>>

\* onclose: the connection failed or ended, or disconnectSocket closed it.
SocketCloses(s) ==
  /\ sockets[s] # "free"
  /\ sockets' = [sockets EXCEPT ![s] = "free"]
  /\ socket' = None
  /\ reconnectTimeout' = (reconnectTimeout \/ reconnectAttempts < MAX_ATTEMPTS)
  /\ UNCHANGED <<server, code, room, reconnectAttempts, quit, person>>

\* Mutant: the attempts are not counted.
Reconnect_NotCounted ==
  /\ reconnectTimeout
  /\ UNCHANGED reconnectAttempts
  /\ connectSocket(room)
  /\ UNCHANGED <<server, code, quit, person>>

\* The backoff is over.
Reconnect ==
  /\ reconnectTimeout
  /\ reconnectAttempts' = reconnectAttempts + 1
  /\ connectSocket(room)
  /\ UNCHANGED <<server, code, quit, person>>

\* Mutant: the attempts left are not used up.
disconnectSocket_KeepsAttempts ==
  /\ UNCHANGED reconnectAttempts
  /\ reconnectTimeout' = FALSE
  /\ sockets' = IF socket = None THEN sockets ELSE [sockets EXCEPT ![socket] = "closing"]
  /\ socket' = None
  /\ quit' = TRUE
  /\ UNCHANGED <<server, code, room, person>>

\* ActiveSession's Terminate and Disconnect.
disconnectSocket ==
  /\ reconnectAttempts' = MAX_ATTEMPTS
  /\ reconnectTimeout' = FALSE
  /\ sockets' = IF socket = None THEN sockets ELSE [sockets EXCEPT ![socket] = "closing"]
  /\ socket' = None
  /\ quit' = TRUE
  /\ UNCHANGED <<server, code, room, person>>

-----------------------------------------------------------------------------
(* The person to connect to *)

\* clearReceiver: the loading flag and the QR token stay.
cleared(c) == [c EXCEPT !.name = None, !.error = FALSE]

\* handleSearch, with a valid address: it clears the card and asks.
handleSearch(p) ==
  /\ Len(lookups) < MaxLookups
  /\ lookups' = Append(lookups, p)
  /\ card' = [cleared(card) EXCEPT !.loading = TRUE, !.receiver_QR = None]
  /\ UNCHANGED <<server, code, wire>>

\* handleQRScan and handleQRUpload clear the card and resolve the code.  The
\* camera may read it again before the answer comes.
handleQRScan(p) ==
  /\ p \notin Tokenless
  /\ Len(lookups) < MaxLookups
  /\ lookups' = Append(lookups, p)
  /\ card' = [cleared(card) EXCEPT !.loading = TRUE]
  /\ UNCHANGED <<server, code, wire>>

Token(p) == IF p \in Tokenless THEN None ELSE p

\* Mutant: a person without a code leaves the token of the one before.
LookupArrives_KeepsToken(i) ==
  /\ card' = [card EXCEPT !.name = lookups[i], !.loading = FALSE,
                          !.receiver_QR = IF lookups[i] \in Tokenless THEN @ ELSE lookups[i]]
  /\ lookups' = RemoveAt(lookups, i)
  /\ UNCHANGED <<server, code, wire>>

\* An answer fills the card with its person, whichever lookup was the last.
LookupArrives(i) ==
  /\ card' = [card EXCEPT !.name = lookups[i], !.loading = FALSE,
                          !.receiver_QR = Token(lookups[i])]
  /\ lookups' = RemoveAt(lookups, i)
  /\ UNCHANGED <<server, code, wire>>

LookupFails(i) ==
  /\ card' = [card EXCEPT !.loading = FALSE, !.error = TRUE]
  /\ lookups' = RemoveAt(lookups, i)
  /\ UNCHANGED <<server, code, wire>>

\* The card's X, and Dismiss.
clearReceiver ==
  /\ card.loading \/ card.error \/ card.name # None
  /\ card' = cleared(card)
  /\ UNCHANGED <<server, code, wire, lookups>>

-----------------------------------------------------------------------------
CodeAnswer ==
  \E i \in DOMAIN gens : CodeLookedUp(i) \/ CodeMade(i) \/ CodeArrives(i) \/ CodeFails(i)

LookupAnswer == \E i \in DOMAIN lookups : LookupArrives(i) \/ LookupFails(i)

User ==
  \/ OpenQrPage \/ CloseQrPage \/ HandleRegenQR
  \/ disconnectSocket
  \/ \E p \in People : handleSearch(p) \/ handleQRScan(p)
  \/ clearReceiver

Next ==
  \/ AppMounts
  \/ CodeAnswer
  \/ CodeExpires
  \/ \E s \in Sockets : SocketOpens(s) \/ SocketCloses(s)
  \/ Reconnect
  \/ LookupAnswer
  \/ User

Spec == Init /\ [][Next]_vars

\* Requests are answered, connections open or fail, timers fire.
FairSpec ==
  /\ Spec
  /\ WF_vars(CodeAnswer)
  /\ WF_vars(LookupAnswer)
  /\ WF_vars(Reconnect)
  /\ \A s \in Sockets : WF_vars((SocketOpens(s) \/ SocketCloses(s)) /\ sockets[s] # "open")

-----------------------------------------------------------------------------
(* Safety. *)

\* "Connect Session" opens a session with the person on the card, or with
\* nobody: whatever order the answers of searches and scans come in and the
\* card is closed and opened in, the token is the named person's (receiver_QR
\* and reciever_name in QrSlice.js).
CardConnectsItsPerson ==
  card.name # None => card.receiver_QR \in {Token(card.name), None}

\* The code on the page is one the server has, unless two requests raced or a
\* guest's code expired (GenerateQRCode hands out the token it cached).
ShownCodeWorks == QR.QRToken # 0 => QR.QRToken \in codes \/ raced \/ expired

\* The socket listens in the room of the code on the page, so who scans that
\* code is heard, unless two requests raced (App.jsx and QR.jsx each ask).
ListensToShownCode == (room # 0 /\ QR.QRToken # 0) => room = QR.QRToken \/ raced

\* The code on the page works, and who scans it is heard (GenerateQRCode and App.jsx).
ShownCodeIsLive == ShownCodeWorks /\ ListensToShownCode

\* At most one socket is connecting or open, and no reconnection waits beside
\* it (connectSocket and onclose in socket.js).
OneSocket ==
  LET live == {s \in Sockets : sockets[s] \in {"connecting", "open"}} IN
  /\ Cardinality(live) <= 1
  /\ reconnectTimeout => live = {}

\* After disconnectSocket no socket lives and none is scheduled, however the
\* closing of the old one and its reconnections were under way.
QuietAfterDisconnect ==
  quit => /\ ~reconnectTimeout
          /\ \A s \in Sockets : sockets[s] \in {"free", "closing"}

\* One socket, and none once it was told to stop (socket.js).
SocketsAreInHand == OneSocket /\ QuietAfterDisconnect

Live(s) == sockets[s] \in {"connecting", "open"}

\* App asks once, and until its answer comes there is no socket.
AppAsksOnce ==
  /\ \A i, j \in DOMAIN gens : gens[i].from = "App" /\ gens[j].from = "App" => i = j
  /\ \A i \in DOMAIN gens : gens[i].from = "App" => called
  /\ (~called \/ \E i \in DOMAIN gens : gens[i].from = "App") =>
       ~reconnectTimeout /\ socket = None /\ \A s \in Sockets : sockets[s] = "free"

\* The socket that lives is the current one; none lives while a reconnection is
\* scheduled or after disconnectSocket, which alone leaves sockets closing.
SocketIsCurrent ==
  /\ \A s \in Sockets : Live(s) => socket = s
  /\ reconnectTimeout => reconnectAttempts < MAX_ATTEMPTS /\ \A s \in Sockets : sockets[s] = "free"
  /\ \A s \in Sockets : sockets[s] = "closing" => quit
  /\ quit => /\ reconnectAttempts = MAX_ATTEMPTS /\ ~reconnectTimeout
             /\ \A s \in Sockets : ~Live(s)

\* The inductive invariant.
IInv == TypeOK /\ AppAsksOnce /\ SocketIsCurrent /\ CardConnectsItsPerson

-----------------------------------------------------------------------------
(* Liveness. *)

\* "Searching User..." ends, however many lookups overlap (reciever_loading).
LookupSettles == card.loading ~> ~card.loading

\* A reconnection ends with an open socket, or is given up (MAX_ATTEMPTS).
ReconnectionEnds ==
  reconnectTimeout ~> \/ \E s \in Sockets : sockets[s] = "open"
                      \/ ~reconnectTimeout /\ \A s \in Sockets : sockets[s] # "connecting"

\* Lookups and reconnections come to an end (QrSlice.js and socket.js).
LinksSettle == LookupSettles /\ ReconnectionEnds

=============================================================================
