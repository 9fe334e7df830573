----------------------------- MODULE ClientSession -----------------------------
(***************************************************************************)
(* A sharing session as the browser knows it: the Session page with the    *)
(* "Connect Session" button, the ActiveSession panel with its modal, and   *)
(* the slices they share (ShareSessionSlice, shareFiles, the session files *)
(* of FileSlices).                                                         *)
(*                                                                         *)
(* Every click sends a request and every answer runs a reducer, in the     *)
(* order the answers come.  A session is named by the other person in it.  *)
(***************************************************************************)
EXTENDS Naturals, Sequences, FiniteSets, SequencesExt

CONSTANTS
  People,
  MaxChecks,    \* bound: session checks in flight
  MaxFetches,   \* bound: file lists in flight
  MaxShares,    \* bound: share requests in flight
  MaxEvents,    \* bound: events on the socket
  MaxInFlight,  \* bound: requests of all kinds in flight that the user or an event sent
  Sent, Failed, \* a request not yet answered, and one refused
  None

\* What is assumed of the constants; MCClientSession, which declares them, says so.
ConstantsOK ==
  /\ {MaxChecks, MaxFetches, MaxShares, MaxEvents, MaxInFlight} \subseteq Nat
  /\ {Sent, Failed, None} \cap People = {}
  /\ Sent # None

VARIABLES
  server,     \* the session of the browser's cookie, as the server has it
  unheard,    \* history: it ended and the browser was not told
  page,       \* the Session page or the Files page
  ses,        \* ShareSessionSlice
  requests,   \* SessionCreate and revokeSession requests
  checks,     \* check_session requests
  modal,      \* the upload modal is open
  selected,   \* files are selected in it
  shares,     \* shareFiles requests: the token each carries
  files,      \* the session files: whose, whether they are loading, and (history)
              \* whether FILES_SHARED had asked for them
  fetches,    \* fetchSessionFiles requests
  late,       \* history: a list came after a newer one, or failed
  listening,  \* the socket is wanted
  events      \* socket events so far

sharing == <<selected, shares>>
vars == <<server, unheard, page, ses, requests, checks, modal, sharing,
          files, fetches, late, listening, events>>

Maybe == People \cup {None}

TypeOK ==
  /\ server \in Maybe
  /\ unheard \in BOOLEAN
  /\ page \in {"session", "files"}
  /\ ses \in [loading : BOOLEAN, error : BOOLEAN, success : BOOLEAN, name : Maybe,
              isSender : BOOLEAN, receiver_qr_token : Maybe, session_id : Maybe,
              check_loading : BOOLEAN, check_success : BOOLEAN, check_name : Maybe]
  /\ requests \in Seq([op : {"create", "revoke"}, who : Maybe,
                       answer : {Sent, Failed} \cup Maybe])
  /\ checks \in Seq({Sent, Failed} \cup People)
  /\ modal \in BOOLEAN
  /\ selected \in BOOLEAN
  /\ shares \in Seq(People)
  /\ files \in [of : Maybe, loading : BOOLEAN, byEvent : BOOLEAN]
  /\ fetches \in Seq([of : People, stale : BOOLEAN, byEvent : BOOLEAN])
  /\ late \in BOOLEAN
  /\ listening \in BOOLEAN
  /\ events \in 0..MaxEvents

ses0 == [loading |-> FALSE, error |-> FALSE, success |-> FALSE, name |-> None,
         isSender |-> FALSE, receiver_qr_token |-> None, session_id |-> None,
         check_loading |-> FALSE, check_success |-> FALSE, check_name |-> None]

noFiles == [of |-> None, loading |-> FALSE, byEvent |-> FALSE]

\* The browser after a load of the Files page, with an old session or none.
Fresh ==
  /\ page = "files"
  /\ ses = ses0
  /\ requests = <<>>
  /\ checks = <<>>
  /\ modal = FALSE
  /\ selected = FALSE
  /\ shares = <<>>
  /\ files = noFiles
  /\ fetches = <<>>
  /\ late = FALSE
  /\ listening = TRUE

Init ==
  /\ server \in Maybe
  /\ unheard = FALSE
  /\ events = 0
  /\ Fresh

-----------------------------------------------------------------------------
(* What is on the screen. *)

\* Session.jsx mounts ActiveSession under this condition.
Mounted(pg, s) ==
  pg = "session" /\ (s.success \/ s.check_success \/ s.check_loading \/ s.loading)

isActive(s) == s.check_name # None \/ s.name # None

\* The panel itself, neither its skeleton nor its error.
PanelShown ==
  /\ Mounted(page, ses)
  /\ isActive(ses)
  /\ ~modal
  /\ ~ses.loading
  /\ ~ses.check_loading
  /\ ~ses.error

\* The session whose files the panel's effect wants.
Wanted(pg, s) == IF Mounted(pg, s) /\ ~s.isSender THEN s.session_id ELSE None

\* The modal is drawn: on the Files page by the page, else by the panel.
ModalShown(pg, s) == pg = "files" \/ isActive(s)

\* The list of session p is asked for.
Asked(p, byEvent) ==
  /\ fetches' = Append(fetches, [of |-> p, stale |-> FALSE, byEvent |-> byEvent])
  /\ files' = [files EXCEPT !.loading = TRUE]

\* The page and the slice change, and with them what is mounted.  The modal of
\* the Files page lives as long as that page, the panel's as long as the panel;
\* the selection goes when the modal is not drawn.
Remount(pg, s) ==
  /\ page' = pg
  /\ ses' = s
  /\ modal' = (modal /\ pg = page /\ (pg = "session" => Mounted(pg, s)))
  /\ selected' = (selected /\ modal' /\ ModalShown(pg, s))

\* Mutant: the panel's effect runs as it mounts, and not for another session.
Rerender_OnMount(pg, s) ==
  /\ Remount(pg, s)
  /\ IF Wanted(pg, s) # None /\ Wanted(page, ses) = None
       THEN Asked(Wanted(pg, s), FALSE) ELSE UNCHANGED <<fetches, files>>

\* The panel mounts or unmounts, and its effect fetches when what it wants has
\* changed.
Rerender(pg, s) ==
  /\ Remount(pg, s)
  /\ IF Wanted(pg, s) \notin {None, Wanted(page, ses)}
       THEN Asked(Wanted(pg, s), FALSE) ELSE UNCHANGED <<fetches, files>>

\* The bounds on what is in flight stop the user and the socket, never an answer.
Room ==
  /\ Len(fetches) < MaxFetches
  /\ Len(requests) + Len(checks) + Len(shares) + Len(fetches) < MaxInFlight

-----------------------------------------------------------------------------
(* Connecting, terminating and disconnecting. *)

\* Mutant: the button stays enabled while a request is on its way.
handleSessionCreate_WhileLoading(p) ==
  /\ page = "session"
  /\ Room
  /\ ~ses.success
  /\ requests' = Append(requests, [op |-> "create", who |-> p, answer |-> Sent])
  /\ Rerender(page, [ses EXCEPT !.loading = TRUE])
  /\ UNCHANGED <<server, unheard, checks, shares, late, listening, events>>

\* "Connect Session" on the card of the person found, with that person's QR
\* token or none: SessionCreate.pending.
handleSessionCreate(p) ==
  /\ page = "session"
  /\ Room
  /\ ~ses.loading /\ ~ses.success
  /\ requests' = Append(requests, [op |-> "create", who |-> p, answer |-> Sent])
  /\ Rerender(page, [ses EXCEPT !.loading = TRUE])
  /\ UNCHANGED <<server, unheard, checks, shares, late, listening, events>>

\* "Terminate Session" on the sender's panel: revokeSession.pending.
handleTerminate ==
  /\ PanelShown
  /\ Room
  /\ ses.isSender
  /\ requests' = Append(requests, [op |-> "revoke", who |-> None, answer |-> Sent])
  /\ Rerender(page, [ses EXCEPT !.loading = TRUE, !.success = FALSE, !.error = FALSE])
  /\ UNCHANGED <<server, unheard, checks, shares, late, listening, events>>

\* The server revokes the cookie's session, or there is none, or it fails.
RevokeServed(i) ==
  /\ requests[i].op = "revoke"
  /\ requests[i].answer = Sent
  /\ \/ /\ server # None
        /\ requests' = [requests EXCEPT ![i].answer = None]
        /\ server' = None
     \/ /\ requests' = [requests EXCEPT ![i].answer = Failed]
        /\ UNCHANGED server
  /\ UNCHANGED <<unheard, page, ses, checks, modal, sharing, files, fetches,
                 late, listening, events>>

\* The answer to a create brings the cookie with it.
CreateArrives(i) ==
  LET p == requests[i].who IN
  /\ requests[i].op = "create"
  /\ p # None
  /\ server' = p
  /\ unheard' = FALSE
  /\ requests' = RemoveAt(requests, i)
  /\ Rerender(page, [ses EXCEPT !.loading = FALSE, !.success = TRUE, !.error = FALSE,
                                !.name = p, !.isSender = TRUE, !.session_id = p,
                                !.receiver_qr_token = p])
  /\ UNCHANGED <<checks, shares, late, listening, events>>

\* Refused, or the answer is lost; then a session with the same person that the
\* cookie stood for has another token.
CreateFails(i) ==
  /\ requests[i].op = "create"
  /\ requests' = RemoveAt(requests, i)
  /\ \/ UNCHANGED <<server, unheard>>
     \/ /\ server # None
        /\ server = requests[i].who
        /\ server' = None
        /\ unheard' = TRUE
  /\ Rerender(page, [ses EXCEPT !.loading = FALSE, !.error = TRUE, !.name = None,
                                !.isSender = FALSE, !.receiver_qr_token = None])
  /\ UNCHANGED <<checks, shares, late, listening, events>>

\* clearSessionState: what check_session found, and the session's id, stay.
clearedSession(s) ==
  [s EXCEPT !.success = FALSE, !.name = None, !.error = FALSE,
            !.receiver_qr_token = None, !.isSender = FALSE]

\* Mutant: what check_session found outlives the session.
RevokeArrives_KeepsCheck(i) ==
  /\ requests[i].op = "revoke"
  /\ requests[i].answer = None
  /\ requests' = RemoveAt(requests, i)
  /\ Rerender(page, clearedSession([ses EXCEPT !.loading = FALSE]))
  /\ unheard' = FALSE
  /\ listening' = FALSE
  /\ UNCHANGED <<server, checks, shares, late, events>>

\* revokeSession.fulfilled, then clearSessionState and disconnectSocket.
RevokeArrives(i) ==
  /\ requests[i].op = "revoke"
  /\ requests[i].answer = None
  /\ requests' = RemoveAt(requests, i)
  /\ Rerender(page, clearedSession([ses EXCEPT !.loading = FALSE, !.check_success = FALSE]))
  /\ unheard' = FALSE
  /\ listening' = FALSE
  /\ UNCHANGED <<server, checks, shares, late, events>>

\* Refused, or the answer lost on its way.  handleTerminate reports the failure
\* itself, so disconnectSocket is called all the same.
RevokeFails(i) ==
  /\ requests[i].op = "revoke"
  /\ requests[i].answer # Sent
  /\ requests' = RemoveAt(requests, i)
  /\ Rerender(page, [ses EXCEPT !.loading = FALSE, !.success = FALSE, !.error = TRUE])
  /\ unheard' = (unheard \/ requests[i].answer = None)
  /\ listening' = FALSE
  /\ UNCHANGED <<server, checks, shares, late, events>>

\* "Disconnect" on the receiver's panel.
Disconnect ==
  /\ PanelShown
  /\ Room
  /\ ~ses.isSender
  /\ Rerender(page, clearedSession(ses))
  /\ listening' = FALSE
  /\ UNCHANGED <<server, unheard, requests, checks, shares, late, events>>

\* The session ends on the server: it expires, or the other side ends it.
SessionEnds ==
  /\ server # None
  /\ server' = None
  /\ unheard' = TRUE
  /\ UNCHANGED <<page, ses, requests, checks, modal, sharing, files, fetches,
                 late, listening, events>>

-----------------------------------------------------------------------------
(* The page, the session check, and the socket. *)

\* The Session page opens and checks the session.
OpenSession ==
  /\ page = "files"
  /\ Room
  /\ Len(checks) < MaxChecks
  /\ checks' = Append(checks, Sent)
  /\ Rerender("session", [ses EXCEPT !.check_loading = TRUE, !.check_success = FALSE,
                                     !.check_name = None])
  /\ UNCHANGED <<server, unheard, requests, shares, late, listening, events>>

\* The Files page opens.
OpenFiles ==
  /\ page = "session"
  /\ Rerender("files", ses)
  /\ UNCHANGED <<server, unheard, requests, checks, shares, late, listening, events>>

CheckServed(i) ==
  /\ checks[i] = Sent
  /\ checks' = [checks EXCEPT ![i] = IF server = None THEN Failed ELSE server]
  /\ UNCHANGED <<server, unheard, page, ses, requests, modal, sharing, files,
                 fetches, late, listening, events>>

CheckArrives(i) ==
  /\ checks[i] \in People
  /\ checks' = RemoveAt(checks, i)
  /\ Rerender(page, [ses EXCEPT !.check_loading = FALSE, !.check_success = TRUE,
                                !.check_name = checks[i], !.session_id = checks[i]])
  /\ UNCHANGED <<server, unheard, requests, shares, late, listening, events>>

\* Refused, or lost: the names and the id stay as they are.
CheckFails(i) ==
  /\ checks' = RemoveAt(checks, i)
  /\ Rerender(page, [ses EXCEPT !.check_loading = FALSE, !.check_success = FALSE])
  /\ UNCHANGED <<server, unheard, requests, shares, late, listening, events>>

\* CONNECTED: somebody opened a session to this user.
Connected(p) ==
  /\ listening
  /\ Room
  /\ events < MaxEvents
  /\ events' = events + 1
  /\ Rerender(page, [ses EXCEPT !.check_success = TRUE, !.check_name = p])
  /\ UNCHANGED <<server, unheard, requests, checks, shares, late, listening>>

\* FILES_SHARED: the files of the session it names are fetched.
FilesShared(p) ==
  /\ listening
  /\ events < MaxEvents
  /\ events' = events + 1
  /\ Room
  /\ Asked(p, TRUE)
  /\ UNCHANGED <<server, unheard, page, ses, requests, checks, modal, sharing,
                 late, listening>>

\* The i-th list is answered: those asked for before it are out of date now.
Answered(i) ==
  fetches' = RemoveAt([j \in DOMAIN fetches |->
                         [fetches[j] EXCEPT !.stale = @ \/ j < i]], i)

\* A list comes.  It may be older than one that came before it.
FilesArrive(i) ==
  /\ files' = [of |-> fetches[i].of, loading |-> FALSE, byEvent |-> fetches[i].byEvent]
  /\ Answered(i)
  /\ late' = fetches[i].stale
  /\ UNCHANGED <<server, unheard, page, ses, requests, checks, modal, sharing,
                 listening, events>>

FilesFail(i) ==
  /\ files' = [files EXCEPT !.loading = FALSE]
  /\ Answered(i)
  /\ late' = (late \/ ~fetches[i].stale)
  /\ UNCHANGED <<server, unheard, page, ses, requests, checks, modal, sharing,
                 listening, events>>

\* The page is loaded again: the slices start over, the cookie stays.
Reload ==
  /\ page' = "files" /\ ses' = ses0
  /\ requests' = <<>> /\ checks' = <<>> /\ modal' = FALSE /\ selected' = FALSE
  /\ shares' = <<>> /\ files' = noFiles /\ fetches' = <<>>
  /\ late' = FALSE /\ listening' = TRUE
  /\ UNCHANGED <<server, unheard, events>>

-----------------------------------------------------------------------------
(* Sharing from the modal: UploadModal.jsx, shareFiles.js *)

\* The modal opens from the Files page, or from the sender's panel.
OpenModal ==
  /\ ~modal
  /\ page = "files" \/ (PanelShown /\ ses.isSender)
  /\ modal' = TRUE
  /\ UNCHANGED <<server, unheard, page, ses, requests, checks, sharing, files,
                 fetches, late, listening, events>>

CloseModal ==
  /\ modal /\ ModalShown(page, ses)
  /\ modal' = FALSE
  /\ selected' = FALSE
  /\ UNCHANGED <<server, unheard, page, ses, requests, checks, shares, files,
                 fetches, late, listening, events>>

toggleSelect ==
  /\ modal /\ ModalShown(page, ses)
  /\ selected' = ~selected
  /\ UNCHANGED <<server, unheard, page, ses, requests, checks, modal, shares,
                 files, fetches, late, listening, events>>

\* Without a token it only reports that there is no receiver.
handleShareSelected ==
  /\ modal
  /\ selected
  /\ ses.receiver_qr_token # None
  /\ Len(shares) < MaxShares
  /\ Room
  /\ shares' = Append(shares, ses.receiver_qr_token)
  /\ UNCHANGED <<server, unheard, page, ses, requests, checks, modal, selected,
                 files, fetches, late, listening, events>>

\* Shared: the selection is dropped.  Refused: it stays.
ShareArrives(i) ==
  /\ shares' = RemoveAt(shares, i)
  /\ \/ selected' = FALSE
     \/ UNCHANGED selected
  /\ UNCHANGED <<server, unheard, page, ses, requests, checks, modal, files,
                 fetches, late, listening, events>>

-----------------------------------------------------------------------------
RequestAnswer ==
  \E i \in DOMAIN requests :
    RevokeServed(i) \/ CreateArrives(i) \/ CreateFails(i) \/ RevokeArrives(i) \/ RevokeFails(i)

CheckAnswer == \E i \in DOMAIN checks : CheckServed(i) \/ CheckArrives(i) \/ CheckFails(i)

FilesAnswer == \E i \in DOMAIN fetches : FilesArrive(i) \/ FilesFail(i)

Event == \E p \in People : Connected(p) \/ FilesShared(p)

User ==
  \/ \E p \in Maybe : handleSessionCreate(p)
  \/ handleTerminate \/ Disconnect
  \/ OpenSession \/ OpenFiles \/ Reload
  \/ OpenModal \/ CloseModal \/ toggleSelect \/ handleShareSelected

Next ==
  \/ RequestAnswer
  \/ CheckAnswer
  \/ FilesAnswer
  \/ \E i \in DOMAIN shares : ShareArrives(i)
  \/ Event
  \/ SessionEnds
  \/ User

Spec == Init /\ [][Next]_vars

-----------------------------------------------------------------------------
(* Safety. *)

\* A create and a revoke never race: the card and the panel share the loading
\* flag, and it is set exactly while a request is on its way (the disabled
\* button of QRuserInfoCard, the skeleton of ActiveSession).
OneSessionRequest ==
  /\ Len(requests) <= 1
  /\ ses.loading <=> requests # <<>>

\* The slice's flag agrees with the request it stands for (ShareSessionSlice.js).
RequestsAgree == TypeOK /\ OneSessionRequest

\* Files are shared into the session the cookie stands for: the token kept for
\* sharing is that session's, unless it ended unheard or is just being revoked
\* (receiver_qr_token in ShareSessionSlice.js, handleShareSelected).
ShareTokenIsLive ==
  ses.receiver_qr_token # None =>
    \/ server = ses.receiver_qr_token
    \/ unheard
    \/ \E i \in DOMAIN requests : requests[i].op = "revoke" /\ requests[i].answer = None

\* With every list answered, the panel lists the files of its session, but in
\* three cases: the last list failed, an older one came after it, or a FILES_SHARED
\* asked for the list on the screen, and named another session than the panel's.
\* Whatever mounts, unmounts and changes the session in between, the panel then
\* asks anew, and its list replaces the event's (the panel's effect, and
\* FILES_SHARED in socket.js).
WrongFilesOnlyFromElsewhere ==
  (/\ Wanted(page, ses) # None
   /\ fetches = <<>>
   /\ ~late) => files.of = Wanted(page, ses) \/ files.byEvent

\* The panel shares into the session it shows, and lists its files but in the
\* cases named (ShareSessionSlice.js and the session files of FileSlices.js).
PanelIsOfItsSession == ShareTokenIsLive /\ WrongFilesOnlyFromElsewhere

\* Once the server confirmed that a session is terminated, its panel is gone,
\* or a check of the session is still to be answered (revokeSession.fulfilled,
\* clearSessionState, and the condition Session.jsx shows the panel under).
TerminateHidesSession ==
  [][ \A i \in DOMAIN requests : RevokeArrives(i) =>
        ~Mounted(page, ses)' \/ ses'.check_loading ]_vars

=============================================================================
