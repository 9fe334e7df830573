---------------------------- MODULE MCClientSession -----------------------------
(* An instance of ClientSession for TLC, and for QrLinksProofs: behind the name  *)
(* Session, and with variables named anew, nothing clashes with the other pages. *)

CONSTANTS Partners, MaxChecks, MaxFetches, MaxFileShares, MaxEvents, MaxInFlight,
  Sent, Refused, NoOne

VARIABLES
  session,   \* the session of the browser's cookie, as the server has it
  unheard, sessionPage, ses, requests, checks, modal, selected, fileShares, sessionFiles,
  fileFetches, late, listening, events

Session == INSTANCE ClientSession WITH
  People <- Partners, None <- NoOne, Failed <- Refused, MaxShares <- MaxFileShares,
  server <- session, page <- sessionPage, shares <- fileShares, files <- sessionFiles,
  fetches <- fileFetches

ASSUME SessionConstantsOK == Session!ConstantsOK

SessionSpec == Session!Spec

\* The slice's flag agrees with the request it stands for (ShareSessionSlice.js).
RequestsAgree == Session!RequestsAgree

\* The panel shares into the session it shows, and lists its files but in the
\* cases named (ShareSessionSlice.js and the session files of FileSlices.js).
PanelIsOfItsSession == Session!PanelIsOfItsSession

\* Once the server confirmed that a session is terminated, its panel is gone, or
\* a check of the session is still to be answered (revokeSession.fulfilled).
TerminateHidesSession == Session!TerminateHidesSession
=============================================================================
