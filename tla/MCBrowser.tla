------------------------------- MODULE MCBrowser --------------------------------
(***************************************************************************)
(* An instance of MCPages and of ClientSession side by side for TLC: the   *)
(* account, the files and history pages, and the Session page share no     *)
(* variable, so each property speaks of one of the three alone.            *)
(***************************************************************************)
EXTENDS MCPages, MCClientSession, TLC

sessionVars == <<session, unheard, sessionPage, ses, requests, checks, modal, selected,
                 fileShares, sessionFiles, fileFetches, late, listening, events>>
browserVars == <<pagesVars, sessionVars>>

\* Those that do not move begin in one state only.
BrowserInit ==
  /\ Session!Init
  /\ \/ PagesInit /\ session = NoOne
     \/ /\ uses = "session"
        /\ Init /\ page = "files" /\ view = "list"
        /\ Account!Init /\ route = "dashboard" /\ cookie = Null

OnPages == PagesNext /\ UNCHANGED sessionVars
OnSession == uses = "session" /\ Session!Next /\ UNCHANGED pagesVars

BrowserNext == OnPages \/ OnSession

BrowserSpec == BrowserInit /\ [][BrowserNext]_browserVars

\* One partner is as good as another.
Symmetric == Permutations(Partners)
=============================================================================
