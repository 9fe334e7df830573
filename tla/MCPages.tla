-------------------------------- MODULE MCPages ---------------------------------
(***************************************************************************)
(* Library and Login side by side, for TLC and for PagesProofs.  What the  *)
(* files and history pages keep and what the account's pages keep share no *)
(* variable, so each property speaks of one of the two alone: in a         *)
(* behaviour one of them moves and the other stays as it began.            *)
(***************************************************************************)
EXTENDS Library

CONSTANTS Emails, Null, Guest, Wrong, MAX_ATTEMPTS, PRODUCTION, MaxActs

VARIABLES
  uses,   \* which of the two moves
  route, form, user, loading, cookie, asked, next, did, otps, name,
  mails, crossed, mixed, raced, guesses

Account == INSTANCE Login WITH page <- route

ASSUME AccountConstantsOK == Account!ConstantsOK

accountVars == <<route, form, user, loading, cookie, asked, next, did, otps, name,
                 mails, crossed, mixed, raced, guesses>>
pagesVars == <<uses, vars, accountVars>>

\* The one that does not move begins in one state only.
PagesInit ==
  /\ Init /\ Account!Init
  /\ \/ uses = "account" /\ page = "files" /\ view = "list"
     \/ uses = "files" /\ route = "dashboard" /\ cookie = Null

OnAccount == uses = "account" /\ Account!Next /\ UNCHANGED <<uses, vars>>
OnFiles == uses = "files" /\ Next /\ UNCHANGED <<uses, accountVars>>

PagesNext == OnAccount \/ OnFiles

PagesSpec == PagesInit /\ [][PagesNext]_pagesVars

\* Who is shown as signed in is, and nothing is shown as under way that is not
\* (authSlice.js).
SignedInIsShown == Account!SignedInIsShown

\* A code is for one address and for one sign-in (Signin.jsx and OTP.py).
CodesAreForOne == Account!CodesAreForOne
=============================================================================
