------------------------------- MODULE Login -------------------------------
(***************************************************************************)
(* Signing in by one-time password, signing out and renaming: the sign-in  *)
(* page (Signin.jsx), the account page (Profile.jsx), the menus that sign  *)
(* out (Navbar.jsx, SettingsProfile.jsx), the slice they share             *)
(* (authSlice.js), and the handlers that answer (user_controller.py,       *)
(* OTP.py, JWT.py).                                                        *)
(*                                                                         *)
(* A request carries the cookie the browser had when it was sent; an       *)
(* answer may be overtaken by a later one and changes the cookie only when *)
(* it arrives.  GET /auth/me never says "nobody": without a valid cookie   *)
(* it makes a guest and answers with it.  Verification reads the password  *)
(* from Redis and writes it back in two steps, by any of the workers.      *)
(*                                                                         *)
(* Abstracted: a one-time password is named by its transaction, the six    *)
(* boxes by the code they spell and whether a short paste removed some.    *)
(***************************************************************************)
EXTENDS Naturals

CONSTANTS
    Emails,        \* addresses a person may sign in with
    Null,          \* JavaScript's null and undefined
    Guest,         \* the id of the guest /auth/me makes for a caller without a cookie
    Wrong,         \* six digits that are nobody's code
    MAX_ATTEMPTS,  \* wrong codes a transaction survives (5 in OTP.py)
    PRODUCTION,    \* PROJECT_ENVIRONMENT = "PRODUCTION": the cookies have the domain sign-out deletes
    MaxActs        \* bound on what the person does

\* A saved name is answered.
ConstantsOK ==
    /\ MaxActs \in Nat /\ MAX_ATTEMPTS \in Nat
    /\ Null # "saved"

VARIABLES
    page,      \* the route shown: "home", "signin", "dashboard" or "profile"
    form,      \* Signin's state: step, email, transactionID, the boxes
    user,      \* state.auth.user: Null or the id and the name shown
    loading,   \* state.auth.loading, one flag for the five thunks
    cookie,    \* the account of the browser's "user" cookie, or Null
    asked,     \* requests under way, by id
    next,      \* the id of the next request
    did,       \* how many steps the person took
    otps,      \* the transactions stored in Redis
    name       \* the server's name of each account

\* What the properties remember.
VARIABLES
    mails,     \* the address each transaction was made for
    crossed,   \* two "send a code" of one visit to the form were under way together
    mixed,     \* the cookie or a name changed under a "who am I", or a saved name was reported lost
    raced,     \* transactions two verifications worked on at the same time
    guesses    \* the right and the wrong codes each transaction has answered

client == <<page, form, user, loading, cookie, did>>
server == <<otps, name>>
ghosts == <<mails, crossed, mixed, raced, guesses>>
vars == <<client, asked, next, server, ghosts>>

Names == {"old", "new"}
\* A step asks once at most, a verification or a rename once more when it is answered.
Ids == 1 .. (2 * MaxActs + 1)

Blank == [step |-> "email", email |-> Null, txn |-> Null, code |-> Null, boxes |-> "six"]

Request(kind, what) ==
    [kind |-> kind, what |-> what, cookie |-> cookie,
     state |-> "sent", answer |-> Null, heard |-> TRUE, form |-> page = "signin"]

\* App's "who am I", with the cookie of that moment.
WhoAmI(c) ==
    [kind |-> "me", what |-> Null, cookie |-> c,
     state |-> "sent", answer |-> Null, heard |-> TRUE, form |-> FALSE]

Over(i) == [j \in DOMAIN asked \ {i} |-> asked[j]]
\* One more request under way.
Sending(rs, r) == [i \in DOMAIN rs \cup {next} |-> IF i = next THEN r ELSE rs[i]]
Heard == {i \in DOMAIN asked : asked[i].heard}
Asking(kind) == {i \in Heard : asked[i].kind = kind}
Asks(kind, what) == asked' = Sending(asked, Request(kind, what)) /\ next' = next + 1

-----------------------------------------------------------------------------
(* The pages. *)

\* Every step of the person counts against the bound; nothing else does.
Acts == did < MaxActs /\ did' = did + 1

\* Signin's effect: with anybody signed in, a guest too, the form gives way to the dashboard.
Shown(p, u) == IF p = "signin" /\ u # Null THEN "dashboard" ELSE p

\* Signin unmounts: its state is gone, and what answers later finds no form.
FormOn(p) == IF p = "signin" /\ page = "signin" THEN form ELSE Blank
Orphaned(rs, p) ==
    IF p = "signin" THEN rs ELSE [i \in DOMAIN rs |-> [rs[i] EXCEPT !.form = FALSE]]

\* A link, a menu entry or the browser's Back (AppRoutes has no guard on any route).
Go(p) ==
    /\ Acts
    /\ p # page
    /\ page' = Shown(p, user)
    /\ form' = FormOn(page')
    /\ asked' = Orphaned(asked, page')
    /\ UNCHANGED <<user, loading, cookie, next, server, ghosts>>

\* The requests that change what the server stores.
Lasting == {"send", "verify", "update"}

\* What the page that goes had asked is still served, but nobody hears the answer.
Unheard ==
    [i \in {j \in DOMAIN asked : asked[j].state # "done" /\ asked[j].kind \in Lasting} |->
        [asked[i] EXCEPT !.heard = FALSE, !.form = FALSE]]

\* Opening any page afresh: the store is new and App asks who the person is.
Reload(p) ==
    /\ Acts
    /\ page' = p
    /\ form' = Blank
    /\ user' = Null
    /\ loading' = TRUE
    /\ asked' = Sending(Unheard, WhoAmI(cookie))
    /\ next' = next + 1
    /\ mixed' = FALSE
    /\ UNCHANGED <<cookie, server, mails, crossed, raced, guesses>>

-----------------------------------------------------------------------------
(* Signin.jsx *)

\* The form shows the field for the address, or the boxes for the code.
EmailStep == page = "signin" /\ form.step = "email"
CodeStep == page = "signin" /\ form.step = "otp"

EditEmail(e) ==
    /\ Acts
    /\ EmailStep
    /\ e # form.email
    /\ form' = [form EXCEPT !.email = e]
    /\ UNCHANGED <<page, user, loading, cookie, asked, next, server, ghosts>>

\* "Continue" runs both handlers: handleSendOTP asks for a code for whatever the
\* field holds, handleSubmit opens the code step once the browser accepts the field.
handleSendOTP ==
    /\ Acts
    /\ EmailStep
    /\ Asks("send", form.email)
    /\ loading' = TRUE
    /\ form' = IF form.email = Null THEN form ELSE [form EXCEPT !.step = "otp"]
    /\ crossed' = (crossed \/ \E i \in Asking("send") : asked[i].form)
    /\ UNCHANGED <<page, user, cookie, server, mails, mixed, raced, guesses>>

\* "Change email" keeps the transaction and the boxes.
ChangeEmail ==
    /\ Acts
    /\ CodeStep
    /\ form' = [form EXCEPT !.step = "email"]
    /\ UNCHANGED <<page, user, loading, cookie, asked, next, server, ghosts>>

Codes == {m.txn : m \in mails} \cup {Wrong}

\* A digit typed in a box spells a code, or leaves the boxes incomplete;
\* with a box missing it never spells one.
handleOTPChange(c) ==
    /\ Acts
    /\ CodeStep
    /\ form.boxes = "six"
    /\ c # form.code
    /\ form' = [form EXCEPT !.code = c]
    /\ UNCHANGED <<page, user, loading, cookie, asked, next, server, ghosts>>

\* A paste becomes the boxes, as many as it has digits.
handlePaste(c) ==
    /\ Acts
    /\ CodeStep
    /\ form' = [form EXCEPT !.code = c, !.boxes = IF c = Null THEN "fewer" ELSE "six"]
    /\ form' # form
    /\ UNCHANGED <<page, user, loading, cookie, asked, next, server, ghosts>>

\* The button is never disabled: it may be pressed again while the answer is out.
handleVerifyOTP ==
    /\ Acts
    /\ CodeStep
    /\ form.code # Null
    /\ Asks("verify", [txn |-> form.txn, code |-> form.code])
    /\ loading' = TRUE
    /\ UNCHANGED <<page, form, user, cookie, server, ghosts>>

-----------------------------------------------------------------------------
(* Signing out, and the name. *)

\* Navbar's "Sign out" is there for anybody shown, SettingsProfile's on every
\* page of the dashboard, whoever is shown.
SignOutShown == page # "signin" /\ (page = "home" => user # Null)

handleLogout ==
    /\ Acts
    /\ SignOutShown
    /\ Asks("logout", page)
    /\ loading' = TRUE
    /\ UNCHANGED <<page, form, user, cookie, server, ghosts>>

\* The form is behind the skeleton while anything of the slice loads.
ProfileForm == page = "profile" /\ ~loading

\* A name that is the one shown is not sent, an empty one (Null) is, after a
\* message.
handleUpdateChanges(n) ==
    /\ Acts
    /\ ProfileForm
    /\ user # Null /\ n # user.name
    /\ Asks("update", n)
    /\ loading' = TRUE
    /\ UNCHANGED <<page, form, user, cookie, server, ghosts>>

-----------------------------------------------------------------------------
(* The server. *)

\* The answer is on its way; nothing waits for one nobody hears.
Answering(i, a) ==
    asked' = IF asked[i].heard THEN [asked EXCEPT ![i].state = "done", ![i].answer = a] ELSE Over(i)

\* fetch_user for a valid cookie, a guest session for anybody else.
fetch_user(i) ==
    /\ asked[i].kind = "me" /\ asked[i].state = "sent"
    /\ Answering(i, IF asked[i].cookie = Null THEN [id |-> Guest, name |-> "old"]
                    ELSE [id |-> asked[i].cookie, name |-> name[asked[i].cookie]])
    /\ UNCHANGED <<client, next, server, ghosts>>

\* SendOTP: refused to a caller who is signed in (check_token) or without a valid
\* address; the password is stored first, so it stays when the mail fails.
SendOTP(i) ==
    /\ asked[i].kind = "send" /\ asked[i].state = "sent"
    /\ IF asked[i].cookie # Null \/ asked[i].what = Null
       THEN /\ Answering(i, Null)
            /\ UNCHANGED <<otps, mails>>
       ELSE /\ otps' = otps \cup {[txn |-> i, attempts |-> 0]}
            /\ mails' = mails \cup {[txn |-> i, email |-> asked[i].what]}
            /\ \E mailed \in BOOLEAN : Answering(i, IF mailed THEN i ELSE Null)
    /\ UNCHANGED <<client, next, name, crossed, mixed, raced, guesses>>

\* VerifyOTPbyUtils reads the transaction ...
VerifyReads(i) ==
    /\ asked[i].kind = "verify" /\ asked[i].state = "sent"
    /\ LET found == {o \in otps : o.txn = asked[i].what.txn}
           together == \E j \in DOMAIN asked :
                          asked[j].state = "read" /\ asked[j].what.txn = asked[i].what.txn
       IN IF asked[i].cookie # Null \/ found = {}
          THEN Answering(i, Null) /\ UNCHANGED raced
          ELSE /\ asked' = [asked EXCEPT ![i].state = "read",
                                         ![i].answer = (CHOOSE o \in found : TRUE).attempts]
               /\ raced' = IF together THEN raced \cup {asked[i].what.txn} ELSE raced
    /\ UNCHANGED <<client, next, server, mails, crossed, mixed, guesses>>

\* The transaction a verification read and decided on, rewritten.
Rewritten(t, n) == {o \in otps : o.txn # t} \cup {[txn |-> t, attempts |-> n]}
Removed(t) == {o \in otps : o.txn # t}
EmailOf(t) == (CHOOSE m \in mails : m.txn = t).email

Tally(t, what) == guesses' = [guesses EXCEPT ![t][what] = @ + 1]

\* Mutant: the right code leaves the transaction there.
VerifyWrites_KeepsCode(i) ==
    /\ asked[i].kind = "verify" /\ asked[i].state = "read"
    /\ LET t == asked[i].what.txn
       IN \/ /\ asked[i].answer >= MAX_ATTEMPTS
             /\ otps' = Removed(t)
             /\ Answering(i, Null)
             /\ UNCHANGED guesses
          \/ /\ asked[i].answer < MAX_ATTEMPTS /\ asked[i].what.code = t
             /\ UNCHANGED otps
             /\ Tally(t, "right")
             /\ \E open \in BOOLEAN : Answering(i, IF open THEN EmailOf(t) ELSE Null)
          \/ /\ asked[i].answer < MAX_ATTEMPTS /\ asked[i].what.code # t
             /\ otps' = Rewritten(t, asked[i].answer + 1)
             /\ Tally(t, "wrong")
             /\ Answering(i, Null)
    /\ UNCHANGED <<client, next, name, mails, crossed, mixed, raced>>

\* ... and decides on what it read: too many wrong codes or the right one delete
\* the transaction, a wrong one stores the count.  A right code may still meet a
\* locked account or an error and sign nobody in (VerifyOTPControl).
VerifyWrites(i) ==
    /\ asked[i].kind = "verify" /\ asked[i].state = "read"
    /\ LET t == asked[i].what.txn
       IN \/ /\ asked[i].answer >= MAX_ATTEMPTS
             /\ otps' = Removed(t)
             /\ Answering(i, Null)
             /\ UNCHANGED guesses
          \/ /\ asked[i].answer < MAX_ATTEMPTS /\ asked[i].what.code = t
             /\ otps' = Removed(t)
             /\ Tally(t, "right")
             /\ \E open \in BOOLEAN : Answering(i, IF open THEN EmailOf(t) ELSE Null)
          \/ /\ asked[i].answer < MAX_ATTEMPTS /\ asked[i].what.code # t
             /\ otps' = Rewritten(t, asked[i].answer + 1)
             /\ Tally(t, "wrong")
             /\ Answering(i, Null)
    /\ UNCHANGED <<client, next, name, mails, crossed, mixed, raced>>

\* Redis drops a transaction after five minutes.
Expires(o) ==
    /\ otps' = otps \ {o}
    /\ UNCHANGED <<client, asked, next, name, ghosts>>

\* update_user_name: an account only, and a name that is not blank.
update_user_name(i) ==
    /\ asked[i].kind = "update" /\ asked[i].state = "sent"
    /\ IF asked[i].cookie = Null \/ asked[i].what = Null
       THEN Answering(i, Null) /\ UNCHANGED <<name, mixed>>
       ELSE /\ name' = [name EXCEPT ![asked[i].cookie] = asked[i].what]
            /\ mixed' = (mixed \/ Asking("me") # {} \/ ~asked[i].heard)
            /\ Answering(i, "saved")
    /\ UNCHANGED <<client, next, otps, mails, crossed, raced, guesses>>

\* Logout_user: only with a cookie.
Logout_user(i) ==
    /\ asked[i].kind = "logout" /\ asked[i].state = "sent"
    /\ Answering(i, IF asked[i].cookie = Null THEN Null ELSE "out")
    /\ UNCHANGED <<client, next, server, ghosts>>

-----------------------------------------------------------------------------
(* Answers reach the page.  A request that fails (Null), or whose answer is  *)
(* lost on the way, is one rejected thunk.                                   *)

Lost(i) == asked[i].heard /\ asked[i].state # "read"

SendArrives(i) ==
    /\ asked[i].kind = "send" /\ asked[i].heard
    /\ \E a \in {asked[i].answer, Null} :   \* Null as long as nothing answered
         form' = IF asked[i].form THEN [form EXCEPT !.txn = a] ELSE form
    /\ loading' = FALSE
    /\ asked' = Over(i)
    /\ UNCHANGED <<page, user, cookie, next, did, server, ghosts>>

\* The answer names no user: the store forgets who was shown until "who am I" returns.
VerifyArrives(i) ==
    /\ asked[i].kind = "verify" /\ asked[i].heard /\ asked[i].state = "done" /\ asked[i].answer # Null
    /\ cookie' = asked[i].answer
    /\ user' = Null
    /\ loading' = TRUE
    /\ page' = "dashboard"
    /\ form' = Blank
    /\ asked' = Sending(Orphaned(Over(i), "dashboard"), WhoAmI(asked[i].answer))
    /\ next' = next + 1
    /\ mixed' = (mixed \/ Asking("me") # {})
    /\ UNCHANGED <<did, server, mails, crossed, raced, guesses>>

VerifyFails(i) ==
    /\ asked[i].kind = "verify" /\ Lost(i)
    /\ loading' = FALSE
    /\ asked' = Over(i)
    /\ UNCHANGED <<page, form, user, cookie, next, did, server, ghosts>>

\* fulfilled shows whom the answer names, rejected shows nobody.
MeArrives(i) ==
    /\ asked[i].kind = "me" /\ asked[i].heard
    /\ user' \in {asked[i].answer, Null}
    /\ loading' = FALSE
    /\ page' = Shown(page, user')
    /\ form' = FormOn(page')
    /\ asked' = Orphaned(Over(i), page')
    /\ UNCHANGED <<cookie, next, did, server, ghosts>>

\* The answer holds no name either: the name shown is undefined until "who am I" returns.
UpdateArrives(i) ==
    /\ asked[i].kind = "update" /\ asked[i].heard /\ asked[i].state = "done" /\ asked[i].answer # Null
    /\ user' = IF user = Null THEN user ELSE [user EXCEPT !.name = Null]
    /\ loading' = TRUE
    /\ asked' = Sending(Over(i), WhoAmI(cookie))
    /\ next' = next + 1
    /\ UNCHANGED <<page, form, cookie, did, server, ghosts>>

UpdateFails(i) ==
    /\ asked[i].kind = "update" /\ Lost(i)
    /\ loading' = FALSE
    /\ asked' = Over(i)
    /\ mixed' = (mixed \/ asked[i].answer # Null)
    /\ UNCHANGED <<page, form, user, cookie, next, did, server, mails, crossed, raced, guesses>>

\* Mutant: signing out leaves the account on the screen.
LogoutArrives_KeepsUser(i) ==
    /\ asked[i].kind = "logout" /\ asked[i].heard /\ asked[i].state = "done" /\ asked[i].answer # Null
    /\ cookie' = IF PRODUCTION THEN Null ELSE cookie
    /\ UNCHANGED user
    /\ loading' = FALSE
    /\ page' = IF asked[i].what = "home" THEN page ELSE "home"
    /\ form' = FormOn(page')
    /\ asked' = Orphaned(Over(i), page')
    /\ mixed' = (mixed \/ Asking("me") # {})
    /\ UNCHANGED <<next, did, server, mails, crossed, raced, guesses>>

LogoutArrives(i) ==
    /\ asked[i].kind = "logout" /\ asked[i].heard /\ asked[i].state = "done" /\ asked[i].answer # Null
    /\ cookie' = IF PRODUCTION THEN Null ELSE cookie
    /\ user' = Null
    /\ loading' = FALSE
    /\ page' = IF asked[i].what = "home" THEN page ELSE "home"
    /\ form' = FormOn(page')
    /\ asked' = Orphaned(Over(i), page')
    /\ mixed' = (mixed \/ Asking("me") # {})
    /\ UNCHANGED <<next, did, server, mails, crossed, raced, guesses>>

LogoutFails(i) ==
    /\ asked[i].kind = "logout" /\ Lost(i)
    /\ loading' = FALSE
    /\ asked' = Over(i)
    /\ UNCHANGED <<page, form, user, cookie, next, did, server, ghosts>>

-----------------------------------------------------------------------------

Serves(i) ==
    fetch_user(i) \/ SendOTP(i) \/ VerifyReads(i) \/ VerifyWrites(i)
    \/ update_user_name(i) \/ Logout_user(i)

Arrives(i) ==
    SendArrives(i) \/ VerifyArrives(i) \/ VerifyFails(i) \/ MeArrives(i)
    \/ UpdateArrives(i) \/ UpdateFails(i) \/ LogoutArrives(i) \/ LogoutFails(i)

Init ==
    /\ page \in {"home", "signin", "dashboard", "profile"}
    /\ form = Blank
    /\ user = Null
    /\ loading = TRUE
    /\ cookie \in Emails \cup {Null}
    /\ asked = [i \in {1} |-> WhoAmI(cookie)]
    /\ next = 2
    /\ did = 0
    /\ otps = {}
    /\ name = [e \in Emails |-> "old"]
    /\ mails = {}
    /\ crossed = FALSE /\ mixed = FALSE
    /\ raced = {}
    /\ guesses = [t \in Ids |-> [right |-> 0, wrong |-> 0]]

Next ==
    \/ \E p \in {"home", "signin", "dashboard", "profile"} : Go(p) \/ Reload(p)
    \/ \E e \in Emails \cup {Null} : EditEmail(e)
    \/ handleSendOTP
    \/ ChangeEmail
    \/ \E c \in Codes \cup {Null} : handleOTPChange(c) \/ handlePaste(c)
    \/ handleVerifyOTP
    \/ handleLogout
    \/ \E n \in Names \cup {Null} : handleUpdateChanges(n)
    \/ \E i \in DOMAIN asked : Serves(i) \/ Arrives(i)
    \/ \E o \in otps : Expires(o)

Spec == Init /\ [][Next]_vars

-----------------------------------------------------------------------------
Kinds == {"me", "send", "verify", "update", "logout"}
Users == [id : Emails \cup {Guest}, name : Names \cup {Null}]

(* The shape of the state. *)
TypeOK ==
    /\ page \in {"home", "signin", "dashboard", "profile"}
    /\ form \in [step : {"email", "otp"}, email : Emails \cup {Null}, txn : Ids \cup {Null},
                code : Ids \cup {Wrong, Null}, boxes : {"six", "fewer"}]
    /\ user = Null \/ user \in Users
    /\ loading \in BOOLEAN
    /\ cookie \in Emails \cup {Null}
    /\ DOMAIN asked \subseteq 1 .. (next - 1)
    /\ \A i \in DOMAIN asked :
         /\ asked[i].kind \in Kinds
         /\ asked[i].state \in {"sent", "read", "done"}
         /\ asked[i].form => page = "signin"
    /\ next \in 2 .. (2 * MaxActs + 2)
    /\ otps \subseteq [txn : Ids, attempts : 0 .. MAX_ATTEMPTS]
    /\ name \in [Emails -> Names]

(* The code step shows "We sent a code to <email>" and verifies the transaction it
   holds.  Once the code has been asked for and nothing is under way, the two
   belong together, unless two "Continue" of one visit crossed: then the answer
   that came last decides, whichever address it was for. *)
TransactionIsForTheShownEmail ==
    (/\ form.step = "otp" /\ form.txn # Null
     /\ ~crossed
     /\ \A i \in Asking("send") : ~asked[i].form)
    => EmailOf(form.txn) = form.email

(* At rest whoever is shown is the account of the cookie, under the name the
   server has, or the guest made for a browser without one, although three answers
   write it and none of them is ordered.  Excepted, until a page is opened afresh,
   is a "who am I" that a sign-in, a sign-out or a rename passed on the way, which
   may show somebody who is gone or a name that was changed, and a name that was
   saved while its answer was lost or nobody heard it. *)
AccountShownIsCurrent ==
    user # Null /\ Heard = {} /\ ~mixed
    => user = IF cookie = Null THEN [id |-> Guest, name |-> "old"]
              ELSE [id |-> cookie, name |-> name[cookie]]

(* The five thunks share one flag: it is never left up with nothing under way
   (it hides the account page and its button). *)
LoadingMeansAsked == loading => Heard # {}

(* Who is shown as signed in is, but for a "who am I" that was passed on its way,
   and nothing is shown as under way that is not (authSlice.js). *)
SignedInIsShown == TypeOK /\ LoadingMeansAsked /\ AccountShownIsCurrent

(* A code signs in once and a transaction answers at most MAX_ATTEMPTS wrong
   codes, except a transaction two verifications had read before either wrote. *)
CodesAreSpent ==
    \A t \in Ids \ raced : guesses[t].right <= 1 /\ guesses[t].wrong <= MAX_ATTEMPTS

(* A code is for one address and for one sign-in (Signin.jsx and OTP.py). *)
CodesAreForOne == TransactionIsForTheShownEmail /\ CodesAreSpent

=============================================================================
