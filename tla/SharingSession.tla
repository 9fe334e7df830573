---------------------------- MODULE SharingSession ----------------------------
(***************************************************************************)
(* Sharing sessions: POST /share/create, DELETE /share/revoke and every    *)
(* route guarded by verify_x_sharing_token, run by concurrent requests     *)
(* against the sharing_session collection.                                 *)
(*                                                                         *)
(* A request is a record that moves from one database call to the next;    *)
(* anything may happen between two calls, because every call is awaited    *)
(* and two worker processes serve the same database.  Deadlines are kept   *)
(* as the time left, which Tick counts down.                               *)
(***************************************************************************)
EXTENDS Naturals

CONSTANTS
  Users,        \* user ids and guest session ids
  Browsers,     \* cookie jars
  Qrs,          \* QR tokens
  Owner,        \* the owner of each QR, who is the receiver of its sessions
  Requests,     \* slots for requests in progress
  Lease,        \* 15 minutes: the sliding life of a session
  CookieLife,   \* 30 minutes: the life of the JWT in x-sharing-token
  Production,   \* is_prod: the cookie is set for the domain .sharexpress.in
  MaxTokens,    \* bound: sharing tokens drawn in a behaviour
  MaxRenames,   \* bound: times a user changes name
  None          \* no session, no cookie, no request

ASSUME ConstantsOK ==
  /\ Owner \in [Qrs -> Users]
  /\ Lease \in Nat \ {0}
  /\ CookieLife \in Nat \ {0}
  /\ Production \in BOOLEAN
  /\ MaxTokens \in Nat
  /\ MaxRenames \in Nat

\* The unique index (qr_token, sender_ID, receiver_ID); the receiver is the
\* owner of the QR.
Relation == Qrs \X Users
Token == 1..MaxTokens
Names == Nat \X Nat    \* the sender's and the receiver's name, as versions

SessionDoc == [id : Token, token : Token, names : Names, active : BOOLEAN,
               status : {"ACTIVE", "EXPIRED", "REVOKED"}, left : 0..Lease]
Cookie == [token : Token, left : 1..CookieLife]
Request == [op : {"create", "use", "revoke"},
            pc : {"rotate", "insert", "announce", "created",
                  "expire", "extend", "handle", "accepted", "served", "revoked"},
            browser : Browsers, rel : Relation, token : Token, id : Token,
            names : Names]

ASSUME NoneIsNothing == /\ None \notin SessionDoc
                        /\ None \notin Cookie
                        /\ None \notin Request
                        /\ None \notin Token

VARIABLES
  sessions,     \* the sharing_session collection, by relationship
  qrs,          \* the QR documents that still exist
  names,        \* the current name of each user
  identity,     \* who is logged in, or which guest, in each browser
  cookies,      \* the x-sharing-token cookie of each browser
  reqs,         \* the requests in progress
  issued,       \* how many sharing tokens secrets.token_urlsafe has drawn
  retired       \* history: tokens that gave access and no longer do

vars == <<sessions, qrs, names, identity, cookies, reqs, issued, retired>>

TypeOK ==
  /\ sessions \in [Relation -> SessionDoc \cup {None}]
  /\ qrs \in SUBSET Qrs
  /\ names \in [Users -> 0..MaxRenames]
  /\ identity \in [Browsers -> Users]
  /\ cookies \in [Browsers -> Cookie \cup {None}]
  /\ reqs \in [Requests -> Request \cup {None}]
  /\ issued \in 0..MaxTokens
  /\ retired \in SUBSET Token

Init ==
  /\ sessions = [k \in Relation |-> None]
  /\ qrs = Qrs
  /\ names = [u \in Users |-> 0]
  /\ identity \in [Browsers -> Users]
  /\ cookies = [b \in Browsers |-> None]
  /\ reqs = [r \in Requests |-> None]
  /\ issued = 0
  /\ retired = {}

-----------------------------------------------------------------------------
HasToken(k, t) == sessions[k] # None /\ sessions[k].token = t

\* What the filter of verify_x_sharing_token finds.
Authenticates(k, t) == /\ HasToken(k, t)
                       /\ sessions[k].active
                       /\ sessions[k].status = "ACTIVE"

\* What the filter of create_session's find_one_and_update finds.
Matches(k, ns) == sessions[k] # None /\ sessions[k].names = ns

Granted(i, t, ns) == [id |-> i, token |-> t, names |-> ns, active |-> TRUE,
                      status |-> "ACTIVE", left |-> Lease]
Closed(d, st) == [id |-> d.id, token |-> d.token, names |-> d.names,
                  active |-> FALSE, status |-> st, left |-> d.left]

At(r, pc) == reqs[r] # None /\ reqs[r].pc = pc
Goto(r, pc) == reqs' = [reqs EXCEPT ![r].pc = pc]
Finish(r) == reqs' = [reqs EXCEPT ![r] = None]
NamesOf(k) == <<names[k[2]], names[Owner[k[1]]]>>

-----------------------------------------------------------------------------
(* create_session *)

\* Mutant: an existing session's token is handed out again.
CreateStart_Reuse(r, b, q) ==
  LET k == <<q, identity[b]>>  t == issued + 1
  IN  /\ reqs[r] = None
      /\ q \in qrs
      /\ issued < MaxTokens
      /\ issued' = t
      /\ reqs' = [reqs EXCEPT ![r] =
                    [op |-> "create", pc |-> "rotate", browser |-> b, rel |-> k,
                     token |-> IF sessions[k] # None THEN sessions[k].token ELSE t,
                     id |-> t, names |-> NamesOf(k)]]
      /\ UNCHANGED <<sessions, qrs, names, identity, cookies, retired>>

\* The sender and the QR's owner are read and a new token is drawn.
CreateStart(r, b, q) ==
  LET k == <<q, identity[b]>>  t == issued + 1
  IN  /\ reqs[r] = None
      /\ q \in qrs
      /\ issued < MaxTokens
      /\ issued' = t
      /\ reqs' = [reqs EXCEPT ![r] =
                    [op |-> "create", pc |-> "rotate", browser |-> b, rel |-> k,
                     token |-> t, id |-> t, names |-> NamesOf(k)]]
      /\ UNCHANGED <<sessions, qrs, names, identity, cookies, retired>>

\* Mutant: the revived document keeps its token.
CreateRotate_KeepToken(r) ==
  LET k == reqs[r].rel
  IN  /\ At(r, "rotate")
      /\ Matches(k, reqs[r].names)
      /\ sessions' = [sessions EXCEPT ![k] =
                        Granted(sessions[k].id, sessions[k].token, sessions[k].names)]
      /\ Goto(r, "announce")
      /\ UNCHANGED <<qrs, names, identity, cookies, issued, retired>>

\* find_one_and_update: a document with the same parties and the same names
\* gets the new token and becomes ACTIVE, whatever its status was.
CreateRotate(r) ==
  LET k == reqs[r].rel
  IN  /\ At(r, "rotate")
      /\ Matches(k, reqs[r].names)
      /\ sessions' = [sessions EXCEPT ![k] =
                        Granted(sessions[k].id, reqs[r].token, sessions[k].names)]
      /\ retired' = retired \cup {sessions[k].token}
      /\ Goto(r, "announce")
      /\ UNCHANGED <<qrs, names, identity, cookies, issued>>

\* No document matches: none exists, or one party has changed name.
CreateNoMatch(r) ==
  LET k == reqs[r].rel
  IN  /\ At(r, "rotate")
      /\ ~Matches(k, reqs[r].names)
      /\ Goto(r, "insert")
      /\ UNCHANGED <<sessions, qrs, names, identity, cookies, issued, retired>>

CreateInsert(r) ==
  LET k == reqs[r].rel
  IN  /\ At(r, "insert")
      /\ sessions[k] = None
      /\ sessions' = [sessions EXCEPT ![k] =
                        Granted(reqs[r].id, reqs[r].token, reqs[r].names)]
      /\ Goto(r, "announce")
      /\ UNCHANGED <<qrs, names, identity, cookies, issued, retired>>

\* The unique index refuses a second document: 500.
CreateDuplicate(r) ==
  /\ At(r, "insert")
  /\ sessions[reqs[r].rel] # None
  /\ Finish(r)
  /\ UNCHANGED <<sessions, qrs, names, identity, cookies, issued, retired>>

\* The QR is read again for the room to notify.
CreateAnnounce(r) ==
  /\ At(r, "announce")
  /\ reqs[r].rel[1] \in qrs
  /\ Goto(r, "created")
  /\ UNCHANGED <<sessions, qrs, names, identity, cookies, issued, retired>>

\* The QR was deleted meanwhile: qr["qr_id"] raises, 500 and no cookie, but
\* the session stays in the database.
CreateQrGone(r) ==
  /\ At(r, "announce")
  /\ reqs[r].rel[1] \notin qrs
  /\ Finish(r)
  /\ UNCHANGED <<sessions, qrs, names, identity, cookies, issued, retired>>

-----------------------------------------------------------------------------
(* verify_x_sharing_token *)

\* The cookie's session is read; what follows works on that snapshot.  A
\* caller who is neither sender nor receiver is refused, unless the expiry
\* was noticed first.
VerifyStart(r, b, op) ==
  /\ reqs[r] = None
  /\ cookies[b] # None
  /\ \E k \in Relation :
       /\ Authenticates(k, cookies[b].token)
       /\ sessions[k].left = 0 \/ identity[b] \in {k[2], Owner[k[1]]}
       /\ reqs' = [reqs EXCEPT ![r] =
            [op |-> op, browser |-> b, rel |-> k,
             pc |-> IF sessions[k].left = 0 THEN "expire" ELSE "extend",
             token |-> cookies[b].token, id |-> sessions[k].id,
             names |-> sessions[k].names]]
  /\ UNCHANGED <<sessions, qrs, names, identity, cookies, issued, retired>>

\* Mutant: the update is by the relationship that was read.
VerifyExpire_ByRelation(r) ==
  LET k == reqs[r].rel
  IN  /\ At(r, "expire")
      /\ sessions' = [sessions EXCEPT ![k] = IF @ # None THEN Closed(@, "EXPIRED") ELSE @]
      /\ retired' = retired \cup {reqs[r].token}
      /\ Finish(r)
      /\ UNCHANGED <<qrs, names, identity, cookies, issued>>

\* The update is by token alone, not by what was read: 403.
VerifyExpire(r) ==
  LET t == reqs[r].token
  IN  /\ At(r, "expire")
      /\ sessions' = [k \in Relation |->
                        IF HasToken(k, t)
                        THEN Closed(sessions[k], "EXPIRED")
                        ELSE sessions[k]]
      /\ retired' = retired \cup {t}
      /\ Finish(r)
      /\ UNCHANGED <<qrs, names, identity, cookies, issued>>

\* Mutant: extending writes back the whole document that was read.
VerifyExtend_WriteBack(r) ==
  LET t == reqs[r].token
  IN  /\ At(r, "extend")
      /\ sessions' = [k \in Relation |->
                        IF HasToken(k, t) THEN Granted(reqs[r].id, t, reqs[r].names)
                                          ELSE sessions[k]]
      /\ Goto(r, "handle")
      /\ UNCHANGED <<qrs, names, identity, cookies, issued, retired>>

\* The lease is renewed on whatever document has the token by now.
VerifyExtend(r) ==
  LET t == reqs[r].token
  IN  /\ At(r, "extend")
      /\ sessions' = [k \in Relation |->
                        IF HasToken(k, t) THEN [sessions[k] EXCEPT !.left = Lease]
                                          ELSE sessions[k]]
      /\ Goto(r, "handle")
      /\ UNCHANGED <<qrs, names, identity, cookies, issued, retired>>

-----------------------------------------------------------------------------
(* The handlers behind it *)

\* A guarded route other than /revoke does its work and returns a value (as
\* /share/check does) or a JSONResponse of its own (as those of /files do).
Use(r) ==
  /\ At(r, "handle")
  /\ reqs[r].op = "use"
  /\ Goto(r, "accepted") \/ Goto(r, "served")
  /\ UNCHANGED <<sessions, qrs, names, identity, cookies, issued, retired>>

\* terminate_session: success is reported whether or not a document matched.
Terminate(r) ==
  LET t == reqs[r].token
  IN  /\ At(r, "handle")
      /\ reqs[r].op = "revoke"
      /\ sessions' = [k \in Relation |->
                        IF HasToken(k, t) /\ sessions[k].active
                        THEN Closed(sessions[k], "REVOKED")
                        ELSE sessions[k]]
      /\ retired' = retired \cup {t}
      /\ Goto(r, "revoked")
      /\ UNCHANGED <<qrs, names, identity, cookies, issued>>

-----------------------------------------------------------------------------
(* The response reaches the browser, in any order. *)

Receive(r) ==
  LET b == reqs[r].browser
      set == [token |-> reqs[r].token, left |-> CookieLife]
  IN  /\ \/ /\ At(r, "created") \/ At(r, "accepted")
            /\ cookies' = [cookies EXCEPT ![b] = set]
         \* the cookie set on the dependency's response is not in a JSONResponse
         \/ At(r, "served") /\ UNCHANGED cookies
         \* delete_cookie names no domain: it misses the production cookie
         \/ /\ At(r, "revoked")
            /\ cookies' = [cookies EXCEPT ![b] = IF Production THEN set ELSE None]
      /\ Finish(r)
      /\ UNCHANGED <<sessions, qrs, names, identity, issued, retired>>

\* The worker dies, the handler raises, or the response is lost.
Abort(r) ==
  /\ reqs[r] # None
  /\ Finish(r)
  /\ UNCHANGED <<sessions, qrs, names, identity, cookies, issued, retired>>

-----------------------------------------------------------------------------
(* The environment *)

\* Logging in or out leaves x-sharing-token in the jar.
SwitchIdentity(b, u) ==
  /\ identity[b] # u
  /\ identity' = [identity EXCEPT ![b] = u]
  /\ UNCHANGED <<sessions, qrs, names, cookies, reqs, issued, retired>>

Rename(u) ==
  /\ names[u] < MaxRenames
  /\ names' = [names EXCEPT ![u] = @ + 1]
  /\ UNCHANGED <<sessions, qrs, identity, cookies, reqs, issued, retired>>

\* A guest's QR is deleted when the guest asks for a new one.
DeleteQr(q) ==
  /\ q \in qrs
  /\ qrs' = qrs \ {q}
  /\ UNCHANGED <<sessions, names, identity, cookies, reqs, issued, retired>>

Tick ==
  /\ sessions' = [k \in Relation |->
                    IF sessions[k] # None /\ sessions[k].left > 0
                    THEN [sessions[k] EXCEPT !.left = @ - 1]
                    ELSE sessions[k]]
  /\ cookies' = [b \in Browsers |->
                   IF cookies[b] # None /\ cookies[b].left > 1
                   THEN [cookies[b] EXCEPT !.left = @ - 1]
                   ELSE None]
  /\ UNCHANGED <<qrs, names, identity, reqs, issued, retired>>

\* Mutant: the index is partial, on active sessions.
TtlDelete_ActiveOnly(k) ==
  /\ sessions[k] # None
  /\ sessions[k].left = 0
  /\ sessions[k].active
  /\ sessions' = [sessions EXCEPT ![k] = None]
  /\ retired' = retired \cup {sessions[k].token}
  /\ UNCHANGED <<qrs, names, identity, cookies, reqs, issued>>

\* MongoDB's TTL monitor removes a document whose expires_at has passed.
TtlDelete(k) ==
  /\ sessions[k] # None
  /\ sessions[k].left = 0
  /\ sessions' = [sessions EXCEPT ![k] = None]
  /\ retired' = retired \cup {sessions[k].token}
  /\ UNCHANGED <<qrs, names, identity, cookies, reqs, issued>>

-----------------------------------------------------------------------------
Create(r) == \/ CreateRotate(r)  \/ CreateNoMatch(r) \/ CreateInsert(r)
             \/ CreateDuplicate(r) \/ CreateAnnounce(r) \/ CreateQrGone(r)

Verified(r) == VerifyExpire(r) \/ VerifyExtend(r) \/ Use(r) \/ Terminate(r)

Environment == \/ \E b \in Browsers, u \in Users : SwitchIdentity(b, u)
               \/ \E u \in Users : Rename(u)
               \/ \E q \in Qrs : DeleteQr(q)

Next ==
  \/ \E r \in Requests :
       \/ \E b \in Browsers, q \in Qrs : CreateStart(r, b, q)
       \/ \E b \in Browsers, op \in {"use", "revoke"} : VerifyStart(r, b, op)
       \/ Create(r) \/ Verified(r) \/ Receive(r) \/ Abort(r)
  \/ Environment
  \/ Tick
  \/ \E k \in Relation : TtlDelete(k)

Spec == Init /\ [][Next]_vars

\* Time passes and the TTL monitor keeps running; nothing is assumed of the
\* requests, which may stall or die.
FairSpec == Spec /\ WF_vars(Tick) /\ \A k \in Relation : WF_vars(TtlDelete(k))

-----------------------------------------------------------------------------
(* Properties *)

Usable(t) == \E k \in Relation : Authenticates(k, t)

\* Each token has one holder: a sharing token, drawn for one browser's create,
\* never ends up in the cookie jar of another one, whatever responses are lost
\* or late and whoever logs in (share_controller.py create_session).
OneHolder ==
  \A b, c \in Browsers :
    cookies[b] # None /\ cookies[c] # None /\ cookies[b].token = cookies[c].token
      => b = c

\* A token that stopped giving access (rotated away, revoked, expired, its
\* document removed) never passes verify_x_sharing_token again, although
\* create_session revives documents and stale requests still write to them.
RetiredIsFinal == \A t \in retired : ~Usable(t)

\* When DELETE /share/revoke answers, the token it was called with gives no
\* access, even if the session was rotated, extended, expired or removed after
\* the request was verified (share_controller.py terminate_session).
RevokedIsDead == \A r \in Requests : At(r, "revoked") => ~Usable(reqs[r].token)

\* A verified request acts on a snapshot that may be stale: if the session was
\* rotated or created anew since, its later writes (expire, extend, revoke)
\* leave the new grant alone (sharing_token_middleware.py:66-95).
StaleWritesMiss ==
  [][\A r \in Requests, k \in Relation :
       (VerifyExpire(r) \/ VerifyExtend(r) \/ Terminate(r)) /\ sessions'[k] # sessions[k]
         => sessions[k].token = reqs[r].token /\ reqs[r].rel = k]_vars

\* A session whose token neither a browser nor a request holds any more (its
\* create failed after the write, the response was lost, the cookie was
\* overwritten) does not stay: its lease runs out and it is removed.
Abandoned(k, t) ==
  /\ HasToken(k, t)
  /\ \A b \in Browsers : cookies[b] # None => cookies[b].token # t
  /\ \A r \in Requests : reqs[r] # None => reqs[r].token # t
AbandonedSessionsEnd ==
  \A k \in Relation, t \in Token : Abandoned(k, t) ~> ~HasToken(k, t)

\* The promise of SessionGrants, read off the collection.
Grants == INSTANCE SessionGrants WITH
  Relations <- Relation, Tokens <- Token, spent <- retired,
  grant <- [k \in Relation |-> IF sessions[k] # None /\ Authenticates(k, sessions[k].token)
                               THEN sessions[k].token ELSE None]
ImplementsGrants == Grants!Spec

-----------------------------------------------------------------------------
(* The inductive invariant behind the safety properties, by parts *)

Pending(r) == At(r, "rotate") \/ At(r, "insert")

\* Only drawn tokens are anywhere.
DrawnTokens ==
  /\ \A t \in retired : t <= issued
  /\ \A k \in Relation : sessions[k] # None => sessions[k].token <= issued
  /\ \A b \in Browsers : cookies[b] # None => cookies[b].token <= issued
  /\ \A r \in Requests : reqs[r] # None => reqs[r].token <= issued

\* Until a create writes, nobody else has its token.
PendingIsPrivate ==
  \A r \in Requests : Pending(r) =>
    /\ reqs[r].token \notin retired
    /\ \A k \in Relation : ~HasToken(k, reqs[r].token)
    /\ \A b \in Browsers : cookies[b] # None => cookies[b].token # reqs[r].token
    /\ \A s \in Requests \ {r} : reqs[s] # None => reqs[s].token # reqs[r].token

\* A token is in one document, and it is retired exactly when the document
\* no longer authenticates it.
DocumentTokens ==
  /\ \A j, k \in Relation :
       sessions[j] # None /\ HasToken(k, sessions[j].token) => j = k
  /\ \A k \in Relation : sessions[k] # None =>
       /\ sessions[k].active <=> sessions[k].status = "ACTIVE"
       /\ sessions[k].active <=> sessions[k].token \notin retired

\* The token of a request that passed its write or its check still
\* authenticates the request's relationship, or is retired.
RequestTokens ==
  \A r \in Requests : reqs[r] # None =>
    /\ Pending(r) \/ reqs[r].token \in retired
         \/ HasToken(reqs[r].rel, reqs[r].token)
    /\ \A k \in Relation : HasToken(k, reqs[r].token) => k = reqs[r].rel

\* What terminate_session ended stays retired while its answer is on the way.
RevokedIsRetired == \A r \in Requests : At(r, "revoked") => reqs[r].token \in retired

\* Whatever carries a token, the cookie of a browser or a request of one,
\* belongs to the browser the token was drawn for.
Carriers ==
  /\ OneHolder
  /\ \A r \in Requests, b \in Browsers : reqs[r] # None /\ cookies[b] # None
       /\ cookies[b].token = reqs[r].token => reqs[r].browser = b
  /\ \A r, s \in Requests : reqs[r] # None /\ reqs[s] # None
       /\ reqs[r].token = reqs[s].token => reqs[r].browser = reqs[s].browser

IInv == /\ TypeOK /\ DrawnTokens /\ PendingIsPrivate /\ DocumentTokens
        /\ RequestTokens /\ Carriers /\ RevokedIsRetired
=============================================================================
