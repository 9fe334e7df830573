------------------------- MODULE SharingSessionProofs -------------------------
(* Proofs about SharingSession, for every value of its constants. *)
EXTENDS SharingSession, TLAPS

\* The empty collection, jars and request slots satisfy the invariant.
LEMMA InitIInv == Init => IInv
  BY ConstantsOK, NoneIsNothing
  DEF Init, IInv, TypeOK, DrawnTokens, PendingIsPrivate, DocumentTokens,
      RequestTokens, Carriers, OneHolder, RevokedIsRetired, Pending, At, HasToken

\* Every step keeps documents, cookies and requests within their types.
LEMMA StepTypeOK == TypeOK /\ [Next]_vars => TypeOK'
  <1> SUFFICES ASSUME TypeOK, [Next]_vars PROVE TypeOK'
    OBVIOUS
  <1> USE ConstantsOK, NoneIsNothing
      DEF TypeOK, SessionDoc, Cookie, Request, Names, Token, At, Goto, Finish
  <1>1. ASSUME NEW r \in Requests, NEW b \in Browsers, NEW q \in Qrs, CreateStart(r, b, q) PROVE TypeOK'
    BY <1>1 DEF CreateStart, Relation, NamesOf
  <1>2. ASSUME NEW r \in Requests, NEW b \in Browsers, NEW op \in {"use", "revoke"}, VerifyStart(r, b, op) PROVE TypeOK'
    BY <1>2 DEF VerifyStart, HasToken, Authenticates
  <1>3. ASSUME NEW r \in Requests, CreateRotate(r) PROVE TypeOK'
    BY <1>3 DEF CreateRotate, Matches, Granted
  <1>4. ASSUME NEW r \in Requests, CreateNoMatch(r) PROVE TypeOK'
    BY <1>4 DEF CreateNoMatch
  <1>5. ASSUME NEW r \in Requests, CreateInsert(r) PROVE TypeOK'
    BY <1>5 DEF CreateInsert, Granted
  <1>6. ASSUME NEW r \in Requests, CreateDuplicate(r) PROVE TypeOK'
    BY <1>6 DEF CreateDuplicate
  <1>7. ASSUME NEW r \in Requests, CreateAnnounce(r) PROVE TypeOK'
    BY <1>7 DEF CreateAnnounce
  <1>8. ASSUME NEW r \in Requests, CreateQrGone(r) PROVE TypeOK'
    BY <1>8 DEF CreateQrGone
  <1>9. ASSUME NEW r \in Requests, VerifyExpire(r) PROVE TypeOK'
    <2>1. \A k \in Relation : sessions[k] # None => Closed(sessions[k], "EXPIRED") \in SessionDoc
      BY DEF Closed
    <2>2. reqs[r] \in Request
      BY <1>9 DEF VerifyExpire
    <2>3. sessions' \in [Relation -> SessionDoc \cup {None}]
      BY ONLY TypeOK, <1>9, <2>1 DEF TypeOK, VerifyExpire, HasToken
    <2>4. QED
      BY <1>9, <2>2, <2>3 DEF VerifyExpire
  <1>10. ASSUME NEW r \in Requests, VerifyExtend(r) PROVE TypeOK'
    <2>1. reqs[r] \in Request /\ [reqs[r] EXCEPT !.pc = "handle"] \in Request
      BY <1>10 DEF VerifyExtend
    <2>2. \A k \in Relation : sessions[k] # None =>
            [sessions[k] EXCEPT !.left = Lease] \in SessionDoc
      OBVIOUS
    <2>3. QED
      BY <1>10, <2>1, <2>2 DEF VerifyExtend, HasToken
  <1>11. ASSUME NEW r \in Requests, Use(r) PROVE TypeOK'
    <2>1. /\ reqs[r] \in Request
          /\ [reqs[r] EXCEPT !.pc = "accepted"] \in Request
          /\ [reqs[r] EXCEPT !.pc = "served"] \in Request
      BY <1>11 DEF Use
    <2>2. QED
      BY <1>11, <2>1 DEF Use
  <1>12. ASSUME NEW r \in Requests, Terminate(r) PROVE TypeOK'
    BY <1>12 DEF Terminate, HasToken, Closed
  <1>13. ASSUME NEW r \in Requests, Receive(r) PROVE TypeOK'
    <2>1. [token |-> reqs[r].token, left |-> CookieLife] \in Cookie
      BY <1>13 DEF Receive
    <2>2. cookies' \in [Browsers -> Cookie \cup {None}]
      BY ONLY TypeOK, <1>13, <2>1 DEF TypeOK, Receive
    <2>3. QED
      BY <1>13, <2>2 DEF Receive
  <1>14. ASSUME NEW r \in Requests, Abort(r) PROVE TypeOK'
    BY <1>14 DEF Abort
  <1>15. ASSUME NEW b \in Browsers, NEW u \in Users, SwitchIdentity(b, u) PROVE TypeOK'
    BY <1>15 DEF SwitchIdentity
  <1>16. ASSUME NEW u \in Users, Rename(u) PROVE TypeOK'
    BY <1>16 DEF Rename
  <1>17. ASSUME NEW q \in Qrs, DeleteQr(q) PROVE TypeOK'
    BY <1>17 DEF DeleteQr
  <1>18. ASSUME Tick PROVE TypeOK'
    BY <1>18 DEF Tick
  <1>19. ASSUME NEW k \in Relation, TtlDelete(k) PROVE TypeOK'
    <2>1. sessions[k].token \in Token
      BY <1>19 DEF TtlDelete
    <2>2. QED
      BY ONLY TypeOK, <1>19, <2>1 DEF TypeOK, TtlDelete
  <1>20. CASE UNCHANGED vars
    BY <1>20 DEF vars
  <1>21. QED
    BY <1>1, <1>2, <1>3, <1>4, <1>5, <1>6, <1>7, <1>8, <1>9, <1>10, <1>11, <1>12, <1>13, <1>14, <1>15, <1>16, <1>17, <1>18, <1>19, <1>20 DEF Next, Create, Verified, Environment

-----------------------------------------------------------------------------
(* Most actions grant and retire nothing and hand no token to anybody: they *)
(* leave the documents' tokens and their validity alone, and every cookie   *)
(* and request that remains carries what it carried.                        *)

KeptDocuments ==
  \A k \in Relation :
    /\ sessions'[k] = None <=> sessions[k] = None
    /\ sessions[k] # None => /\ sessions'[k].token = sessions[k].token
                             /\ sessions'[k].active = sessions[k].active
                             /\ sessions'[k].status = sessions[k].status

Quiet ==
  /\ UNCHANGED <<issued, retired>>
  /\ KeptDocuments
  /\ \A b \in Browsers : cookies'[b] # None =>
       cookies[b] # None /\ cookies'[b].token = cookies[b].token
  /\ \A r \in Requests : reqs'[r] # None =>
       /\ reqs[r] # None
       /\ reqs'[r].token = reqs[r].token
       /\ reqs'[r].browser = reqs[r].browser
       /\ reqs'[r].rel = reqs[r].rel
       /\ Pending(r)' <=> Pending(r)
       /\ At(r, "revoked")' => At(r, "revoked")

\* The steps below are quiet: what they write neither grants nor retires.
LEMMA QuietStep ==
  ASSUME TypeOK, TypeOK',
         \/ \E r \in Requests : \/ CreateNoMatch(r) \/ CreateDuplicate(r)
                                \/ CreateAnnounce(r) \/ CreateQrGone(r)
                                \/ VerifyExtend(r) \/ Use(r) \/ Abort(r)
         \/ Environment \/ Tick \/ UNCHANGED vars
  PROVE  Quiet
  <1> USE NoneIsNothing DEF Quiet, TypeOK, At, Pending, Goto, Finish
  <1>1. ASSUME NEW r \in Requests, CreateNoMatch(r) PROVE Quiet
    BY <1>1 DEF CreateNoMatch, KeptDocuments
  <1>2. ASSUME NEW r \in Requests, CreateDuplicate(r) PROVE Quiet
    BY <1>2 DEF CreateDuplicate, KeptDocuments
  <1>3. ASSUME NEW r \in Requests, CreateAnnounce(r) PROVE Quiet
    BY <1>3 DEF CreateAnnounce, KeptDocuments
  <1>4. ASSUME NEW r \in Requests, CreateQrGone(r) PROVE Quiet
    BY <1>4 DEF CreateQrGone, KeptDocuments
  <1>5. ASSUME NEW r \in Requests, VerifyExtend(r) PROVE Quiet
    <2> DEFINE D(k) == [sessions[k] EXCEPT !.left = Lease]
    <2>1. \A k \in Relation :
            sessions'[k] = IF HasToken(k, reqs[r].token) THEN D(k) ELSE sessions[k]
      BY <1>5 DEF VerifyExtend
    <2>2. \A k \in Relation : sessions[k] # None =>
            /\ D(k) # None
            /\ D(k).token = sessions[k].token
            /\ D(k).active = sessions[k].active
            /\ D(k).status = sessions[k].status
      BY ConstantsOK DEF SessionDoc
    <2> HIDE DEF D
    <2>3. KeptDocuments
      BY <2>1, <2>2 DEF HasToken, KeptDocuments
    <2>4. QED
      BY <1>5, <2>3 DEF VerifyExtend, Request
  <1>6. ASSUME NEW r \in Requests, Use(r) PROVE Quiet
    <2>1. PICK p \in {"accepted", "served"} : Goto(r, p) /\ At(r, "handle")
      BY <1>6 DEF Use
    <2>2. /\ reqs'[r].token = reqs[r].token
          /\ reqs'[r].browser = reqs[r].browser
          /\ reqs'[r].rel = reqs[r].rel
          /\ reqs'[r].pc = p
          /\ \A q \in Requests \ {r} : reqs'[q] = reqs[q]
      BY <2>1 DEF Request
    <2>3. QED
      BY <1>6, <2>1, <2>2 DEF Use, KeptDocuments
  <1>7. ASSUME NEW r \in Requests, Abort(r) PROVE Quiet
    BY <1>7 DEF Abort, KeptDocuments
  <1>8. CASE Environment
    BY <1>8 DEF Environment, SwitchIdentity, Rename, DeleteQr, KeptDocuments
  <1>9. CASE Tick
    <2> DEFINE D(k) == [sessions[k] EXCEPT !.left = @ - 1]
    <2>1. \A k \in Relation :
            sessions'[k] = IF sessions[k] # None /\ sessions[k].left > 0
                           THEN D(k) ELSE sessions[k]
      BY <1>9 DEF Tick
    <2>2. \A k \in Relation : sessions[k] # None /\ sessions[k].left > 0 =>
            /\ D(k) # None
            /\ D(k).token = sessions[k].token
            /\ D(k).active = sessions[k].active
            /\ D(k).status = sessions[k].status
      BY ConstantsOK DEF SessionDoc
    <2> HIDE DEF D
    <2>3. KeptDocuments
      BY <2>1, <2>2 DEF KeptDocuments
    <2>4. \A b \in Browsers : cookies'[b] # None =>
            cookies[b] # None /\ cookies'[b].token = cookies[b].token
      BY <1>9 DEF Tick, Cookie
    <2>5. QED
      BY <1>9, <2>3, <2>4 DEF Tick
  <1>10. CASE UNCHANGED vars
    BY <1>10 DEF vars, KeptDocuments
  <1>11. QED
    BY <1>1, <1>2, <1>3, <1>4, <1>5, <1>6, <1>7, <1>8, <1>9, <1>10

(* The two writes of create_session make the request's token the one of its *)
(* relationship, and retire the token they replace.                         *)

WritesGrant(r) ==
  LET k == reqs[r].rel
  IN  /\ Pending(r)
      /\ k \in Relation
      /\ sessions'[k] # None
      /\ sessions'[k].token = reqs[r].token
      /\ sessions'[k].active
      /\ sessions'[k].status = "ACTIVE"
      /\ \A j \in Relation \ {k} : sessions'[j] = sessions[j]
      /\ retired' = retired \cup (IF sessions[k] = None THEN {} ELSE {sessions[k].token})
      /\ reqs'[r] # None
      /\ reqs'[r].token = reqs[r].token
      /\ reqs'[r].browser = reqs[r].browser
      /\ reqs'[r].rel = k
      /\ reqs'[r].pc = "announce"
      /\ \A s \in Requests \ {r} : reqs'[s] = reqs[s]
      /\ UNCHANGED <<cookies, issued>>

\* Both writes of create_session, the rotation and the insert, grant the
\* request's token and retire the one it replaces.
LEMMA GrantStep ==
  ASSUME TypeOK, TypeOK', NEW r \in Requests, CreateRotate(r) \/ CreateInsert(r)
  PROVE  WritesGrant(r)
  <1> USE NoneIsNothing DEF TypeOK, At, Pending, Goto, WritesGrant
  <1>1. reqs[r] \in Request /\ reqs[r].rel \in Relation /\ reqs[r].token \in Token
    BY DEF CreateRotate, CreateInsert, Request
  <1>2. reqs' = [reqs EXCEPT ![r].pc = "announce"]
    BY DEF CreateRotate, CreateInsert
  <1>3. /\ reqs'[r] # None
        /\ reqs'[r].token = reqs[r].token
        /\ reqs'[r].browser = reqs[r].browser
        /\ reqs'[r].rel = reqs[r].rel
        /\ reqs'[r].pc = "announce"
        /\ \A s \in Requests \ {r} : reqs'[s] = reqs[s]
    BY <1>1, <1>2 DEF Request
  <1>4. ASSUME NEW i \in Token, NEW ns \in Names
        PROVE  LET d == Granted(i, reqs[r].token, ns)
               IN  d # None /\ d.token = reqs[r].token /\ d.active /\ d.status = "ACTIVE"
    <2>1. Lease \in 0..Lease
      BY ConstantsOK
    <2>2. Granted(i, reqs[r].token, ns) \in SessionDoc
      BY <1>1, <2>1 DEF Granted, SessionDoc
    <2>3. QED
      BY <2>2 DEF Granted
  <1>5. CASE CreateRotate(r)
    <2>1. sessions[reqs[r].rel] \in SessionDoc
      BY <1>1, <1>5 DEF CreateRotate, Matches
    <2>2. sessions' = [sessions EXCEPT ![reqs[r].rel] =
            Granted(sessions[reqs[r].rel].id, reqs[r].token, sessions[reqs[r].rel].names)]
      BY <1>5 DEF CreateRotate
    <2>3. /\ sessions[reqs[r].rel].id \in Token
          /\ sessions[reqs[r].rel].names \in Names
      BY <2>1 DEF SessionDoc
    <2>4. QED
      BY <1>1, <1>3, <1>4, <1>5, <2>1, <2>2, <2>3 DEF CreateRotate
  <1>6. CASE CreateInsert(r)
    <2>1. reqs[r].id \in Token /\ reqs[r].names \in Names
      BY <1>1 DEF Request
    <2>2. sessions' = [sessions EXCEPT ![reqs[r].rel] =
            Granted(reqs[r].id, reqs[r].token, reqs[r].names)]
      BY <1>6 DEF CreateInsert
    <2>3. QED
      BY <1>1, <1>3, <1>4, <1>6, <2>1, <2>2 DEF CreateInsert
  <1>7. QED
    BY <1>5, <1>6


\* A verified request takes the token, the browser and the relationship of the
\* document it read, and is not a create about to write.
ReadsGrant(r, b, k) ==
  /\ cookies[b] # None
  /\ sessions[k] # None
  /\ sessions[k].token = cookies[b].token
  /\ reqs'[r] # None
  /\ reqs'[r].token = cookies[b].token
  /\ reqs'[r].browser = b
  /\ reqs'[r].rel = k
  /\ reqs'[r].pc \in {"expire", "extend"}
  /\ \A s \in Requests \ {r} : reqs'[s] = reqs[s]
  /\ UNCHANGED <<sessions, cookies, issued, retired>>

\* verify_x_sharing_token starts a request from a document its cookie opens.
LEMMA VerifyStartReads ==
  ASSUME TypeOK, TypeOK', NEW r \in Requests, NEW b \in Browsers,
         NEW op \in {"use", "revoke"}, VerifyStart(r, b, op)
  PROVE  \E k \in Relation : ReadsGrant(r, b, k)
  <1> USE NoneIsNothing DEF TypeOK
  <1>1. PICK k \in Relation :
          /\ Authenticates(k, cookies[b].token)
          /\ reqs' = [reqs EXCEPT ![r] =
               [op |-> op, browser |-> b, rel |-> k,
                pc |-> IF sessions[k].left = 0 THEN "expire" ELSE "extend",
                token |-> cookies[b].token, id |-> sessions[k].id,
                names |-> sessions[k].names]]
    BY DEF VerifyStart
  <1>2. reqs'[r] # None
    <2>1. reqs'[r] = [op |-> op, browser |-> b, rel |-> k,
                      pc |-> IF sessions[k].left = 0 THEN "expire" ELSE "extend",
                      token |-> cookies[b].token, id |-> sessions[k].id,
                      names |-> sessions[k].names]
      BY <1>1
    <2>2. cookies[b] \in Cookie /\ sessions[k] \in SessionDoc
      BY <1>1 DEF VerifyStart, Authenticates, HasToken
    <2>3. reqs'[r] \in Request
      BY <2>1, <2>2 DEF Request, Cookie, SessionDoc
    <2>4. QED
      BY <2>3
  <1>3. ReadsGrant(r, b, k)
    BY <1>1, <1>2 DEF ReadsGrant, VerifyStart, Authenticates, HasToken
  <1>4. QED
    BY <1>3

\* No step lets a token appear anywhere before it is drawn.
LEMMA StepDrawnTokens ==
  ASSUME IInv, TypeOK', [Next]_vars
  PROVE  DrawnTokens'
  <1> USE ConstantsOK, NoneIsNothing
      DEF IInv, TypeOK, DrawnTokens, PendingIsPrivate, DocumentTokens, RequestTokens,
          Carriers, OneHolder, RevokedIsRetired, Pending, At, HasToken
  <1>1. ASSUME NEW r \in Requests, NEW b \in Browsers, NEW q \in Qrs, CreateStart(r, b, q)
        PROVE  DrawnTokens'
    <2>1. issued \in Nat /\ issued' = issued + 1 /\ Token \subseteq Nat
      BY <1>1 DEF CreateStart, Token
    <2>2. \A n \in Token : n <= issued => n <= issued'
      BY <2>1
    <2>3. /\ \A t \in retired' : t <= issued'
          /\ \A k \in Relation : sessions'[k] # None => sessions'[k].token <= issued'
          /\ \A b1 \in Browsers : cookies'[b1] # None => cookies'[b1].token <= issued'
      BY <1>1, <2>2 DEF CreateStart, SessionDoc, Cookie
    <2>4. ASSUME NEW s \in Requests, reqs'[s] # None
          PROVE  reqs'[s].token <= issued'
      <3>1. CASE s = r
        BY <1>1, <2>1, <3>1 DEF CreateStart
      <3>2. CASE s # r
        <4>1. reqs'[s] = reqs[s]
          BY <1>1, <3>2 DEF CreateStart
        <4>2. reqs[s] \in Request
          BY <2>4, <4>1
        <4>3. QED
          BY <2>2, <2>4, <4>1, <4>2 DEF Request
      <3>3. QED
        BY <3>1, <3>2
    <2>5. QED
      BY <2>3, <2>4
  <1>2. ASSUME NEW r \in Requests, WritesGrant(r)
        PROVE  DrawnTokens'
    BY <1>2 DEF WritesGrant, SessionDoc, Request
  <1>4. ASSUME NEW r \in Requests, NEW b \in Browsers,
               NEW op \in {"use", "revoke"}, VerifyStart(r, b, op)
        PROVE  DrawnTokens'
    BY <1>4 DEF VerifyStart, Authenticates, SessionDoc, Cookie
  <1>5. ASSUME NEW r \in Requests, VerifyExpire(r)
        PROVE  DrawnTokens'
    BY <1>5 DEF VerifyExpire, Finish, Closed
  <1>6. ASSUME NEW r \in Requests, Terminate(r)
        PROVE  DrawnTokens'
    BY <1>6 DEF Terminate, Goto, Closed, Request
  <1>7. ASSUME NEW r \in Requests, Receive(r)
        PROVE  DrawnTokens'
    BY <1>7 DEF Receive, Finish, Request
  <1>8. ASSUME NEW k \in Relation, TtlDelete(k)
        PROVE  DrawnTokens'
    BY <1>8 DEF TtlDelete
  <1>9. CASE Quiet
    BY <1>9 DEF Quiet, KeptDocuments
  <1>10. QED
    BY <1>1, <1>2, <1>4, <1>5, <1>6, <1>7, <1>8, <1>9, QuietStep, GrantStep DEF Next, Create, Verified

\* No step hands on the token of a create that has not written yet.
LEMMA StepPendingIsPrivate ==
  ASSUME IInv, TypeOK', [Next]_vars
  PROVE  PendingIsPrivate'
  <1> USE ConstantsOK, NoneIsNothing
      DEF IInv, TypeOK, DrawnTokens, PendingIsPrivate, DocumentTokens, RequestTokens,
          Carriers, OneHolder, RevokedIsRetired, Pending, At, HasToken
  <1>1. ASSUME NEW r \in Requests, NEW b \in Browsers, NEW q \in Qrs, CreateStart(r, b, q)
        PROVE  PendingIsPrivate'
    BY <1>1 DEF CreateStart, Token
  <1>2. ASSUME NEW r \in Requests, WritesGrant(r)
        PROVE  PendingIsPrivate'
    <2> SUFFICES ASSUME NEW s \in Requests, Pending(s)'
                 PROVE  /\ reqs'[s].token \notin retired'
                        /\ \A k \in Relation : ~HasToken(k, reqs[s].token)'
                        /\ \A b \in Browsers : cookies'[b] # None =>
                             cookies'[b].token # reqs'[s].token
                        /\ \A u \in Requests \ {s} : reqs'[u] # None =>
                             reqs'[u].token # reqs'[s].token
      OBVIOUS
    <2>1. s # r /\ reqs'[s] = reqs[s] /\ Pending(s)
      BY <1>2 DEF WritesGrant
    <2>2. reqs[s].token # reqs[r].token
      BY <1>2, <2>1 DEF WritesGrant
    <2>3. reqs[s].token \notin retired'
      BY <1>2, <2>1 DEF WritesGrant
    <2>4. \A k \in Relation : ~HasToken(k, reqs[s].token)'
      BY <1>2, <2>1, <2>2 DEF WritesGrant
    <2>5. QED
      BY <1>2, <2>1, <2>2, <2>3, <2>4 DEF WritesGrant
  <1>4. ASSUME NEW r \in Requests, NEW b \in Browsers,
               NEW op \in {"use", "revoke"}, VerifyStart(r, b, op)
        PROVE  PendingIsPrivate'
    BY <1>4 DEF VerifyStart, Authenticates, SessionDoc, Cookie
  <1>5. ASSUME NEW r \in Requests, VerifyExpire(r)
        PROVE  PendingIsPrivate'
    BY <1>5 DEF VerifyExpire, Finish, Closed
  <1>6. ASSUME NEW r \in Requests, Terminate(r)
        PROVE  PendingIsPrivate'
    BY <1>6 DEF Terminate, Goto, Closed, Request
  <1>7. ASSUME NEW r \in Requests, Receive(r)
        PROVE  PendingIsPrivate'
    <2>1. reqs[r] # None /\ ~Pending(r)
      BY <1>7 DEF Receive
    <2>2. \A b \in Browsers : cookies'[b] # None =>
            \/ cookies[b] # None /\ cookies'[b].token = cookies[b].token
            \/ cookies'[b].token = reqs[r].token
      BY <1>7 DEF Receive
    <2>3. /\ reqs'[r] = None
          /\ \A s \in Requests \ {r} : reqs'[s] = reqs[s]
          /\ UNCHANGED <<sessions, retired>>
      BY <1>7 DEF Receive, Finish
    <2>4. ASSUME NEW s \in Requests, Pending(s)'
          PROVE  s # r /\ reqs'[s] = reqs[s] /\ Pending(s) /\ reqs[s].token # reqs[r].token
      BY <2>1, <2>3, <2>4
    <2>5. QED
      BY <2>2, <2>3, <2>4
  <1>8. ASSUME NEW k \in Relation, TtlDelete(k)
        PROVE  PendingIsPrivate'
    BY <1>8 DEF TtlDelete
  <1>9. CASE Quiet
    BY <1>9 DEF Quiet, KeptDocuments
  <1>10. QED
    BY <1>1, <1>2, <1>4, <1>5, <1>6, <1>7, <1>8, <1>9, QuietStep, GrantStep DEF Next, Create, Verified

\* No step puts a token in two documents, revives a retired one, or retires
\* one that still authenticates.
LEMMA StepDocumentTokens ==
  ASSUME IInv, TypeOK', [Next]_vars
  PROVE  DocumentTokens'
  <1> USE ConstantsOK, NoneIsNothing
      DEF IInv, TypeOK, DrawnTokens, PendingIsPrivate, DocumentTokens, RequestTokens,
          Carriers, OneHolder, RevokedIsRetired, Pending, At, HasToken
  <1>1. ASSUME NEW r \in Requests, NEW b \in Browsers, NEW q \in Qrs, CreateStart(r, b, q)
        PROVE  DocumentTokens'
    BY <1>1 DEF CreateStart, Token
  <1>2. ASSUME NEW r \in Requests, WritesGrant(r)
        PROVE  DocumentTokens'
    BY <1>2 DEF WritesGrant, SessionDoc, Request
  <1>4. ASSUME NEW r \in Requests, NEW b \in Browsers,
               NEW op \in {"use", "revoke"}, VerifyStart(r, b, op)
        PROVE  DocumentTokens'
    BY <1>4 DEF VerifyStart, Authenticates, SessionDoc, Cookie
  <1>5. ASSUME NEW r \in Requests, VerifyExpire(r)
        PROVE  DocumentTokens'
    BY <1>5 DEF VerifyExpire, Finish, Closed
  <1>6. ASSUME NEW r \in Requests, Terminate(r)
        PROVE  DocumentTokens'
    BY <1>6 DEF Terminate, Goto, Closed, Request
  <1>7. ASSUME NEW r \in Requests, Receive(r)
        PROVE  DocumentTokens'
    BY <1>7 DEF Receive, Finish, Request
  <1>8. ASSUME NEW k \in Relation, TtlDelete(k)
        PROVE  DocumentTokens'
    BY <1>8 DEF TtlDelete
  <1>9. CASE Quiet
    BY <1>9 DEF Quiet, KeptDocuments
  <1>10. QED
    BY <1>1, <1>2, <1>4, <1>5, <1>6, <1>7, <1>8, <1>9, QuietStep, GrantStep DEF Next, Create, Verified

\* A verified request's token stays with the request's relationship, or is
\* retired, whatever other requests write.
LEMMA StepRequestTokens ==
  ASSUME IInv, TypeOK', [Next]_vars
  PROVE  RequestTokens'
  <1> USE ConstantsOK, NoneIsNothing
      DEF IInv, TypeOK, DrawnTokens, PendingIsPrivate, DocumentTokens, RequestTokens,
          Carriers, OneHolder, RevokedIsRetired, Pending, At, HasToken
  <1>1. ASSUME NEW r \in Requests, NEW b \in Browsers, NEW q \in Qrs, CreateStart(r, b, q)
        PROVE  RequestTokens'
    BY <1>1 DEF CreateStart, Token
  <1>2. ASSUME NEW r \in Requests, WritesGrant(r)
        PROVE  RequestTokens'
    <2>0. PICK k \in Relation, t \in Token : k = reqs[r].rel /\ t = reqs[r].token
      BY <1>2 DEF WritesGrant, Request
    <2>1. /\ Pending(r)
          /\ sessions'[k] # None /\ sessions'[k].token = t
          /\ \A j \in Relation \ {k} : sessions'[j] = sessions[j]
          /\ retired' = retired \cup (IF sessions[k] = None THEN {} ELSE {sessions[k].token})
          /\ reqs'[r].token = t /\ reqs'[r].rel = k
      BY <1>2, <2>0 DEF WritesGrant
    <2>2. \A s \in Requests : reqs'[s] # None =>
            /\ reqs[s] # None
            /\ reqs'[s].token = reqs[s].token
            /\ reqs'[s].rel = reqs[s].rel
            /\ s # r => Pending(s)' <=> Pending(s)
      BY <1>2 DEF WritesGrant
    <2>3. \A s \in Requests \ {r} : reqs[s] # None => reqs[s].token # t
      BY <2>0, <2>1
    <2>4. \A j \in Relation : sessions[j] # None => sessions[j].token # t
      BY <2>0, <2>1
    <2>5. \A s \in Requests : reqs[s] # None =>
            /\ \/ Pending(s)
               \/ reqs[s].token \in retired
               \/ sessions[reqs[s].rel] # None /\ sessions[reqs[s].rel].token = reqs[s].token
            /\ \A j \in Relation :
                 sessions[j] # None /\ sessions[j].token = reqs[s].token => j = reqs[s].rel
            /\ reqs[s].rel \in Relation
      BY DEF Request
    <2> HIDE DEF Pending
    <2>6. ASSUME NEW s \in Requests, reqs'[s] # None
          PROVE  /\ \/ Pending(s)'
                    \/ reqs'[s].token \in retired'
                    \/ /\ sessions'[reqs'[s].rel] # None
                       /\ sessions'[reqs'[s].rel].token = reqs'[s].token
                 /\ \A j \in Relation :
                      sessions'[j] # None /\ sessions'[j].token = reqs'[s].token
                        => j = reqs'[s].rel
      <3>1. CASE s = r
        BY ONLY <2>1, <2>4, <3>1
      <3>2. CASE s # r
        <4>1. /\ reqs[s] # None /\ reqs[s].token # t
              /\ reqs'[s].token = reqs[s].token /\ reqs'[s].rel = reqs[s].rel
              /\ Pending(s)' <=> Pending(s)
          BY <2>2, <2>3, <2>6, <3>2
        <4>2. QED
          BY ONLY <2>1, <2>5, <4>1
      <3>3. QED
        BY <3>1, <3>2
    <2>7. QED
      BY ONLY <2>6 DEF RequestTokens, HasToken
  <1>4. ASSUME NEW r \in Requests, NEW b \in Browsers,
               NEW op \in {"use", "revoke"}, VerifyStart(r, b, op)
        PROVE  RequestTokens'
    <2>1. PICK k \in Relation : ReadsGrant(r, b, k)
      BY <1>4, VerifyStartReads
    <2>2. QED
      BY <2>1 DEF ReadsGrant, SessionDoc, Cookie
  <1>5. ASSUME NEW r \in Requests, VerifyExpire(r) \/ Terminate(r)
        PROVE  RequestTokens'
    <2>1. \A k \in Relation :
            /\ sessions'[k] # None <=> sessions[k] # None
            /\ sessions[k] # None => sessions'[k].token = sessions[k].token
      <3>1. \A k \in Relation, st \in {"EXPIRED", "REVOKED"} : sessions[k] # None =>
              LET d == Closed(sessions[k], st)
              IN  d \in SessionDoc /\ d.token = sessions[k].token
        BY DEF Closed, SessionDoc
      <3>2. CASE VerifyExpire(r)
        BY <3>1, <3>2 DEF VerifyExpire
      <3>3. CASE Terminate(r)
        BY <3>1, <3>3 DEF Terminate
      <3>4. QED
        BY <1>5, <3>2, <3>3
    <2>2. /\ \A s \in Requests : reqs'[s] # None =>
               /\ reqs[s] # None
               /\ reqs'[s].token = reqs[s].token
               /\ reqs'[s].rel = reqs[s].rel
               /\ Pending(s)' <=> Pending(s)
          /\ retired \subseteq retired'
      <3>1. CASE VerifyExpire(r)
        BY ONLY TypeOK, <3>1 DEF TypeOK, VerifyExpire, Finish, Pending, At
      <3>2. CASE Terminate(r)
        <4>1. /\ reqs' = [reqs EXCEPT ![r] = [reqs[r] EXCEPT !.pc = "revoked"]]
              /\ reqs[r] \in Request
              /\ reqs[r].pc = "handle"
              /\ retired \subseteq retired'
          BY <3>2 DEF Terminate, Goto
        <4>2. /\ reqs'[r].token = reqs[r].token /\ reqs'[r].rel = reqs[r].rel
              /\ reqs'[r].pc = "revoked" /\ reqs[r] # None
              /\ \A s \in Requests \ {r} : reqs'[s] = reqs[s]
          BY <3>2, <4>1 DEF Request, Terminate
        <4>3. QED
          BY ONLY <4>1, <4>2 DEF Pending, At
      <3>3. QED
        BY <1>5, <3>1, <3>2
    <2>3. \A s \in Requests : reqs[s] # None =>
            /\ \/ Pending(s)
               \/ reqs[s].token \in retired
               \/ sessions[reqs[s].rel] # None /\ sessions[reqs[s].rel].token = reqs[s].token
            /\ \A k \in Relation :
                 sessions[k] # None /\ sessions[k].token = reqs[s].token => k = reqs[s].rel
            /\ reqs[s].rel \in Relation
      BY DEF Request
    <2> HIDE DEF Pending
    <2>4. ASSUME NEW s \in Requests, reqs'[s] # None
          PROVE  /\ \/ Pending(s)'
                    \/ reqs'[s].token \in retired'
                    \/ /\ sessions'[reqs'[s].rel] # None
                       /\ sessions'[reqs'[s].rel].token = reqs'[s].token
                 /\ \A k \in Relation :
                      sessions'[k] # None /\ sessions'[k].token = reqs'[s].token
                        => k = reqs'[s].rel
      BY ONLY <2>1, <2>2, <2>3, <2>4
    <2>5. QED
      BY ONLY <2>4 DEF RequestTokens, HasToken
  <1>7. ASSUME NEW r \in Requests, Receive(r)
        PROVE  RequestTokens'
    BY <1>7 DEF Receive, Finish, Request
  <1>8. ASSUME NEW k \in Relation, TtlDelete(k)
        PROVE  RequestTokens'
    BY <1>8 DEF TtlDelete
  <1>9. CASE Quiet
    <2>1. \A k \in Relation, t \in Token : HasToken(k, t)' <=> HasToken(k, t)
      BY <1>9 DEF Quiet, KeptDocuments
    <2> SUFFICES ASSUME NEW r \in Requests, reqs'[r] # None
                 PROVE  /\ Pending(r)' \/ reqs'[r].token \in retired'
                             \/ HasToken(reqs[r].rel, reqs[r].token)'
                        /\ \A k \in Relation : HasToken(k, reqs[r].token)' => k = reqs'[r].rel
      OBVIOUS
    <2>2. /\ reqs[r] # None /\ reqs'[r].token = reqs[r].token /\ reqs'[r].rel = reqs[r].rel
          /\ Pending(r)' <=> Pending(r)
          /\ retired' = retired
      BY <1>9 DEF Quiet
    <2>3. reqs[r].token \in Token /\ reqs[r].rel \in Relation
      BY <2>2 DEF Request
    <2>4. QED
      BY <2>1, <2>2, <2>3
  <1>10. QED
    BY <1>1, <1>2, <1>4, <1>5, <1>7, <1>8, <1>9, QuietStep, GrantStep DEF Next, Create, Verified

\* No response carries a token to a browser it was not drawn for.
LEMMA StepCarriers ==
  ASSUME IInv, TypeOK', [Next]_vars
  PROVE  Carriers'
  <1> USE ConstantsOK, NoneIsNothing
      DEF IInv, TypeOK, DrawnTokens, PendingIsPrivate, DocumentTokens, RequestTokens,
          Carriers, OneHolder, RevokedIsRetired, Pending, At, HasToken
  <1>1. ASSUME NEW r \in Requests, NEW b \in Browsers, NEW q \in Qrs, CreateStart(r, b, q)
        PROVE  Carriers'
    BY <1>1 DEF CreateStart, Token
  <1>2. ASSUME NEW r \in Requests, WritesGrant(r)
        PROVE  Carriers'
    <2>1. \A s \in Requests : reqs'[s] # None =>
            /\ reqs[s] # None
            /\ reqs'[s].token = reqs[s].token
            /\ reqs'[s].browser = reqs[s].browser
      BY <1>2 DEF WritesGrant
    <2>2. UNCHANGED cookies
      BY <1>2 DEF WritesGrant
    <2>3. QED
      BY ONLY <2>1, <2>2, IInv DEF IInv, Carriers, OneHolder
  <1>4. ASSUME NEW r \in Requests, NEW b \in Browsers,
               NEW op \in {"use", "revoke"}, VerifyStart(r, b, op)
        PROVE  Carriers'
    <2>1. PICK k \in Relation : ReadsGrant(r, b, k)
      BY <1>4, VerifyStartReads
    <2>2. /\ cookies[b] # None /\ cookies' = cookies
          /\ reqs'[r].token = cookies[b].token /\ reqs'[r].browser = b
          /\ \A s \in Requests \ {r} : reqs'[s] = reqs[s]
      BY <2>1 DEF ReadsGrant
    <2>3. QED
      BY ONLY IInv, <2>2 DEF IInv, Carriers, OneHolder
  <1>5. ASSUME NEW r \in Requests, VerifyExpire(r)
        PROVE  Carriers'
    BY <1>5 DEF VerifyExpire, Finish, Closed
  <1>6. ASSUME NEW r \in Requests, Terminate(r)
        PROVE  Carriers'
    BY <1>6 DEF Terminate, Goto, Closed, Request
  <1>7. ASSUME NEW r \in Requests, Receive(r)
        PROVE  Carriers'
    BY <1>7 DEF Receive, Finish, Request
  <1>8. ASSUME NEW k \in Relation, TtlDelete(k)
        PROVE  Carriers'
    BY <1>8 DEF TtlDelete
  <1>9. CASE Quiet
    BY <1>9 DEF Quiet, KeptDocuments
  <1>10. QED
    BY <1>1, <1>2, <1>4, <1>5, <1>6, <1>7, <1>8, <1>9, QuietStep, GrantStep DEF Next, Create, Verified

\* What terminate_session retired stays retired until it answers.
LEMMA StepRevokedIsRetired ==
  ASSUME IInv, TypeOK', [Next]_vars
  PROVE  RevokedIsRetired'
  <1> USE ConstantsOK, NoneIsNothing
      DEF IInv, TypeOK, DrawnTokens, PendingIsPrivate, DocumentTokens, RequestTokens,
          Carriers, OneHolder, RevokedIsRetired, Pending, At, HasToken
  <1>1. ASSUME NEW r \in Requests, NEW b \in Browsers, NEW q \in Qrs, CreateStart(r, b, q)
        PROVE  RevokedIsRetired'
    BY <1>1 DEF CreateStart, Token
  <1>2. ASSUME NEW r \in Requests, WritesGrant(r)
        PROVE  RevokedIsRetired'
    BY <1>2 DEF WritesGrant, SessionDoc, Request
  <1>4. ASSUME NEW r \in Requests, NEW b \in Browsers,
               NEW op \in {"use", "revoke"}, VerifyStart(r, b, op)
        PROVE  RevokedIsRetired'
    BY <1>4 DEF VerifyStart, Authenticates, SessionDoc, Cookie
  <1>5. ASSUME NEW r \in Requests, VerifyExpire(r)
        PROVE  RevokedIsRetired'
    BY <1>5 DEF VerifyExpire, Finish, Closed
  <1>6. ASSUME NEW r \in Requests, Terminate(r)
        PROVE  RevokedIsRetired'
    BY <1>6 DEF Terminate, Goto, Closed, Request
  <1>7. ASSUME NEW r \in Requests, Receive(r)
        PROVE  RevokedIsRetired'
    BY <1>7 DEF Receive, Finish, Request
  <1>8. ASSUME NEW k \in Relation, TtlDelete(k)
        PROVE  RevokedIsRetired'
    BY <1>8 DEF TtlDelete
  <1>9. CASE Quiet
    BY <1>9 DEF Quiet, KeptDocuments
  <1>10. QED
    BY <1>1, <1>2, <1>4, <1>5, <1>6, <1>7, <1>8, <1>9, QuietStep, GrantStep DEF Next, Create, Verified

-----------------------------------------------------------------------------
(* The theorems *)

\* The inductive invariant holds in every reachable state.
THEOREM Invariance == Spec => []IInv
  <1>1. IInv /\ [Next]_vars => IInv'
    BY StepTypeOK, StepDrawnTokens, StepPendingIsPrivate, StepDocumentTokens,
       StepRequestTokens, StepCarriers, StepRevokedIsRetired DEF IInv
  <1>2. QED
    BY InitIInv, <1>1, PTL DEF Spec

\* The documents, cookies and requests of create_session,
\* verify_x_sharing_token and terminate_session keep their types.
THEOREM TypeCorrect == Spec => []TypeOK
  <1>1. IInv => TypeOK
    BY DEF IInv
  <1>2. QED
    BY <1>1, Invariance, PTL

\* A token that stopped authenticating never authenticates again, however
\* creates, revokes, expiries and the TTL monitor interleave.
THEOREM RetirementIsFinal == Spec => []RetiredIsFinal
  <1>1. IInv => RetiredIsFinal
    BY DEF IInv, RetiredIsFinal, Usable, Authenticates, HasToken, DocumentTokens
  <1>2. QED
    BY <1>1, Invariance, PTL

\* No token reaches the cookie jars of two browsers.
THEOREM TokensHaveOneHolder == Spec => []OneHolder
  <1>1. IInv => OneHolder
    BY DEF IInv, Carriers
  <1>2. QED
    BY <1>1, Invariance, PTL

\* When revoke answers, the token it was called with gives no access.
THEOREM RevokeKillsToken == Spec => []RevokedIsDead
  <1>1. RevokedIsRetired /\ RetiredIsFinal => RevokedIsDead
    BY DEF RevokedIsRetired, RetiredIsFinal, RevokedIsDead
  <1>2. IInv => RevokedIsRetired
    BY DEF IInv
  <1>3. QED
    BY <1>1, <1>2, Invariance, RetirementIsFinal, PTL

\* The writes that follow the check of a token touch only a document that
\* still holds that token, and it is the one the check read.
THEOREM StaleWritesAreHarmless == Spec => StaleWritesMiss
  <1> DEFINE Miss == \A r \in Requests, k \in Relation :
        (VerifyExpire(r) \/ VerifyExtend(r) \/ Terminate(r)) /\ sessions'[k] # sessions[k]
          => sessions[k].token = reqs[r].token /\ reqs[r].rel = k
  <1>1. IInv /\ [Next]_vars => [Miss]_vars
    <2> SUFFICES ASSUME IInv, NEW r \in Requests, NEW k \in Relation,
                        VerifyExpire(r) \/ VerifyExtend(r) \/ Terminate(r),
                        sessions'[k] # sessions[k]
                 PROVE  sessions[k].token = reqs[r].token /\ reqs[r].rel = k
      OBVIOUS
    <2>1. HasToken(k, reqs[r].token) /\ reqs[r] # None
      BY DEF VerifyExpire, VerifyExtend, Terminate, HasToken, At
    <2>2. QED
      BY <2>1 DEF IInv, RequestTokens, HasToken
  <1>2. QED
    BY <1>1, Invariance, PTL DEF Spec, StaleWritesMiss

-----------------------------------------------------------------------------
(* SharingSession implements SessionGrants. *)

GrantOf == [k \in Relation |->
              IF sessions[k] # None /\ Authenticates(k, sessions[k].token)
              THEN sessions[k].token ELSE None]

\* A write of create_session is an abstract Grant: its token is new, and the
\* token it replaces, if that one still gave access, is spent.
LEMMA GrantIsGrant ==
  ASSUME IInv, IInv', NEW r \in Requests, WritesGrant(r)
  PROVE  Grants!Next
  <1> DEFINE k == reqs[r].rel  t == reqs[r].token
  <1> USE NoneIsNothing DEF IInv, TypeOK
  <1>1. k \in Relation /\ t \in Token /\ Pending(r)
    BY DEF WritesGrant, Pending, At, Request
  <1>2. t \notin retired /\ \A j \in Relation : GrantOf[j] # t
    BY <1>1 DEF PendingIsPrivate, HasToken, GrantOf, Authenticates
  <1>3. GrantOf' = [GrantOf EXCEPT ![k] = t]
    <2>1. /\ sessions'[k] # None /\ sessions'[k].token = t
          /\ sessions'[k].active /\ sessions'[k].status = "ACTIVE"
          /\ \A j \in Relation \ {k} : sessions'[j] = sessions[j]
      BY DEF WritesGrant
    <2>2. \A j \in Relation : GrantOf'[j] = IF j = k THEN t ELSE GrantOf[j]
      BY ONLY <1>1, <2>1 DEF GrantOf, Authenticates, HasToken
    <2>3. GrantOf' = [j \in Relation |-> GrantOf'[j]]
      BY ONLY TRUE DEF GrantOf
    <2>4. [GrantOf EXCEPT ![k] = t] = [j \in Relation |-> IF j = k THEN t ELSE GrantOf[j]]
      BY ONLY TRUE DEF GrantOf
    <2>5. QED
      BY ONLY <2>2, <2>3, <2>4
  <1>4. retired' = retired \cup ({GrantOf[k]} \ {None})
    <2>1. CASE sessions[k] = None
      BY <1>1, <2>1 DEF WritesGrant, GrantOf
    <2>2. CASE sessions[k] # None /\ sessions[k].active
      BY <1>1, <2>2 DEF WritesGrant, GrantOf, Authenticates, HasToken, DocumentTokens,
                        SessionDoc
    <2>3. CASE sessions[k] # None /\ ~sessions[k].active
      BY <1>1, <2>3 DEF WritesGrant, GrantOf, Authenticates, HasToken, DocumentTokens
    <2>4. QED
      BY <2>1, <2>2, <2>3
  <1>5. QED
    BY <1>1, <1>2, <1>3, <1>4 DEF Grants!Next, Grants!Grant, GrantOf

\* Closing or removing the document of a token is an abstract Withdraw, or
\* changes nothing when the token gave no access any more.
LEMMA CloseIsWithdraw ==
  ASSUME IInv, NEW k \in Relation, NEW t \in Token, HasToken(k, t),
         retired' = retired \cup {t},
         \A j \in Relation \ {k} : sessions'[j] = sessions[j],
         sessions'[k] = None \/ (sessions'[k] # None /\ ~sessions'[k].active)
  PROVE  [Grants!Next]_<<GrantOf, retired>>
  <1> USE NoneIsNothing DEF IInv, TypeOK
  <1>1. GrantOf' = [GrantOf EXCEPT ![k] = None]
    BY DEF GrantOf, Authenticates, HasToken
  <1>2. CASE sessions[k].active
    BY <1>1, <1>2 DEF GrantOf, Authenticates, HasToken, DocumentTokens, Grants!Next,
                      Grants!Withdraw
  <1>3. CASE ~sessions[k].active
    BY <1>1, <1>3 DEF GrantOf, Authenticates, HasToken, DocumentTokens
  <1>4. QED
    BY <1>2, <1>3

\* An expire or a revoke by token closes the one document that holds it, or
\* none, and then the token was retired already.
LEMMA CloseByToken ==
  ASSUME IInv, IInv', NEW r \in Requests, VerifyExpire(r) \/ Terminate(r)
  PROVE  [Grants!Next]_<<GrantOf, retired>>
  <1> DEFINE k == reqs[r].rel  t == reqs[r].token
  <1> USE NoneIsNothing DEF IInv, TypeOK
  <1>1. k \in Relation /\ t \in Token /\ reqs[r] # None /\ ~Pending(r)
    BY DEF VerifyExpire, Terminate, Pending, At, Request
  <1>2. retired' = retired \cup {t}
    BY DEF VerifyExpire, Terminate
  <1>3. \A j \in Relation : ~HasToken(j, t) => sessions'[j] = sessions[j]
    BY DEF VerifyExpire, Terminate
  <1>4. \A j \in Relation : HasToken(j, t) => j = k
    BY <1>1 DEF RequestTokens
  <1>5. CASE HasToken(k, t)
    <2>1. sessions'[k] # None /\ ~sessions'[k].active
      <3>1. /\ Closed(sessions[k], "EXPIRED").active = FALSE
            /\ Closed(sessions[k], "REVOKED").active = FALSE
            /\ Closed(sessions[k], "EXPIRED") \in SessionDoc
            /\ Closed(sessions[k], "REVOKED") \in SessionDoc
        BY <1>1, <1>5 DEF Closed, HasToken, SessionDoc
      <3>2. QED
        BY <1>1, <1>5, <3>1 DEF VerifyExpire, Terminate, HasToken
    <2>2. QED
      BY <1>1, <1>2, <1>3, <1>4, <1>5, <2>1, CloseIsWithdraw
  <1>6. CASE ~HasToken(k, t)
    <2>1. t \in retired
      BY <1>1, <1>6 DEF RequestTokens
    <2>2. sessions' = sessions
      BY <1>3, <1>4, <1>6
    <2>3. QED
      BY <1>2, <2>1, <2>2 DEF GrantOf, Authenticates, HasToken
  <1>7. QED
    BY <1>5, <1>6

\* Every behaviour of the sharing-session service is one SessionGrants allows.
THEOREM Refinement == Spec => ImplementsGrants
  <1>1. Init => Grants!Init
    BY DEF Init, Grants!Init
  <1>2. IInv /\ IInv' /\ [Next]_vars => [Grants!Next]_<<GrantOf, retired>>
    <2> SUFFICES ASSUME IInv, IInv', [Next]_vars
                 PROVE  [Grants!Next]_<<GrantOf, retired>>
      OBVIOUS
    <2>1. ASSUME NEW r \in Requests, CreateRotate(r) \/ CreateInsert(r)
          PROVE  Grants!Next
      BY <2>1, GrantStep, GrantIsGrant DEF IInv
    <2>2. ASSUME NEW r \in Requests, VerifyExpire(r) \/ Terminate(r)
          PROVE  [Grants!Next]_<<GrantOf, retired>>
      BY <2>2, CloseByToken
    <2>3. ASSUME NEW k \in Relation, TtlDelete(k)
          PROVE  [Grants!Next]_<<GrantOf, retired>>
      <3>1. sessions[k].token \in Token /\ HasToken(k, sessions[k].token)
        BY <2>3 DEF TtlDelete, HasToken, IInv, TypeOK, SessionDoc
      <3>2. /\ sessions'[k] = None
            /\ retired' = retired \cup {sessions[k].token}
            /\ \A j \in Relation \ {k} : sessions'[j] = sessions[j]
        BY <2>3 DEF TtlDelete, IInv, TypeOK
      <3>3. QED
        BY <3>1, <3>2, CloseIsWithdraw
    <2>4. ASSUME NEW r \in Requests,
                 \/ \E b \in Browsers, q \in Qrs : CreateStart(r, b, q)
                 \/ \E b \in Browsers, op \in {"use", "revoke"} : VerifyStart(r, b, op)
                 \/ Receive(r)
          PROVE  UNCHANGED <<GrantOf, retired>>
      BY <2>4 DEF CreateStart, VerifyStart, Receive, GrantOf, Authenticates, HasToken
    <2>5. CASE Quiet
      <3>1. \A k \in Relation : GrantOf'[k] = GrantOf[k]
        BY <2>5 DEF Quiet, KeptDocuments, GrantOf, Authenticates, HasToken
      <3>2. QED
        BY <2>5, <3>1 DEF Quiet, GrantOf
    <2>6. QED
      BY <2>1, <2>2, <2>3, <2>4, <2>5, QuietStep DEF Next, Create, Verified, IInv
  <1>3. QED
    BY <1>1, <1>2, Invariance, PTL DEF Spec, ImplementsGrants, Grants!Spec, GrantOf

=============================================================================
