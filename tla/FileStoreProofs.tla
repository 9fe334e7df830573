---------------------------- MODULE FileStoreProofs ----------------------------
(* Proofs about FileStore for any users, sessions, requests and files: the   *)
(* inductive invariant IInv, one lemma per part, and what follows from it;   *)
(* and, at the end, about the circuit breaker in front of its bucket.        *)
EXTENDS FileStore, MCCircuitBreaker, FiniteSetTheorems, TLAPS

\* The empty system satisfies the inductive invariant.
LEMMA InitIInv == Init => IInv
  BY ConstantsOK, NoneIsNothing
  DEF Init, IInv, TypeOK, DrawnIds, UploadOwners, RequestFacts, ContentUnlessPurged,
      Live, Accounted, Ids, Slots

\* The keys of documents are ids.
LEMMA KeysAreIds ==
  ASSUME TypeOK, NEW F \in SUBSET Ids, \A f \in F : docs[f] # None
  PROVE  KeysOf(F) \in SUBSET Ids
  BY DEF TypeOK, KeysOf, Doc

\* Documents, objects and requests keep their types.
LEMMA StepTypeOK ==
  ASSUME IInv, [Next]_vars
  PROVE  TypeOK'
  <1> USE ConstantsOK, NoneIsNothing
      DEF IInv, TypeOK, RequestFacts, Doc, Request, Ids, Slots, System
  <1>1. ASSUME NEW s \in Sessions, InitUpload(s)
        PROVE  TypeOK'
    BY <1>1 DEF InitUpload
  <1>2. ASSUME NEW f \in Ids, Put(f)
        PROVE  TypeOK'
    BY <1>2 DEF Put
  <1>3. ASSUME NEW f \in Ids, UrlExpire(f)
        PROVE  TypeOK'
    BY <1>3 DEF UrlExpire
  <1>4. ASSUME NEW r \in Requests, NEW s \in Sessions, NEW F \in SUBSET Ids,
               CompleteStart(r, s, F)
        PROVE  TypeOK'
    BY <1>4 DEF CompleteStart, Begin
  <1>5. ASSUME NEW r \in Requests, CompleteHead(r)
        PROVE  TypeOK'
    BY <1>5 DEF CompleteHead, At, Continue, Finish
  <1>6. ASSUME NEW r \in Requests, CompleteSave(r)
        PROVE  TypeOK'
    <2>1. reqs[r] \in Request /\ reqs[r].by \in Users /\ reqs[r].session \in Sessions
      BY <1>6 DEF CompleteSave, At
    <2>2. \A f \in Ids : NewDoc(f, reqs[r].by, reqs[r].session) \in Doc
      BY <2>1 DEF NewDoc
    <2>3. docs' \in [Ids -> Doc \cup {None}]
      BY ONLY TypeOK, <1>6, <2>2 DEF TypeOK, CompleteSave
    <2>4. QED
      BY <1>6, <2>1, <2>3 DEF CompleteSave, Continue
  <1>7. ASSUME NEW r \in Requests, CompleteCount(r)
        PROVE  TypeOK'
    BY <1>7 DEF CompleteCount, At, Finish
  <1>8. ASSUME NEW r \in Requests, CompleteCountFails(r)
        PROVE  TypeOK'
    BY <1>8 DEF CompleteCountFails, At, Continue
  <1>9. ASSUME NEW r \in Requests, CompleteUndone(r)
        PROVE  TypeOK'
    BY <1>9 DEF CompleteUndone, At, Finish
  <1>10. ASSUME NEW r \in Requests, NEW s \in Sessions, NEW f \in Ids,
               NEW p \in BOOLEAN, DeleteStart(r, s, f, p)
        PROVE  TypeOK'
    BY <1>10 DEF DeleteStart, Begin
  <1>11. ASSUME NEW r \in Requests, NEW u \in Users, WipeStart(r, u)
        PROVE  TypeOK'
    <2>1. KeysOf(OwnedBy(u)) \in SUBSET Ids
      BY KeysAreIds DEF OwnedBy
    <2>2. QED
      BY <1>11, <2>1 DEF WipeStart, Begin
  <1>12. ASSUME NEW r \in Requests, WipeDrop(r)
        PROVE  TypeOK'
    BY <1>12 DEF WipeDrop, At, Finish, OwnedBy
  <1>13. ASSUME NEW r \in Requests, NEW u \in Users, NEW s \in Sessions,
               NEW f \in Ids, ShareStart(r, u, s, f)
        PROVE  TypeOK'
    BY <1>13 DEF ShareStart, Begin, Live
  <1>14. ASSUME NEW r \in Requests, ShareCopy(r)
        PROVE  TypeOK'
    <2>1. /\ reqs[r] \in Request /\ reqs[r].session \in Sessions
          /\ Receiver[reqs[r].session] \in Users
          /\ drawn + 1 \in Ids
      BY <1>14 DEF ShareCopy, At
    <2>2. \A k \in reqs[r].keys :
            NewDoc(k, Receiver[reqs[r].session], reqs[r].session) \in Doc
      BY <2>1 DEF NewDoc
    <2>3. docs' \in [Ids -> Doc \cup {None}]
      BY ONLY TypeOK, <1>14, <2>1, <2>2 DEF TypeOK, ShareCopy
    <2>4. QED
      BY <1>14, <2>1, <2>3 DEF ShareCopy, Finish
  <1>15. ASSUME NEW c \in Cleaners, CleanStart(c)
        PROVE  TypeOK'
    <2>1. PICK F \in SUBSET {f \in aged : Live(f)} :
            Begin(c, "clean", "purge", System, None, F, KeysOf(F))
      BY <1>15 DEF CleanStart
    <2>2. F \in SUBSET Ids /\ KeysOf(F) \in SUBSET Ids
      BY KeysAreIds DEF Live
    <2>3. QED
      BY <1>15, <2>1, <2>2 DEF CleanStart, Begin
  <1>16. ASSUME NEW r \in Slots, Purge(r)
        PROVE  TypeOK'
    <2>1. PICK k \in reqs[r].keys :
            /\ Continue(r, "purge", reqs[r].ids, reqs[r].keys \ {k})
            /\ \/ objects' = objects \ {k} /\ purged' = purged \cup {k}
               \/ UNCHANGED <<objects, purged>>
      BY <1>16 DEF Purge
    <2>2. /\ reqs[r] \in Request /\ k \in Ids
          /\ UNCHANGED <<docs, urls, origin, aged, drawn>>
      BY <1>16 DEF Purge
    <2>3. objects' \in SUBSET Ids /\ purged' \in SUBSET Ids
      BY ONLY TypeOK, <2>1, <2>2 DEF TypeOK
    <2>4. reqs' \in [Slots -> Request \cup {None}]
      BY ONLY TypeOK, <2>1, <2>2 DEF TypeOK, Continue, Request
    <2>5. QED
      BY ONLY TypeOK, <2>2, <2>3, <2>4 DEF TypeOK
  <1>17. ASSUME NEW r \in Slots, Mark(r)
        PROVE  TypeOK'
    BY <1>17 DEF Mark, At, Finish, Tombstone
  <1>18. ASSUME NEW r \in Slots, Abort(r)
        PROVE  TypeOK'
    BY <1>18 DEF Abort, Finish
  <1>19. ASSUME NEW f \in Ids, Age(f)
        PROVE  TypeOK'
    BY <1>19 DEF Age
  <1>20. CASE UNCHANGED vars
    BY <1>20 DEF vars
  <1>21. QED
    BY ONLY [Next]_vars, <1>1, <1>2, <1>3, <1>4, <1>5, <1>6, <1>7, <1>8, <1>9, <1>10,
       <1>11, <1>12, <1>13, <1>14, <1>15, <1>16, <1>17, <1>18, <1>19, <1>20
    DEF Next, Upload, Serve

\* No step refers to an id before it is drawn.
LEMMA StepDrawnIds ==
  ASSUME IInv, TypeOK', [Next]_vars
  PROVE  DrawnIds'
  <1> USE ConstantsOK, NoneIsNothing
      DEF IInv, TypeOK, DrawnIds, RequestFacts, Ids, Slots, Doc, Request
  <1>1. ASSUME NEW s \in Sessions, InitUpload(s)
        PROVE  DrawnIds'
    <2>1. /\ drawn \in Nat /\ drawn' = drawn + 1 /\ UNCHANGED <<docs, reqs>>
          /\ \A f \in Ids : origin'[f] # None => origin[f] # None \/ f = drawn + 1
      BY <1>1 DEF InitUpload
    <2>2. QED
      BY ONLY DrawnIds, <2>1 DEF DrawnIds, Ids
  <1>2. ASSUME NEW f \in Ids, Put(f)
        PROVE  DrawnIds'
    BY <1>2 DEF Put
  <1>3. ASSUME NEW f \in Ids, UrlExpire(f)
        PROVE  DrawnIds'
    BY <1>3 DEF UrlExpire
  <1>4. ASSUME NEW r \in Requests, NEW s \in Sessions, NEW F \in SUBSET Ids,
               CompleteStart(r, s, F)
        PROVE  DrawnIds'
    BY <1>4 DEF CompleteStart, Begin
  <1>5. ASSUME NEW r \in Requests, CompleteHead(r)
        PROVE  DrawnIds'
    BY <1>5 DEF CompleteHead, At, Continue, Finish
  <1>6. ASSUME NEW r \in Requests, CompleteSave(r)
        PROVE  DrawnIds'
    BY <1>6 DEF CompleteSave, At, Continue, NewDoc
  <1>7. ASSUME NEW r \in Requests, CompleteCount(r)
        PROVE  DrawnIds'
    BY <1>7 DEF CompleteCount, At, Finish
  <1>8. ASSUME NEW r \in Requests, CompleteCountFails(r)
        PROVE  DrawnIds'
    BY <1>8 DEF CompleteCountFails, At, Continue
  <1>9. ASSUME NEW r \in Requests, CompleteUndone(r)
        PROVE  DrawnIds'
    BY <1>9 DEF CompleteUndone, At, Finish
  <1>10. ASSUME NEW r \in Requests, NEW s \in Sessions, NEW f \in Ids,
               NEW p \in BOOLEAN, DeleteStart(r, s, f, p)
        PROVE  DrawnIds'
    BY <1>10 DEF DeleteStart, Begin
  <1>11. ASSUME NEW r \in Requests, NEW u \in Users, WipeStart(r, u)
        PROVE  DrawnIds'
    BY <1>11 DEF WipeStart, Begin
  <1>12. ASSUME NEW r \in Requests, WipeDrop(r)
        PROVE  DrawnIds'
    BY <1>12 DEF WipeDrop, At, Finish, OwnedBy
  <1>13. ASSUME NEW r \in Requests, NEW u \in Users, NEW s \in Sessions,
               NEW f \in Ids, ShareStart(r, u, s, f)
        PROVE  DrawnIds'
    BY <1>13 DEF ShareStart, Begin, Live
  <1>14. ASSUME NEW r \in Requests, ShareCopy(r)
        PROVE  DrawnIds'
    BY <1>14 DEF ShareCopy, At, Finish, NewDoc
  <1>15. ASSUME NEW c \in Cleaners, CleanStart(c)
        PROVE  DrawnIds'
    BY <1>15 DEF CleanStart, Begin, Live
  <1>16. ASSUME NEW r \in Slots, Purge(r)
        PROVE  DrawnIds'
    BY <1>16 DEF Purge, Continue
  <1>17. ASSUME NEW r \in Slots, Mark(r)
        PROVE  DrawnIds'
    BY <1>17 DEF Mark, At, Finish, Tombstone
  <1>18. ASSUME NEW r \in Slots, Abort(r)
        PROVE  DrawnIds'
    BY <1>18 DEF Abort, Finish
  <1>19. ASSUME NEW f \in Ids, Age(f)
        PROVE  DrawnIds'
    BY <1>19 DEF Age
  <1>20. CASE UNCHANGED vars
    BY <1>20 DEF vars
  <1>21. QED
    BY ONLY [Next]_vars, <1>1, <1>2, <1>3, <1>4, <1>5, <1>6, <1>7, <1>8, <1>9, <1>10,
       <1>11, <1>12, <1>13, <1>14, <1>15, <1>16, <1>17, <1>18, <1>19, <1>20
    DEF Next, Upload, Serve

\* An upload saved again has the owner it had before.
LEMMA StepUploadOwners ==
  ASSUME IInv, TypeOK', [Next]_vars
  PROVE  UploadOwners'
  <1> USE ConstantsOK, NoneIsNothing
      DEF IInv, TypeOK, UploadOwners, DrawnIds, RequestFacts, Ids, Slots, Doc, Request
  <1>1. ASSUME NEW s \in Sessions, InitUpload(s)
        PROVE  UploadOwners'
    BY <1>1 DEF InitUpload
  <1>2. ASSUME NEW f \in Ids, Put(f)
        PROVE  UploadOwners'
    BY <1>2 DEF Put
  <1>3. ASSUME NEW f \in Ids, UrlExpire(f)
        PROVE  UploadOwners'
    BY <1>3 DEF UrlExpire
  <1>4. ASSUME NEW r \in Requests, NEW s \in Sessions, NEW F \in SUBSET Ids,
               CompleteStart(r, s, F)
        PROVE  UploadOwners'
    BY <1>4 DEF CompleteStart, Begin
  <1>5. ASSUME NEW r \in Requests, CompleteHead(r)
        PROVE  UploadOwners'
    BY <1>5 DEF CompleteHead, At, Continue, Finish
  <1>6. ASSUME NEW r \in Requests, CompleteSave(r)
        PROVE  UploadOwners'
    BY <1>6 DEF CompleteSave, At, Continue, NewDoc
  <1>7. ASSUME NEW r \in Requests, CompleteCount(r)
        PROVE  UploadOwners'
    BY <1>7 DEF CompleteCount, At, Finish
  <1>8. ASSUME NEW r \in Requests, CompleteCountFails(r)
        PROVE  UploadOwners'
    BY <1>8 DEF CompleteCountFails, At, Continue
  <1>9. ASSUME NEW r \in Requests, CompleteUndone(r)
        PROVE  UploadOwners'
    BY <1>9 DEF CompleteUndone, At, Finish
  <1>10. ASSUME NEW r \in Requests, NEW s \in Sessions, NEW f \in Ids,
               NEW p \in BOOLEAN, DeleteStart(r, s, f, p)
        PROVE  UploadOwners'
    BY <1>10 DEF DeleteStart, Begin
  <1>11. ASSUME NEW r \in Requests, NEW u \in Users, WipeStart(r, u)
        PROVE  UploadOwners'
    BY <1>11 DEF WipeStart, Begin
  <1>12. ASSUME NEW r \in Requests, WipeDrop(r)
        PROVE  UploadOwners'
    BY <1>12 DEF WipeDrop, At, Finish, OwnedBy
  <1>13. ASSUME NEW r \in Requests, NEW u \in Users, NEW s \in Sessions,
               NEW f \in Ids, ShareStart(r, u, s, f)
        PROVE  UploadOwners'
    BY <1>13 DEF ShareStart, Begin, Live
  <1>14. ASSUME NEW r \in Requests, ShareCopy(r)
        PROVE  UploadOwners'
    BY <1>14 DEF ShareCopy, At, Finish, NewDoc
  <1>15. ASSUME NEW c \in Cleaners, CleanStart(c)
        PROVE  UploadOwners'
    BY <1>15 DEF CleanStart, Begin, Live
  <1>16. ASSUME NEW r \in Slots, Purge(r)
        PROVE  UploadOwners'
    BY <1>16 DEF Purge, Continue
  <1>17. ASSUME NEW r \in Slots, Mark(r)
        PROVE  UploadOwners'
    BY <1>17 DEF Mark, At, Finish, Tombstone
  <1>18. ASSUME NEW r \in Slots, Abort(r)
        PROVE  UploadOwners'
    BY <1>18 DEF Abort, Finish
  <1>19. ASSUME NEW f \in Ids, Age(f)
        PROVE  UploadOwners'
    BY <1>19 DEF Age
  <1>20. CASE UNCHANGED vars
    BY <1>20 DEF vars
  <1>21. QED
    BY ONLY [Next]_vars, <1>1, <1>2, <1>3, <1>4, <1>5, <1>6, <1>7, <1>8, <1>9, <1>10,
       <1>11, <1>12, <1>13, <1>14, <1>15, <1>16, <1>17, <1>18, <1>19, <1>20
    DEF Next, Upload, Serve

\* What one request relies on, no step of another one breaks.
LEMMA StepRequestFacts ==
  ASSUME IInv, TypeOK', [Next]_vars
  PROVE  RequestFacts'
  <1> USE ConstantsOK, NoneIsNothing
      DEF IInv, TypeOK, RequestFacts, UploadOwners, DrawnIds, ContentUnlessPurged, Live,
          Accounted, Ids, Slots, Doc, Request
  <1>1. ASSUME NEW s \in Sessions, InitUpload(s)
        PROVE  RequestFacts'
    BY <1>1 DEF InitUpload
  <1>2. ASSUME NEW f \in Ids, Put(f)
        PROVE  RequestFacts'
    BY <1>2 DEF Put
  <1>3. ASSUME NEW f \in Ids, UrlExpire(f)
        PROVE  RequestFacts'
    BY <1>3 DEF UrlExpire
  <1>4. ASSUME NEW r \in Requests, NEW s \in Sessions, NEW F \in SUBSET Ids,
               CompleteStart(r, s, F)
        PROVE  RequestFacts'
    BY <1>4 DEF CompleteStart, Begin
  <1>5. ASSUME NEW r \in Requests, CompleteHead(r)
        PROVE  RequestFacts'
    BY <1>5, SMTT(20) DEF CompleteHead, At, Continue, Finish
  <1>6. ASSUME NEW r \in Requests, CompleteSave(r)
        PROVE  RequestFacts'
    <2>1. /\ reqs[r] # None /\ reqs[r].op = "complete"
          /\ reqs' = [reqs EXCEPT ![r] =
               [op |-> "complete", pc |-> "count", by |-> reqs[r].by,
                session |-> reqs[r].session, ids |-> reqs[r].ids, keys |-> reqs[r].keys]]
          /\ UNCHANGED <<objects, urls, origin, aged, drawn, purged>>
      BY <1>6 DEF CompleteSave, At, Continue
    <2>2. \A f \in Ids : docs'[f] # docs[f] =>
            /\ docs[f] = None /\ docs'[f] # None /\ docs'[f].owner = reqs[r].by
            /\ origin[f] # None /\ Sender[origin[f]] = reqs[r].by
      BY <1>6 DEF CompleteSave, At, NewDoc
    <2>3. QED
      BY <2>1, <2>2
  <1>7. ASSUME NEW r \in Requests, CompleteCount(r)
        PROVE  RequestFacts'
    BY <1>7 DEF CompleteCount, At, Finish
  <1>8. ASSUME NEW r \in Requests, CompleteCountFails(r)
        PROVE  RequestFacts'
    BY <1>8 DEF CompleteCountFails, At, Continue
  <1>9. ASSUME NEW r \in Requests, CompleteUndone(r)
        PROVE  RequestFacts'
    BY <1>9 DEF CompleteUndone, At, Finish
  <1>10. ASSUME NEW r \in Requests, NEW s \in Sessions, NEW f \in Ids,
               NEW p \in BOOLEAN, DeleteStart(r, s, f, p)
        PROVE  RequestFacts'
    BY <1>10 DEF DeleteStart, Begin
  <1>11. ASSUME NEW r \in Requests, NEW u \in Users, WipeStart(r, u)
        PROVE  RequestFacts'
    BY <1>11 DEF WipeStart, Begin
  <1>12. ASSUME NEW r \in Requests, WipeDrop(r)
        PROVE  RequestFacts'
    BY <1>12 DEF WipeDrop, At, Finish, OwnedBy
  <1>13. ASSUME NEW r \in Requests, NEW u \in Users, NEW s \in Sessions,
               NEW f \in Ids, ShareStart(r, u, s, f)
        PROVE  RequestFacts'
    BY <1>13 DEF ShareStart, Begin, Live
  <1>14. ASSUME NEW r \in Requests, ShareCopy(r)
        PROVE  RequestFacts'
    BY <1>14 DEF ShareCopy, At, Finish, NewDoc
  <1>15. ASSUME NEW c \in Cleaners, CleanStart(c)
        PROVE  RequestFacts'
    <2>1. PICK F \in SUBSET aged :
            Begin(c, "clean", "purge", System, None, F, KeysOf(F))
      BY <1>15 DEF CleanStart
    <2>2. /\ reqs'[c] = [op |-> "clean", pc |-> "purge", by |-> System, session |-> None,
                        ids |-> F, keys |-> KeysOf(F)]
          /\ \A r \in Slots \ {c} : reqs'[r] = reqs[r]
          /\ UNCHANGED <<objects, docs, origin, aged, purged>>
      BY <1>15, <2>1 DEF CleanStart, Begin
    <2>3. QED
      BY <2>2
  <1>16. ASSUME NEW r \in Slots, Purge(r)
        PROVE  RequestFacts'
    <2>1. PICK k \in reqs[r].keys : Continue(r, "purge", reqs[r].ids, reqs[r].keys \ {k})
      BY <1>16 DEF Purge
    <2>2. /\ reqs[r] # None
          /\ reqs' = [reqs EXCEPT ![r] =
               [op |-> reqs[r].op, pc |-> "purge", by |-> reqs[r].by,
                session |-> reqs[r].session, ids |-> reqs[r].ids, keys |-> reqs[r].keys \ {k}]]
      BY <1>16, <2>1 DEF Purge, Continue
    <2>3. UNCHANGED <<docs, origin, aged>> /\ Accounted \subseteq Accounted'
      BY <1>16 DEF Purge
    <2>4. ASSUME NEW q \in Slots, reqs'[q] # None
          PROVE  /\ reqs[q] # None /\ reqs'[q].op = reqs[q].op /\ reqs'[q].by = reqs[q].by
                 /\ reqs'[q].session = reqs[q].session /\ reqs'[q].ids = reqs[q].ids
                 /\ reqs'[q].keys \subseteq reqs[q].keys
                 /\ reqs'[q].pc \in {reqs[q].pc, "purge"}
      BY <2>2, <2>4
    <2>5. QED
      BY <2>3, <2>4
  <1>17. ASSUME NEW r \in Slots, Mark(r)
        PROVE  RequestFacts'
    BY <1>17 DEF Mark, At, Finish, Tombstone
  <1>18. ASSUME NEW r \in Slots, Abort(r)
        PROVE  RequestFacts'
    BY <1>18 DEF Abort, Finish
  <1>19. ASSUME NEW f \in Ids, Age(f)
        PROVE  RequestFacts'
    BY <1>19 DEF Age
  <1>20. CASE UNCHANGED vars
    BY <1>20 DEF vars
  <1>21. QED
    BY ONLY [Next]_vars, <1>1, <1>2, <1>3, <1>4, <1>5, <1>6, <1>7, <1>8, <1>9, <1>10,
       <1>11, <1>12, <1>13, <1>14, <1>15, <1>16, <1>17, <1>18, <1>19, <1>20
    DEF Next, Upload, Serve

\* No step leaves a live document without content by accident.
LEMMA StepContentUnlessPurged ==
  ASSUME IInv, TypeOK', [Next]_vars
  PROVE  ContentUnlessPurged'
  <1> USE ConstantsOK, NoneIsNothing
      DEF IInv, TypeOK, RequestFacts, ContentUnlessPurged, Live, Accounted, Ids, Slots,
          Doc, Request
  <1>1. ASSUME NEW s \in Sessions, InitUpload(s)
        PROVE  ContentUnlessPurged'
    BY <1>1 DEF InitUpload
  <1>2. ASSUME NEW f \in Ids, Put(f)
        PROVE  ContentUnlessPurged'
    BY <1>2 DEF Put
  <1>3. ASSUME NEW f \in Ids, UrlExpire(f)
        PROVE  ContentUnlessPurged'
    BY <1>3 DEF UrlExpire
  <1>4. ASSUME NEW r \in Requests, NEW s \in Sessions, NEW F \in SUBSET Ids,
               CompleteStart(r, s, F)
        PROVE  ContentUnlessPurged'
    BY <1>4 DEF CompleteStart, Begin
  <1>5. ASSUME NEW r \in Requests, CompleteHead(r)
        PROVE  ContentUnlessPurged'
    BY <1>5 DEF CompleteHead, At, Continue, Finish
  <1>6. ASSUME NEW r \in Requests, CompleteSave(r)
        PROVE  ContentUnlessPurged'
    BY <1>6 DEF CompleteSave, At, Continue, NewDoc
  <1>7. ASSUME NEW r \in Requests, CompleteCount(r)
        PROVE  ContentUnlessPurged'
    BY <1>7 DEF CompleteCount, At, Finish
  <1>8. ASSUME NEW r \in Requests, CompleteCountFails(r)
        PROVE  ContentUnlessPurged'
    BY <1>8 DEF CompleteCountFails, At, Continue
  <1>9. ASSUME NEW r \in Requests, CompleteUndone(r)
        PROVE  ContentUnlessPurged'
    BY <1>9 DEF CompleteUndone, At, Finish
  <1>10. ASSUME NEW r \in Requests, NEW s \in Sessions, NEW f \in Ids,
               NEW p \in BOOLEAN, DeleteStart(r, s, f, p)
        PROVE  ContentUnlessPurged'
    BY <1>10 DEF DeleteStart, Begin
  <1>11. ASSUME NEW r \in Requests, NEW u \in Users, WipeStart(r, u)
        PROVE  ContentUnlessPurged'
    BY <1>11 DEF WipeStart, Begin
  <1>12. ASSUME NEW r \in Requests, WipeDrop(r)
        PROVE  ContentUnlessPurged'
    BY <1>12 DEF WipeDrop, At, Finish, OwnedBy
  <1>13. ASSUME NEW r \in Requests, NEW u \in Users, NEW s \in Sessions,
               NEW f \in Ids, ShareStart(r, u, s, f)
        PROVE  ContentUnlessPurged'
    BY <1>13 DEF ShareStart, Begin, Live
  <1>14. ASSUME NEW r \in Requests, ShareCopy(r)
        PROVE  ContentUnlessPurged'
    BY <1>14 DEF ShareCopy, At, Finish, NewDoc
  <1>15. ASSUME NEW c \in Cleaners, CleanStart(c)
        PROVE  ContentUnlessPurged'
    BY <1>15 DEF CleanStart, Begin, Live
  <1>16. ASSUME NEW r \in Slots, Purge(r)
        PROVE  ContentUnlessPurged'
    BY <1>16 DEF Purge, Continue
  <1>17. ASSUME NEW r \in Slots, Mark(r)
        PROVE  ContentUnlessPurged'
    BY <1>17 DEF Mark, At, Finish, Tombstone
  <1>18. ASSUME NEW r \in Slots, Abort(r)
        PROVE  ContentUnlessPurged'
    BY <1>18 DEF Abort, Finish
  <1>19. ASSUME NEW f \in Ids, Age(f)
        PROVE  ContentUnlessPurged'
    BY <1>19 DEF Age
  <1>20. CASE UNCHANGED vars
    BY <1>20 DEF vars
  <1>21. QED
    BY ONLY [Next]_vars, <1>1, <1>2, <1>3, <1>4, <1>5, <1>6, <1>7, <1>8, <1>9, <1>10,
       <1>11, <1>12, <1>13, <1>14, <1>15, <1>16, <1>17, <1>18, <1>19, <1>20
    DEF Next, Upload, Serve

-----------------------------------------------------------------------------
\* The inductive invariant holds in every reachable state.
THEOREM Invariance == Spec => []IInv
  <1>1. IInv /\ [Next]_vars => IInv'
    BY StepTypeOK, StepDrawnIds, StepUploadOwners, StepRequestFacts,
       StepContentUnlessPurged DEF IInv
  <1>2. QED
    BY <1>1, InitIInv, PTL DEF Spec

\* Documents, objects, URLs and requests keep their types.
THEOREM TypeCorrect == Spec => []TypeOK
  <1>1. IInv => TypeOK
    BY DEF IInv
  <1>2. QED
    BY <1>1, Invariance, PTL

\* A live document has its content, unless that was deleted on purpose.
THEOREM ContentIsKept == Spec => []ContentUnlessPurged
  <1>1. IInv => ContentUnlessPurged
    BY DEF IInv
  <1>2. QED
    BY <1>1, Invariance, PTL

\* No completion, share or cleanup revives a document marked deleted.
THEOREM TombstonesAreFinal == Spec => TombstonesStay
  <1> DEFINE Stay == \A f \in Ids : docs[f] # None /\ docs[f].deleted /\ docs'[f] # None
                                      => docs'[f].deleted
  <1>1. IInv /\ [Next]_vars => [Stay]_vars
    <2> SUFFICES ASSUME IInv, Next, NEW f \in Ids,
                        docs[f] # None, docs[f].deleted, docs'[f] # None
                 PROVE  docs'[f].deleted
      BY DEF vars
    <2> USE DEF IInv, TypeOK, Ids
    <2>1. CASE UNCHANGED docs
      BY <2>1
    <2>2. ASSUME NEW r \in Requests, CompleteSave(r) PROVE docs'[f].deleted
      BY <2>2 DEF CompleteSave
    <2>3. ASSUME NEW r \in Requests, WipeDrop(r) PROVE docs'[f].deleted
      BY <2>3 DEF WipeDrop
    <2>4. ASSUME NEW r \in Requests, ShareCopy(r) PROVE docs'[f].deleted
      <3>1. f # drawn + 1
        BY DEF DrawnIds
      <3>2. QED
        BY <2>4, <3>1 DEF ShareCopy
    <2>5. ASSUME NEW r \in Slots, Mark(r) PROVE docs'[f].deleted
      BY <2>5 DEF Mark, Tombstone
    <2>6. QED
      BY <2>1, <2>2, <2>3, <2>4, <2>5
      DEF Next, Upload, Serve, InitUpload, Put, UrlExpire, CompleteStart, CompleteHead,
          CompleteCount, CompleteCountFails, CompleteUndone, DeleteStart, WipeStart,
          ShareStart, CleanStart, Purge, Abort, Age
  <1>2. QED
    BY <1>1, Invariance, PTL DEF Spec, TombstonesStay

\* Only its owner's request, or the cleaner after the retention period, ends the
\* life of a document, whatever happened since the request read it.
THEOREM DeletionsAreAuthorised == Spec => DeletionIsAuthorised
  <1> DEFINE Authorised(f) ==
        \E r \in Slots : /\ reqs[r] # None
                         /\ \/ reqs[r].op \in {"delete", "wipe"} /\ reqs[r].by = docs[f].owner
                            \/ reqs[r].op = "clean" /\ f \in aged
  <1>1. IInv /\ [Next]_vars => [\A f \in Ids : Live(f) /\ ~Live(f)' => Authorised(f)]_vars
    <2> SUFFICES ASSUME IInv, Next, NEW f \in Ids, Live(f), ~Live(f)'
                 PROVE  Authorised(f)
      BY DEF vars
    <2> USE DEF IInv, TypeOK, Live
    <2>1. CASE UNCHANGED docs
      BY <2>1
    <2>2. ASSUME NEW r \in Requests, CompleteSave(r) PROVE FALSE
      BY <2>2 DEF CompleteSave
    <2>3. ASSUME NEW r \in Requests, WipeDrop(r) PROVE Authorised(f)
      BY <2>3 DEF WipeDrop, At, OwnedBy, Slots
    <2>4. ASSUME NEW r \in Requests, ShareCopy(r) PROVE FALSE
      <3>1. f # drawn + 1
        BY DEF DrawnIds, Ids
      <3>2. QED
        BY <2>4, <3>1 DEF ShareCopy
    <2>5. ASSUME NEW r \in Slots, Mark(r) PROVE Authorised(f)
      <3>1. f \in reqs[r].ids /\ reqs[r] # None /\ reqs[r].op \in {"delete", "clean"}
        BY <2>5 DEF Mark, At
      <3>2. QED
        BY <3>1 DEF RequestFacts
    <2>6. QED
      BY <2>1, <2>2, <2>3, <2>4, <2>5
      DEF Next, Upload, Serve, InitUpload, Put, UrlExpire, CompleteStart, CompleteHead,
          CompleteCount, CompleteCountFails, CompleteUndone, DeleteStart, WipeStart,
          ShareStart, CleanStart, Purge, Abort, Age
  <1>2. QED
    BY <1>1, Invariance, PTL DEF Spec, DeletionIsAuthorised

-----------------------------------------------------------------------------
(* The storage circuit breaker. *)

BreakerInv == Breaker!TypeOK /\ Breaker!ClosedBelowThreshold /\ Breaker!PermitsConserved

\* Cardinality and IsFiniteSet mean the same in the breaker's instance.
LEMMA SameCardinality == \A S : Breaker!Cardinality(S) = Cardinality(S)
  BY DEF Breaker!Cardinality, Cardinality
\* As above, for finiteness.
LEMMA SameFinite == \A S : Breaker!IsFiniteSet(S) = IsFiniteSet(S)
  BY Zenon DEF Breaker!IsFiniteSet, IsFiniteSet

\* The breaker starts closed, with no failure counted and every permit free.
LEMMA BreakerInit == Breaker!Init => BreakerInv
  <1> SUFFICES ASSUME Breaker!Init PROVE BreakerInv
    OBVIOUS
  <1>1. Breaker!TypeOK /\ Breaker!ClosedBelowThreshold
    BY BreakerConstantsOK DEF Breaker!ConstantsOK, Breaker!Init, Breaker!TypeOK, Breaker!ClosedBelowThreshold,
           Breaker!Ended
  <1>2. Breaker!Holders = {}
    BY DEF Breaker!Init, Breaker!Holders, Breaker!Calls
  <1>3. QED
    BY <1>1, <1>2, FS_EmptySet, SameCardinality, BreakerConstantsOK
    DEF BreakerInv, Breaker!ConstantsOK, Breaker!Init, Breaker!PermitsConserved

\* The permits taken and given back are those of the calls that start and stop
\* holding one.
LEMMA HoldersChange ==
  ASSUME BreakerInv, NEW c \in Breaker!Calls, NEW p,
         pc' = [pc EXCEPT ![c] = p]
  PROVE  /\ IsFiniteSet(Breaker!Holders) /\ Cardinality(Breaker!Holders) \in Nat
         /\ c \in Breaker!Holders /\ p \notin {"entering", "running"} =>
              /\ Cardinality(Breaker!Holders') = Cardinality(Breaker!Holders) - 1
              /\ permits < Permits
         /\ c \in Presigns /\ c \notin Breaker!Holders /\ p \in {"entering", "running"} =>
              Cardinality(Breaker!Holders') = Cardinality(Breaker!Holders) + 1
         /\ c \notin Presigns \/ (c \in Breaker!Holders <=> p \in {"entering", "running"}) =>
              Breaker!Holders' = Breaker!Holders
  <1>1. IsFiniteSet(Breaker!Holders) /\ Cardinality(Breaker!Holders) \in Nat
    BY FS_Subset, FS_CardinalityType, SameFinite, BreakerConstantsOK
    DEF Breaker!ConstantsOK, Breaker!Holders
  <1>2. ASSUME c \in Breaker!Holders, p \notin {"entering", "running"}
        PROVE  Cardinality(Breaker!Holders') = Cardinality(Breaker!Holders) - 1 /\ permits < Permits
    <2>1. Breaker!Holders' = Breaker!Holders \ {c}
      BY <1>2 DEF BreakerInv, Breaker!Holders, Breaker!TypeOK, Breaker!Calls
    <2>2. Cardinality(Breaker!Holders \ {c}) = Cardinality(Breaker!Holders) - 1
      BY <1>1, <1>2, FS_RemoveElement
    <2>3. IsFiniteSet(Breaker!Holders \ {c})
      BY <1>1, FS_RemoveElement
    <2>4. Cardinality(Breaker!Holders \ {c}) \in Nat
      BY <2>3, FS_CardinalityType
    <2>5. QED
      BY <1>1, <2>1, <2>2, <2>4, SameCardinality, BreakerConstantsOK
      DEF BreakerInv, Breaker!ConstantsOK, Breaker!PermitsConserved, Breaker!TypeOK
  <1>3. ASSUME c \in Presigns, c \notin Breaker!Holders, p \in {"entering", "running"}
        PROVE  Cardinality(Breaker!Holders') = Cardinality(Breaker!Holders) + 1
    <2>1. Breaker!Holders' = Breaker!Holders \cup {c}
      BY <1>3 DEF BreakerInv, Breaker!Holders, Breaker!TypeOK, Breaker!Calls
    <2>2. QED
      BY <1>1, <1>3, <2>1, FS_AddElement
  <1>4. ASSUME c \notin Presigns \/ (c \in Breaker!Holders <=> p \in {"entering", "running"})
        PROVE  Breaker!Holders' = Breaker!Holders
    BY <1>4 DEF BreakerInv, Breaker!Holders, Breaker!TypeOK, Breaker!Calls
  <1>5. QED
    BY <1>1, <1>2, <1>3, <1>4

\* Every step keeps the types, the breaker's reading of its counter, and the
\* permits.
LEMMA BreakerStep ==
  ASSUME BreakerInv, [Breaker!Next]_(Breaker!vars)
  PROVE  BreakerInv'
  <1> USE BreakerConstantsOK
      DEF BreakerInv, Breaker!ConstantsOK, Breaker!TypeOK, Breaker!ClosedBelowThreshold,
          Breaker!PermitsConserved, Breaker!Ended
  <1>1. ASSUME NEW c \in Breaker!Calls, Breaker!Start(c)
        PROVE  BreakerInv'
    <2>1. pc' = [pc EXCEPT ![c] = IF c \in Presigns THEN "queued" ELSE "entering"]
      BY <1>1 DEF Breaker!Start
    <2>2. Breaker!PermitsConserved' /\ permits' \in 0..Permits
      BY <1>1, <2>1, HoldersChange DEF Breaker!Start, Breaker!Holders, Breaker!Calls
    <2>3. QED
      BY <1>1, <2>1, <2>2 DEF Breaker!Start
  <1>2. ASSUME NEW c \in Breaker!Calls, Breaker!Acquire(c)
        PROVE  BreakerInv'
    <2>1. pc' = [pc EXCEPT ![c] = "entering"]
      BY <1>2 DEF Breaker!Acquire
    <2>2. Breaker!PermitsConserved' /\ permits' \in 0..Permits
      <3>1. c \in Presigns /\ c \notin Breaker!Holders
        BY <1>2 DEF Breaker!Acquire, Breaker!Holders
      <3>2. /\ Cardinality(Breaker!Holders') = Cardinality(Breaker!Holders) + 1
            /\ Cardinality(Breaker!Holders) \in Nat
        BY <2>1, <3>1, HoldersChange
      <3>3. permits' = permits - 1 /\ permits > 0
        BY <1>2 DEF Breaker!Acquire
      <3>4. QED
        BY <3>2, <3>3, SameCardinality
    <2>3. QED
      BY <1>2, <2>1, <2>2 DEF Breaker!Acquire
  <1>3. ASSUME NEW c \in Breaker!Calls, Breaker!Enter(c)
        PROVE  BreakerInv'
    <2>1. pc' = [pc EXCEPT ![c] = "running"]
      BY <1>3 DEF Breaker!Enter, Breaker!Admit
    <2>2. Breaker!PermitsConserved' /\ permits' \in 0..Permits
      BY <1>3, <2>1, HoldersChange DEF Breaker!Enter, Breaker!Admit, Breaker!Holders, Breaker!Calls
    <2>3. QED
      BY <1>3, <2>1, <2>2 DEF Breaker!Enter, Breaker!Admit
  <1>4. ASSUME NEW c \in Breaker!Calls, Breaker!Probe(c)
        PROVE  BreakerInv'
    <2>1. pc' = [pc EXCEPT ![c] = "running"]
      BY <1>4 DEF Breaker!Probe, Breaker!Admit
    <2>2. Breaker!PermitsConserved' /\ permits' \in 0..Permits
      BY <1>4, <2>1, HoldersChange DEF Breaker!Probe, Breaker!Admit, Breaker!Holders, Breaker!Calls
    <2>3. QED
      BY <1>4, <2>1, <2>2 DEF Breaker!Probe, Breaker!Admit
  <1>5. ASSUME NEW c \in Breaker!Calls, Breaker!Refuse(c)
        PROVE  BreakerInv'
    <2>1. pc' = [pc EXCEPT ![c] = "refused"]
      BY <1>5 DEF Breaker!Refuse
    <2>2. Breaker!PermitsConserved' /\ permits' \in 0..Permits
      <3>1. c \in Presigns => c \in Breaker!Holders
        BY <1>5 DEF Breaker!Refuse, Breaker!Holders
      <3>2. permits' = IF c \in Presigns THEN permits + 1 ELSE permits
        BY <1>5 DEF Breaker!Refuse, Breaker!Release
      <3>3. CASE c \in Presigns
        <4>1. /\ Cardinality(Breaker!Holders') = Cardinality(Breaker!Holders) - 1
              /\ permits < Permits
              /\ Cardinality(Breaker!Holders) \in Nat
          <5>1. c \in Breaker!Holders /\ "refused" \notin {"entering", "running"}
            BY <3>1, <3>3
          <5>2. QED
            BY ONLY <2>1, <5>1, HoldersChange, BreakerInv
        <4>2. QED
          BY <3>2, <3>3, <4>1, SameCardinality
      <3>4. CASE c \notin Presigns
        <4>1. Breaker!Holders' = Breaker!Holders /\ Cardinality(Breaker!Holders) \in Nat
          BY <2>1, <3>4, HoldersChange
        <4>2. QED
          BY <3>2, <3>4, <4>1, SameCardinality
      <3>5. QED
        BY <3>3, <3>4
    <2>3. QED
      BY <1>5, <2>1, <2>2 DEF Breaker!Refuse, Breaker!Release
  <1>6. ASSUME NEW c \in Breaker!Calls, Breaker!Succeed(c)
        PROVE  BreakerInv'
    <2>1. pc' = [pc EXCEPT ![c] = "returned"]
      BY <1>6 DEF Breaker!Succeed
    <2>2. Breaker!PermitsConserved' /\ permits' \in 0..Permits
      <3>1. c \in Presigns => c \in Breaker!Holders
        BY <1>6 DEF Breaker!Succeed, Breaker!Holders
      <3>2. permits' = IF c \in Presigns THEN permits + 1 ELSE permits
        BY <1>6 DEF Breaker!Succeed, Breaker!Release
      <3>3. CASE c \in Presigns
        <4>1. /\ Cardinality(Breaker!Holders') = Cardinality(Breaker!Holders) - 1
              /\ permits < Permits
              /\ Cardinality(Breaker!Holders) \in Nat
          <5>1. c \in Breaker!Holders /\ "returned" \notin {"entering", "running"}
            BY <3>1, <3>3
          <5>2. QED
            BY ONLY <2>1, <5>1, HoldersChange, BreakerInv
        <4>2. QED
          BY <3>2, <3>3, <4>1, SameCardinality
      <3>4. CASE c \notin Presigns
        <4>1. Breaker!Holders' = Breaker!Holders /\ Cardinality(Breaker!Holders) \in Nat
          BY <2>1, <3>4, HoldersChange
        <4>2. QED
          BY <3>2, <3>4, <4>1, SameCardinality
      <3>5. QED
        BY <3>3, <3>4
    <2>3. QED
      BY <1>6, <2>1, <2>2 DEF Breaker!Succeed, Breaker!Release
  <1>7. ASSUME NEW c \in Breaker!Calls, Breaker!Missing(c)
        PROVE  BreakerInv'
    <2>1. pc' = [pc EXCEPT ![c] = "missing"]
      BY <1>7 DEF Breaker!Missing
    <2>2. Breaker!PermitsConserved' /\ permits' \in 0..Permits
      BY <1>7, <2>1, HoldersChange
      DEF Breaker!Missing, Breaker!Release, Breaker!Holders, Breaker!Calls
    <2>3. QED
      BY <1>7, <2>1, <2>2 DEF Breaker!Missing, Breaker!Release
  <1>8. ASSUME NEW c \in Breaker!Calls, Breaker!Fail(c)
        PROVE  BreakerInv'
    <2>1. pc' = [pc EXCEPT ![c] = "failed"]
      BY <1>8 DEF Breaker!Fail
    <2>2. Breaker!PermitsConserved' /\ permits' \in 0..Permits
      <3>1. c \in Presigns => c \in Breaker!Holders
        BY <1>8 DEF Breaker!Fail, Breaker!Holders
      <3>2. permits' = IF c \in Presigns THEN permits + 1 ELSE permits
        BY <1>8 DEF Breaker!Fail, Breaker!Release
      <3>3. CASE c \in Presigns
        <4>1. /\ Cardinality(Breaker!Holders') = Cardinality(Breaker!Holders) - 1
              /\ permits < Permits
              /\ Cardinality(Breaker!Holders) \in Nat
          <5>1. c \in Breaker!Holders /\ "failed" \notin {"entering", "running"}
            BY <3>1, <3>3
          <5>2. QED
            BY ONLY <2>1, <5>1, HoldersChange, BreakerInv
        <4>2. QED
          BY <3>2, <3>3, <4>1, SameCardinality
      <3>4. CASE c \notin Presigns
        <4>1. Breaker!Holders' = Breaker!Holders /\ Cardinality(Breaker!Holders) \in Nat
          BY <2>1, <3>4, HoldersChange
        <4>2. QED
          BY <3>2, <3>4, <4>1, SameCardinality
      <3>5. QED
        BY <3>3, <3>4
    <2>3. QED
      BY <1>8, <2>1, <2>2 DEF Breaker!Fail, Breaker!Release
  <1>9. ASSUME NEW c \in Breaker!Calls, Breaker!Reset(c)
        PROVE  BreakerInv'
    <2>1. pc' = [pc EXCEPT ![c] = "idle"]
      BY <1>9 DEF Breaker!Reset
    <2>2. Breaker!PermitsConserved' /\ permits' \in 0..Permits
      BY <1>9, <2>1, HoldersChange DEF Breaker!Reset, Breaker!Holders, Breaker!Calls
    <2>3. QED
      BY <1>9, <2>1, <2>2 DEF Breaker!Reset
  <1>10. CASE Breaker!Tick
    BY <1>10 DEF Breaker!Tick, Breaker!Holders
  <1>11. CASE Breaker!StorageTurns
    BY <1>11 DEF Breaker!StorageTurns, Breaker!Holders
  <1>12. CASE UNCHANGED Breaker!vars
    BY <1>12 DEF Breaker!vars, Breaker!Holders
  <1>13. QED
    BY <1>1, <1>2, <1>3, <1>4, <1>5, <1>6, <1>7, <1>8, <1>9, <1>10, <1>11, <1>12
    DEF Breaker!Next, Breaker!Step

\* The breaker of file_controller.py keeps its types, is closed exactly below
\* the threshold, and leaks no permit, for any number of calls.
THEOREM BreakerInvariance == BreakerSpec => []BreakerInv
  BY BreakerInit, BreakerStep, PTL DEF BreakerSpec, Breaker!Spec

\* Every field of the breaker, of the semaphore and of its calls keeps its type.
THEOREM BreakerTypeCorrect == BreakerSpec => []Breaker!TypeOK
  BY BreakerInvariance, PTL DEF BreakerInv

\* The breaker is closed exactly while fewer than failure_threshold failures
\* are counted.
THEOREM BreakerStateMatchesCount == BreakerSpec => []ClosedBelowThreshold
  BY BreakerInvariance, PTL DEF BreakerInv, ClosedBelowThreshold

\* No path through a guarded call keeps a permit of UPLOAD_SEMAPHORE.
THEOREM NoPermitLeaks == BreakerSpec => []PermitsConserved
  BY BreakerInvariance, PTL DEF BreakerInv, PermitsConserved
=============================================================================
