------------------------------- MODULE FileStore -------------------------------
(***************************************************************************)
(* Files: the metadata in the files collection and the content in the      *)
(* MinIO bucket, as uploads, shares, deletions and the retention cleaner   *)
(* change them.  No transaction spans the two stores: a request is a       *)
(* record that moves from one database or storage call to the next, and    *)
(* any call may fail, be late, or be the last before the worker dies.      *)
(*                                                                         *)
(* An uploaded file's storage key is one to one with its file_id, so the   *)
(* same number stands for both; a shared copy has an id of its own and the *)
(* key of the original.                                                    *)
(***************************************************************************)
EXTENDS Naturals, FiniteSets

CONSTANTS
  Sessions,     \* sharing sessions, as verify_x_sharing_token hands them on
  Users,
  Sender,       \* sender_ID of each session
  Receiver,     \* receiver_ID of each session
  Requests,     \* slots for requests in progress
  Cleaners,     \* the BackgroundCleaner of each worker process
  Batch,        \* how many documents one cleanup looks at (1000)
  MaxFiles,     \* bound: file ids drawn in a behaviour
  None

ASSUME ConstantsOK ==
  /\ Sender \in [Sessions -> Users]
  /\ Receiver \in [Sessions -> Users]
  /\ Requests \cap Cleaners = {}
  /\ Batch \in Nat \ {0}
  /\ MaxFiles \in Nat

Ids == 1..MaxFiles
Slots == Requests \cup Cleaners
System == "system"

Doc == [key : Ids, owner : Users, session : Sessions, deleted : BOOLEAN]
Request == [op : {"complete", "delete", "wipe", "share", "clean"},
            pc : {"head", "save", "count", "purge", "copy"},
            by : Users \cup {System}, session : Sessions \cup {None},
            ids : SUBSET Ids, keys : SUBSET Ids]

ASSUME NoneIsNothing == /\ None \notin Doc
                        /\ None \notin Request
                        /\ None \notin Sessions
                        /\ System \notin Users

VARIABLES
  objects,      \* the keys that have content in the bucket
  docs,         \* the files collection, by file_id
  urls,         \* the uploads whose presigned PUT URL is still valid
  origin,       \* the session each upload was initialised in
  aged,         \* ids whose document is older than the retention period
  reqs,         \* the requests and cleanups in progress
  drawn,        \* how many file ids uuid4 has drawn
  purged        \* history: keys whose content was deleted on purpose

vars == <<objects, docs, urls, origin, aged, reqs, drawn, purged>>

TypeOK ==
  /\ objects \in SUBSET Ids
  /\ docs \in [Ids -> Doc \cup {None}]
  /\ urls \in SUBSET Ids
  /\ origin \in [Ids -> Sessions \cup {None}]
  /\ aged \in SUBSET Ids
  /\ reqs \in [Slots -> Request \cup {None}]
  /\ drawn \in 0..MaxFiles
  /\ purged \in SUBSET Ids

Init ==
  /\ objects = {}
  /\ docs = [f \in Ids |-> None]
  /\ urls = {}
  /\ origin = [f \in Ids |-> None]
  /\ aged = {}
  /\ reqs = [r \in Slots |-> None]
  /\ drawn = 0
  /\ purged = {}

-----------------------------------------------------------------------------
Live(f) == docs[f] # None /\ ~docs[f].deleted
OwnedBy(u) == {f \in Ids : docs[f] # None /\ docs[f].owner = u}
KeysOf(F) == {docs[f].key : f \in F}
NewDoc(k, u, s) == [key |-> k, owner |-> u, session |-> s, deleted |-> FALSE]
Tombstone(d) == [key |-> d.key, owner |-> d.owner, session |-> d.session,
                 deleted |-> TRUE]

At(r, op, pc) == reqs[r] # None /\ reqs[r].op = op /\ reqs[r].pc = pc
Begin(r, op, pc, by, s, ids, keys) ==
  /\ reqs[r] = None
  /\ reqs' = [reqs EXCEPT ![r] = [op |-> op, pc |-> pc, by |-> by, session |-> s,
                                  ids |-> ids, keys |-> keys]]
Continue(r, pc, ids, keys) ==
  reqs' = [reqs EXCEPT ![r] = [op |-> @.op, pc |-> pc, by |-> @.by,
                               session |-> @.session, ids |-> ids, keys |-> keys]]
Finish(r) == reqs' = [reqs EXCEPT ![r] = None]

-----------------------------------------------------------------------------
(* Uploading: init_upload, the client's PUT, complete_upload *)

InitUpload(s) ==
  LET f == drawn + 1
  IN  /\ drawn < MaxFiles
      /\ drawn' = f
      /\ origin' = [origin EXCEPT ![f] = s]
      /\ urls' = urls \cup {f}
      /\ UNCHANGED <<objects, docs, aged, reqs, purged>>

\* A PUT may arrive whenever its URL is valid, a retried or late one after
\* the upload was completed or the file deleted.
Put(f) ==
  /\ f \in urls
  /\ objects' = objects \cup {f}
  /\ UNCHANGED <<docs, urls, origin, aged, reqs, drawn, purged>>

UrlExpire(f) ==
  /\ f \in urls
  /\ urls' = urls \ {f}
  /\ UNCHANGED <<objects, docs, origin, aged, reqs, drawn, purged>>

\* The client reports uploads of its user, again if the first answer was lost,
\* under the session its cookie is for by then.
CompleteStart(r, s, F) ==
  /\ F # {}
  /\ \A f \in F : origin[f] # None /\ Sender[origin[f]] = Sender[s] /\ f \notin aged
  /\ Begin(r, "complete", "head", Sender[s], s, F, {})
  /\ UNCHANGED <<objects, docs, urls, origin, aged, drawn, purged>>

\* Mutant: the client's word is taken for it.
CompleteHead_Trusting(r) ==
  /\ At(r, "complete", "head")
  /\ \E found \in SUBSET reqs[r].ids :
       IF found = {} THEN Finish(r) ELSE Continue(r, "save", found, found)
  /\ UNCHANGED <<objects, docs, urls, origin, aged, drawn, purged>>

\* _verify_and_prepare_document: a file whose HEAD fails is only reported.
CompleteHead(r) ==
  /\ At(r, "complete", "head")
  /\ \E found \in SUBSET (reqs[r].ids \cap objects) :
       IF found = {} THEN Finish(r) ELSE Continue(r, "save", found, found)
  /\ UNCHANGED <<objects, docs, urls, origin, aged, drawn, purged>>

\* Mutant: the documents are upserted.
CompleteSave_Upsert(r) ==
  LET s == reqs[r].session
  IN  /\ At(r, "complete", "save")
      /\ \E saved \in SUBSET reqs[r].ids :
           docs' = [f \in Ids |-> IF f \in saved THEN NewDoc(f, reqs[r].by, s)
                                                 ELSE docs[f]]
      /\ Continue(r, "count", reqs[r].ids, reqs[r].keys)
      /\ UNCHANGED <<objects, urls, origin, aged, drawn, purged>>

\* _save_documents_batch: the unique index refuses an id that is there; this
\* and every other error of an insert is logged and swallowed.
CompleteSave(r) ==
  LET s == reqs[r].session
  IN  /\ At(r, "complete", "save")
      /\ \E saved \in SUBSET {f \in reqs[r].ids : docs[f] = None} :
           docs' = [f \in Ids |-> IF f \in saved THEN NewDoc(f, reqs[r].by, s)
                                                 ELSE docs[f]]
      /\ Continue(r, "count", reqs[r].ids, reqs[r].keys)
      /\ UNCHANGED <<objects, urls, origin, aged, drawn, purged>>

\* increment_usage answers, and so does the request: 201.
CompleteCount(r) ==
  /\ At(r, "complete", "count")
  /\ Finish(r)
  /\ UNCHANGED <<objects, docs, urls, origin, aged, drawn, purged>>

\* Redis does not answer: the content of every verified file is deleted.
CompleteCountFails(r) ==
  /\ At(r, "complete", "count")
  /\ Continue(r, "purge", reqs[r].ids, reqs[r].keys)
  /\ UNCHANGED <<objects, docs, urls, origin, aged, drawn, purged>>

\* 500, "Failed to save file metadata".
CompleteUndone(r) ==
  /\ At(r, "complete", "purge")
  /\ reqs[r].keys = {}
  /\ Finish(r)
  /\ UNCHANGED <<objects, docs, urls, origin, aged, drawn, purged>>

-----------------------------------------------------------------------------
(* Deleting content: _cleanup_storage and delete_many_from_storage remove   *)
(* one object after another, and swallow every error.                       *)

Purge(r) ==
  /\ reqs[r] # None
  /\ reqs[r].pc = "purge"
  /\ \E k \in reqs[r].keys :
       /\ Continue(r, "purge", reqs[r].ids, reqs[r].keys \ {k})
       /\ \/ objects' = objects \ {k} /\ purged' = purged \cup {k}
          \/ UNCHANGED <<objects, purged>>
  /\ UNCHANGED <<docs, urls, origin, aged, drawn>>

\* Mutant: any file of the session may be deleted.
DeleteStart_AnyFile(r, s, f, permanent) ==
  /\ docs[f] # None
  /\ docs[f].session = s
  /\ Begin(r, "delete", "purge", Sender[s], s, {f},
           IF permanent THEN {docs[f].key} ELSE {})
  /\ UNCHANGED <<objects, docs, urls, origin, aged, drawn, purged>>

\* DELETE /files/{file_id}: for the session's sender, and only if that is the
\* file's sender as well.
DeleteStart(r, s, f, permanent) ==
  /\ docs[f] # None
  /\ docs[f].session = s
  /\ docs[f].owner = Sender[s]
  /\ Begin(r, "delete", "purge", Sender[s], s, {f},
           IF permanent THEN {docs[f].key} ELSE {})
  /\ UNCHANGED <<objects, docs, urls, origin, aged, drawn, purged>>

\* BackgroundCleaner.cleanup_expired_files: at most Batch documents a round.
CleanStart(c) ==
  LET old == {f \in aged : Live(f)}
  IN  /\ old # {}
      /\ \E F \in SUBSET old :
           /\ F = old \/ Cardinality(F) = Batch
           /\ Cardinality(F) <= Batch
           /\ Begin(c, "clean", "purge", System, None, F, KeysOf(F))
      /\ UNCHANGED <<objects, docs, urls, origin, aged, drawn, purged>>

\* Mutant: a document is marked only once its content is gone.
Mark_IfGone(r) ==
  /\ At(r, "delete", "purge") \/ At(r, "clean", "purge")
  /\ reqs[r].keys = {}
  /\ docs' = [f \in Ids |->
                IF f \in reqs[r].ids /\ docs[f] # None /\ docs[f].key \notin objects
                THEN Tombstone(docs[f]) ELSE docs[f]]
  /\ Finish(r)
  /\ UNCHANGED <<objects, urls, origin, aged, drawn, purged>>

\* Both end by marking the documents they found deleted, by file_id.
Mark(r) ==
  /\ At(r, "delete", "purge") \/ At(r, "clean", "purge")
  /\ reqs[r].keys = {}
  /\ docs' = [f \in Ids |-> IF f \in reqs[r].ids /\ docs[f] # None
                            THEN Tombstone(docs[f]) ELSE docs[f]]
  /\ Finish(r)
  /\ UNCHANGED <<objects, urls, origin, aged, drawn, purged>>

\* DELETE /files/user/files: delete_all_files_hard reads the keys of the
\* user's documents, deleted ones too ...
WipeStart(r, u) ==
  /\ OwnedBy(u) # {}
  /\ Begin(r, "wipe", "purge", u, None, {}, KeysOf(OwnedBy(u)))
  /\ UNCHANGED <<objects, docs, urls, origin, aged, drawn, purged>>

\* ... and in the end removes the documents the user has by then.
WipeDrop(r) ==
  /\ At(r, "wipe", "purge")
  /\ reqs[r].keys = {}
  /\ docs' = [f \in Ids |-> IF f \in OwnedBy(reqs[r].by) THEN None ELSE docs[f]]
  /\ Finish(r)
  /\ UNCHANGED <<objects, urls, origin, aged, drawn, purged>>

-----------------------------------------------------------------------------
(* Sharing: share_files_between_client, for one file *)

\* The session is found by the QR alone: it may be another sender's.
ShareStart(r, u, s, f) ==
  /\ Live(f)
  /\ docs[f].owner = u
  /\ Begin(r, "share", "copy", u, s, {f}, {docs[f].key})
  /\ UNCHANGED <<objects, docs, urls, origin, aged, drawn, purged>>

\* The copy belongs to the receiver and has the key that was read.
ShareCopy(r) ==
  LET f == drawn + 1  s == reqs[r].session
  IN  /\ At(r, "share", "copy")
      /\ drawn < MaxFiles
      /\ drawn' = f
      /\ \E k \in reqs[r].keys : docs' = [docs EXCEPT ![f] = NewDoc(k, Receiver[s], s)]
      /\ Finish(r)
      /\ UNCHANGED <<objects, urls, origin, aged, purged>>

-----------------------------------------------------------------------------
(* The environment *)

\* The worker dies, or a call to the database raises.
Abort(r) ==
  /\ reqs[r] # None
  /\ Finish(r)
  /\ UNCHANGED <<objects, docs, urls, origin, aged, drawn, purged>>

\* The retention period, 30 days, is longer than any URL or request lasts,
\* and than a client goes on reporting an upload.  A copy is younger than
\* what it was copied from.
Age(f) ==
  /\ f \in (1..drawn) \ (urls \cup aged)
  /\ docs[f] # None =>
       \A g \in 1..(f - 1) : docs[g] # None /\ docs[g].key = docs[f].key => g \in aged
  /\ \A r \in Slots : reqs[r] # None => f \notin reqs[r].ids
  /\ aged' = aged \cup {f}
  /\ UNCHANGED <<objects, docs, urls, origin, reqs, drawn, purged>>

-----------------------------------------------------------------------------
Upload == \/ \E s \in Sessions : InitUpload(s)
          \/ \E f \in Ids : Put(f) \/ UrlExpire(f)

Serve(r) ==
  \/ \E s \in Sessions, F \in SUBSET Ids : CompleteStart(r, s, F)
  \/ CompleteHead(r) \/ CompleteSave(r) \/ CompleteCount(r)
  \/ CompleteCountFails(r) \/ CompleteUndone(r)
  \/ \E s \in Sessions, f \in Ids, p \in BOOLEAN : DeleteStart(r, s, f, p)
  \/ \E u \in Users : WipeStart(r, u)
  \/ WipeDrop(r)
  \/ \E u \in Users, s \in Sessions, f \in Ids : ShareStart(r, u, s, f)
  \/ ShareCopy(r)

Next ==
  \/ Upload
  \/ \E r \in Requests : Serve(r)
  \/ \E c \in Cleaners : CleanStart(c)
  \/ \E r \in Slots : Purge(r) \/ Mark(r) \/ Abort(r)
  \/ \E f \in Ids : Age(f)

Spec == Init /\ [][Next]_vars

\* A worker that keeps running starts its cleanup every hour, and neither the
\* process nor the database fails in every round.  Nothing is assumed of the
\* clients and their requests.
FairSpec ==
  /\ Spec
  /\ \A c \in Cleaners : WF_vars(CleanStart(c)) /\ SF_vars(Purge(c)) /\ SF_vars(Mark(c))

-----------------------------------------------------------------------------
(* Properties *)

\* complete_upload verifies before it saves, without a transaction: still a
\* live document always has its content, unless a request deleted just that
\* content on purpose (file_controller.py:650-722).
ContentUnlessPurged == \A f \in Ids : Live(f) => docs[f].key \in objects \cup purged

\* A document disappears, or is marked deleted, only by a request of its owner
\* or by the cleaner after the retention period, although both act on ids read
\* earlier (file_routes.py:232-290, file_controller.py:981-1006, 1070-1107).
DeletionIsAuthorised ==
  [][\A f \in Ids : Live(f) /\ ~Live(f)' =>
       \E r \in Slots : /\ reqs[r] # None
                        /\ \/ reqs[r].op \in {"delete", "wipe"} /\ reqs[r].by = docs[f].owner
                           \/ reqs[r].op = "clean" /\ f \in aged]_vars

\* A file marked deleted comes back only through a hard delete that forgets it
\* first: repeated or late completions and shares do not revive it.
TombstonesStay ==
  [][\A f \in Ids : docs[f] # None /\ docs[f].deleted /\ docs'[f] # None
       => docs'[f].deleted]_vars

\* Retention is enforced: every live document older than the retention period
\* is marked deleted or removed in the end, however many are due at once.
RetentionIsEnforced == \A f \in Ids : f \in aged /\ Live(f) ~> ~Live(f)

-----------------------------------------------------------------------------
(* The inductive invariant behind the safety properties, by parts *)

\* The keys whose content a live document may rely on; none ever leaves it.
Accounted == objects \cup purged

\* Nothing refers to an id that is not drawn yet.
DrawnIds ==
  \A f \in Ids :
    /\ docs[f] # None => f <= drawn
    /\ origin[f] # None => f <= drawn
    /\ \A r \in Slots : reqs[r] # None /\ f \in reqs[r].ids => f <= drawn

\* An upload's document belongs to who initialised it, however often it is
\* removed and saved again, and under whatever session.
UploadOwners ==
  \A f \in Ids : docs[f] # None /\ origin[f] # None
                   => docs[f].owner = Sender[origin[f]]

\* What a request carries from one call to the next is still true.
RequestFacts ==
  \A r \in Slots : reqs[r] # None =>
    /\ reqs[r].op \in {"complete", "share"} => reqs[r].session \in Sessions
    /\ reqs[r].op = "complete" => /\ reqs[r].by = Sender[reqs[r].session]
                                  /\ \A f \in reqs[r].ids : /\ origin[f] # None
                                                            /\ Sender[origin[f]] = reqs[r].by
    /\ reqs[r].op = "complete" /\ reqs[r].pc = "save" => reqs[r].ids \subseteq Accounted
    /\ reqs[r].op = "share" => reqs[r].keys \subseteq Accounted
    /\ reqs[r].op = "delete" => \A f \in reqs[r].ids :
         /\ docs[f] # None => docs[f].owner = reqs[r].by
         /\ origin[f] # None => Sender[origin[f]] = reqs[r].by
    /\ reqs[r].op = "clean" => reqs[r].ids \subseteq aged

IInv == TypeOK /\ DrawnIds /\ UploadOwners /\ RequestFacts /\ ContentUnlessPurged
=============================================================================
