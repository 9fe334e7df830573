----------------------------- MODULE MCFileScreens -----------------------------
(***************************************************************************)
(* An instance of FileUrls and of UploadEngine side by side for TLC.  The  *)
(* list with its thumbnails and a run of the upload modal share no         *)
(* variable, so each property speaks of one of the two alone: in a         *)
(* behaviour one of them moves and the other stays as it began, when none  *)
(* of its fair actions can be taken.                                       *)
(***************************************************************************)
EXTENDS UploadEngine, MCFileUrls

\* One file, or four with one that is too large: up to three chunks of two.
MCLongBatches == {<<1>>, <<1, 3, 2, 1, 1>>}

VARIABLE uses   \* which of the two moves

urlVars == <<now, page, alive, userFiles, loadingFiles, lists, confirm, deleting, search,
             debouncedSearch, thumb, late, cache, outdated>>
screenVars == <<uses, vars, urlVars>>

ScreensInit == Init /\ Urls!Init /\ uses \in {"upload", "urls"}

OnUpload == uses = "upload" /\ Next /\ UNCHANGED <<uses, urlVars>>
OnUrls == uses = "urls" /\ Urls!Next /\ UNCHANGED <<uses, vars>>

ScreensNext == OnUpload \/ OnUrls

FairScreens == ScreensInit /\ [][ScreensNext]_screenVars /\ Urls!Fairness
=============================================================================
