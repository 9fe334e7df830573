------------------------------- MODULE PdfEditor --------------------------------
(***************************************************************************)
(* The PDF viewer, PDFEditor.jsx: the bytes are fetched and shown through  *)
(* a blob URL, which the cleanup of the effect revokes.                    *)
(***************************************************************************)
VARIABLES
  open,     \* the viewer is on the screen
  loading,  \* loading or fetchingBlob
  saving,   \* never: the viewer saves nothing
  error,    \* the error panel shows
  fetch,    \* the await the load is at
  blob,     \* the blob URL: the browser keeps its bytes while it is live
  blobUrl   \* the URL is in the state: the frame and Download use it

vars == <<open, loading, saving, error, fetch, blob, blobUrl>>

TypeOK ==
  /\ {open, loading, saving, error, blobUrl} \subseteq BOOLEAN
  /\ fetch \in {"metadata", "bytes", "read", "over"}
  /\ blob \in {"none", "live", "revoked"}

Init ==
  /\ open = TRUE
  /\ loading = TRUE
  /\ saving = FALSE
  /\ error = FALSE
  /\ fetch = "metadata"
  /\ blob = "none"
  /\ blobUrl = FALSE

\* The load goes on although the viewer may have closed meanwhile.
Proceed(from, to) ==
  /\ fetch = from
  /\ fetch' = to
  /\ UNCHANGED <<open, loading, saving, error, blob, blobUrl>>

MetadataArrives == Proceed("metadata", "bytes")
ResponseArrives == Proceed("bytes", "read")

BytesArrive ==
  /\ fetch = "read"
  /\ fetch' = "over"
  /\ blob' = "live"
  /\ blobUrl' = open
  /\ loading' = IF open THEN FALSE ELSE loading
  /\ UNCHANGED <<open, saving, error>>

FetchFails ==
  /\ fetch # "over"
  /\ fetch' = "over"
  /\ error' = open
  /\ loading' = IF open THEN FALSE ELSE loading
  /\ UNCHANGED <<open, saving, blob, blobUrl>>

\* The effect's cleanup revokes the URL there is at that time.
Close ==
  /\ open
  /\ open' = FALSE
  /\ blob' = IF blob = "live" THEN "revoked" ELSE blob
  /\ UNCHANGED <<loading, saving, error, fetch, blobUrl>>

Answered == MetadataArrives \/ ResponseArrives \/ BytesArrive \/ FetchFails

Next == Answered \/ Close

=============================================================================
