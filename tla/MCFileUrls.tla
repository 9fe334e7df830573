------------------------------ MODULE MCFileUrls ------------------------------
(* An instance of FileUrls for TLC, and for PdfRenderingProofs: behind the name *)
(* Urls its definitions do not clash with those of the PDF thumbnails.          *)

CONSTANTS
  Files, Previewable, Thumbnailed, Matching, TTL, UrlLife, MaxNow, MaxLists, MaxLate, Sent,
  Error, None

VARIABLES
  now, page, alive, userFiles, loadingFiles, lists, confirm, deleting, search, debouncedSearch,
  thumb, late, cache, outdated

Urls == INSTANCE FileUrls

ASSUME UrlsConstantsOK == Urls!ConstantsOK

UrlsSpec == Urls!Spec
FairUrls == Urls!FairSpec

\* A spinner means a request under way, and a thumbnail has its URL or a way to
\* it, unless its retry button was pressed (useInViewUrl and FileThumbnail).
ThumbnailsSayWhatIsAsked == Urls!ThumbnailsSayWhatIsAsked

\* The cache hands out a URL that no longer works only if the answer took longer
\* than the safety minute (urlCache.js).
CacheServesWorkingUrls == Urls!CacheServesWorkingUrls

\* A card whose retry button was pressed has its URL or a way to it
\* (useInViewUrl).
RetryFetchesAgain == Urls!RetryFetchesAgain

\* A deleted file is listed only while the list was read before the deletion
\* (fetchUserFiles.fulfilled and deleteAllFiles.fulfilled in FileSlices.js).
DeletedFilesShownOnlyOutdated == Urls!DeletedFilesShownOnlyOutdated

\* The list and the thumbnails in view come to rest (FileSlices.js, useInViewUrl).
ScreenSettles == Urls!ScreenSettles
=============================================================================
