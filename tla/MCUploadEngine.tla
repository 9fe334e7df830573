---------------------------- MODULE MCUploadEngine ----------------------------
(* An instance of UploadEngine for TLC. *)
EXTENDS UploadEngine

\* Sizes in units of 10 MB: one file, or two with a third that is too large.
MCBatches == {<<1>>, <<1, 3, 2>>}
=============================================================================
