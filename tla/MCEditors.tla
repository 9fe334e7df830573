------------------------------- MODULE MCEditors --------------------------------
(* An instance of Editors for TLC. *)
EXTENDS Editors, TLC

CONSTANTS w, plain, big, bigRed

\* The colour is dropped, by the API and for a new paragraph; the size is kept.
MCSizeOf == (plain :> plain) @@ (big :> big) @@ (bigRed :> big)

\* A file without paragraphs, and one with a large, coloured paragraph.
MCDocuments == {<<>>, <<[text |-> w, style |-> bigRed]>>}
=============================================================================
