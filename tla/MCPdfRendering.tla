---------------------------- MODULE MCPdfRendering ----------------------------
(* An instance of PdfRendering for TLC. *)
EXTENDS PdfRendering, TLC

CONSTANTS p1, p2, c1

\* Both cards may leave the page and come back while a render of theirs runs.
MCMaxMounts == (p1 :> 2) @@ (p2 :> 2) @@ (c1 :> 1)
=============================================================================
