--------------------------- MODULE MCDesktopFolder ---------------------------
(* Two desktop processes and one command line on one Folder. *)
EXTENDS DesktopFolder
CONSTANTS d1, d2, c1, u1, u2
=============================================================================
