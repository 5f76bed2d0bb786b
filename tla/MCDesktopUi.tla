----------------------------- MODULE MCDesktopUi -----------------------------
(* A delivery Folder and a directory Folder. *)
EXTENDS DesktopUi
CONSTANTS a, b
=============================================================================
