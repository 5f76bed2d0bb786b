--------------------------- MODULE MCFolderPairing ---------------------------
(* Two phones that compete for one Folder. *)
EXTENDS FolderPairing, TLC

CONSTANTS s1, s2
MCCodeOf == (s1 :> 1) @@ (s2 :> 2)
=============================================================================
