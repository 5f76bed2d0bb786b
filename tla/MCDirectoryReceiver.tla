------------------------ MODULE MCDirectoryReceiver ------------------------
(* Two versions with different bytes; the user may write those or others. *)
EXTENDS DirectoryReceiver, TLC

CONSTANTS p1, p2, d1, d2, x
MCDataOf == [path \in Paths |-> (1 :> d1) @@ (2 :> d2)]
=============================================================================
