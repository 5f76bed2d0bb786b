----------------------------- MODULE MCTusUpload -----------------------------
(* Two uploads of two Folders; u2's directory version may collide. *)
EXTENDS TusUpload, TLC

CONSTANTS u1, u2, f1, f2
MCDeviceOf == (u1 :> f1) @@ (u2 :> f2)
=============================================================================
