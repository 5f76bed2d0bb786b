---------------------------- MODULE MCSyncReceiver ----------------------------
(* Two deliveries: an image and another file. *)
EXTENDS SyncReceiver, TLC

CONSTANTS d1, d2, o1, o2
MCObjectOf == (d1 :> o1) @@ (d2 :> o2)
=============================================================================
