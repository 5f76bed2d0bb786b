--------------------------- MODULE MCPhoneTransfer ---------------------------
(* One file, two worker threads at a time. *)
EXTENDS PhoneTransfer

CONSTANTS t1, t2
=============================================================================
