---------------------------- MODULE MCPendingScan ----------------------------
(* Three ordinary deliveries, one beyond the receiver's size limit and one   *)
(* whose manifest may be copied, and a directory version; pages of one       *)
(* delivery, two pages to a scan.                                            *)
EXTENDS PendingScan
=============================================================================
