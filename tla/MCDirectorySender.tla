-------------------------- MODULE MCDirectorySender --------------------------
(* One or two paths, two contents. *)
EXTENDS DirectorySender

CONSTANTS p1, p2, a, b
=============================================================================
