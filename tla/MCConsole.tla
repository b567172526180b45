----------------------------- MODULE MCConsole -----------------------------
(* Console for TLC: two clients for one place, and one from elsewhere. *)
EXTENDS Console

CONSTANTS k1, k2, far
=============================================================================
