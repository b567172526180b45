----------------------------- MODULE MCTransmit -----------------------------
(* Transmit for TLC: few prefixes, batches of one. *)
EXTENDS Transmit

CONSTANTS p4, q4, p6
=============================================================================
