---------------------------- MODULE MCSupervisor ----------------------------
(* Supervisor for TLC: reloads that add, keep and drop listeners. *)
EXTENDS Supervisor

CONSTANTS la, lb

\* The first configuration listens on one address, later ones on two.
MCListen == [v \in 0..MaxVersion |-> IF v = 0 THEN {la} ELSE {la, lb}]
=============================================================================
