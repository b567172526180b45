------------------------------- MODULE MCPeer -------------------------------
(* Instances of Peer for TLC: two speakers, "hi" with the larger router ID. *)
EXTENDS Peer, TLC

CONSTANTS lo, hi, c1, c2, c3

MCRank == [s \in {lo, hi} |-> IF s = lo THEN 1 ELSE 2]

\* Connections are interchangeable.
MCSymmetry == Permutations(Conns)
=============================================================================
