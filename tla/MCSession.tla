----------------------------- MODULE MCSession -----------------------------
(* Session for TLC: two speakers and a few pairs of configurations. *)
EXTENDS Session

CONSTANTS east, west

Speaker(asn, id) == [asn |-> asn, router_id |-> id, ipv6 |-> TRUE]

Neighbor(asn, hold, write, families) ==
    [remote_asn |-> asn, hold_time_secs |-> hold,
     connect_timeout_secs |-> 1, write_timeout_secs |-> write,
     ipv4 |-> "ipv4" \in families, ipv6 |-> "ipv6" \in families,
     local_address |-> [ipv6 |-> FALSE, kind |-> "global"],
     next_hop_v4 |-> {}, next_hop_v6 |-> {"global"}, next_hop_v6_link_local |-> {}]

Pair(c, p, d, q) ==
    [s \in {east, west} |-> IF s = east THEN [c |-> c, p |-> p] ELSE [c |-> d, p |-> q]]

\* A hold time of h at one end meets one of k at the other, where writes may
\* take twice as long.
Holds(h, k) == Pair(Speaker(100, 1), Neighbor(200, h, 1, {"ipv4"}),
                    Speaker(200, 2), Neighbor(100, k, 2, {"ipv4"}))

\* Internal and external sessions, small and large ASNs, equal router IDs, a
\* neighbor with another ASN, and families shared in part or not at all.
Mixed ==
    {Pair(Speaker(70000, 1), Neighbor(y, 3, 1, f), Speaker(y, j), Neighbor(z, 0, 1, g)) :
        y \in {70000, 200}, z \in {70000, 200}, j \in {1, 2},
        f \in {{"ipv4"}, {"ipv4", "ipv6"}}, g \in {{"ipv6"}, {"ipv4", "ipv6"}}}

MCSettings == {Holds(5, 3)} \cup Mixed
=============================================================================
