----------------------------- MODULE MCNetlink -----------------------------
(* Netlink for TLC: small sets and short intervals. *)
EXTENDS Netlink, Config

CONSTANTS p1, p2, denied, acl

\* The prefixes as networks, two of IPv4 and one of IPv6, and an ACL whose
\* first rule denies one although the next would permit it.
Network(p) ==
    [ipv6 |-> p = p2,
     bits |-> IF p = p1 THEN <<0, 1>> ELSE IF p = denied THEN <<0, 0>> ELSE <<1, 0, 0>>]

Rule(decision, six, bits, longest) ==
    [action |-> decision, prefix |-> [ipv6 |-> six, bits |-> bits],
     min_length |-> {}, max_length |-> longest]

Rules == <<Rule("deny", FALSE, <<0, 0>>, {32}), Rule("permit", FALSE, <<0>>, {2}),
           Rule("permit", TRUE, <<1, 0>>, {3})>>

MCPermits == [a \in {acl} |-> {p \in Prefix : permits(Rules, Network(p))}]

\* validate() accepts the rules and, one tick taken for a second, the intervals.
ASSUME InstanceIsValid ==
    /\ \A i \in DOMAIN Rules : validate_rule(Rules[i])
    /\ \A p \in {p1, p2, denied} : permits(Rules, Network(p)) <=> p # denied
    /\ validate_kernel([tables |-> {254}, refresh_interval_ms |-> 1000 * RefreshInterval,
                        reconcile_interval_secs |-> ReconcileInterval,
                        stale_timeout_secs |-> StaleTimeout,
                        dump_timeout_secs |-> DumpTimeout, max_prefixes |-> MaxPrefixes])

\* IPv4 is dumped first.
MCOfFamily == [i \in Dumps |-> {p \in Prefix : Network(p).ipv6 <=> i = 2}]

\* Retry delays, doubling and then capped.
MCBackoff == <<1, 2>>
=============================================================================
