------------------------------- MODULE Config -------------------------------
(***************************************************************************)
(* src/src/config.rs: what Config::validate() accepts, the export ACLs and *)
(* the next hops of a peer.                                                *)
(*                                                                         *)
(* An Option is a set of at most one element.  An address is its family    *)
(* and what the checks tell apart ("global", "linklocal", "invalid"), a    *)
(* prefix its family and its leading bits, so it has no host bits.         *)
(* Left out are the settings that nothing here depends on: the console's   *)
(* address, ports, the size of the receive buffer, keys, the interface and *)
(* the neighbor's address, which has the family of the local one.          *)
(***************************************************************************)
EXTENDS Naturals, Sequences

MAX_TIMEOUT_SECS == 24 * 60 * 60
AS_TRANS == 23456

unwrap_or(option, default) ==
    IF option = {} THEN default ELSE CHOOSE x \in option : TRUE

----------------------------------------------------------------------------
(* Export ACLs *)

prefix_len(p) == Len(p.bits)

(* IpNet::contains() *)
contains(p, q) ==
    /\ p.ipv6 = q.ipv6
    /\ prefix_len(p) <= prefix_len(q)
    /\ SubSeq(q.bits, 1, prefix_len(p)) = p.bits

matches(r, p) ==
    /\ contains(r.prefix, p)
    /\ prefix_len(p) >= unwrap_or(r.min_length, prefix_len(r.prefix))
    /\ prefix_len(p) <= unwrap_or(r.max_length, prefix_len(r.prefix))

(* Acl::permits(): the first rule that matches decides. *)
permits(rules, p) ==
    \E i \in DOMAIN rules :
        /\ matches(rules[i], p)
        /\ \A j \in 1..(i - 1) : ~matches(rules[j], p)
        /\ rules[i].action = "permit"

validate_rule(r) ==
    LET base == prefix_len(r.prefix)
        lo == unwrap_or(r.min_length, base)
        hi == unwrap_or(r.max_length, base)
    IN  /\ base <= lo /\ lo <= hi
        /\ hi <= IF r.prefix.ipv6 THEN 128 ELSE 32

----------------------------------------------------------------------------
(* The kernel section *)

validate_kernel(k) ==
    /\ k.tables # {} /\ 0 \notin k.tables
    /\ k.refresh_interval_ms \in 10..60000
    /\ k.reconcile_interval_secs \in 1..MAX_TIMEOUT_SECS
    /\ k.stale_timeout_secs \in 1..MAX_TIMEOUT_SECS
    /\ k.dump_timeout_secs \in 1..MAX_TIMEOUT_SECS
    /\ k.dump_timeout_secs < k.stale_timeout_secs
    /\ k.max_prefixes > 0

----------------------------------------------------------------------------
(* A peer p of the speaker with configuration c *)

valid_address(kind) == kind # "invalid"

nh4(p) ==
    IF p.next_hop_v4 # {} THEN p.next_hop_v4
    ELSE IF p.local_address.ipv6 THEN {} ELSE {p.local_address.kind}

nh6(p) ==
    IF p.next_hop_v6 # {} THEN p.next_hop_v6
    ELSE IF p.local_address.ipv6 THEN {p.local_address.kind} ELSE {}

(* The types of the numbers and switches that sessions depend on. *)
typed(c, p) ==
    /\ c.asn \in Nat /\ c.router_id \in Nat
    /\ p.remote_asn \in Nat /\ p.hold_time_secs \in Nat
    /\ p.ipv4 \in BOOLEAN /\ p.ipv6 \in BOOLEAN

validate_speaker(c) == c.asn \notin {0, AS_TRANS} /\ c.router_id # 0

validate_peer(c, p) ==
    /\ p.remote_asn \notin {0, AS_TRANS}
    /\ valid_address(p.local_address.kind)
    /\ p.hold_time_secs = 0 \/ p.hold_time_secs >= 3
    /\ p.connect_timeout_secs \in 1..MAX_TIMEOUT_SECS
    /\ p.write_timeout_secs \in 1..MAX_TIMEOUT_SECS
    /\ p.ipv4 \/ p.ipv6
    /\ ~c.ipv6 => /\ ~p.ipv6 /\ ~p.local_address.ipv6
                  /\ p.next_hop_v6 = {} /\ p.next_hop_v6_link_local = {}
    /\ p.ipv4 => \E a \in nh4(p) : valid_address(a)
    /\ p.ipv6 => \E a \in nh6(p) : valid_address(a) /\ a # "linklocal"
    /\ p.next_hop_v6_link_local \subseteq {"linklocal"}

validate(c, p) == validate_speaker(c) /\ validate_peer(c, p)
=============================================================================
