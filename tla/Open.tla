-------------------------------- MODULE Open --------------------------------
(***************************************************************************)
(* The OPEN message of src/src/wire.rs: what open() offers, what           *)
(* parse_open() makes of an offer, and the collision preference that       *)
(* src/src/bgp.rs derives from it.                                         *)
(*                                                                         *)
(* An OPEN is a record.  "framed" says whether the length of all optional  *)
(* parameters is that of the message; a capability has a code, a flag      *)
(* "good" for lengths that fit, its own and its parameter's, and a value:  *)
(* an ASN, or a family (1 and 2 are IPv4 and IPv6 unicast, 0 any other).   *)
(* The code "parameter" stands for an optional parameter that is not a     *)
(* capability list.                                                        *)
(***************************************************************************)
EXTENDS Config, FiniteSets, FiniteSetsExt

(* u16::try_from(asn).unwrap_or(23456) *)
two_octets(asn) == IF asn <= 65535 THEN asn ELSE AS_TRANS

Capability(code, value) == [code |-> code, good |-> TRUE, value |-> value]

open(c, p) ==
    [version |-> 4, asn |-> two_octets(c.asn), hold |-> p.hold_time_secs,
     router_id |-> c.router_id, framed |-> TRUE,
     caps |-> <<Capability("as4", c.asn), Capability("refresh", 0)>>
              \o (IF p.ipv4 THEN <<Capability("mp", 1)>> ELSE <<>>)
              \o (IF p.ipv6 THEN <<Capability("mp", 2)>> ELSE <<>>)]

----------------------------------------------------------------------------
(* parse_open() *)

(* The subcode with which the capability loop rejects the i-th capability: *)
(* a length, a parameter type, an ASN that differs from an earlier one.    *)
read_capability(caps, i) ==
    IF ~caps[i].good THEN {0}
    ELSE IF caps[i].code = "parameter" THEN {4}
    ELSE IF \E j \in 1..(i - 1) : /\ caps[i].code = "as4" /\ caps[j].code = "as4"
                                 /\ caps[j].value # caps[i].value THEN {2}
    ELSE {}

(* What the loop collects, and the first rejection. *)
capabilities(caps) ==
    LET rejected == {i \in DOMAIN caps : read_capability(caps, i) # {}}
        values(code) == {caps[i].value : i \in {j \in DOMAIN caps : caps[j].code = code}}
    IN  [error |-> IF rejected = {} THEN {} ELSE read_capability(caps, Min(rejected)),
         as4 |-> values("as4"), mp |-> values("mp") # {},
         v4 |-> 1 \in values("mp"), v6 |-> 2 \in values("mp")]

(* Mutant of negotiated: each side keeps its own hold time. *)
negotiated_own_hold(o, c, p, s) ==
    [router_id |-> o.router_id, hold |-> p.hold_time_secs, asn4 |-> s.as4 # {},
     internal |-> c.asn = p.remote_asn,
     ipv4 |-> p.ipv4 /\ (s.v4 \/ ~s.mp), ipv6 |-> p.ipv6 /\ s.v6]

negotiated(o, c, p, s) ==
    [router_id |-> o.router_id,
     hold |-> IF o.hold < p.hold_time_secs THEN o.hold ELSE p.hold_time_secs,
     asn4 |-> s.as4 # {},
     internal |-> c.asn = p.remote_asn,
     ipv4 |-> p.ipv4 /\ (s.v4 \/ ~s.mp),
     ipv6 |-> p.ipv6 /\ s.v6]

Require(condition, subcode) == [ok |-> condition, subcode |-> subcode]

(* The first require() that fails decides. *)
parse_open(o, c, p) ==
    LET s == capabilities(o.caps)
        n == negotiated(o, c, p, s)
        checks == <<
            Require(o.version = 4, 1),
            Require(o.hold \notin {1, 2}, 6),
            Require(/\ o.router_id # 0
                    /\ c.asn # p.remote_asn \/ o.router_id # c.router_id, 3),
            Require(o.framed, 0),
            Require(s.error = {}, unwrap_or(s.error, 0)),
            Require(unwrap_or(s.as4, o.asn) = p.remote_asn, 2),
            Require(o.asn = two_octets(p.remote_asn), 2),
            Require(n.ipv4 \/ n.ipv6, 7)>>
        failed == {i \in DOMAIN checks : ~checks[i].ok}
    IN  IF failed = {} THEN [ok |-> TRUE, n |-> n]
        ELSE [ok |-> FALSE, subcode |-> checks[Min(failed)].subcode]

(* bgp.rs: the larger router ID's connection, equal external IDs by ASN. *)
prefer_incoming(c, p, n) ==
    \/ c.router_id < n.router_id
    \/ c.router_id = n.router_id /\ c.asn < p.remote_asn
=============================================================================
