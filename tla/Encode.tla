------------------------------- MODULE Encode -------------------------------
(***************************************************************************)
(* How a batch of prefixes becomes an UPDATE: the loop of Plan::next() in  *)
(* src/src/bgp.rs that fills a batch, update() in src/src/wire.rs that     *)
(* encodes it, and the assertions on the way to frame(), for every         *)
(* configuration that validate() accepts and every OPEN that parse_open()  *)
(* accepts.                                                                *)
(*                                                                         *)
(* Prefixes are counted and measured.  A path attribute is a record of its *)
(* flags, kind, length and what its value is; "cut" says where the         *)
(* enclosing length ends it early.                                         *)
(***************************************************************************)
EXTENDS Open

CONSTANTS
    Settings,   \* [c, p, offer]: a configuration and the neighbor's OPEN
    Bits4,      \* the prefix lengths of exported IPv4 routes
    Bits6       \* and of IPv6 routes

ASSUME EncodeAssumption == Bits4 \subseteq 0..32 /\ Bits6 \subseteq 0..128

MAX_MESSAGE == 4096

(* Mutant of MAX_UPDATE_PREFIXES: a full IPv6 batch no longer fits. *)
MAX_UPDATE_PREFIXES_LARGE == 240

MAX_UPDATE_PREFIXES == 200

VARIABLES
    me,         \* the configuration c, its peer p and the link-local next hop
    n,          \* Negotiated
    v6,         \* the family of the batch
    withdraw,   \* it withdraws its prefixes
    count,      \* prefixes in the batch
    encoded,    \* octets of their NLRI
    pc          \* "batch", then "encode"

encoding == <<me, n, v6, withdraw, count, encoded>>

(* session() fills an omitted link-local next hop from the interface. *)
LinkLocals(p) ==
    {p.next_hop_v6_link_local}
    \cup IF p.ipv6 /\ p.next_hop_v6_link_local = {} THEN {{"linklocal"}} ELSE {}

(* A session was negotiated, and transmit() has prefixes of a family to    *)
(* announce or withdraw; Plan::new() admits the negotiated families.       *)
Begin(x) ==
    /\ validate(x.c, x.p) /\ parse_open(x.offer, x.c, x.p).ok
    /\ \E link \in LinkLocals(x.p) : me = [c |-> x.c, p |-> x.p, link |-> link]
    /\ n = negotiated(x.offer, x.c, x.p, capabilities(x.offer.caps))
    /\ v6 \in BOOLEAN /\ (IF v6 THEN n.ipv6 ELSE n.ipv4)
    /\ withdraw \in BOOLEAN
    /\ count = 0 /\ encoded = 0

EncodeInit == pc = "batch" /\ \E x \in Settings : Begin(x)

(* nlri() *)
nlri(bits) == 1 + (bits + 7) \div 8

(* Plan::next(): one more prefix of the family, up to the limit. *)
Push(bits) ==
    /\ pc = "batch" /\ count < MAX_UPDATE_PREFIXES
    /\ count' = count + 1
    /\ encoded' = encoded + nlri(bits)
    /\ UNCHANGED <<me, n, v6, withdraw, pc>>

(* The batch is handed to update(); next() returns none that is empty. *)
Batched ==
    /\ pc = "batch" /\ count > 0
    /\ pc' = "encode"
    /\ UNCHANGED encoding

----------------------------------------------------------------------------
(* update() *)

Attribute(flags, kind, length, value) ==
    [flags |-> flags, kind |-> kind, length |-> length, value |-> value, cut |-> "no"]

wellknown == {"transitive"}
nontransitive == {"optional"}
transitive == {"optional", "transitive"}

(* attr(): the length takes two octets when it needs them. *)
attr_octets(length) == length + IF length > 255 THEN 4 ELSE 3

mp_length == 3 + encoded + IF withdraw THEN 0
                           ELSE 2 + IF me.link # {} THEN 32 ELSE 16

external == me.c.asn # me.p.remote_asn
path_length == IF ~external THEN 0 ELSE IF n.asn4 THEN 6 ELSE 4

(* Mutant of needs_as4_path: sent to neighbors that know four-octet ASNs. *)
needs_as4_path_always == me.c.asn > 65535 /\ external

needs_as4_path == ~n.asn4 /\ me.c.asn > 65535 /\ external

Only(condition, attribute) == IF condition THEN <<attribute>> ELSE <<>>

update_attrs ==
    Only(v6, Attribute(nontransitive, IF withdraw THEN 15 ELSE 14, mp_length, "v6"))
    \o Only(~withdraw, Attribute(wellknown, 1, 1, "good"))
    \o Only(~withdraw, Attribute(wellknown, 2, path_length,
                                 IF ~external THEN "good" ELSE IF n.asn4 THEN "four" ELSE "two"))
    \o Only(~withdraw /\ needs_as4_path, Attribute(transitive, 17, 6, "good"))
    \o Only(~withdraw /\ ~external, Attribute(wellknown, 5, 4, "good"))
    \o Only(~withdraw /\ ~v6, Attribute(wellknown, 3, 4, "good"))

(* The octets of those attributes, and of the whole body. *)
attrs_octets ==
    (IF v6 THEN attr_octets(mp_length) ELSE 0)
    + IF withdraw THEN 0
      ELSE attr_octets(1) + attr_octets(path_length)
           + (IF needs_as4_path THEN attr_octets(6) ELSE 0)
           + (IF external THEN 0 ELSE attr_octets(4))
           + (IF v6 THEN 0 ELSE attr_octets(4))

update_octets == 4 + attrs_octets + IF v6 THEN 0 ELSE encoded

EncodeNext == (\E bits \in IF v6 THEN Bits6 ELSE Bits4 : Push(bits)) \/ Batched

----------------------------------------------------------------------------
(* update() and frame() hold assertions and expect()s that would panic the *)
(* peer's task.  None of them fails: the batch is neither empty nor too    *)
(* large, an announcement finds the next hop of its family, and the        *)
(* message, header included, is no longer than MAX_MESSAGE even for a full *)
(* batch of IPv6 host routes with two next hops.                           *)
UpdateNeverPanics ==
    pc = "encode" =>
        /\ count \in 1..MAX_UPDATE_PREFIXES
        /\ ~withdraw => (IF v6 THEN nh6(me.p) ELSE nh4(me.p)) # {}
        /\ update_octets + 19 <= MAX_MESSAGE
=============================================================================
