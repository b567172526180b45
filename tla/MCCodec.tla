------------------------------ MODULE MCCodec ------------------------------
(* Codec for TLC: configurations, neighbors and foreign UPDATEs. *)
EXTENDS Codec

Speaker(asn) == [asn |-> asn, router_id |-> 1, ipv6 |-> TRUE]

Neighbor(asn, six, link) ==
    [remote_asn |-> asn, hold_time_secs |-> 90,
     connect_timeout_secs |-> 30, write_timeout_secs |-> 30,
     ipv4 |-> TRUE, ipv6 |-> six,
     local_address |-> [ipv6 |-> FALSE, kind |-> "global"],
     next_hop_v4 |-> {}, next_hop_v6 |-> {"global"}, next_hop_v6_link_local |-> link]

Offer(asn, caps) ==
    [version |-> 4, asn |-> two_octets(asn), hold |-> 30, router_id |-> 2,
     framed |-> TRUE, caps |-> caps]

\* No capabilities; families without four-octet ASNs; everything.
Offers(asn) ==
    LET families == <<Capability("mp", 1), Capability("mp", 2)>>
    IN  {Offer(asn, <<>>), Offer(asn, families),
         Offer(asn, families \o <<Capability("as4", asn)>>)}

MCSettings ==
    UNION {{[c |-> Speaker(x), p |-> Neighbor(y, TRUE, link), offer |-> o] : o \in Offers(y)} :
        x \in {100, 70000}, y \in {100, 200}, link \in {{}, {"linklocal"}}}

\* Internal and external, with and without four-octet ASNs.
MCForeignSettings ==
    UNION {{[c |-> Speaker(100), p |-> Neighbor(y, FALSE, {}), offer |-> o] : o \in Offers(y)} :
        y \in {100, 200}}

\* A length that the kind may have.
Usual(kind) ==
    CASE kind = 1 -> 1 [] kind \in {3, 4, 5, 8, 9, 10} -> 4 [] kind \in {2, 17} -> 6
      [] kind \in {14, 15} -> 30 [] kind \in {7, 16, 18} -> 8 [] kind = 32 -> 12 [] OTHER -> 0

Plain(kind, value) == Attribute(expected(kind), kind, Usual(kind), value)

Shapes ==
    {Plain(k, v) : k \in {1, 3, 5}, v \in {"good", "bad"}}
    \cup {Plain(2, v) : v \in {"two", "four", "bad"}}
    \cup {Plain(14, v) : v \in {"v4", "v6", "empty", "foreign", "bad"}}
    \cup {Plain(15, "v6"), Plain(7, "good"), Plain(9, "good"), Plain(17, "good")}
    \cup {Attribute(expected(k), k, 3, "good") : k \in {6, 8, 14}}
    \cup {Attribute(transitive, 1, 1, "good"), Attribute(wellknown, 14, 30, "v6"),
          Attribute(nontransitive \cup {"partial"}, 4, 4, "good"),
          Attribute(transitive \cup {"partial"}, 17, 6, "good")}
    \cup {Attribute(f, 99, 1, "good") : f \in {wellknown, transitive}}
    \cup {[Plain(k, "good") EXCEPT !.cut = c] : k \in {2, 14}, c \in {"header", "value"}}

\* Complete sets of attributes, to which the shapes add.
Bases ==
    {<<>>} \cup
    {<<Plain(1, "good"), Plain(2, w)>> \o rest :
        w \in {"two", "four"},
        rest \in {<<Plain(3, "good")>>, <<Plain(14, "v6")>>, <<Plain(3, "good"), Plain(5, "good")>>}}

Optional == {<<>>} \cup {<<a>> : a \in Shapes}

MCForeign ==
    {[NoMessage EXCEPT !.attrs = x \o base \o y, !.tail = t] :
        base \in Bases, x \in Optional, y \in Optional, t \in {"none", "good"}}
    \cup {[NoMessage EXCEPT !.framed = FALSE], [NoMessage EXCEPT !.withdrawn = "bad"],
          [NoMessage EXCEPT !.tail = "bad"]}
=============================================================================
