---------------------------- MODULE SessionProofs ----------------------------
(***************************************************************************)
(* Proofs about module Session: for every pair of valid configurations,    *)
(* every hold time and every size of the socket buffers.                   *)
(***************************************************************************)
EXTENDS Session, SequenceTheorems, TLAPS

----------------------------------------------------------------------------
(* Two speakers *)

(* Each of the two speakers has one neighbor, whose neighbor it is. *)
LEMMA TwoSpeakers ==
  ASSUME NEW s \in Speakers
  PROVE  /\ Other(s) \in Speakers /\ Other(s) # s
         /\ Other(Other(s)) = s
         /\ Speakers = {s, Other(s)}
<1>1. PICK t \in Speakers : Speakers = {s, t} /\ t # s
  BY SessionAssumption, Zenon
<1>2. Other(s) = t /\ Other(t) = s
  BY <1>1, Zenon DEF Other
<1> QED
  BY <1>1, <1>2, Zenon

----------------------------------------------------------------------------
(* The OPEN exchange *)

(* Longer tuples from shorter ones. *)
LEMMA ThreeTuple ==
  ASSUME NEW a, NEW b, NEW c
  PROVE  <<a, b>> \o <<c>> = <<a, b, c>>
<1> DEFINE S == {a, b, c}
           x == <<a, b>>
           y == <<c>>
           t == <<a, b, c>>
<1>1. x \in Seq(S) /\ y \in Seq(S) /\ t \in Seq(S) /\ Len(x) = 2 /\ Len(y) = 1 /\ Len(t) = 3
  OBVIOUS
<1>2. x[1] = a /\ x[2] = b /\ y[1] = c /\ t[1] = a /\ t[2] = b /\ t[3] = c
  BY Zenon
<1> HIDE DEF S, x, y, t
<1>3. /\ x \o y \in Seq(S) /\ Len(x \o y) = Len(x) + Len(y)
      /\ \A i \in 1..Len(x) + Len(y) : (x \o y)[i] =
             IF i <= Len(x) THEN x[i] ELSE y[i - Len(x)]
  BY <1>1, ConcatProperties, Zenon
<1>4. Len(x \o y) = 3 /\ \A i \in 1..3 : (x \o y)[i] = t[i]
  BY <1>1, <1>2, <1>3
<1>5. x \o y = t
  BY <1>1, <1>3, <1>4, SeqEqual, Zenon
<1> QED
  BY <1>5, Zenon DEF x, y, t

LEMMA FourTuple ==
  ASSUME NEW a, NEW b, NEW c, NEW d
  PROVE  <<a, b, c>> \o <<d>> = <<a, b, c, d>>
<1> DEFINE S == {a, b, c, d}
           x == <<a, b, c>>
           y == <<d>>
           t == <<a, b, c, d>>
<1>1. x \in Seq(S) /\ y \in Seq(S) /\ t \in Seq(S) /\ Len(x) = 3 /\ Len(y) = 1 /\ Len(t) = 4
  OBVIOUS
<1>2. /\ x[1] = a /\ x[2] = b /\ x[3] = c /\ y[1] = d
      /\ t[1] = a /\ t[2] = b /\ t[3] = c /\ t[4] = d
  BY Zenon
<1> HIDE DEF S, x, y, t
<1>3. /\ x \o y \in Seq(S) /\ Len(x \o y) = Len(x) + Len(y)
      /\ \A i \in 1..Len(x) + Len(y) : (x \o y)[i] =
             IF i <= Len(x) THEN x[i] ELSE y[i - Len(x)]
  BY <1>1, ConcatProperties, Zenon
<1>4. Len(x \o y) = 4 /\ \A i \in 1..4 : (x \o y)[i] = t[i]
  BY <1>1, <1>2, <1>3
<1>5. x \o y = t
  BY <1>1, <1>3, <1>4, SeqEqual, Zenon
<1> QED
  BY <1>5, Zenon DEF x, y, t

(* Capabilities t are those that open() offers. *)
Offered(c, p, t) ==
    /\ t.error = {} /\ t.as4 = {c.asn}
    /\ t.mp = (p.ipv4 \/ p.ipv6) /\ t.v4 = p.ipv4 /\ t.v6 = p.ipv6

(* What the capability loop of parse_open() finds in an OPEN of open(). *)
LEMMA OpenCapabilities ==
  ASSUME NEW c, NEW p, p.ipv4 \in BOOLEAN, p.ipv6 \in BOOLEAN
  PROVE  Offered(c, p, capabilities(open(c, p).caps))
<1> DEFINE a == Capability("as4", c.asn)
           r == Capability("refresh", 0)
           m4 == Capability("mp", 1)
           m6 == Capability("mp", 2)
           caps == open(c, p).caps
<1>1. /\ a.code = "as4" /\ a.good /\ a.value = c.asn
      /\ r.code = "refresh" /\ r.good
      /\ m4.code = "mp" /\ m4.good /\ m4.value = 1
      /\ m6.code = "mp" /\ m6.good /\ m6.value = 2
  BY Zenon DEF Capability
<1>2. caps = <<a, r>> \o (IF p.ipv4 THEN <<m4>> ELSE <<>>) \o (IF p.ipv6 THEN <<m6>> ELSE <<>>)
  BY Zenon DEF open
<1> HIDE DEF a, r, m4, m6, caps
<1>3. /\ DOMAIN caps = 1..Len(caps)
      /\ caps[1] = a /\ caps[2] = r /\ Len(caps) \in 2..4
      /\ \A i \in 3..Len(caps) : caps[i] \in {m4, m6}
      /\ p.ipv4 <=> \E i \in 3..Len(caps) : caps[i] = m4
      /\ p.ipv6 <=> \E i \in 3..Len(caps) : caps[i] = m6
  <2>1. m4 # m6
    BY <1>1
  <2>2. CASE p.ipv4 /\ p.ipv6
    <3>1. caps = <<a, r>> \o <<m4>> \o <<m6>>
      BY <1>2, <2>2, Zenon
    <3>4. <<a, r>> \o <<m4>> = <<a, r, m4>> /\ <<a, r, m4>> \o <<m6>> = <<a, r, m4, m6>>
      BY ThreeTuple, FourTuple, Zenon
    <3>2. caps = <<a, r, m4, m6>>
      BY <3>1, <3>4, Zenon
    <3>3. /\ DOMAIN caps = 1..4 /\ Len(caps) = 4
          /\ caps[1] = a /\ caps[2] = r /\ caps[3] = m4 /\ caps[4] = m6
      BY <3>2
    <3> QED
      BY <2>2, <3>3
  <2>3. CASE p.ipv4 /\ ~p.ipv6
    <3>1. caps = <<a, r>> \o <<m4>> \o <<>>
      BY <1>2, <2>3, Zenon
    <3>2. caps = <<a, r, m4>> \o <<>>
      BY <3>1, ThreeTuple, Zenon
    <3>3. /\ DOMAIN caps = 1..3 /\ Len(caps) = 3
          /\ caps[1] = a /\ caps[2] = r /\ caps[3] = m4
      BY <3>2
    <3> QED
      BY <2>1, <2>3, <3>3
  <2>4. CASE ~p.ipv4 /\ p.ipv6
    <3>1. caps = <<a, r>> \o <<>> \o <<m6>> /\ <<a, r>> \o <<>> = <<a, r>>
      BY <1>2, <2>4
    <3>2. caps = <<a, r, m6>>
      BY <3>1, ThreeTuple, Zenon
    <3>3. /\ DOMAIN caps = 1..3 /\ Len(caps) = 3
          /\ caps[1] = a /\ caps[2] = r /\ caps[3] = m6
      BY <3>2
    <3> QED
      BY <2>1, <2>4, <3>3
  <2>5. CASE ~p.ipv4 /\ ~p.ipv6
    <3>1. caps = <<a, r>> \o <<>> \o <<>>
      BY <1>2, <2>5, Zenon
    <3>2. DOMAIN caps = 1..2 /\ Len(caps) = 2 /\ caps[1] = a /\ caps[2] = r
      BY <3>1
    <3> QED
      BY <2>5, <3>2
  <2> QED
    BY <2>2, <2>3, <2>4, <2>5, Zenon
<1>4. ASSUME NEW i \in DOMAIN caps
      PROVE  caps[i].good /\ caps[i].code # "parameter" /\ (caps[i].code = "as4" => i = 1)
  BY <1>1, <1>3
<1>5. \A i \in DOMAIN caps : read_capability(caps, i) = {}
  BY <1>3, <1>4 DEF read_capability
<1> DEFINE values(code) == {caps[i].value : i \in {j \in DOMAIN caps : caps[j].code = code}}
           t == capabilities(caps)
<1>6. /\ t.error = {} /\ t.as4 = values("as4") /\ t.mp = (values("mp") # {})
      /\ t.v4 = (1 \in values("mp")) /\ t.v6 = (2 \in values("mp"))
  BY <1>5, Zenon DEF capabilities
<1>7. values("as4") = {c.asn}
  BY <1>1, <1>3, <1>4
<1>8. (1 \in values("mp") <=> p.ipv4) /\ (2 \in values("mp") <=> p.ipv6)
  BY <1>1, <1>3
<1>9. values("mp") \subseteq {1, 2}
  BY <1>1, <1>3
<1>10. (values("mp") # {}) <=> (p.ipv4 \/ p.ipv6)
  BY <1>8, <1>9, Zenon
<1> HIDE DEF t, values
<1>11. /\ t.error = {} /\ t.as4 = {c.asn}
       /\ t.mp = (p.ipv4 \/ p.ipv6) /\ t.v4 = p.ipv4 /\ t.v6 = p.ipv6
  BY <1>6, <1>7, <1>8, <1>10
<1> QED
  BY <1>11, Zenon DEF Offered, t, caps

(* The OPEN that parse_open() accepts passed every check, in whatever      *)
(* order they are made.                                                    *)
LEMMA AcceptedOpen ==
  ASSUME NEW o, NEW c, NEW p, parse_open(o, c, p).ok
  PROVE  LET t == capabilities(o.caps)
             n == negotiated(o, c, p, t)
         IN  /\ parse_open(o, c, p) = [ok |-> TRUE, n |-> n]
             /\ c.asn # p.remote_asn \/ o.router_id # c.router_id
             /\ unwrap_or(t.as4, o.asn) = p.remote_asn
             /\ n.ipv4 \/ n.ipv6
<1> DEFINE t == capabilities(o.caps)
           n == negotiated(o, c, p, t)
           checks == <<
            Require(o.version = 4, 1),
            Require(o.hold \notin {1, 2}, 6),
            Require(/\ o.router_id # 0
                    /\ c.asn # p.remote_asn \/ o.router_id # c.router_id, 3),
            Require(o.framed, 0),
            Require(t.error = {}, unwrap_or(t.error, 0)),
            Require(unwrap_or(t.as4, o.asn) = p.remote_asn, 2),
            Require(o.asn = two_octets(p.remote_asn), 2),
            Require(n.ipv4 \/ n.ipv6, 7)>>
           failed == {i \in DOMAIN checks : ~checks[i].ok}
<1>1. parse_open(o, c, p) = IF failed = {} THEN [ok |-> TRUE, n |-> n]
                            ELSE [ok |-> FALSE, subcode |-> checks[Min(failed)].subcode]
  BY Zenon DEF parse_open
<1>2. DOMAIN checks = 1..8
  OBVIOUS
<1>3. /\ checks[3].ok = (/\ o.router_id # 0
                         /\ c.asn # p.remote_asn \/ o.router_id # c.router_id)
      /\ checks[6].ok = (unwrap_or(t.as4, o.asn) = p.remote_asn)
      /\ checks[8].ok = (n.ipv4 \/ n.ipv6)
  BY Zenon DEF Require
<1> HIDE DEF t, n, checks
<1>4. failed = {}
  BY <1>1
<1>5. checks[3].ok /\ checks[6].ok /\ checks[8].ok
  BY <1>2, <1>4
<1> HIDE DEF failed
<1>6. /\ parse_open(o, c, p) = [ok |-> TRUE, n |-> n]
      /\ c.asn # p.remote_asn \/ o.router_id # c.router_id
      /\ unwrap_or(t.as4, o.asn) = p.remote_asn
      /\ n.ipv4 \/ n.ipv6
  BY <1>1, <1>3, <1>4, <1>5, Zenon
<1> QED
  BY <1>6, Zenon DEF t, n

(* What a speaker with configuration c and peer p negotiates with one of   *)
(* configuration d and peer q.                                             *)
Outcome(c, p, d, q, n) ==
    /\ n.router_id = d.router_id
    /\ n.hold = IF q.hold_time_secs < p.hold_time_secs THEN q.hold_time_secs
                ELSE p.hold_time_secs
    /\ n.asn4 = TRUE /\ n.internal = (c.asn = p.remote_asn)
    /\ n.ipv4 = (p.ipv4 /\ q.ipv4) /\ n.ipv6 = (p.ipv6 /\ q.ipv6)
    /\ d.asn = p.remote_asn
    /\ c.asn # p.remote_asn \/ d.router_id # c.router_id

(* The session that parse_open() negotiates when it accepts such an OPEN. *)
LEMMA NegotiatedWith ==
  ASSUME NEW c, NEW p, NEW d, NEW q, typed(c, p), typed(d, q), validate(d, q),
         parse_open(open(d, q), c, p).ok
  PROVE  Outcome(c, p, d, q, parse_open(open(d, q), c, p).n)
<1> DEFINE o == open(d, q)
           t == capabilities(o.caps)
           n == negotiated(o, c, p, t)
<1>1. /\ t.as4 = {d.asn} /\ t.mp = (q.ipv4 \/ q.ipv6)
      /\ t.v4 = q.ipv4 /\ t.v6 = q.ipv6
  <2>1. q.ipv4 \in BOOLEAN /\ q.ipv6 \in BOOLEAN
    BY Zenon DEF typed
  <2>2. Offered(d, q, t)
    BY <2>1, OpenCapabilities
  <2> QED
    BY <2>2, Zenon DEF Offered
<1>2. o.router_id = d.router_id /\ o.hold = q.hold_time_secs
  BY Zenon DEF open
<1>3. q.ipv4 \/ q.ipv6
  BY Zenon DEF validate, validate_peer
<1> HIDE DEF o, t
<1>4. /\ parse_open(o, c, p).n = n
      /\ c.asn # p.remote_asn \/ o.router_id # c.router_id
      /\ unwrap_or(t.as4, o.asn) = p.remote_asn
  BY AcceptedOpen DEF o, t
<1>5. unwrap_or(t.as4, o.asn) = d.asn
  BY <1>1, Zenon DEF unwrap_or
<1>6. /\ n.router_id = o.router_id
      /\ n.hold = IF o.hold < p.hold_time_secs THEN o.hold ELSE p.hold_time_secs
      /\ n.asn4 = (t.as4 # {}) /\ n.internal = (c.asn = p.remote_asn)
      /\ n.ipv4 = (p.ipv4 /\ (t.v4 \/ ~t.mp)) /\ n.ipv6 = (p.ipv6 /\ t.v6)
  BY Zenon DEF negotiated
<1> HIDE DEF n
<1>7. n.asn4 = TRUE
  BY <1>1, <1>6, Zenon
<1>8. n.ipv4 = (p.ipv4 /\ q.ipv4) /\ n.ipv6 = (p.ipv6 /\ q.ipv6)
  BY <1>1, <1>3, <1>6, Zenon DEF typed
<1>9. /\ n.router_id = d.router_id
      /\ n.hold = IF q.hold_time_secs < p.hold_time_secs THEN q.hold_time_secs
                  ELSE p.hold_time_secs
      /\ n.internal = (c.asn = p.remote_asn)
  BY <1>2, <1>6, Zenon
<1>10. d.asn = p.remote_asn /\ (c.asn # p.remote_asn \/ d.router_id # c.router_id)
  BY <1>2, <1>4, <1>5, Zenon
<1> QED
  BY <1>4, <1>7, <1>8, <1>9, <1>10, Zenon DEF o, Outcome

(* Two valid configurations whose OPENs accept each other give both        *)
(* speakers the same session, with a next hop for each of its families,    *)
(* and one connection that both prefer.                                    *)
LEMMA Agreement ==
  ASSUME NEW c, NEW p, NEW d, NEW q,
         typed(c, p), typed(d, q), validate(c, p), validate(d, q),
         parse_open(open(d, q), c, p).ok, parse_open(open(c, p), d, q).ok
  PROVE  LET n == parse_open(open(d, q), c, p).n
             m == parse_open(open(c, p), d, q).n
         IN  /\ n.hold = m.hold /\ n.asn4 = m.asn4 /\ n.internal = m.internal
             /\ n.ipv4 = m.ipv4 /\ n.ipv6 = m.ipv6
             /\ n.ipv4 => nh4(p) # {}
             /\ n.ipv6 => nh6(p) # {}
             /\ prefer_incoming(c, p, n) <=> ~prefer_incoming(d, q, m)
<1> DEFINE n == parse_open(open(d, q), c, p).n
           m == parse_open(open(c, p), d, q).n
<1>1. Outcome(c, p, d, q, n)
  BY NegotiatedWith, Zenon
<1>2. Outcome(d, q, c, p, m)
  BY NegotiatedWith, Zenon
<1>3. (p.ipv4 => nh4(p) # {}) /\ (p.ipv6 => nh6(p) # {})
  BY Zenon DEF validate, validate_peer
<1> HIDE DEF n, m
<1>4. n.hold = m.hold
  BY <1>1, <1>2 DEF Outcome, typed
<1>5. n.asn4 = m.asn4 /\ n.internal = m.internal
  BY <1>1, <1>2, Zenon DEF Outcome
<1>6. n.ipv4 = m.ipv4 /\ n.ipv6 = m.ipv6
  BY <1>1, <1>2, Zenon DEF Outcome, typed
<1>7. (n.ipv4 => nh4(p) # {}) /\ (n.ipv6 => nh6(p) # {})
  BY <1>1, <1>3, Zenon DEF Outcome, typed
<1>8. prefer_incoming(c, p, n) <=> ~prefer_incoming(d, q, m)
  BY <1>1, <1>2 DEF Outcome, prefer_incoming, typed
<1> QED
  BY <1>4, <1>5, <1>6, <1>7, <1>8, Zenon DEF n, m

----------------------------------------------------------------------------
(* Types *)

States == {"opensend", "opensent", "confirmsend", "openconfirm", "established",
           "notify", "closed"}

Sessions == [router_id : Nat, hold : Nat, asn4 : BOOLEAN, internal : BOOLEAN,
             ipv4 : BOOLEAN, ipv6 : BOOLEAN] \cup {NoSession}

Records == [state : States, n : Sessions, timer : Nat, keepalive : Nat,
            out : Seq(Halves), deadline : Nat]

(* What handshake() will make of each OPEN, from the configurations. *)
Verdicts ==
    [s \in Speakers |->
        parse_open(open(cfg[Other(s)].c, Peer(Other(s))), cfg[s].c, Peer(s))]

(* The type invariant in inductive form: a speaker past the handshake      *)
(* works with the session it negotiated.                                   *)
TypeInv ==
    /\ cfg \in Settings /\ verdict = Verdicts
    /\ speaker \in [Speakers -> Records]
    /\ chan \in [Speakers -> Seq(Halves)]
    /\ silence \in [Speakers -> Nat] /\ lost \in [Speakers -> Nat]
    /\ stalled \subseteq Speakers /\ mute \subseteq Speakers /\ garbled \subseteq Speakers
    /\ \A s \in Speakers :
        /\ Len(chan[s]) <= BufferCap
        /\ lost[s] <= silence[s]
        /\ Negotiated(s) => verdict[s].ok /\ speaker[s].n = verdict[s].n

(* The configurations are valid, and so is an accepted session: its hold   *)
(* time is zero or at least three seconds.                                 *)
LEMMA ValidSettings ==
  ASSUME cfg \in Settings, verdict = Verdicts, NEW s \in Speakers
  PROVE  /\ typed(cfg[s].c, cfg[s].p) /\ validate(cfg[s].c, cfg[s].p)
         /\ Peer(s).connect_timeout_secs \in Nat \ {0}
         /\ Peer(s).write_timeout_secs \in Nat \ {0}
         /\ verdict[s].ok => /\ verdict[s].n \in Sessions
                             /\ verdict[s].n.hold \in Nat \ {1, 2}
<1>1. \A r \in Speakers : typed(cfg[r].c, cfg[r].p) /\ validate(cfg[r].c, cfg[r].p)
  BY SessionAssumption, Zenon
<1>2. \A r \in Speakers : Peer(r).hold_time_secs \in Nat \ {1, 2}
  BY <1>1 DEF validate, validate_peer, typed, Peer
<1>3. /\ Peer(s).connect_timeout_secs \in Nat \ {0}
      /\ Peer(s).write_timeout_secs \in Nat \ {0}
  <2>1. /\ Peer(s).connect_timeout_secs \in 1..MAX_TIMEOUT_SECS
        /\ Peer(s).write_timeout_secs \in 1..MAX_TIMEOUT_SECS
    BY <1>1, Zenon DEF validate, validate_peer, Peer
  <2>2. MAX_TIMEOUT_SECS \in Nat
    BY DEF MAX_TIMEOUT_SECS
  <2> QED
    BY <2>1, <2>2
<1>4. ASSUME verdict[s].ok
      PROVE  verdict[s].n \in Sessions /\ verdict[s].n.hold \in Nat \ {1, 2}
  <2> DEFINE c == cfg[s].c
             p == Peer(s)
             o == open(cfg[Other(s)].c, Peer(Other(s)))
             t == capabilities(o.caps)
             n == negotiated(o, c, p, t)
  <2>1. verdict[s] = parse_open(o, c, p)
    BY Zenon DEF Verdicts
  <2>2. verdict[s].n = n
    <3> HIDE DEF c, p, o, n
    <3>1. parse_open(o, c, p) = [ok |-> TRUE, n |-> n]
      BY <1>4, <2>1, AcceptedOpen, Zenon DEF n, t
    <3> QED
      BY <2>1, <3>1
  <2>3. o.router_id \in Nat /\ o.hold \in Nat \ {1, 2}
    BY <1>1, <1>2, TwoSpeakers, Zenon DEF open, typed, Peer
  <2>4. p.hold_time_secs \in Nat \ {1, 2} /\ p.ipv4 \in BOOLEAN /\ p.ipv6 \in BOOLEAN
    BY <1>1, <1>2, Zenon DEF typed, Peer
  <2> HIDE DEF c, p, o, t
  <2>5. /\ n.hold \in Nat \ {1, 2}
        /\ n \in [router_id : Nat, hold : Nat, asn4 : BOOLEAN, internal : BOOLEAN,
                  ipv4 : BOOLEAN, ipv6 : BOOLEAN]
    BY <2>3, <2>4, Zenon DEF negotiated
  <2> QED
    BY <2>2, <2>5, Zenon DEF Sessions
<1> QED
  BY <1>1, <1>3, <1>4, Zenon

(* The records that the actions of a speaker build. *)
LEMMA ClosedRecord ==
  /\ Closed \in Records /\ Closed.state = "closed" /\ Closed.out = <<>>
  /\ Closed.n = NoSession /\ Closed.timer = 0 /\ Closed.keepalive = 0 /\ Closed.deadline = 0
  BY DEF Closed, Records, States, Sessions, NoSession

LEMMA FrameHalves ==
  ASSUME NEW k \in Kinds
  PROVE  Frame(k) \in Seq(Halves) /\ Len(Frame(k)) = 2
         /\ Frame(k)[1] = <<k, 1>> /\ Frame(k)[2] = <<k, 2>>
<1>1. <<k, 1>> \in Halves /\ <<k, 2>> \in Halves
  BY Zenon DEF Halves
<1> QED
  BY <1>1 DEF Frame

LEMMA SendingRecord ==
  ASSUME NEW x \in Records, NEW k \in Kinds, NEW d \in Nat
  PROVE  LET y == Sending(x, k, d)
         IN  /\ y \in Records /\ y.out = Frame(k) /\ y.state = x.state /\ y.n = x.n
             /\ y.timer = x.timer /\ y.keepalive = x.keepalive /\ y.deadline = d
  BY FrameHalves, Zenon DEF Sending, Records

LEMMA NotifyRecord ==
  LET y == [Sending(Closed, "NOTIFICATION", 1) EXCEPT !.state = "notify"]
  IN  /\ y \in Records /\ y.state = "notify" /\ y.out = Frame("NOTIFICATION")
      /\ y.n = NoSession /\ y.timer = 0 /\ y.keepalive = 0 /\ y.deadline = 1
<1> DEFINE x == Sending(Closed, "NOTIFICATION", 1)
<1>3. /\ x \in Records /\ x.out = Frame("NOTIFICATION") /\ x.n = Closed.n
      /\ x.timer = Closed.timer /\ x.keepalive = Closed.keepalive /\ x.deadline = 1
  <2>1. Closed \in Records /\ "NOTIFICATION" \in Kinds /\ 1 \in Nat
    BY ClosedRecord DEF Kinds
  <2> QED
    BY <2>1, SendingRecord, Zenon
<1>1. /\ x \in Records /\ x.out = Frame("NOTIFICATION")
      /\ x.n = NoSession /\ x.timer = 0 /\ x.keepalive = 0 /\ x.deadline = 1
  BY <1>3, ClosedRecord, Zenon
<1> HIDE DEF x
<1>2. LET y == [x EXCEPT !.state = "notify"]
      IN  /\ y \in Records /\ y.state = "notify" /\ y.out = Frame("NOTIFICATION")
          /\ y.n = NoSession /\ y.timer = 0 /\ y.keepalive = 0 /\ y.deadline = 1
  BY <1>1, Zenon DEF Records, States
<1> QED
  BY <1>2, Zenon DEF x

(* transmit()'s interval: at least a second, at most a third of the hold   *)
(* time.                                                                   *)
LEMMA KeepaliveInterval ==
  ASSUME NEW h \in Nat
  PROVE  /\ keepalive(h) \in Nat \ {0}
         /\ h >= 3 => 3 * keepalive(h) <= h
  BY DEF keepalive

LEMMA MinOfTwo ==
  ASSUME NEW a \in Int, NEW b \in Int
  PROVE  Min({a, b}) \in {a, b} /\ Min({a, b}) <= a /\ Min({a, b}) <= b
<1>1. \E x \in {a, b} : \A y \in {a, b} : x <= y
  <2>1. CASE a <= b
    BY <2>1
  <2>2. CASE b <= a
    BY <2>2
  <2> QED
    BY <2>1, <2>2
<1>2. Min({a, b}) \in {a, b} /\ \A y \in {a, b} : Min({a, b}) <= y
  BY <1>1, Zenon DEF Min
<1> QED
  BY <1>2, Zenon

(* The rest of a write. *)
LEMMA RestOf ==
  ASSUME NEW q \in Seq(Halves), NEW k \in 0..Len(q)
  PROVE  /\ SubSeq(q, 1, k) \in Seq(Halves) /\ Len(SubSeq(q, 1, k)) = k
         /\ SubSeq(q, k + 1, Len(q)) \in Seq(Halves)
         /\ Len(SubSeq(q, k + 1, Len(q))) = Len(q) - k
<1>1. \A i \in 1..Len(q) : q[i] \in Halves
  BY ElementOfSeq, Zenon
<1> QED
  BY <1>1, SubSeqProperties

(* How the write of record x leaves it as y. *)
AfterWrite(x, y) ==
    /\ \/ y.state = x.state
       \/ y.state = "closed" /\ x.state \notin {"opensend", "confirmsend", "established"}
       \/ x.state = "opensend" /\ y.state = "opensent" /\ y.out = <<>>
       \/ x.state = "confirmsend" /\ y.state = "openconfirm" /\ y.out = <<>>
    /\ y.state \in {"opensend", "confirmsend", "notify"} => y.out # <<>>
    /\ y.state # "closed" => y.n = x.n
    /\ x.state = "established" =>
        y.timer = x.timer /\ y.keepalive \in {x.keepalive, keepalive(x.n.hold)}

LEMMA WrittenRecord ==
  ASSUME TypeInv, NEW s \in Speakers, NEW k \in 1..Len(speaker[s].out)
  PROVE  /\ Written(s, k) \in Records
         /\ Written(s, k).out = SubSeq(speaker[s].out, k + 1, Len(speaker[s].out))
         /\ AfterWrite(speaker[s], Written(s, k))
<1> DEFINE x == speaker[s]
           rest == SubSeq(x.out, k + 1, Len(x.out))
           y == Written(s, k)
<1>1. x \in Records /\ x.out \in Seq(Halves) /\ x.n.hold \in Nat
  BY DEF TypeInv, Records, Sessions, NoSession
<1>2. rest \in Seq(Halves)
  BY <1>1, RestOf
<1>3. Peer(s).connect_timeout_secs \in Nat
  BY ValidSettings, Zenon DEF TypeInv
<1>4. keepalive(x.n.hold) \in Nat
  BY <1>1, KeepaliveInterval, Zenon
<1>5. y = CASE rest # <<>> -> [x EXCEPT !.out = rest]
          [] rest = <<>> /\ x.state = "opensend" ->
                [x EXCEPT !.state = "opensent", !.out = <<>>, !.deadline = 0]
          [] rest = <<>> /\ x.state = "confirmsend" ->
                [x EXCEPT !.state = "openconfirm", !.out = <<>>, !.deadline = 0,
                          !.timer = IF x.n.hold = 0 THEN Peer(s).connect_timeout_secs
                                    ELSE x.n.hold]
          [] rest = <<>> /\ x.state = "established" ->
                [x EXCEPT !.out = <<>>, !.deadline = 0,
                          !.keepalive = IF Head(x.out)[1] = "KEEPALIVE"
                                        THEN keepalive(x.n.hold) ELSE @]
          [] OTHER -> Closed
  BY Zenon DEF Written
<1> HIDE DEF x, rest, y
<1> USE DEF Records, States
<1>6. CASE rest # <<>>
  <2>1. y = [x EXCEPT !.out = rest]
    BY <1>5, <1>6, Zenon
  <2>2. y \in Records /\ y.out = rest /\ AfterWrite(x, y)
    BY <1>1, <1>2, <1>6, <2>1, Zenon DEF AfterWrite
  <2> QED
    BY <2>2, Zenon DEF x, y, rest
<1>7. CASE rest = <<>> /\ x.state = "opensend"
  <2>1. y = [x EXCEPT !.state = "opensent", !.out = <<>>, !.deadline = 0]
    BY <1>5, <1>7, Zenon
  <2>2. y \in Records /\ y.out = rest /\ AfterWrite(x, y)
    BY <1>1, <1>2, <1>7, <2>1, Zenon DEF AfterWrite
  <2> QED
    BY <2>2, Zenon DEF x, y, rest
<1>8. CASE rest = <<>> /\ x.state = "confirmsend"
  <2> DEFINE t == IF x.n.hold = 0 THEN Peer(s).connect_timeout_secs ELSE x.n.hold
  <2>1. y = [x EXCEPT !.state = "openconfirm", !.out = <<>>, !.deadline = 0, !.timer = t]
    BY <1>5, <1>8, Zenon
  <2>2. t \in Nat
    BY <1>1, <1>3, Zenon
  <2> HIDE DEF t
  <2>3. y \in Records /\ y.out = rest /\ AfterWrite(x, y)
    BY <1>1, <1>2, <1>8, <2>1, <2>2, Zenon DEF AfterWrite
  <2> QED
    BY <2>3, Zenon DEF x, y, rest
<1>9. CASE rest = <<>> /\ x.state = "established"
  <2> DEFINE t == IF Head(x.out)[1] = "KEEPALIVE" THEN keepalive(x.n.hold) ELSE x.keepalive
  <2>1. y = [x EXCEPT !.out = <<>>, !.deadline = 0, !.keepalive = t]
    BY <1>5, <1>9, Zenon
  <2>2. t \in Nat /\ t \in {x.keepalive, keepalive(x.n.hold)}
    BY <1>1, <1>4, Zenon
  <2> HIDE DEF t
  <2>3. y \in Records /\ y.out = rest /\ AfterWrite(x, y)
    BY <1>1, <1>2, <1>9, <2>1, <2>2, Zenon DEF AfterWrite
  <2> QED
    BY <2>3, Zenon DEF x, y, rest
<1>10. CASE rest = <<>> /\ x.state \notin {"opensend", "confirmsend", "established"}
  <2>1. y = Closed
    BY <1>5, <1>10, Zenon
  <2>2. y \in Records /\ y.out = rest /\ AfterWrite(x, y)
    BY <1>1, <1>2, <1>10, <2>1, ClosedRecord, Zenon DEF AfterWrite
  <2> QED
    BY <2>2, Zenon DEF x, y, rest
<1> QED
  BY <1>6, <1>7, <1>8, <1>9, <1>10, Zenon

(* A record that ends the session, with or without a NOTIFICATION. *)
Ending(y) ==
    /\ y.state = "closed" \/ (y.state = "notify" /\ y.out # <<>>)
    /\ y.n = NoSession /\ y.timer = 0 /\ y.keepalive = 0 /\ y.deadline \in {0, 1}

(* What reading a message k makes of speaker s: y.  The session ends, or   *)
(* it moves on as the handshake, the confirmation or receive() say.        *)
Handled(s, k, y) ==
    \/ Ending(y) /\ UNCHANGED history
    \/ /\ State(s) = "opensent" /\ k = "OPEN" /\ y.state = "confirmsend"
       /\ verdict[s].ok /\ y.n = verdict[s].n /\ y.out = Frame("KEEPALIVE")
       /\ y.timer = 0 /\ y.keepalive = 0 /\ y.deadline = Peer(s).write_timeout_secs
       /\ UNCHANGED history
    \/ /\ State(s) = "openconfirm" /\ k = "KEEPALIVE" /\ y.state = "established"
       /\ y.n = speaker[s].n /\ y.out = speaker[s].out
       /\ y.timer = Hold(s) /\ y.keepalive = keepalive(Hold(s))
       /\ y.deadline = speaker[s].deadline
       /\ UNCHANGED history
    \/ /\ State(s) = "established" /\ k \in {"KEEPALIVE", "UPDATE"}
       /\ y.state = "established"
       /\ y.n = speaker[s].n /\ y.out = speaker[s].out
       /\ y.timer = Hold(s) /\ y.keepalive = speaker[s].keepalive
       /\ y.deadline = speaker[s].deadline
       /\ silence' = [silence EXCEPT ![s] = 0] /\ lost' = [lost EXCEPT ![s] = 0]
    \/ /\ State(s) = "established" /\ k = "ROUTE-REFRESH"
       /\ y = speaker[s]
       /\ UNCHANGED history

LEMMA ReportEffect ==
  ASSUME NEW s \in Speakers, Report(s)
  PROVE  \E y \in Records : Become(s, y) /\ Ending(y)
<1> DEFINE y == [Sending(Closed, "NOTIFICATION", 1) EXCEPT !.state = "notify"]
<1>1. /\ y \in Records /\ y.state = "notify" /\ y.out = Frame("NOTIFICATION") /\ Become(s, y)
      /\ y.n = NoSession /\ y.timer = 0 /\ y.keepalive = 0 /\ y.deadline = 1
  BY NotifyRecord, Zenon DEF Report
<1>2. Frame("NOTIFICATION") # <<>>
  BY Zenon DEF Frame
<1> HIDE DEF y
<1> QED
  BY <1>1, <1>2, Zenon DEF Ending

LEMMA HandleEffect ==
  ASSUME TypeInv, NEW s \in Speakers, NEW k \in Kinds, Handle(s, k)
  PROVE  \E y \in Records : Become(s, y) /\ Handled(s, k, y)
<1> DEFINE x == speaker[s]
<1>1. x \in Records /\ Hold(s) \in Nat /\ Hold(s) = x.n.hold /\ State(s) = x.state
  BY DEF TypeInv, Records, Sessions, NoSession, Hold, State
<1>2. CASE State(s) = "opensent" /\ k = "OPEN" /\ HandleOpen(s)
  <2>1. CASE verdict[s].ok
    <3> DEFINE c == [Closed EXCEPT !.state = "confirmsend", !.n = verdict[s].n]
               y == Sending(c, "KEEPALIVE", Peer(s).write_timeout_secs)
    <3>1. verdict[s].n \in Sessions /\ Peer(s).write_timeout_secs \in Nat
      BY <2>1, ValidSettings, Zenon DEF TypeInv
    <3>2. /\ c \in Records /\ c.state = "confirmsend" /\ c.n = verdict[s].n
          /\ c.timer = 0 /\ c.keepalive = 0
      BY <3>1, ClosedRecord, Zenon DEF Records, States
    <3>3. Become(s, y) /\ UNCHANGED history
      BY <1>2, <2>1, Zenon DEF HandleOpen, Confirm
    <3> HIDE DEF c
    <3>4. /\ y \in Records /\ y.out = Frame("KEEPALIVE")
          /\ y.state = "confirmsend" /\ y.n = verdict[s].n
          /\ y.timer = 0 /\ y.keepalive = 0 /\ y.deadline = Peer(s).write_timeout_secs
      BY <3>1, <3>2, SendingRecord, Zenon DEF Kinds
    <3> HIDE DEF y
    <3> QED
      BY <1>2, <2>1, <3>3, <3>4, Zenon DEF Handled
  <2>2. CASE ~verdict[s].ok
    <3>1. Report(s) /\ UNCHANGED history
      BY <1>2, <2>2, Zenon DEF HandleOpen
    <3> QED
      BY <3>1, ReportEffect, Zenon DEF Handled
  <2> QED
    BY <2>1, <2>2, Zenon
<1>3. CASE State(s) = "openconfirm" /\ k = "KEEPALIVE" /\ Establish(s) /\ UNCHANGED history
  <2> DEFINE y == [x EXCEPT !.state = "established", !.timer = Hold(s),
                            !.keepalive = keepalive(Hold(s))]
  <2>1. Become(s, y)
    BY <1>3, Zenon DEF Establish
  <2>2. /\ y \in Records /\ y.state = "established" /\ y.n = x.n /\ y.out = x.out
        /\ y.timer = Hold(s) /\ y.keepalive = keepalive(Hold(s)) /\ y.deadline = x.deadline
    <3> HIDE DEF x
    <3> QED
      BY <1>1, KeepaliveInterval, Zenon DEF Records, States
  <2> HIDE DEF y
  <2> QED
    BY <1>3, <2>1, <2>2, Zenon DEF Handled
<1>4. CASE State(s) = "established" /\ k \in {"KEEPALIVE", "UPDATE"} /\ ResetHold(s)
  <2> DEFINE y == [x EXCEPT !.timer = Hold(s)]
  <2>1. /\ Become(s, y)
        /\ silence' = [silence EXCEPT ![s] = 0] /\ lost' = [lost EXCEPT ![s] = 0]
    BY <1>4, Zenon DEF ResetHold
  <2>2. /\ y \in Records /\ y.state = x.state /\ y.n = x.n /\ y.out = x.out
        /\ y.timer = Hold(s) /\ y.keepalive = x.keepalive /\ y.deadline = x.deadline
    <3> HIDE DEF x
    <3> QED
      BY <1>1, Zenon DEF Records
  <2> HIDE DEF y
  <2> QED
    BY <1>1, <1>4, <2>1, <2>2, Zenon DEF Handled
<1>5. CASE State(s) = "established" /\ k = "ROUTE-REFRESH" /\ UNCHANGED <<speaker, history>>
  <2>1. Become(s, x)
    BY <1>5, Zenon DEF Become, TypeInv
  <2> QED
    BY <1>1, <1>5, <2>1, Zenon DEF Handled
<1>6. CASE Unexpected(s, k)
  BY <1>6, ClosedRecord, ReportEffect, Zenon DEF Unexpected, Handled, Ending
<1> QED
  BY <1>2, <1>3, <1>4, <1>5, <1>6, Zenon DEF Handle

(* A change of one speaker's record and of the rest of the state keeps the *)
(* types when its parts do.                                                *)
LEMMA BecomeKeeps ==
  ASSUME TypeInv, NEW s \in Speakers, NEW y \in Records, Become(s, y), UNCHANGED fixed,
         y.state \in {"confirmsend", "openconfirm", "established"} =>
             verdict[s].ok /\ y.n = verdict[s].n,
         chan' \in [Speakers -> Seq(Halves)],
         \A r \in Speakers : Len(chan'[r]) <= BufferCap,
         silence' \in [Speakers -> Nat], lost' \in [Speakers -> Nat],
         \A r \in Speakers : lost'[r] <= silence'[r],
         UNCHANGED faults, garbled' \subseteq Speakers
  PROVE  TypeInv'
<1>1. speaker' = [speaker EXCEPT ![s] = y] /\ speaker' \in [Speakers -> Records]
  BY Zenon DEF Become, TypeInv
<1>2. cfg' = cfg /\ verdict' = verdict /\ Verdicts' = Verdicts
  BY Zenon DEF fixed, Verdicts, Peer
<1>3. ASSUME NEW r \in Speakers, Negotiated(r)'
      PROVE  verdict'[r].ok /\ speaker'[r].n = verdict'[r].n
  <2>1. CASE r = s
    BY <1>1, <1>2, <1>3, <2>1, Zenon DEF Negotiated, State, TypeInv
  <2>2. CASE r # s
    BY <1>1, <1>2, <1>3, <2>2, Zenon DEF Negotiated, State, TypeInv
  <2> QED
    BY <2>1, <2>2, Zenon
<1> QED
  BY <1>1, <1>2, <1>3, Zenon DEF TypeInv, faults

(* A step that changes a speaker's record only. *)
LEMMA RecordKeeps ==
  ASSUME TypeInv, NEW s \in Speakers, NEW y \in Records, Become(s, y),
         y.state \in {"confirmsend", "openconfirm", "established"} =>
             verdict[s].ok /\ y.n = verdict[s].n,
         UNCHANGED <<fixed, chan, faults, history, garbled>>
  PROVE  TypeInv'
<1>1. /\ chan' \in [Speakers -> Seq(Halves)]
      /\ \A r \in Speakers : Len(chan'[r]) <= BufferCap
      /\ silence' \in [Speakers -> Nat] /\ lost' \in [Speakers -> Nat]
      /\ \A r \in Speakers : lost'[r] <= silence'[r]
      /\ garbled' \subseteq Speakers
  BY Zenon DEF TypeInv, history
<1> QED
  BY <1>1, BecomeKeeps, Zenon

LEMMA TypeInit == Init => TypeInv
<1> SUFFICES ASSUME Init PROVE TypeInv
  BY Zenon
<1>1. cfg \in Settings /\ verdict = Verdicts
  BY Zenon DEF Init, Verdicts
<1>2. ASSUME NEW s \in Speakers
      PROVE  LET y == Sending([Closed EXCEPT !.state = "opensend",
                                             !.timer = Peer(s).connect_timeout_secs],
                              "OPEN", Peer(s).write_timeout_secs)
             IN  y \in Records /\ y.state = "opensend"
  <2> DEFINE x == [Closed EXCEPT !.state = "opensend", !.timer = Peer(s).connect_timeout_secs]
  <2>1. Peer(s).connect_timeout_secs \in Nat /\ Peer(s).write_timeout_secs \in Nat
    BY <1>1, ValidSettings, Zenon
  <2>2. x \in Records /\ x.state = "opensend"
    BY <2>1, ClosedRecord, Zenon DEF Records, States
  <2> HIDE DEF x
  <2>3. LET y == Sending(x, "OPEN", Peer(s).write_timeout_secs)
        IN  y \in Records /\ y.state = "opensend"
    BY <2>1, <2>2, SendingRecord, Zenon DEF Kinds
  <2> QED
    BY <2>3, Zenon DEF x
<1>3. /\ speaker \in [Speakers -> Records]
      /\ \A s \in Speakers : speaker[s].state = "opensend"
  BY <1>2, Zenon DEF Init
<1>4. /\ chan = [s \in Speakers |-> <<>>]
      /\ stalled = {} /\ mute = {} /\ garbled = {}
      /\ silence = [s \in Speakers |-> 0] /\ lost = [s \in Speakers |-> 0]
  BY Zenon DEF Init
<1>5. /\ chan \in [Speakers -> Seq(Halves)]
      /\ \A s \in Speakers : Len(chan[s]) <= BufferCap
  <2>1. chan = [s \in Speakers |-> <<>>] /\ <<>> \in Seq(Halves)
    BY <1>4
  <2>2. Len(<<>>) = 0 /\ 0 <= BufferCap
    BY SessionAssumption
  <2>3. \A s \in Speakers : chan[s] = <<>>
    BY <2>1, Zenon
  <2> QED
    BY <2>1, <2>2, <2>3, Zenon
<1>6. /\ silence \in [Speakers -> Nat] /\ lost \in [Speakers -> Nat]
      /\ \A s \in Speakers : lost[s] <= silence[s]
      /\ stalled = {} /\ mute = {} /\ garbled = {}
  BY <1>4
<1>7. \A s \in Speakers : ~Negotiated(s)
  BY <1>3, Zenon DEF Negotiated, State
<1>8. stalled \subseteq Speakers /\ mute \subseteq Speakers /\ garbled \subseteq Speakers
  BY <1>6, Zenon
<1> QED
  BY <1>1, <1>3, <1>5, <1>6, <1>7, <1>8, Zenon DEF TypeInv

(* A frame is read from the neighbor's stream. *)
LEMMA DrainKeeps ==
  ASSUME TypeInv, NEW r \in Speakers, Len(chan[r]) >= 2,
         chan' = [chan EXCEPT ![r] = SubSeq(@, 3, Len(@))]
  PROVE  /\ chan' \in [Speakers -> Seq(Halves)]
         /\ \A t \in Speakers : Len(chan'[t]) <= BufferCap
<1>1. chan[r] \in Seq(Halves) /\ 2 \in 0..Len(chan[r])
  BY DEF TypeInv
<1>2. /\ SubSeq(chan[r], 2 + 1, Len(chan[r])) \in Seq(Halves)
      /\ Len(SubSeq(chan[r], 2 + 1, Len(chan[r]))) = Len(chan[r]) - 2
  BY <1>1, RestOf, Zenon
<1> QED
  BY <1>1, <1>2, SessionAssumption DEF TypeInv

(* Something is written to one's own stream, as far as there is room. *)
LEMMA FillKeeps ==
  ASSUME TypeInv, NEW r \in Speakers, NEW q \in Seq(Halves), Len(q) <= Space(r),
         chan' = [chan EXCEPT ![r] = @ \o q]
  PROVE  /\ chan' \in [Speakers -> Seq(Halves)]
         /\ \A t \in Speakers : Len(chan'[t]) <= BufferCap
<1>1. chan[r] \in Seq(Halves)
  BY Zenon DEF TypeInv
<1>2. chan[r] \o q \in Seq(Halves) /\ Len(chan[r] \o q) = Len(chan[r]) + Len(q)
  BY <1>1, ConcatProperties, Zenon
<1> QED
  BY <1>1, <1>2, SessionAssumption DEF TypeInv, Space

(* How many halves Write takes. *)
LEMMA WriteAmount ==
  ASSUME TypeInv, NEW s \in Speakers, Write(s)
  PROVE  LET k == Min({Space(s), Len(speaker[s].out)})
         IN  k \in 1..Len(speaker[s].out) /\ k <= Space(s)
<1>1. Space(s) \in Int /\ Len(speaker[s].out) \in Nat
  BY SessionAssumption DEF TypeInv, Records, Space
<1> DEFINE a == Space(s)
           b == Len(speaker[s].out)
           k == Min({a, b})
<1>2. k > 0
  BY Zenon DEF Write
<1>3. a \in Int /\ b \in Nat
  BY <1>1, Zenon
<1> HIDE DEF a, b
<1>4. k \in {a, b} /\ k <= a /\ k <= b
  BY <1>3, MinOfTwo
<1> HIDE DEF k
<1>5. k \in 1..b /\ k <= a
  BY <1>2, <1>3, <1>4
<1> QED
  BY <1>5, Zenon DEF k, a, b

LEMMA WriteTypes ==
  ASSUME TypeInv, NEW s \in Speakers, Write(s)
  PROVE  TypeInv'
<1> DEFINE x == speaker[s]
           k == Min({Space(s), Len(x.out)})
           y == Written(s, k)
<1>1. k \in 1..Len(x.out) /\ k <= Space(s) /\ x \in Records /\ x.out \in Seq(Halves)
  BY WriteAmount, Zenon DEF TypeInv, Records
<1>2. /\ chan' = [chan EXCEPT ![s] = @ \o SubSeq(x.out, 1, k)]
      /\ Become(s, y) /\ UNCHANGED <<fixed, faults, history, garbled>>
  BY Zenon DEF Write
<1> HIDE DEF k
<1>3. y \in Records /\ AfterWrite(x, y)
  BY <1>1, WrittenRecord, Zenon
<1>4. SubSeq(x.out, 1, k) \in Seq(Halves) /\ Len(SubSeq(x.out, 1, k)) = k
  BY <1>1, RestOf
<1>5. /\ chan' \in [Speakers -> Seq(Halves)]
      /\ \A t \in Speakers : Len(chan'[t]) <= BufferCap
  BY <1>1, <1>2, <1>4, FillKeeps, Zenon
<1>6. y.state \in {"confirmsend", "openconfirm", "established"} =>
          verdict[s].ok /\ y.n = verdict[s].n
  BY <1>3, Zenon DEF AfterWrite, TypeInv, Negotiated, State
<1> HIDE DEF y
<1> QED
  BY <1>2, <1>3, <1>5, <1>6, BecomeKeeps, Zenon DEF TypeInv, history

LEMMA ReadTypes ==
  ASSUME TypeInv, NEW s \in Speakers, Read(s)
  PROVE  /\ TypeInv'
         /\ \E y \in Records :
              /\ Become(s, y)
              /\ \/ Ending(y) /\ UNCHANGED history
                 \/ Handled(s, chan[Other(s)][1][1], y)
<1> DEFINE in == chan[Other(s)]
           k == in[1][1]
<1>1. /\ Other(s) \in Speakers /\ Len(in) >= 2
      /\ chan' = [chan EXCEPT ![Other(s)] = SubSeq(@, 3, Len(@))]
      /\ UNCHANGED <<fixed, faults>> /\ garbled' \in {garbled, garbled \cup {s}}
      /\ Handle(s, k) \/ (Report(s) /\ UNCHANGED history)
  BY TwoSpeakers, Zenon DEF Read, Readable
<1>2. k \in Kinds
  <2>1. in \in Seq(Halves) /\ 1 \in 1..Len(in)
    BY <1>1 DEF TypeInv
  <2>2. in[1] \in Halves
    BY <2>1, ElementOfSeq, Zenon
  <2> QED
    BY <2>2, Zenon DEF Halves
<1>3. PICK y \in Records : /\ Become(s, y)
                           /\ \/ Ending(y) /\ UNCHANGED history
                              \/ Handled(s, k, y)
  BY <1>1, <1>2, HandleEffect, ReportEffect, Zenon
<1>4. y.state \in {"confirmsend", "openconfirm", "established"} =>
          verdict[s].ok /\ y.n = verdict[s].n
  BY <1>3, Zenon DEF Handled, Ending, TypeInv, Negotiated, State
<1>5. /\ silence' \in [Speakers -> Nat] /\ lost' \in [Speakers -> Nat]
      /\ \A r \in Speakers : lost'[r] <= silence'[r]
  <2>1. CASE UNCHANGED history
    BY <2>1, Zenon DEF TypeInv, history
  <2>2. CASE silence' = [silence EXCEPT ![s] = 0] /\ lost' = [lost EXCEPT ![s] = 0]
    BY <2>2 DEF TypeInv
  <2> QED
    BY <1>3, <2>1, <2>2, Zenon DEF Handled
<1>6. /\ chan' \in [Speakers -> Seq(Halves)]
      /\ \A t \in Speakers : Len(chan'[t]) <= BufferCap
  BY <1>1, DrainKeeps, Zenon
<1>7. garbled' \subseteq Speakers
  BY <1>1, Zenon DEF TypeInv
<1> QED
  BY <1>1, <1>3, <1>4, <1>5, <1>6, <1>7, BecomeKeeps, Zenon

LEMMA TickTypes ==
  ASSUME TypeInv, Tick
  PROVE  TypeInv'
<1>1. ASSUME NEW s \in Speakers
      PROVE  /\ speaker'[s] \in Records
             /\ speaker'[s].state = speaker[s].state /\ speaker'[s].n = speaker[s].n
  <2> DEFINE x == speaker[s]
             y == [x EXCEPT !.timer = Less(@), !.keepalive = Less(@), !.deadline = Less(@)]
  <2>1. x \in Records /\ speaker'[s] \in {x, y}
    BY Zenon DEF Tick, TypeInv
  <2>2. y = [x EXCEPT !.timer = Less(x.timer), !.keepalive = Less(x.keepalive),
                      !.deadline = Less(x.deadline)]
    BY Zenon
  <2>3. Less(x.timer) \in Nat /\ Less(x.keepalive) \in Nat /\ Less(x.deadline) \in Nat
    BY <2>1 DEF Less, Records
  <2> HIDE DEF x
  <2>4. y \in Records /\ y.state = x.state /\ y.n = x.n
    BY <2>1, <2>2, <2>3, Zenon DEF Records
  <2> QED
    BY <2>1, <2>4, Zenon DEF x
<1>2. speaker' = [s \in Speakers |-> speaker'[s]]
  BY Zenon DEF Tick
<1>3. speaker' \in [Speakers -> Records]
  BY <1>1, <1>2, Zenon
<1>4. \A s \in Speakers : Negotiated(s)' = Negotiated(s)
  BY <1>1, Zenon DEF Negotiated, State
<1>5. /\ silence' \in [Speakers -> Nat] /\ lost' \in [Speakers -> Nat]
      /\ \A r \in Speakers : lost'[r] <= silence'[r]
  <2>1. PICK k \in {0, 1} : silence' = Counted(silence, 1) /\ lost' = Counted(lost, k)
    BY Zenon DEF Tick
  <2>2. \A f \in [Speakers -> Nat] : \A j \in {0, 1} : Counted(f, j) \in [Speakers -> Nat]
    BY DEF Counted
  <2>3. \A r \in Speakers : Counted(lost, k)[r] <= Counted(silence, 1)[r]
    BY DEF Counted, TypeInv
  <2> QED
    BY <2>1, <2>2, <2>3, Zenon DEF TypeInv
<1>6. UNCHANGED <<cfg, verdict, chan, stalled, mute, garbled>> /\ Verdicts' = Verdicts
  BY Zenon DEF Tick, fixed, faults, Verdicts, Peer
<1> QED
  BY <1>1, <1>3, <1>4, <1>5, <1>6, Zenon DEF TypeInv

LEMMA TypeNext == TypeInv /\ [Next]_vars => TypeInv'
<1> SUFFICES ASSUME TypeInv, [Next]_vars
             PROVE  TypeInv'
  BY Zenon
<1>1. ASSUME NEW s \in Speakers, WriteDeadline(s) \/ Lose(s) \/ Expire(s)
      PROVE  TypeInv'
  <2>1. /\ Become(s, Closed) \/ Report(s)
        /\ UNCHANGED <<fixed, chan, faults, history, garbled>>
    BY <1>1, Zenon DEF WriteDeadline, Lose, Expire
  <2>2. PICK y \in Records : Become(s, y) /\ Ending(y)
    BY <2>1, ClosedRecord, ReportEffect, Zenon DEF Ending
  <2> QED
    BY <2>1, <2>2, RecordKeeps, Zenon DEF Ending
<1>2. ASSUME NEW s \in Speakers, SendKeepalive(s) \/ SendUpdate(s)
      PROVE  TypeInv'
  <2>1. PICK k \in Kinds : Become(s, Sending(speaker[s], k, Peer(s).write_timeout_secs))
    BY <1>2, Zenon DEF SendKeepalive, SendUpdate, Kinds
  <2>2. UNCHANGED <<fixed, chan, faults, history, garbled>>
    BY <1>2, Zenon DEF SendKeepalive, SendUpdate
  <2> DEFINE y == Sending(speaker[s], k, Peer(s).write_timeout_secs)
  <2>3. speaker[s] \in Records /\ Peer(s).write_timeout_secs \in Nat
    BY ValidSettings, Zenon DEF TypeInv
  <2>4. y \in Records /\ y.state = speaker[s].state /\ y.n = speaker[s].n
    BY <2>3, SendingRecord, Zenon
  <2> HIDE DEF y
  <2>5. y.state \in {"confirmsend", "openconfirm", "established"} =>
            verdict[s].ok /\ y.n = verdict[s].n
    BY <2>4, Zenon DEF TypeInv, Negotiated, State
  <2>6. Become(s, y)
    BY <2>1, Zenon DEF y
  <2> QED
    BY <2>2, <2>4, <2>5, <2>6, RecordKeeps, Zenon
<1>3. ASSUME NEW s \in Speakers, Stall(s) \/ GoMute(s)
      PROVE  TypeInv'
  BY <1>3, Zenon DEF Stall, GoMute, TypeInv, fixed, history, Verdicts, Peer, Negotiated, State
<1>4. ASSUME NEW s \in Speakers, MuteRead(s)
      PROVE  TypeInv'
  <2>1. /\ Other(s) \in Speakers /\ Len(chan[Other(s)]) >= 2
        /\ chan' = [chan EXCEPT ![Other(s)] = SubSeq(@, 3, Len(@))]
        /\ UNCHANGED <<fixed, speaker, faults, history, garbled>>
    BY <1>4, TwoSpeakers, Zenon DEF MuteRead, Readable
  <2>2. /\ chan' \in [Speakers -> Seq(Halves)]
        /\ \A t \in Speakers : Len(chan'[t]) <= BufferCap
    BY <2>1, DrainKeeps, Zenon
  <2> QED
    BY <2>1, <2>2, Zenon DEF TypeInv, fixed, faults, history, Verdicts, Peer, Negotiated, State
<1>5. ASSUME NEW s \in Speakers, MuteRefresh(s)
      PROVE  TypeInv'
  <2>1. /\ Len(Frame("ROUTE-REFRESH")) <= Space(s) /\ Frame("ROUTE-REFRESH") \in Seq(Halves)
        /\ chan' = [chan EXCEPT ![s] = @ \o Frame("ROUTE-REFRESH")]
        /\ UNCHANGED <<fixed, speaker, faults, history, garbled>>
    BY <1>5, FrameHalves, Zenon DEF MuteRefresh, Kinds
  <2>2. /\ chan' \in [Speakers -> Seq(Halves)]
        /\ \A t \in Speakers : Len(chan'[t]) <= BufferCap
    BY <2>1, FillKeeps, Zenon
  <2> QED
    BY <2>1, <2>2, Zenon DEF TypeInv, fixed, faults, history, Verdicts, Peer, Negotiated, State
<1>6. CASE UNCHANGED vars
  BY <1>6, Zenon DEF vars, TypeInv, fixed, faults, history, Verdicts, Peer, Negotiated, State
<1> QED
  BY <1>1, <1>2, <1>3, <1>4, <1>5, <1>6, WriteTypes, ReadTypes, TickTypes, Zenon DEF Next, Step

LEMMA TypeInvariant == Spec => []TypeInv
  BY TypeInit, TypeNext, PTL DEF Spec

(* How long a speaker with record x and peer p may wait. *)
Waits(p, x) ==
    /\ x.state \in {"opensend", "opensent"} => x.timer <= p.connect_timeout_secs
    /\ x.state = "openconfirm" /\ x.n.hold = 0 => x.timer <= p.connect_timeout_secs
    /\ x.state = "openconfirm" /\ x.n.hold # 0 => x.timer <= x.n.hold
    /\ x.state = "established" => x.timer <= x.n.hold
    /\ x.state \in {"confirmsend", "notify", "closed"} => x.timer = 0
    /\ x.keepalive <= keepalive(x.n.hold)
    /\ x.deadline <= p.write_timeout_secs
    /\ x.state = "notify" => x.deadline <= 1

WaitInv == \A s \in Speakers : Waits(Peer(s), speaker[s])

(* A step that makes the record of s into y. *)
LEMMA WaitKeeps ==
  ASSUME TypeInv, WaitInv, NEW s \in Speakers, NEW y, Become(s, y), UNCHANGED cfg,
         Waits(Peer(s), y)
  PROVE  WaitInv'
<1> SUFFICES ASSUME NEW r \in Speakers PROVE Waits(Peer(r)', speaker'[r])
  BY Zenon DEF WaitInv
<1>1. Peer(r)' = Peer(r)
  BY Zenon DEF Peer
<1>2. speaker'[r] = IF r = s THEN y ELSE speaker[r]
  BY Zenon DEF Become, TypeInv
<1> QED
  BY <1>1, <1>2, Zenon DEF WaitInv

LEMMA EndingWaits ==
  ASSUME NEW p, p.connect_timeout_secs \in Nat, p.write_timeout_secs \in Nat \ {0},
         NEW y, Ending(y)
  PROVE  Waits(p, y)
<1>1. y.n.hold = 0
  BY DEF Ending, NoSession
<1>2. keepalive(0) = 1
  BY DEF keepalive
<1>3. y.state \notin {"opensend", "opensent", "openconfirm", "established"}
  BY Zenon DEF Ending
<1> QED
  BY <1>1, <1>2, <1>3 DEF Ending, Waits

LEMMA WrittenWaits ==
  ASSUME TypeInv, NEW s \in Speakers, NEW k \in 1..Len(speaker[s].out),
         Waits(Peer(s), speaker[s])
  PROVE  Waits(Peer(s), Written(s, k))
<1> DEFINE x == speaker[s]
           rest == SubSeq(x.out, k + 1, Len(x.out))
           y == Written(s, k)
           p == Peer(s)
<1>1. x \in Records /\ x.n.hold \in Nat
  BY DEF TypeInv, Records, Sessions, NoSession
<1>2. p.connect_timeout_secs \in Nat /\ p.write_timeout_secs \in Nat \ {0}
  BY ValidSettings, Zenon DEF TypeInv
<1>3. keepalive(x.n.hold) \in Nat
  BY <1>1, KeepaliveInterval, Zenon
<1>4. y = CASE rest # <<>> -> [x EXCEPT !.out = rest]
          [] rest = <<>> /\ x.state = "opensend" ->
                [x EXCEPT !.state = "opensent", !.out = <<>>, !.deadline = 0]
          [] rest = <<>> /\ x.state = "confirmsend" ->
                [x EXCEPT !.state = "openconfirm", !.out = <<>>, !.deadline = 0,
                          !.timer = IF x.n.hold = 0 THEN p.connect_timeout_secs ELSE x.n.hold]
          [] rest = <<>> /\ x.state = "established" ->
                [x EXCEPT !.out = <<>>, !.deadline = 0,
                          !.keepalive = IF Head(x.out)[1] = "KEEPALIVE"
                                        THEN keepalive(x.n.hold) ELSE @]
          [] OTHER -> Closed
  BY Zenon DEF Written
<1>5. Waits(p, x)
  BY Zenon
<1> HIDE DEF x, rest, y, p
<1> USE DEF Records
<1>6. CASE rest # <<>>
  <2>1. y = [x EXCEPT !.out = rest]
    BY <1>4, <1>6, Zenon
  <2>2. /\ y.state = x.state /\ y.n = x.n /\ y.timer = x.timer
        /\ y.keepalive = x.keepalive /\ y.deadline = x.deadline
    BY <1>1, <2>1, Zenon
  <2>3. Waits(p, y)
    BY <1>5, <2>2, Zenon DEF Waits
  <2> QED
    BY <2>3, Zenon DEF p, y
<1>7. CASE rest = <<>> /\ x.state = "opensend"
  <2>1. y = [x EXCEPT !.state = "opensent", !.out = <<>>, !.deadline = 0]
    BY <1>4, <1>7, Zenon
  <2>2. /\ y.state = "opensent" /\ y.n = x.n /\ y.timer = x.timer
        /\ y.keepalive = x.keepalive /\ y.deadline = 0
    BY <1>1, <2>1, Zenon
  <2>3. Waits(p, y)
    BY <1>2, <1>5, <1>7, <2>2 DEF Waits
  <2> QED
    BY <2>3, Zenon DEF p, y
<1>8. CASE rest = <<>> /\ x.state = "confirmsend"
  <2> DEFINE t == IF x.n.hold = 0 THEN p.connect_timeout_secs ELSE x.n.hold
  <2>1. y = [x EXCEPT !.state = "openconfirm", !.out = <<>>, !.deadline = 0, !.timer = t]
    BY <1>4, <1>8, Zenon
  <2>2. /\ y.state = "openconfirm" /\ y.n = x.n /\ y.timer = t
        /\ y.keepalive = x.keepalive /\ y.deadline = 0
    BY <1>1, <2>1, Zenon
  <2>3. Waits(p, y)
    BY <1>1, <1>2, <1>5, <2>2 DEF Waits
  <2> QED
    BY <2>3, Zenon DEF p, y
<1>9. CASE rest = <<>> /\ x.state = "established"
  <2> DEFINE t == IF Head(x.out)[1] = "KEEPALIVE" THEN keepalive(x.n.hold) ELSE x.keepalive
  <2>1. y = [x EXCEPT !.out = <<>>, !.deadline = 0, !.keepalive = t]
    BY <1>4, <1>9, Zenon
  <2>2. /\ y.state = "established" /\ y.n = x.n /\ y.timer = x.timer
        /\ y.keepalive = t /\ y.deadline = 0
    BY <1>1, <1>9, <2>1, Zenon
  <2>3. t \in {x.keepalive, keepalive(x.n.hold)}
    BY Zenon
  <2> HIDE DEF t
  <2>4. Waits(p, y)
    BY <1>2, <1>3, <1>5, <1>9, <2>2, <2>3 DEF Waits
  <2> QED
    BY <2>4, Zenon DEF p, y
<1>10. CASE rest = <<>> /\ x.state \notin {"opensend", "confirmsend", "established"}
  <2>1. y = Closed
    BY <1>4, <1>10, Zenon
  <2>2. Waits(p, y)
    BY <1>2, <2>1, ClosedRecord, EndingWaits, Zenon DEF Ending
  <2> QED
    BY <2>2, Zenon DEF p, y
<1> QED
  BY <1>6, <1>7, <1>8, <1>9, <1>10, Zenon

LEMMA ReadWaits ==
  ASSUME TypeInv, WaitInv, NEW s \in Speakers, Read(s)
  PROVE  WaitInv'
<1> DEFINE x == speaker[s]
           p == Peer(s)
<1>1. UNCHANGED cfg
  BY Zenon DEF Read, fixed
<1>2. PICK y \in Records : /\ Become(s, y)
                           /\ \/ Ending(y)
                              \/ Handled(s, chan[Other(s)][1][1], y)
  BY ReadTypes, Zenon
<1>3. p.connect_timeout_secs \in Nat /\ p.write_timeout_secs \in Nat \ {0}
  BY ValidSettings, Zenon DEF TypeInv
<1>4. /\ Hold(s) = x.n.hold /\ x.n.hold \in Nat /\ y.n.hold \in Nat
      /\ State(s) = x.state /\ Waits(p, x)
  BY DEF TypeInv, Records, Sessions, NoSession, Hold, State, WaitInv
<1>5. keepalive(x.n.hold) \in Nat /\ keepalive(y.n.hold) \in Nat
  BY <1>4, KeepaliveInterval, Zenon
<1>6. Waits(p, y)
  <2>1. CASE Ending(y)
    BY <1>3, <2>1, EndingWaits, Zenon
  <2>2. CASE /\ y.state = "confirmsend" /\ y.timer = 0 /\ y.keepalive = 0
             /\ y.deadline = p.write_timeout_secs
    BY <1>3, <1>5, <2>2 DEF Waits
  <2>3. CASE /\ y.state = "established" /\ y.n = x.n /\ y.timer = Hold(s)
             /\ y.keepalive \in {x.keepalive, keepalive(Hold(s))} /\ y.deadline = x.deadline
    BY <1>3, <1>4, <1>5, <2>3 DEF Waits
  <2>4. CASE y = x
    BY <1>4, <2>4, Zenon
  <2> QED
    BY <1>2, <2>1, <2>2, <2>3, <2>4, Zenon DEF Handled
<1> QED
  BY <1>1, <1>2, <1>6, WaitKeeps, Zenon

LEMMA TickWaits ==
  ASSUME TypeInv, WaitInv, Tick
  PROVE  WaitInv'
<1> SUFFICES ASSUME NEW s \in Speakers PROVE Waits(Peer(s)', speaker'[s])
  BY Zenon DEF WaitInv
<1> DEFINE x == speaker[s]
           y == [x EXCEPT !.timer = Less(x.timer), !.keepalive = Less(x.keepalive),
                          !.deadline = Less(x.deadline)]
           p == Peer(s)
<1>1. x \in Records /\ speaker'[s] \in {x, y} /\ Waits(p, x)
  BY Zenon DEF Tick, TypeInv, WaitInv
<1>2. Peer(s)' = p
  BY Zenon DEF Tick, fixed, Peer
<1>3. /\ p.connect_timeout_secs \in Nat /\ p.write_timeout_secs \in Nat
      /\ x.n.hold \in Nat
  BY <1>1, ValidSettings DEF TypeInv, Records, Sessions, NoSession
<1>4. keepalive(x.n.hold) \in Nat
  BY <1>3, KeepaliveInterval, Zenon
<1> HIDE DEF x, p
<1>5. /\ y.state = x.state /\ y.n = x.n /\ y.timer = Less(x.timer)
      /\ y.keepalive = Less(x.keepalive) /\ y.deadline = Less(x.deadline)
  BY <1>1, Zenon DEF Records
<1>6. /\ \A t \in Nat : Less(t) <= t /\ Less(t) \in Nat
      /\ x.timer \in Nat /\ x.keepalive \in Nat /\ x.deadline \in Nat
  BY <1>1 DEF Less, Records
<1> HIDE DEF y
<1>7. Waits(p, y)
  BY <1>1, <1>3, <1>4, <1>5, <1>6 DEF Waits
<1> QED
  BY <1>1, <1>2, <1>7, Zenon

LEMMA WaitInit == Init => WaitInv
<1> SUFFICES ASSUME Init, NEW s \in Speakers PROVE Waits(Peer(s), speaker[s])
  BY Zenon DEF WaitInv
<1> DEFINE p == Peer(s)
           x == [Closed EXCEPT !.state = "opensend", !.timer = p.connect_timeout_secs]
           y == Sending(x, "OPEN", p.write_timeout_secs)
<1>1. speaker[s] = y
  BY Zenon DEF Init
<1>2. p.connect_timeout_secs \in Nat /\ p.write_timeout_secs \in Nat
  BY TypeInit, ValidSettings, Zenon DEF TypeInv
<1> HIDE DEF p
<1>3. /\ x \in Records /\ x.state = "opensend" /\ x.n = NoSession
      /\ x.timer = p.connect_timeout_secs /\ x.keepalive = 0
  BY <1>2, ClosedRecord, Zenon DEF Records, States
<1> HIDE DEF x
<1>4. /\ y.state = "opensend" /\ y.n = NoSession /\ y.timer = p.connect_timeout_secs
      /\ y.keepalive = 0 /\ y.deadline = p.write_timeout_secs
  BY <1>2, <1>3, SendingRecord, Zenon DEF Kinds
<1>5. y.n.hold \in Nat
  BY <1>4 DEF NoSession
<1>6. keepalive(y.n.hold) \in Nat
  BY <1>5, KeepaliveInterval, Zenon
<1> HIDE DEF y
<1>7. Waits(p, y)
  BY <1>2, <1>4, <1>6 DEF Waits
<1> QED
  BY <1>1, <1>7, Zenon DEF p

LEMMA WaitNext == TypeInv /\ WaitInv /\ [Next]_vars => WaitInv'
<1> SUFFICES ASSUME TypeInv, WaitInv, [Next]_vars
             PROVE  WaitInv'
  BY Zenon
<1>1. \A s \in Speakers : /\ Peer(s).connect_timeout_secs \in Nat
                          /\ Peer(s).write_timeout_secs \in Nat \ {0}
  BY ValidSettings, Zenon DEF TypeInv
<1>2. ASSUME NEW s \in Speakers, Write(s)
      PROVE  WaitInv'
  <2> DEFINE k == Min({Space(s), Len(speaker[s].out)})
  <2>1. k \in 1..Len(speaker[s].out) /\ Become(s, Written(s, k)) /\ UNCHANGED cfg
    BY <1>2, WriteAmount, Zenon DEF Write, fixed
  <2> HIDE DEF k
  <2>2. Waits(Peer(s), Written(s, k))
    BY <2>1, WrittenWaits, Zenon DEF WaitInv
  <2> QED
    BY <2>1, <2>2, WaitKeeps, Zenon
<1>3. ASSUME NEW s \in Speakers, SendKeepalive(s) \/ SendUpdate(s)
      PROVE  WaitInv'
  <2> DEFINE x == speaker[s]
             w == Peer(s).write_timeout_secs
  <2>1. PICK k \in Kinds : Become(s, Sending(x, k, w))
    BY <1>3, Zenon DEF SendKeepalive, SendUpdate, Kinds
  <2>2. x.state = "established" /\ UNCHANGED cfg
    BY <1>3, Zenon DEF SendKeepalive, SendUpdate, KeepaliveDue, State, fixed
  <2> DEFINE y == Sending(x, k, w)
  <2>3. /\ y.state = x.state /\ y.n = x.n /\ y.timer = x.timer
        /\ y.keepalive = x.keepalive /\ y.deadline = w
    <3>1. x \in Records /\ w \in Nat
      BY <1>1, Zenon DEF TypeInv
    <3> QED
      BY <3>1, SendingRecord, Zenon
  <2> HIDE DEF y
  <2>4. Waits(Peer(s), y)
    BY <1>1, <2>2, <2>3 DEF Waits, WaitInv
  <2> QED
    BY <2>1, <2>2, <2>4, WaitKeeps, Zenon DEF y
<1>4. ASSUME NEW s \in Speakers, WriteDeadline(s) \/ Lose(s) \/ Expire(s)
      PROVE  WaitInv'
  <2>1. (Become(s, Closed) \/ Report(s)) /\ UNCHANGED cfg
    BY <1>4, Zenon DEF WriteDeadline, Lose, Expire, fixed
  <2>2. PICK y \in Records : Become(s, y) /\ Ending(y)
    BY <2>1, ClosedRecord, ReportEffect, Zenon DEF Ending
  <2> QED
    BY <1>1, <2>1, <2>2, EndingWaits, WaitKeeps, Zenon
<1>5. ASSUME UNCHANGED <<cfg, speaker>>
      PROVE  WaitInv'
  BY <1>5, Zenon DEF WaitInv, Peer
<1>6. ASSUME NEW s \in Speakers, Stall(s) \/ GoMute(s) \/ MuteRead(s) \/ MuteRefresh(s)
      PROVE  WaitInv'
  BY <1>5, <1>6, Zenon DEF Stall, GoMute, MuteRead, MuteRefresh, fixed
<1>7. CASE UNCHANGED vars
  BY <1>5, <1>7, Zenon DEF vars, fixed
<1> QED
  BY <1>2, <1>3, <1>4, <1>6, <1>7, ReadWaits, TickWaits, Zenon DEF Next, Step

(* No timeout, KEEPALIVE or write of a speaker is further off than its     *)
(* state allows, whatever is configured and negotiated: a last             *)
(* NOTIFICATION takes report() at most a second, and no timeout of the     *)
(* handshake survives into the session.                                    *)
THEOREM TypeCorrect == Spec => []TypeOK
<1>1. TypeInv /\ WaitInv => TypeOK
  <2> SUFFICES ASSUME TypeInv, WaitInv PROVE TypeOK
    BY Zenon
  <2>1. ASSUME NEW s \in Speakers
        PROVE  /\ speaker[s].timer \in 0..Patience(s)
               /\ speaker[s].keepalive \in 0..keepalive(Hold(s))
               /\ speaker[s].deadline \in 0..Grace(s)
    <3> DEFINE x == speaker[s]
               p == Peer(s)
    <3>1. /\ x.state \in States /\ x.timer \in Nat /\ x.keepalive \in Nat
          /\ x.deadline \in Nat /\ x.n.hold \in Nat /\ Waits(p, x)
      BY DEF TypeInv, WaitInv, Records, Sessions, NoSession
    <3>2. p.connect_timeout_secs \in Nat /\ p.write_timeout_secs \in Nat
      BY ValidSettings, Zenon DEF TypeInv
    <3>3. keepalive(x.n.hold) \in Nat
      BY <3>1, KeepaliveInterval, Zenon
    <3>4. State(s) = x.state /\ Hold(s) = x.n.hold
      BY Zenon DEF State, Hold
    <3> HIDE DEF x, p
    <3>5. x.timer <= Patience(s) /\ Patience(s) \in Nat
      <4>1. CASE x.state \in {"opensend", "opensent"}
        <5>1. Patience(s) = p.connect_timeout_secs
          BY <3>4, <4>1, Zenon DEF Patience, p
        <5> QED
          BY <3>1, <3>2, <4>1, <5>1, Zenon DEF Waits
      <4>2. CASE x.state = "openconfirm" /\ x.n.hold = 0
        <5>1. Patience(s) = p.connect_timeout_secs
          BY <3>4, <4>2, Zenon DEF Patience, p
        <5> QED
          BY <3>1, <3>2, <4>2, <5>1, Zenon DEF Waits
      <4>3. CASE x.state = "openconfirm" /\ x.n.hold # 0
        <5>1. Patience(s) = x.n.hold
          BY <3>4, <4>3, Zenon DEF Patience
        <5> QED
          BY <3>1, <4>3, <5>1, Zenon DEF Waits
      <4>4. CASE x.state = "established"
        <5>1. Patience(s) = x.n.hold
          BY <3>4, <4>4, Zenon DEF Patience
        <5> QED
          BY <3>1, <4>4, <5>1, Zenon DEF Waits
      <4>5. CASE x.state \in {"confirmsend", "notify", "closed"}
        <5>1. Patience(s) = 0
          BY <3>4, <4>5, Zenon DEF Patience
        <5>2. x.timer = 0
          BY <3>1, <4>5, Zenon DEF Waits
        <5> QED
          BY <5>1, <5>2
      <4> QED
        BY <3>1, <4>1, <4>2, <4>3, <4>4, <4>5, Zenon DEF States
    <3>6. x.keepalive <= keepalive(Hold(s)) /\ keepalive(Hold(s)) \in Nat
      BY <3>1, <3>3, <3>4, Zenon DEF Waits
    <3>7. x.deadline <= Grace(s) /\ Grace(s) \in Nat
      BY <3>1, <3>2, <3>4 DEF Waits, Grace, p
    <3> QED
      BY <3>1, <3>5, <3>6, <3>7 DEF x
  <2>2. ASSUME NEW s \in Speakers
        PROVE  /\ validate(cfg[s].c, cfg[s].p) /\ State(s) \in States
               /\ speaker[s].out \in Seq(Halves) /\ chan[s] \in Seq(Halves)
    BY ValidSettings, Zenon DEF TypeInv, Records, State
  <2>3. \A s \in Speakers : /\ Len(chan[s]) <= BufferCap /\ silence[s] \in Nat
                            /\ lost[s] \in 0..silence[s]
    BY DEF TypeInv
  <2> QED
    BY <2>1, <2>2, <2>3, Zenon DEF TypeOK, TypeInv, States
<1> QED
  BY TypeInit, TypeNext, WaitInit, WaitNext, <1>1, PTL DEF Spec

LEMMA TypeAgrees == TypeInv => NegotiationAgrees
<1> SUFFICES ASSUME TypeInv, \A r \in Speakers : Negotiated(r), NEW s \in Speakers
             PROVE  LET n == speaker[s].n
                        m == speaker[Other(s)].n
                    IN  /\ n.hold = m.hold /\ n.asn4 = m.asn4 /\ n.internal = m.internal
                        /\ n.ipv4 = m.ipv4 /\ n.ipv6 = m.ipv6
                        /\ n.ipv4 => nh4(Peer(s)) # {}
                        /\ n.ipv6 => nh6(Peer(s)) # {}
                        /\ prefer_incoming(cfg[s].c, Peer(s), n)
                           <=> ~prefer_incoming(cfg[Other(s)].c, Peer(Other(s)), m)
  BY Zenon DEF NegotiationAgrees
<1>1. Other(s) \in Speakers /\ Other(Other(s)) = s
  BY TwoSpeakers, Zenon
<1> DEFINE c == cfg[s].c
           p == Peer(s)
           d == cfg[Other(s)].c
           q == Peer(Other(s))
<1>2. typed(c, p) /\ typed(d, q) /\ validate(c, p) /\ validate(d, q)
  BY <1>1, ValidSettings, Zenon DEF TypeInv, Peer
<1>3. verdict[s] = parse_open(open(d, q), c, p) /\ verdict[Other(s)] = parse_open(open(c, p), d, q)
  BY <1>1, Zenon DEF TypeInv, Verdicts
<1>4. /\ verdict[s].ok /\ speaker[s].n = verdict[s].n
      /\ verdict[Other(s)].ok /\ speaker[Other(s)].n = verdict[Other(s)].n
  BY <1>1, Zenon DEF TypeInv
<1> HIDE DEF c, p, d, q
<1>5. parse_open(open(d, q), c, p).ok /\ parse_open(open(c, p), d, q).ok
  BY <1>3, <1>4, Zenon
<1>6. LET n == parse_open(open(d, q), c, p).n
          m == parse_open(open(c, p), d, q).n
      IN  /\ n.hold = m.hold /\ n.asn4 = m.asn4 /\ n.internal = m.internal
          /\ n.ipv4 = m.ipv4 /\ n.ipv6 = m.ipv6
          /\ n.ipv4 => nh4(p) # {}
          /\ n.ipv6 => nh6(p) # {}
          /\ prefer_incoming(c, p, n) <=> ~prefer_incoming(d, q, m)
  BY <1>2, <1>5, Agreement
<1> QED
  BY <1>3, <1>4, <1>6, Zenon DEF c, p, d, q

(* Whatever the configurations and the interleaving, two speakers past the *)
(* OPEN exchange work with the same hold time, ASN width, kind and         *)
(* families, can name a next hop, and prefer the same connection.          *)
THEOREM SpeakersAgree == Spec => []NegotiationAgrees
  BY TypeInvariant, TypeAgrees, PTL

----------------------------------------------------------------------------
(* What is on its way from a speaker to the other: whole frames, in the    *)
(* order the two stages call for, until one of them ends the session.      *)

Opening(s) == State(s) \in {"opensend", "opensent"}
Confirming(s) == State(s) \in {"confirmsend", "openconfirm"}
Alive(s) == State(s) \notin {"notify", "closed"}
Stage(s) == IF Opening(s) THEN 1 ELSE IF Confirming(s) THEN 2 ELSE 3

(* The halves written and not yet read, and those still to be written. *)
Stream(s) == chan[s] \o speaker[s].out

(* The halves q are those of the frames F. *)
Carries(q, F) ==
    /\ Len(q) = 2 * Len(F)
    /\ \A j \in 1..Len(F) : q[2 * j - 1] = <<F[j], 1>> /\ q[2 * j] = <<F[j], 2>>

Data == {"KEEPALIVE", "UPDATE", "ROUTE-REFRESH"}

(* The frames F under way from a speaker at stage i to one at stage j: it  *)
(* has begun one frame per stage, and any number of data frames at the     *)
(* last, of which the other has read j - 1.                                *)
InOrder(i, j, F) ==
    /\ IF i = 3 THEN Len(F) + j >= 3 ELSE Len(F) + j = i + 1
    /\ \A m \in 1..Len(F) :
        F[m] \in (IF m + j = 2 THEN {"OPEN"} ELSE IF m + j = 3 THEN {"KEEPALIVE"} ELSE Data)

Refreshless(F) == mute = {} => \A m \in 1..Len(F) : F[m] # "ROUTE-REFRESH"

Flows(s) ==
    \E F \in Seq(Kinds) :
        Carries(Stream(s), F) /\ InOrder(Stage(s), Stage(Other(s)), F) /\ Refreshless(F)

FlowInv ==
    /\ (\A s \in Speakers : Alive(s)) => \A s \in Speakers : Flows(s)
    /\ \A s \in Speakers :
        /\ State(s) \in {"opensend", "confirmsend", "notify"} => speaker[s].out # <<>>
        /\ State(s) \in {"opensent", "openconfirm"} => speaker[s].out = <<>>
        /\ s \in mute => State(s) = "established"
    /\ TornFrameEndsSession


LEMMA ConcatHalves ==
  ASSUME NEW a \in Seq(Halves), NEW b \in Seq(Halves)
  PROVE  /\ a \o b \in Seq(Halves) /\ Len(a) \in Nat /\ Len(b) \in Nat
         /\ Len(a \o b) = Len(a) + Len(b)
         /\ \A i \in 1..Len(a) : (a \o b)[i] = a[i]
         /\ \A i \in 1..Len(b) : (a \o b)[Len(a) + i] = b[i]
<1> DEFINE q == a \o b
<1>1. /\ q \in Seq(Halves) /\ Len(q) = Len(a) + Len(b)
      /\ \A i \in 1..Len(a) + Len(b) : q[i] = IF i <= Len(a) THEN a[i] ELSE b[i - Len(a)]
  BY ConcatProperties, Zenon
<1>2. Len(a) \in Nat /\ Len(b) \in Nat
  OBVIOUS
<1> HIDE DEF q
<1>3. \A i \in 1..Len(a) : q[i] = a[i]
  BY <1>1, <1>2
<1>4. ASSUME NEW i \in 1..Len(b)
      PROVE  q[Len(a) + i] = b[i]
  <2> DEFINE j == Len(a) + i
  <2>1. j \in 1..Len(a) + Len(b) /\ ~(j <= Len(a)) /\ j - Len(a) = i
    BY <1>2
  <2> HIDE DEF j
  <2>2. q[j] = b[j - Len(a)]
    BY <1>1, <2>1, Zenon
  <2> QED
    BY <2>1, <2>2, Zenon DEF j
<1> QED
  BY <1>1, <1>2, <1>3, <1>4, Zenon DEF q

LEMMA DropFrame ==
  ASSUME NEW q \in Seq(Halves), Len(q) >= 2
  PROVE  LET r == SubSeq(q, 3, Len(q))
         IN  /\ r \in Seq(Halves) /\ Len(r) = Len(q) - 2
             /\ \A i \in 1..(Len(q) - 2) : r[i] = q[i + 2]
<1> DEFINE r == SubSeq(q, 3, Len(q))
<1>1. /\ SubSeq(q, 2 + 1, Len(q)) \in Seq(Halves)
      /\ Len(SubSeq(q, 2 + 1, Len(q))) = Len(q) - 2
  <2>1. 2 \in 0..Len(q)
    OBVIOUS
  <2> QED
    BY <2>1, RestOf, Zenon
<1>2. r \in Seq(Halves) /\ Len(r) = Len(q) - 2
  BY <1>1
<1>3. ASSUME NEW i \in 1..(Len(q) - 2)
      PROVE  r[i] = q[i + 2]
  OBVIOUS
<1> QED
  BY <1>2, <1>3, Zenon

LEMMA CarriesAppend ==
  ASSUME NEW q \in Seq(Halves), NEW F \in Seq(Kinds), NEW k \in Kinds, Carries(q, F)
  PROVE  Carries(q \o Frame(k), Append(F, k))
<1> DEFINE f == Frame(k)
           r == q \o f
           G == Append(F, k)
<1>1. f \in Seq(Halves) /\ Len(f) = 2 /\ f[1] = <<k, 1>> /\ f[2] = <<k, 2>>
  BY FrameHalves, Zenon
<1> HIDE DEF f
<1>2. /\ Len(q) \in Nat /\ Len(r) = Len(q) + 2
      /\ \A i \in 1..Len(q) : r[i] = q[i]
      /\ \A i \in 1..2 : r[Len(q) + i] = f[i]
  <2>1. /\ Len(q) \in Nat /\ Len(r) = Len(q) + Len(f)
        /\ \A i \in 1..Len(q) : r[i] = q[i]
        /\ \A i \in 1..Len(f) : r[Len(q) + i] = f[i]
    BY <1>1, ConcatHalves, Zenon
  <2> HIDE DEF r
  <2> QED
    BY <1>1, <2>1, Zenon
<1>3. /\ Len(G) = Len(F) + 1 /\ G[Len(F) + 1] = k /\ Len(F) \in Nat
      /\ \A i \in 1..Len(F) : G[i] = F[i]
  BY AppendProperties
<1> HIDE DEF r, G
<1>4. Len(q) = 2 * Len(F)
  BY Zenon DEF Carries
<1>5. ASSUME NEW j \in 1..Len(G)
      PROVE  r[2 * j - 1] = <<G[j], 1>> /\ r[2 * j] = <<G[j], 2>>
  <2>1. CASE j \in 1..Len(F)
    <3>1. r[2 * j - 1] = q[2 * j - 1] /\ r[2 * j] = q[2 * j]
      BY <1>2, <1>3, <1>4, <2>1
    <3> QED
      BY <1>3, <2>1, <3>1, Zenon DEF Carries
  <2>2. CASE j = Len(F) + 1
    <3>1. 2 * j - 1 = Len(q) + 1 /\ 2 * j = Len(q) + 2 /\ 1 \in 1..2 /\ 2 \in 1..2
      BY <1>3, <1>4, <2>2
    <3>2. r[2 * j - 1] = f[1] /\ r[2 * j] = f[2]
      BY <1>2, <3>1, Zenon
    <3> QED
      BY <1>1, <1>3, <2>2, <3>2, Zenon
  <2> QED
    BY <1>3, <2>1, <2>2
<1>6. Len(r) = 2 * Len(G)
  BY <1>2, <1>3, <1>4
<1>7. Carries(r, G)
  BY <1>5, <1>6, Zenon DEF Carries
<1> QED
  BY <1>7, Zenon DEF r, G, f

LEMMA CarriesTail ==
  ASSUME NEW q \in Seq(Halves), NEW F \in Seq(Kinds), Carries(q, F), Len(q) >= 2
  PROVE  /\ F # <<>> /\ Tail(F) \in Seq(Kinds) /\ F[1] \in Kinds
         /\ q[1] = <<F[1], 1>> /\ q[2] = <<F[1], 2>>
         /\ Carries(SubSeq(q, 3, Len(q)), Tail(F))
<1> DEFINE r == SubSeq(q, 3, Len(q))
           G == Tail(F)
<1>1. Len(q) = 2 * Len(F) /\ Len(F) \in Nat /\ Len(F) >= 1 /\ F # <<>>
  BY DEF Carries
<1>2. q[2 * 1 - 1] = <<F[1], 1>> /\ q[2 * 1] = <<F[1], 2>> /\ F[1] \in Kinds
  BY <1>1, ElementOfSeq DEF Carries
<1>3. /\ G \in Seq(Kinds) /\ Len(G) = Len(F) - 1
      /\ \A i \in 1..Len(G) : G[i] = F[i + 1]
  BY <1>1, HeadTailProperties, Zenon
<1>4. /\ Len(r) = Len(q) - 2
      /\ \A i \in 1..(Len(q) - 2) : r[i] = q[i + 2]
  BY DropFrame, Zenon
<1> HIDE DEF r, G
<1>5. ASSUME NEW j \in 1..Len(G)
      PROVE  r[2 * j - 1] = <<G[j], 1>> /\ r[2 * j] = <<G[j], 2>>
  <2>1. /\ 2 * j - 1 \in 1..(Len(q) - 2) /\ 2 * j \in 1..(Len(q) - 2)
        /\ 2 * j - 1 + 2 = 2 * (j + 1) - 1 /\ 2 * j + 2 = 2 * (j + 1)
        /\ j + 1 \in 1..Len(F)
    BY <1>1, <1>3
  <2>2. r[2 * j - 1] = q[2 * (j + 1) - 1] /\ r[2 * j] = q[2 * (j + 1)]
    BY <1>4, <2>1, Zenon
  <2> QED
    BY <1>3, <2>1, <2>2, Zenon DEF Carries
<1>6. Len(r) = 2 * Len(G)
  BY <1>1, <1>3, <1>4
<1>7. Carries(r, G)
  BY <1>5, <1>6, Zenon DEF Carries
<1> QED
  BY <1>1, <1>2, <1>3, <1>7 DEF r, G

(* Reading a frame takes it off the stream. *)
LEMMA DrainStream ==
  ASSUME NEW c \in Seq(Halves), NEW x \in Seq(Halves), Len(c) >= 2
  PROVE  SubSeq(c, 3, Len(c)) \o x = SubSeq(c \o x, 3, Len(c \o x))
<1> DEFINE q == c \o x
           d == SubSeq(c, 3, Len(c))
           l == d \o x
           r == SubSeq(q, 3, Len(q))
<1>1. /\ q \in Seq(Halves) /\ Len(c) \in Nat /\ Len(x) \in Nat /\ Len(q) = Len(c) + Len(x)
      /\ \A i \in 1..Len(c) : q[i] = c[i]
      /\ \A i \in 1..Len(x) : q[Len(c) + i] = x[i]
  BY ConcatHalves, Zenon
<1>2. /\ d \in Seq(Halves) /\ Len(d) = Len(c) - 2
      /\ \A i \in 1..(Len(c) - 2) : d[i] = c[i + 2]
  BY DropFrame, Zenon
<1> HIDE DEF q, d
<1>3. /\ r \in Seq(Halves) /\ Len(r) = Len(q) - 2
      /\ \A i \in 1..(Len(q) - 2) : r[i] = q[i + 2]
  BY <1>1, DropFrame
<1>4. /\ l \in Seq(Halves) /\ Len(l) = Len(d) + Len(x)
      /\ \A i \in 1..Len(d) : l[i] = d[i]
      /\ \A i \in 1..Len(x) : l[Len(d) + i] = x[i]
  BY <1>2, ConcatHalves, Zenon
<1> HIDE DEF l, r
<1>5. Len(l) = Len(r) /\ \A i \in 1..Len(l) : l[i] = r[i]
  <2>1. Len(l) = Len(r) /\ Len(l) = Len(c) - 2 + Len(x) /\ Len(q) - 2 = Len(l)
    BY <1>1, <1>2, <1>3, <1>4
  <2>2. ASSUME NEW i \in 1..Len(l)
        PROVE  l[i] = r[i]
    <3>1. CASE i <= Len(d)
      <4>1. /\ i \in 1..Len(d) /\ i \in 1..(Len(c) - 2) /\ i + 2 \in 1..Len(c)
            /\ i \in 1..(Len(q) - 2)
        BY <1>1, <1>2, <2>1, <3>1
      <4> QED
        BY <1>1, <1>2, <1>3, <1>4, <4>1, Zenon
    <3>2. CASE i > Len(d)
      <4> DEFINE j == i - Len(d)
      <4>1. /\ j \in 1..Len(x) /\ Len(d) + j = i /\ Len(c) + j = i + 2
            /\ i \in 1..(Len(q) - 2)
        BY <1>1, <1>2, <2>1, <3>2
      <4> HIDE DEF j
      <4> QED
        BY <1>1, <1>3, <1>4, <4>1
    <3>3. i \in Int /\ Len(d) \in Int
      BY <1>1, <1>2, <2>1
    <3> QED
      BY <3>1, <3>2, <3>3
  <2> QED
    BY <2>1, <2>2, Zenon
<1>6. l = r
  BY <1>3, <1>4, <1>5, SeqEqual, Zenon
<1> QED
  BY <1>6, Zenon DEF q, d, l, r

LEMMA Associative ==
  ASSUME NEW u \in Seq(Halves), NEW v \in Seq(Halves), NEW w \in Seq(Halves)
  PROVE  (u \o v) \o w = u \o (v \o w)
  OBVIOUS

(* Writing moves halves within the stream. *)
LEMMA WriteStream ==
  ASSUME NEW c \in Seq(Halves), NEW x \in Seq(Halves), NEW k \in 1..Len(x)
  PROVE  (c \o SubSeq(x, 1, k)) \o SubSeq(x, k + 1, Len(x)) = c \o x
<1> DEFINE a == SubSeq(x, 1, k)
           b == SubSeq(x, k + 1, Len(x))
<1>1. a \in Seq(Halves) /\ b \in Seq(Halves)
  BY RestOf
<1>2. a \o b = SubSeq(x, 1, Len(x))
  <2>1. 1 \in 1..(Len(x) + 1) /\ k \in (1 - 1)..Len(x) /\ Len(x) \in k..Len(x)
    OBVIOUS
  <2> QED
    BY <2>1, ConcatAdjacentSubSeq, Zenon
<1>3. a \o b = x
  BY <1>2, SubSeqFull, Zenon
<1> HIDE DEF a, b
<1>4. (c \o a) \o b = c \o (a \o b)
  BY <1>1, Associative, Zenon
<1> QED
  BY <1>1, <1>3, <1>4, Zenon DEF a, b

LEMMA OrderAppend ==
  ASSUME NEW F \in Seq(Kinds), NEW j \in 1..3, NEW k \in Kinds
  PROVE  /\ InOrder(3, j, F) /\ k \in Data => InOrder(3, j, Append(F, k))
         /\ InOrder(1, j, F) /\ k = "KEEPALIVE" => InOrder(2, j, Append(F, k))
<1> DEFINE G == Append(F, k)
<1>1. /\ Len(G) = Len(F) + 1 /\ G[Len(F) + 1] = k /\ Len(F) \in Nat
      /\ \A i \in 1..Len(F) : G[i] = F[i]
  BY AppendProperties
<1> HIDE DEF G
<1>2. \A m \in 1..Len(G) : m \in 1..Len(F) \/ m = Len(F) + 1
  BY <1>1
<1>3. InOrder(3, j, F) /\ k \in Data => InOrder(3, j, G)
  BY <1>1, <1>2 DEF InOrder
<1>4. InOrder(1, j, F) /\ k = "KEEPALIVE" => InOrder(2, j, G)
  BY <1>1, <1>2 DEF InOrder
<1> QED
  BY <1>3, <1>4, Zenon DEF G

LEMMA OrderEstablish ==
  ASSUME NEW F \in Seq(Kinds), NEW j \in 1..3, InOrder(2, j, F)
  PROVE  InOrder(3, j, F)
  BY DEF InOrder

LEMMA OrderTail ==
  ASSUME NEW F \in Seq(Kinds), NEW i \in 1..3, NEW j \in 1..3, F # <<>>, InOrder(i, j, F)
  PROVE  /\ j < 3 => InOrder(i, j + 1, Tail(F))
         /\ j = 3 => i = 3 /\ InOrder(3, 3, Tail(F))
         /\ F[1] \in (IF j = 1 THEN {"OPEN"} ELSE IF j = 2 THEN {"KEEPALIVE"} ELSE Data)
<1> DEFINE G == Tail(F)
<1>1. /\ Len(F) \in Nat /\ Len(F) >= 1 /\ Len(G) = Len(F) - 1
      /\ \A m \in 1..Len(G) : G[m] = F[m + 1]
  BY HeadTailProperties
<1> HIDE DEF G
<1>2. \A m \in 1..Len(G) : m + 1 \in 1..Len(F)
  BY <1>1
<1>3. j < 3 => InOrder(i, j + 1, G)
  BY <1>1, <1>2 DEF InOrder
<1>4. j = 3 => i = 3 /\ InOrder(3, 3, G)
  BY <1>1, <1>2 DEF InOrder
<1>5. F[1] \in (IF j = 1 THEN {"OPEN"} ELSE IF j = 2 THEN {"KEEPALIVE"} ELSE Data)
  BY <1>1 DEF InOrder
<1> QED
  BY <1>3, <1>4, <1>5, Zenon DEF G

LEMMA StageRange ==
  ASSUME NEW s \in Speakers
  PROVE  Stage(s) \in 1..3
  BY DEF Stage

(* A reader takes the first frame off the stream of o. *)
LEMMA Drained ==
  ASSUME TypeInv, NEW o \in Speakers, NEW F \in Seq(Kinds), Carries(Stream(o), F),
         Len(chan[o]) >= 2
  PROVE  /\ F # <<>> /\ Tail(F) \in Seq(Kinds) /\ F[1] \in Kinds
         /\ chan[o][1] = <<F[1], 1>> /\ chan[o][2] = <<F[1], 2>>
         /\ Carries(SubSeq(chan[o], 3, Len(chan[o])) \o speaker[o].out, Tail(F))
<1> DEFINE c == chan[o]
           x == speaker[o].out
           q == c \o x
<1>1. c \in Seq(Halves) /\ x \in Seq(Halves) /\ Len(c) >= 2
  BY Zenon DEF TypeInv, Records
<1> HIDE DEF c, x
<1>2. /\ q \in Seq(Halves) /\ Len(q) = Len(c) + Len(x) /\ Len(c) \in Nat /\ Len(x) \in Nat
      /\ \A i \in 1..Len(c) : q[i] = c[i]
  BY <1>1, ConcatHalves, Zenon
<1>3. SubSeq(c, 3, Len(c)) \o x = SubSeq(q, 3, Len(q))
  BY <1>1, DrainStream, Zenon
<1>4. Carries(q, F)
  BY Zenon DEF Stream, c, x
<1> HIDE DEF q
<1>5. q[1] = c[1] /\ q[2] = c[2] /\ Len(q) >= 2
  BY <1>1, <1>2
<1>6. /\ F # <<>> /\ Tail(F) \in Seq(Kinds) /\ F[1] \in Kinds
      /\ q[1] = <<F[1], 1>> /\ q[2] = <<F[1], 2>>
      /\ Carries(SubSeq(q, 3, Len(q)), Tail(F))
  BY <1>2, <1>4, <1>5, CarriesTail, Zenon
<1> QED
  BY <1>3, <1>5, <1>6, Zenon DEF c, x

(* A step of s is judged by its new record and by the two streams. *)
LEMMA FlowKeeps ==
  ASSUME TypeInv, FlowInv, NEW s \in Speakers, NEW y \in Records, Become(s, y),
         UNCHANGED mute, s \notin mute,
         ~Alive(s) => y.state \in {"notify", "closed"},
         y.state \in {"opensend", "confirmsend", "notify"} => y.out # <<>>,
         y.state \in {"opensent", "openconfirm"} => y.out = <<>>,
         garbled' = garbled \/ (garbled' = garbled \cup {s} /\ ~Alive(Other(s))),
         y.state \notin {"notify", "closed"} /\ Alive(Other(s)) =>
             Flows(s)' /\ Flows(Other(s))'
  PROVE  FlowInv'
<1>1. /\ Other(s) \in Speakers /\ Other(s) # s /\ Other(Other(s)) = s
      /\ Speakers = {s, Other(s)}
  BY TwoSpeakers, Zenon
<1>2. speaker'[s] = y /\ speaker'[Other(s)] = speaker[Other(s)]
  BY <1>1, Zenon DEF Become, TypeInv
<1>3. /\ Alive(s)' <=> y.state \notin {"notify", "closed"}
      /\ Alive(Other(s))' <=> Alive(Other(s))
  BY <1>1, <1>2, Zenon DEF Alive, State
<1>4. (\A r \in Speakers : Alive(r)') => \A r \in Speakers : Flows(r)'
  BY <1>1, <1>3, Zenon
<1>5. ASSUME NEW r \in Speakers
      PROVE  /\ State(r)' \in {"opensend", "confirmsend", "notify"} => speaker'[r].out # <<>>
             /\ State(r)' \in {"opensent", "openconfirm"} => speaker'[r].out = <<>>
             /\ r \in mute' => State(r)' = "established"
  BY <1>1, <1>2, Zenon DEF FlowInv, State
<1>6. ASSUME NEW r \in garbled'
      PROVE  State(Other(r))' \in {"notify", "closed"}
  <2>1. r \in Speakers
    BY <1>1, Zenon DEF TypeInv
  <2>2. ~Alive(Other(r))
    BY <2>1, <1>1, Zenon DEF FlowInv, TornFrameEndsSession, Alive
  <2> QED
    BY <1>1, <1>2, <2>1, <2>2, Zenon DEF Alive, State
<1> QED
  BY <1>4, <1>5, <1>6, Zenon DEF FlowInv, TornFrameEndsSession

LEMMA FlowsSame ==
  ASSUME NEW r \in Speakers, Flows(r), Stream(r)' = Stream(r), mute \subseteq mute',
         Stage(r)' = Stage(r), Stage(Other(r))' = Stage(Other(r))
  PROVE  Flows(r)'
<1>1. PICK F \in Seq(Kinds) :
          Carries(Stream(r), F) /\ InOrder(Stage(r), Stage(Other(r)), F) /\ Refreshless(F)
  BY Zenon DEF Flows
<1>2. Refreshless(F)'
  BY <1>1, Zenon DEF Refreshless
<1>3. Carries(Stream(r)', F) /\ InOrder(Stage(r)', Stage(Other(r))', F)
  BY <1>1, Zenon
<1> QED
  BY <1>2, <1>3, Zenon DEF Flows

(* A step that writes and reads nothing leaves the flows alone. *)
LEMMA FlowStays ==
  ASSUME TypeInv, FlowInv, UNCHANGED <<chan, garbled>>, mute \subseteq mute',
         \A r \in Speakers :
             /\ speaker'[r].state = speaker[r].state
             /\ speaker'[r].out = speaker[r].out
             /\ r \in mute' => State(r) = "established"
  PROVE  FlowInv'
<1>1. ASSUME NEW r \in Speakers
      PROVE  /\ State(r)' = State(r) /\ Stage(r)' = Stage(r) /\ Stream(r)' = Stream(r)
             /\ Alive(r)' <=> Alive(r)
  <2>1. State(r)' = State(r)
    BY Zenon DEF State
  <2>2. Stage(r)' = Stage(r)
    BY <2>1, Zenon DEF Stage, Opening, Confirming
  <2>3. Alive(r)' <=> Alive(r)
    BY <2>1, Zenon DEF Alive
  <2>4. Stream(r)' = Stream(r)
    BY Zenon DEF Stream
  <2> QED
    BY <2>1, <2>2, <2>3, <2>4, Zenon
<1>2. ASSUME NEW r \in Speakers, Flows(r)
      PROVE  Flows(r)'
  <2>1. Other(r) \in Speakers
    BY TwoSpeakers, Zenon
  <2> QED
    BY <1>1, <1>2, <2>1, FlowsSame, Zenon
<1>3. \A r \in Speakers : Other(r) \in Speakers
  BY TwoSpeakers, Zenon
<1>4. TornFrameEndsSession'
  BY <1>1, <1>3, Zenon DEF FlowInv, TornFrameEndsSession, TypeInv
<1>5. (\A r \in Speakers : Alive(r)') => \A r \in Speakers : Flows(r)'
  BY <1>1, <1>2, Zenon DEF FlowInv
<1>6. ASSUME NEW r \in Speakers
      PROVE  /\ State(r)' \in {"opensend", "confirmsend", "notify"} => speaker'[r].out # <<>>
             /\ State(r)' \in {"opensent", "openconfirm"} => speaker'[r].out = <<>>
             /\ r \in mute' => State(r)' = "established"
  BY <1>1, Zenon DEF FlowInv
<1> QED
  BY <1>4, <1>5, <1>6, Zenon DEF FlowInv

LEMMA OpeningInit ==
  ASSUME Init, NEW s \in Speakers
  PROVE  speaker[s].state = "opensend" /\ speaker[s].out = Frame("OPEN")
<1> DEFINE x == [Closed EXCEPT !.state = "opensend", !.timer = Peer(s).connect_timeout_secs]
<1>1. Peer(s).connect_timeout_secs \in Nat /\ Peer(s).write_timeout_secs \in Nat
  BY TypeInit, ValidSettings, Zenon DEF TypeInv
<1>2. x \in Records /\ x.state = "opensend"
  BY <1>1, ClosedRecord, Zenon DEF Records, States
<1>3. speaker[s] = Sending(x, "OPEN", Peer(s).write_timeout_secs)
  <2>1. speaker = [r \in Speakers |->
            Sending([Closed EXCEPT !.state = "opensend", !.timer = Peer(r).connect_timeout_secs],
                    "OPEN", Peer(r).write_timeout_secs)]
    BY Zenon DEF Init
  <2> QED
    BY <2>1, Zenon
<1> HIDE DEF x
<1>4. LET y == Sending(x, "OPEN", Peer(s).write_timeout_secs)
      IN  y.state = "opensend" /\ y.out = Frame("OPEN")
  BY <1>1, <1>2, SendingRecord, Zenon DEF Kinds
<1> QED
  BY <1>3, <1>4, Zenon

LEMMA FlowInit == Init => FlowInv
<1> SUFFICES ASSUME Init PROVE FlowInv
  BY Zenon
<1>1. /\ chan = [s \in Speakers |-> <<>>] /\ mute = {} /\ garbled = {}
  BY Zenon DEF Init
<1>2. TypeInv
  BY TypeInit, Zenon
<1>3. \A s \in Speakers : speaker[s].state = "opensend" /\ speaker[s].out = Frame("OPEN")
  BY OpeningInit, Zenon
<1>4. Frame("OPEN") \in Seq(Halves) /\ Frame("OPEN") # <<>>
  BY FrameHalves DEF Kinds
<1>5. ASSUME NEW s \in Speakers
      PROVE  Flows(s)
  <2> DEFINE F == <<"OPEN">>
  <2>1. F \in Seq(Kinds) /\ Len(F) = 1 /\ F[1] = "OPEN"
    <3>1. "OPEN" \in Kinds
      BY Zenon DEF Kinds
    <3> QED
      BY <3>1
  <2>2. Stage(s) = 1 /\ Stage(Other(s)) = 1
    BY <1>3, TwoSpeakers, Zenon DEF Stage, Opening, State
  <2>3. Stream(s) = Frame("OPEN")
    <3>1. Stream(s) = <<>> \o Frame("OPEN")
      BY <1>1, <1>3, Zenon DEF Stream
    <3> QED
      BY <1>4, <3>1, ConcatEmptySeq, Zenon
  <2> HIDE DEF F
  <2>4. Carries(Frame("OPEN"), F)
    <3>1. /\ Len(Frame("OPEN")) = 2
          /\ Frame("OPEN")[1] = <<"OPEN", 1>> /\ Frame("OPEN")[2] = <<"OPEN", 2>>
      BY FrameHalves, Zenon DEF Kinds
    <3>2. Len(Frame("OPEN")) = 2 * Len(F)
      BY <2>1, <3>1
    <3>3. ASSUME NEW j \in 1..Len(F)
          PROVE  Frame("OPEN")[2 * j - 1] = <<F[j], 1>> /\ Frame("OPEN")[2 * j] = <<F[j], 2>>
      <4>1. j = 1 /\ 2 * j - 1 = 1 /\ 2 * j = 2
        BY <2>1
      <4> QED
        BY <2>1, <3>1, <4>1, Zenon
    <3> QED
      BY <3>2, <3>3, Zenon DEF Carries
  <2>5. InOrder(1, 1, F)
    BY <2>1 DEF InOrder
  <2>6. Refreshless(F)
    BY <2>1 DEF Refreshless
  <2> QED
    BY <2>1, <2>2, <2>3, <2>4, <2>5, <2>6, Zenon DEF Flows
<1> QED
  BY <1>1, <1>3, <1>4, <1>5, Zenon DEF FlowInv, State, TornFrameEndsSession

LEMMA WriteFlow ==
  ASSUME TypeInv, FlowInv, NEW s \in Speakers, Write(s)
  PROVE  FlowInv'
<1> DEFINE x == speaker[s]
           k == Min({Space(s), Len(x.out)})
           y == Written(s, k)
           o == Other(s)
<1>1. k \in 1..Len(x.out) /\ x \in Records /\ x.out \in Seq(Halves)
  BY WriteAmount, Zenon DEF TypeInv, Records
<1>2. /\ chan' = [chan EXCEPT ![s] = @ \o SubSeq(x.out, 1, k)]
      /\ Become(s, y) /\ s \notin mute /\ UNCHANGED <<mute, garbled>>
  BY Zenon DEF Write, faults
<1> HIDE DEF k
<1>3. /\ y \in Records /\ AfterWrite(x, y)
      /\ y.out = SubSeq(x.out, k + 1, Len(x.out))
  BY <1>1, WrittenRecord, Zenon
<1> HIDE DEF y
<1>4. o \in Speakers /\ o # s /\ Other(o) = s /\ Speakers = {s, o}
  BY TwoSpeakers, Zenon
<1>5. x.state \notin {"opensent", "openconfirm"}
  BY <1>1 DEF FlowInv, State
<1>6. /\ ~Alive(s) => y.state \in {"notify", "closed"}
      /\ y.state \in {"opensend", "confirmsend", "notify"} => y.out # <<>>
      /\ y.state \in {"opensent", "openconfirm"} => y.out = <<>>
  BY <1>3, <1>5, Zenon DEF AfterWrite, Alive, State
<1>7. speaker'[s] = y /\ speaker'[o] = speaker[o] /\ chan'[o] = chan[o]
      /\ chan'[s] = chan[s] \o SubSeq(x.out, 1, k)
  BY <1>2, <1>4, Zenon DEF Become, TypeInv
<1>8. Stream(o)' = Stream(o) /\ Stage(o)' = Stage(o)
  BY <1>7, Zenon DEF Stream, Stage, Opening, Confirming, State
<1>9. Stream(s)' = Stream(s)
  <2>1. chan[s] \in Seq(Halves)
    BY Zenon DEF TypeInv
  <2>2. (chan[s] \o SubSeq(x.out, 1, k)) \o SubSeq(x.out, k + 1, Len(x.out)) = chan[s] \o x.out
    BY <1>1, <2>1, WriteStream, Zenon
  <2> QED
    BY <1>3, <1>7, <2>2, Zenon DEF Stream
<1>10. ASSUME y.state \notin {"notify", "closed"}, Alive(o)
       PROVE  Flows(s)' /\ Flows(o)'
  <2>1. Alive(s) /\ Stage(s)' = Stage(s)
    BY <1>3, <1>5, <1>6, <1>7, <1>10, Zenon
       DEF AfterWrite, Stage, Opening, Confirming, State
  <2>2. Flows(s) /\ Flows(o)
    BY <1>4, <1>10, <2>1, Zenon DEF FlowInv
  <2> QED
    BY <1>2, <1>4, <1>8, <1>9, <2>1, <2>2, FlowsSame, Zenon
<1> QED
  BY <1>2, <1>3, <1>6, <1>10, FlowKeeps, Zenon

(* The frame k is next on the stream of s. *)
LEMMA SendFlows ==
  ASSUME TypeInv, NEW s \in Speakers, Flows(s), NEW k \in Kinds, NEW i \in 1..3,
         Stream(s)' = Stream(s) \o Frame(k), mute \subseteq mute',
         Stage(s)' = i, Stage(Other(s))' = Stage(Other(s)),
         \/ Stage(s) = 3 /\ i = 3 /\ k \in Data /\ (mute' = {} => k # "ROUTE-REFRESH")
         \/ Stage(s) = 1 /\ i = 2 /\ k = "KEEPALIVE"
  PROVE  Flows(s)'
<1> DEFINE j == Stage(Other(s))
<1>1. PICK F \in Seq(Kinds) :
          Carries(Stream(s), F) /\ InOrder(Stage(s), j, F) /\ Refreshless(F)
  BY Zenon DEF Flows
<1>2. Stream(s) \in Seq(Halves) /\ j \in 1..3
  <2>1. chan[s] \in Seq(Halves) /\ speaker[s].out \in Seq(Halves)
    BY Zenon DEF TypeInv, Records
  <2> QED
    BY <2>1, ConcatHalves, TwoSpeakers, StageRange, Zenon DEF Stream
<1> DEFINE G == Append(F, k)
<1>3. Carries(Stream(s) \o Frame(k), G)
  BY <1>1, <1>2, CarriesAppend, Zenon
<1> HIDE DEF j
<1>4. InOrder(i, j, G)
  BY <1>1, <1>2, OrderAppend, Zenon
<1>5. Refreshless(G)'
  <2>1. /\ G[Len(F) + 1] = k /\ Len(G) = Len(F) + 1 /\ Len(F) \in Nat
        /\ \A m \in 1..Len(F) : G[m] = F[m]
    BY AppendProperties
  <2> HIDE DEF G
  <2>2. mute' = {} => \A m \in 1..Len(F) : F[m] # "ROUTE-REFRESH"
    BY <1>1, Zenon DEF Refreshless
  <2>3. mute' = {} => k # "ROUTE-REFRESH"
    BY Zenon
  <2>4. ASSUME mute' = {}, NEW m \in 1..Len(G)
        PROVE  G[m] # "ROUTE-REFRESH"
    <3>1. CASE m \in 1..Len(F)
      BY <2>1, <2>2, <2>4, <3>1, Zenon
    <3>2. CASE m = Len(F) + 1
      BY <2>1, <2>3, <2>4, <3>2, Zenon
    <3> QED
      BY <2>1, <3>1, <3>2
  <2> QED
    BY <2>4, Zenon DEF Refreshless
<1>6. G \in Seq(Kinds)
  BY AppendProperties, Zenon
<1> HIDE DEF G
<1>7. Carries(Stream(s)', G) /\ InOrder(Stage(s)', Stage(Other(s))', G)
  BY <1>3, <1>4, Zenon DEF j
<1> QED
  BY <1>5, <1>6, <1>7, Zenon DEF Flows

LEMMA SendFlow ==
  ASSUME TypeInv, FlowInv, NEW s \in Speakers, SendKeepalive(s) \/ SendUpdate(s)
  PROVE  FlowInv'
<1> DEFINE o == Other(s)
<1>1. PICK k \in {"KEEPALIVE", "UPDATE"} :
          Become(s, Sending(speaker[s], k, Peer(s).write_timeout_secs))
  BY Zenon DEF SendKeepalive, SendUpdate
<1>2. /\ s \notin mute /\ speaker[s].out = <<>> /\ State(s) = "established"
      /\ UNCHANGED <<chan, mute, garbled>>
  BY Zenon DEF SendKeepalive, SendUpdate, KeepaliveDue, faults
<1>3. k \in Kinds /\ speaker[s] \in Records /\ Peer(s).write_timeout_secs \in Nat
  BY ValidSettings, Zenon DEF TypeInv, Kinds
<1> DEFINE y == Sending(speaker[s], k, Peer(s).write_timeout_secs)
<1>4. y \in Records /\ y.state = "established" /\ y.out = Frame(k)
  BY <1>2, <1>3, SendingRecord, Zenon DEF State
<1>5. Become(s, y)
  BY <1>1, Zenon
<1> HIDE DEF y
<1>6. o \in Speakers /\ o # s /\ Other(o) = s /\ Speakers = {s, o}
  BY TwoSpeakers, Zenon
<1>7. speaker'[s] = y /\ speaker'[o] = speaker[o]
  BY <1>5, <1>6, Zenon DEF Become, TypeInv
<1>8. Stream(o)' = Stream(o) /\ Stage(o)' = Stage(o)
  BY <1>2, <1>7, Zenon DEF Stream, Stage, Opening, Confirming, State
<1>9. Stream(s)' = Stream(s) \o Frame(k) /\ Stage(s) = 3 /\ Stage(s)' = 3
  <2>1. Stream(s) = chan[s]
    <3>1. chan[s] \in Seq(Halves)
      BY Zenon DEF TypeInv
    <3> QED
      BY <1>2, <3>1, ConcatEmptySeq, Zenon DEF Stream
  <2>2. Stream(s)' = chan[s] \o Frame(k)
    BY <1>2, <1>4, <1>7, Zenon DEF Stream
  <2>3. Stage(s) = 3 /\ Stage(s)' = 3
    BY <1>2, <1>4, <1>7, Zenon DEF Stage, Opening, Confirming, State
  <2> QED
    BY <2>1, <2>2, <2>3, Zenon
<1>10. Alive(s)
  BY <1>2, Zenon DEF Alive
<1>11. ASSUME Alive(o)
       PROVE  Flows(s)' /\ Flows(o)'
  <2>1. Flows(s) /\ Flows(o)
    BY <1>6, <1>10, <1>11, Zenon DEF FlowInv
  <2>2. Flows(o)'
    BY <1>2, <1>6, <1>8, <1>9, <2>1, FlowsSame, Zenon
  <2>3. k \in Data /\ k # "ROUTE-REFRESH"
    BY Zenon DEF Data
  <2>4. 3 \in 1..3
    OBVIOUS
  <2> QED
    BY <1>2, <1>3, <1>8, <1>9, <2>1, <2>2, <2>3, <2>4, SendFlows, Zenon
<1> QED
  BY <1>2, <1>4, <1>5, <1>10, <1>11, FlowKeeps, Zenon

LEMMA EndFlow ==
  ASSUME TypeInv, FlowInv, NEW s \in Speakers, WriteDeadline(s) \/ Lose(s) \/ Expire(s)
  PROVE  FlowInv'
<1>1. /\ Become(s, Closed) \/ Report(s)
      /\ s \notin mute /\ UNCHANGED <<chan, mute, garbled>>
  BY Zenon DEF WriteDeadline, Lose, Expire, faults
<1>2. PICK y \in Records : Become(s, y) /\ Ending(y)
  BY <1>1, ClosedRecord, ReportEffect, Zenon DEF Ending
<1> QED
  BY <1>1, <1>2, FlowKeeps, Zenon DEF Ending

(* The other speaker reads a frame off the stream of o and moves on. *)
LEMMA DrainFlows ==
  ASSUME TypeInv, NEW o \in Speakers, Flows(o), Len(chan[o]) >= 2,
         chan'[o] = SubSeq(chan[o], 3, Len(chan[o])), speaker'[o].out = speaker[o].out,
         mute \subseteq mute', Stage(o)' = Stage(o),
         Stage(Other(o))' = IF Stage(Other(o)) < 3 THEN Stage(Other(o)) + 1 ELSE 3
  PROVE  Flows(o)'
<1> DEFINE i == Stage(o)
           j == Stage(Other(o))
<1>1. PICK F \in Seq(Kinds) : Carries(Stream(o), F) /\ InOrder(i, j, F) /\ Refreshless(F)
  BY Zenon DEF Flows
<1>2. i \in 1..3 /\ j \in 1..3
  BY TwoSpeakers, StageRange, Zenon
<1>3. /\ F # <<>> /\ Tail(F) \in Seq(Kinds)
      /\ Carries(SubSeq(chan[o], 3, Len(chan[o])) \o speaker[o].out, Tail(F))
  BY <1>1, Drained, Zenon
<1>4. Carries(Stream(o)', Tail(F))
  BY <1>3, Zenon DEF Stream
<1> HIDE DEF i, j
<1>5. InOrder(i, IF j < 3 THEN j + 1 ELSE 3, Tail(F))
  BY <1>1, <1>2, <1>3, OrderTail
<1>6. InOrder(Stage(o)', Stage(Other(o))', Tail(F))
  BY <1>5, Zenon DEF i, j
<1>7. Refreshless(Tail(F))'
  <2> DEFINE G == Tail(F)
  <2>1. /\ Len(F) \in Nat /\ Len(G) = Len(F) - 1
        /\ \A m \in 1..Len(G) : G[m] = F[m + 1]
    BY <1>3, HeadTailProperties
  <2> HIDE DEF G
  <2>2. \A m \in 1..Len(G) : m + 1 \in 1..Len(F)
    BY <2>1
  <2>3. mute' = {} => \A m \in 1..Len(F) : F[m] # "ROUTE-REFRESH"
    BY <1>1, Zenon DEF Refreshless
  <2>4. mute' = {} => \A m \in 1..Len(G) : G[m] # "ROUTE-REFRESH"
    BY <2>1, <2>2, <2>3, Zenon
  <2> QED
    BY <2>4, Zenon DEF Refreshless, G
<1> QED
  BY <1>3, <1>4, <1>6, <1>7, Zenon DEF Flows

(* What a reader finds first on the stream of o. *)
LEMMA FirstFrame ==
  ASSUME TypeInv, NEW o \in Speakers, Flows(o), Len(chan[o]) >= 2
  PROVE  /\ SubSeq(chan[o], 1, 2) = Frame(chan[o][1][1])
         /\ Stage(Other(o)) = 3 =>
             /\ Stage(o) = 3 /\ chan[o][1][1] \in Data
             /\ mute = {} => chan[o][1][1] \in {"KEEPALIVE", "UPDATE"}
<1> DEFINE i == Stage(o)
           j == Stage(Other(o))
           c == chan[o]
<1>1. PICK F \in Seq(Kinds) : Carries(Stream(o), F) /\ InOrder(i, j, F) /\ Refreshless(F)
  BY Zenon DEF Flows
<1>2. i \in 1..3 /\ j \in 1..3
  BY TwoSpeakers, StageRange, Zenon
<1>3. F # <<>> /\ F[1] \in Kinds /\ c[1] = <<F[1], 1>> /\ c[2] = <<F[1], 2>>
  BY <1>1, Drained, Zenon
<1>4. c \in Seq(Halves) /\ Len(c) >= 2
  BY Zenon DEF TypeInv
<1> HIDE DEF c, i, j
<1>5. c[1][1] = F[1]
  BY <1>3
<1>6. SubSeq(c, 1, 2) = Frame(F[1])
  <2> DEFINE r == SubSeq(c, 1, 2)
             f == Frame(F[1])
  <2>1. f \in Seq(Halves) /\ Len(f) = 2 /\ f[1] = <<F[1], 1>> /\ f[2] = <<F[1], 2>>
    BY <1>3, FrameHalves, Zenon
  <2>2. r \in Seq(Halves) /\ Len(r) = 2
    BY <1>4, RestOf
  <2>3. r[1] = c[1] /\ r[2] = c[2]
    BY <1>4
  <2> HIDE DEF r, f
  <2>4. \A m \in 1..Len(r) : r[m] = f[m]
    <3>1. \A m \in 1..2 : m = 1 \/ m = 2
      OBVIOUS
    <3> QED
      BY <1>3, <2>1, <2>2, <2>3, <3>1, Zenon
  <2>5. r = f
    BY <2>1, <2>2, <2>4, SeqEqual, Zenon
  <2> QED
    BY <2>5, Zenon DEF r, f
<1>7. j = 3 => i = 3 /\ F[1] \in Data
  BY <1>1, <1>2, <1>3, OrderTail
<1>8. mute = {} => F[1] # "ROUTE-REFRESH"
  <2>1. 1 \in 1..Len(F)
    BY <1>3
  <2> QED
    BY <1>1, <2>1, Zenon DEF Refreshless
<1> QED
  BY <1>5, <1>6, <1>7, <1>8, Zenon DEF c, i, j, Data

LEMMA ReadFlow ==
  ASSUME TypeInv, FlowInv, NEW s \in Speakers, Read(s)
  PROVE  FlowInv'
<1> DEFINE o == Other(s)
           k == chan[o][1][1]
<1>1. o \in Speakers /\ o # s /\ Other(o) = s /\ Speakers = {s, o}
  BY TwoSpeakers, Zenon
<1>2. /\ s \notin mute /\ State(s) \in {"opensent", "openconfirm", "established"}
      /\ Len(chan[o]) >= 2
      /\ chan' = [chan EXCEPT ![o] = SubSeq(@, 3, Len(@))]
      /\ UNCHANGED mute
  BY Zenon DEF Read, Readable, Reading, faults
<1>3. \/ garbled' = garbled
      \/ garbled' = garbled \cup {s} /\ SubSeq(chan[o], 1, 2) # Frame(k)
  BY Zenon DEF Read
<1>4. PICK y \in Records : /\ Become(s, y)
                           /\ \/ Ending(y) /\ UNCHANGED history
                              \/ Handled(s, k, y)
  BY ReadTypes, Zenon
<1> HIDE DEF k
<1>5. /\ speaker'[s] = y /\ speaker'[o] = speaker[o] /\ chan'[s] = chan[s]
      /\ chan'[o] = SubSeq(chan[o], 3, Len(chan[o]))
  BY <1>1, <1>2, <1>4, Zenon DEF Become, TypeInv
<1>6. Alive(s)
  BY <1>2, Zenon DEF Alive
<1>7. Alive(o) => Flows(s) /\ Flows(o)
  BY <1>1, <1>6, Zenon DEF FlowInv
<1>8. garbled' = garbled \/ (garbled' = garbled \cup {s} /\ ~Alive(Other(s)))
  BY <1>1, <1>2, <1>3, <1>7, FirstFrame, Zenon DEF k
<1>9. /\ y.state \in {"opensend", "confirmsend", "notify"} => y.out # <<>>
      /\ y.state \in {"opensent", "openconfirm"} => y.out = <<>>
  <2>1. Frame("KEEPALIVE") # <<>>
    BY Zenon DEF Frame
  <2> QED
    BY <1>4, <2>1, Zenon DEF Handled, Ending, State
<1>10. ASSUME y.state \notin {"notify", "closed"}, Alive(o)
       PROVE  Flows(s)' /\ Flows(o)'
  <2>1. /\ Flows(s) /\ Flows(o) /\ Stage(o)' = Stage(o) /\ speaker'[o].out = speaker[o].out
    BY <1>5, <1>7, <1>10, Zenon DEF Stage, Opening, Confirming, State
  <2>2. CASE State(s) = "opensent" /\ y.state = "confirmsend" /\ y.out = Frame("KEEPALIVE")
    <3>1. Stage(s) = 1 /\ Stage(s)' = 2
      BY <1>5, <2>2, Zenon DEF Stage, Opening, Confirming, State
    <3>2. Flows(o)'
      BY <1>1, <1>2, <1>5, <2>1, <3>1, DrainFlows
    <3>3. Stream(s)' = Stream(s) \o Frame("KEEPALIVE")
      <4>1. speaker[s].out = <<>> /\ chan[s] \in Seq(Halves)
        BY <2>2, Zenon DEF FlowInv, TypeInv
      <4>2. Stream(s) = chan[s]
        BY <4>1, ConcatEmptySeq, Zenon DEF Stream
      <4> QED
        BY <1>5, <2>2, <4>2, Zenon DEF Stream
    <3>4. "KEEPALIVE" \in Kinds /\ 2 \in 1..3
      BY DEF Kinds
    <3> QED
      BY <1>2, <2>1, <3>1, <3>2, <3>3, <3>4, SendFlows, Zenon
  <2>3. CASE State(s) = "openconfirm" /\ y.state = "established" /\ y.out = speaker[s].out
    <3>1. Stage(s) = 2 /\ Stage(s)' = 3
      BY <1>5, <2>3, Zenon DEF Stage, Opening, Confirming, State
    <3>2. Flows(o)'
      BY <1>1, <1>2, <1>5, <2>1, <3>1, DrainFlows
    <3>3. PICK F \in Seq(Kinds) :
              Carries(Stream(s), F) /\ InOrder(2, Stage(o), F) /\ Refreshless(F)
      BY <2>1, <3>1, Zenon DEF Flows
    <3>4. Carries(Stream(s)', F)
      BY <1>5, <2>3, <3>3, Zenon DEF Stream
    <3>5. InOrder(3, Stage(o), F)
      BY <1>1, <3>3, StageRange, OrderEstablish, Zenon
    <3>6. Refreshless(F)'
      BY <1>2, <3>3, Zenon DEF Refreshless
    <3>7. InOrder(Stage(s)', Stage(Other(s))', F)
      BY <2>1, <3>1, <3>5, Zenon
    <3> QED
      BY <3>2, <3>4, <3>6, <3>7, Zenon DEF Flows
  <2>4. CASE State(s) = "established" /\ y.state = "established" /\ y.out = speaker[s].out
    <3>1. Stage(s) = 3 /\ Stage(s)' = 3
      BY <1>5, <2>4, Zenon DEF Stage, Opening, Confirming, State
    <3>2. Flows(o)'
      BY <1>1, <1>2, <1>5, <2>1, <3>1, DrainFlows
    <3>3. Stream(s)' = Stream(s)
      BY <1>5, <2>4, Zenon DEF Stream
    <3> QED
      BY <1>2, <2>1, <3>1, <3>2, <3>3, FlowsSame, Zenon
  <2> QED
    BY <1>4, <1>10, <2>2, <2>3, <2>4, Zenon DEF Handled, Ending, State
<1> QED
  BY <1>2, <1>4, <1>6, <1>8, <1>9, <1>10, FlowKeeps, Zenon

LEMMA MuteFlow ==
  ASSUME TypeInv, FlowInv, NEW s \in Speakers, MuteRead(s) \/ MuteRefresh(s)
  PROVE  FlowInv'
<1> DEFINE o == Other(s)
<1>1. o \in Speakers /\ o # s /\ Other(o) = s /\ Speakers = {s, o}
  BY TwoSpeakers, Zenon
<1>2. s \in mute /\ UNCHANGED <<speaker, mute, garbled>>
  BY Zenon DEF MuteRead, MuteRefresh, faults
<1>3. /\ \A r \in Speakers : Stage(r)' = Stage(r) /\ State(r)' = State(r)
      /\ \A r \in Speakers : Alive(r)' <=> Alive(r)
  BY <1>2, Zenon DEF Stage, Opening, Confirming, State, Alive
<1>4. Stage(s) = 3 /\ Stage(s)' = 3
  <2>1. State(s) = "established"
    BY <1>2, Zenon DEF FlowInv
  <2> QED
    BY <1>3, <2>1, Zenon DEF Stage, Opening, Confirming
<1>5. ASSUME Flows(s), Flows(o)
      PROVE  Flows(s)' /\ Flows(o)'
  <2>1. CASE MuteRead(s)
    <3>1. /\ Len(chan[o]) >= 2 /\ chan' = [chan EXCEPT ![o] = SubSeq(@, 3, Len(@))]
      BY <2>1, Zenon DEF MuteRead, Readable
    <3>2. chan'[o] = SubSeq(chan[o], 3, Len(chan[o])) /\ chan'[s] = chan[s]
      BY <1>1, <3>1, Zenon DEF TypeInv
    <3>3. Flows(o)'
      BY <1>1, <1>2, <1>3, <1>4, <1>5, <3>1, <3>2, DrainFlows
    <3>4. Stream(s)' = Stream(s)
      BY <1>2, <3>2, Zenon DEF Stream
    <3> QED
      BY <1>1, <1>2, <1>3, <1>5, <3>3, <3>4, FlowsSame, Zenon
  <2>2. CASE MuteRefresh(s)
    <3> DEFINE f == Frame("ROUTE-REFRESH")
    <3>1. speaker[s].out = <<>> /\ chan' = [chan EXCEPT ![s] = @ \o f]
      BY <2>2, Zenon DEF MuteRefresh
    <3>2. chan'[s] = chan[s] \o f /\ chan'[o] = chan[o]
      BY <1>1, <3>1, Zenon DEF TypeInv
    <3>3. "ROUTE-REFRESH" \in Kinds /\ "ROUTE-REFRESH" \in Data /\ 3 \in 1..3
      BY DEF Kinds, Data
    <3>4. chan[s] \in Seq(Halves) /\ f \in Seq(Halves)
      BY <3>3, FrameHalves, Zenon DEF TypeInv
    <3> HIDE DEF f
    <3>5. chan[s] \o f \in Seq(Halves)
      BY <3>4, ConcatHalves, Zenon
    <3>6. Stream(s) = chan[s] /\ Stream(s)' = chan[s] \o f
      BY <1>2, <3>1, <3>2, <3>4, <3>5, ConcatEmptySeq, Zenon DEF Stream
    <3>7. Stream(s)' = Stream(s) \o Frame("ROUTE-REFRESH")
      BY <3>6, Zenon DEF f
    <3>8. Stream(o)' = Stream(o)
      BY <1>2, <3>2, Zenon DEF Stream
    <3>9. Flows(o)'
      BY <1>1, <1>2, <1>3, <1>5, <3>8, FlowsSame, Zenon
    <3>10. mute # {}
      BY <1>2, Zenon
    <3> QED
      BY <1>1, <1>2, <1>3, <1>4, <1>5, <3>3, <3>7, <3>9, <3>10, SendFlows
  <2> QED
    BY <2>1, <2>2, Zenon
<1>6. (\A r \in Speakers : Alive(r)') => \A r \in Speakers : Flows(r)'
  BY <1>1, <1>3, <1>5, Zenon DEF FlowInv
<1>7. ASSUME NEW r \in Speakers
      PROVE  /\ State(r)' \in {"opensend", "confirmsend", "notify"} => speaker'[r].out # <<>>
             /\ State(r)' \in {"opensent", "openconfirm"} => speaker'[r].out = <<>>
             /\ r \in mute' => State(r)' = "established"
  BY <1>2, <1>3, Zenon DEF FlowInv
<1>8. TornFrameEndsSession'
  BY <1>2, Zenon DEF FlowInv, TornFrameEndsSession, State
<1> QED
  BY <1>6, <1>7, <1>8, Zenon DEF FlowInv

LEMMA FlowNext == TypeInv /\ FlowInv /\ [Next]_vars => FlowInv'
<1> SUFFICES ASSUME TypeInv, FlowInv, [Next]_vars
             PROVE  FlowInv'
  BY Zenon
<1>1. CASE Tick
  <2>1. UNCHANGED <<chan, mute, garbled>>
    BY <1>1, Zenon DEF Tick, faults
  <2>2. ASSUME NEW r \in Speakers
        PROVE  speaker'[r].state = speaker[r].state /\ speaker'[r].out = speaker[r].out
    <3> DEFINE x == speaker[r]
    <3>1. x \in Records
      BY Zenon DEF TypeInv
    <3>2. PICK a, b, c : speaker'[r] \in {x, [x EXCEPT !.timer = a, !.keepalive = b, !.deadline = c]}
      BY <1>1, Zenon DEF Tick
    <3> HIDE DEF x
    <3>3. speaker'[r].state = x.state /\ speaker'[r].out = x.out
      BY <3>1, <3>2, Zenon DEF Records
    <3> QED
      BY <3>3, Zenon DEF x
  <2> QED
    BY <2>1, <2>2, FlowStays, Zenon DEF FlowInv
<1>2. ASSUME NEW s \in Speakers, Stall(s) \/ GoMute(s)
      PROVE  FlowInv'
  <2>1. UNCHANGED <<speaker, chan, garbled>>
    BY <1>2, Zenon DEF Stall, GoMute
  <2>2. mute' = mute \/ (mute = {} /\ mute' = {s} /\ State(s) = "established")
    BY <1>2, Zenon DEF Stall, GoMute
  <2>3. \A r \in Speakers : r \in mute' => State(r) = "established"
    BY <2>2, Zenon DEF FlowInv
  <2> QED
    BY <2>1, <2>2, <2>3, FlowStays, Zenon
<1>3. CASE UNCHANGED vars
  <2>1. UNCHANGED <<speaker, chan, mute, garbled>>
    BY <1>3, Zenon DEF vars, faults
  <2> QED
    BY <2>1, FlowStays, Zenon DEF FlowInv
<1> QED
  BY <1>1, <1>2, <1>3, WriteFlow, SendFlow, EndFlow, ReadFlow, MuteFlow, Zenon DEF Next, Step

LEMMA FlowInvariant == Spec => [](TypeInv /\ FlowInv)
  BY TypeInit, TypeNext, FlowInit, FlowNext, PTL DEF Spec

(* However writes are split, cancelled and read, a speaker never takes two *)
(* halves of different frames for one while the sender's session lives:    *)
(* write deadlines end the session that tore the frame.                    *)
THEOREM NoTornFrames == Spec => []TornFrameEndsSession
<1>1. TypeInv /\ FlowInv => TornFrameEndsSession
  BY Zenon DEF FlowInv
<1> QED
  BY <1>1, FlowInvariant, PTL
=============================================================================
