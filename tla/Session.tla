------------------------------ MODULE Session ------------------------------
(***************************************************************************)
(* One connection between two speakers that run src/src/bgp.rs, in time:   *)
(* the OPEN exchange of handshake(), and session() with its confirmation,  *)
(* the hold timer of receive(), the KEEPALIVEs and write deadlines of      *)
(* transmit(), and report().                                               *)
(*                                                                         *)
(* A frame crosses the connection in two halves, so that a cancelled write *)
(* can leave one half behind.  The connection holds BufferCap halves per   *)
(* direction and may stall; an established speaker may turn mute, which    *)
(* leaves it at most ROUTE-REFRESH messages.  One tick is one second, and  *)
(* nothing that is due waits for the next tick, except that a timeout is   *)
(* not looked at while what it limits can go on.                           *)
(***************************************************************************)
EXTENDS Open

CONSTANTS
    Speakers,   \* the two neighbors
    Settings,   \* what they may be configured with: [Speakers -> [c, p]]
    BufferCap   \* halves of frames in flight in one direction

ASSUME SessionAssumption ==
    /\ \E a, b \in Speakers : a # b /\ Speakers = {a, b}
    /\ \A f \in Settings : \A s \in Speakers :
        typed(f[s].c, f[s].p) /\ validate(f[s].c, f[s].p)
    /\ BufferCap \in Nat \ {0, 1}

VARIABLES
    cfg,        \* the configurations
    verdict,    \* what parse_open() says of the other's OPEN
    speaker,    \* where each speaker is, with its timers and current write
    chan,       \* halves sent by each speaker and not yet read
    stalled,    \* the speakers whose data the network holds back
    mute,       \* the speakers that went mute
    silence,    \* ticks since a speaker last saw a KEEPALIVE or UPDATE,
                \* counted up to the hold time
    lost,       \* those of them during which the network held data back
    garbled     \* the speakers that read a frame made of two frames

fixed == <<cfg, verdict>>
history == <<silence, lost>>
faults == <<stalled, mute>>
vars == <<fixed, speaker, chan, faults, history, garbled>>

Other(s) == CHOOSE t \in Speakers : t # s
Peer(s) == cfg[s].p
State(s) == speaker[s].state
Hold(s) == speaker[s].n.hold

Kinds == {"OPEN", "UPDATE", "NOTIFICATION", "KEEPALIVE", "ROUTE-REFRESH"}
Halves == Kinds \X {1, 2}
Frame(k) == << <<k, 1>>, <<k, 2>> >>

NoSession == [hold |-> 0]
Closed == [state |-> "closed", n |-> NoSession, timer |-> 0, keepalive |-> 0,
           out |-> <<>>, deadline |-> 0]

(* Mutant of keepalive: once per hold time. *)
keepalive_rare(hold) == IF hold > 1 THEN hold ELSE 1

(* transmit(): a third of the hold time, at least a second. *)
keepalive(hold) == IF hold \div 3 > 1 THEN hold \div 3 ELSE 1

(* The longest wait in a state: for the OPEN exchange, the confirmation or *)
(* the next KEEPALIVE; and for a write, or for a last NOTIFICATION.        *)
Patience(s) ==
    CASE State(s) \in {"opensend", "opensent"} -> Peer(s).connect_timeout_secs
      [] State(s) = "openconfirm" /\ Hold(s) = 0 -> Peer(s).connect_timeout_secs
      [] State(s) = "openconfirm" /\ Hold(s) # 0 -> Hold(s)
      [] State(s) = "established" -> Hold(s)
      [] OTHER -> 0
Grace(s) == IF State(s) = "notify" THEN 1 ELSE Peer(s).write_timeout_secs

(* No wait is longer than its state allows: the timeouts of one state are  *)
(* never left behind in the next, and report() holds up a reconnect for a  *)
(* second at most, however long writes may take.                           *)
TypeOK ==
    /\ \A s \in Speakers :
        /\ validate(cfg[s].c, cfg[s].p)
        /\ State(s) \in {"opensend", "opensent", "confirmsend", "openconfirm",
                         "established", "notify", "closed"}
        /\ speaker[s].timer \in 0..Patience(s)
        /\ speaker[s].keepalive \in 0..keepalive(Hold(s))
        /\ speaker[s].deadline \in 0..Grace(s)
        /\ speaker[s].out \in Seq(Halves)
        /\ chan[s] \in Seq(Halves) /\ Len(chan[s]) <= BufferCap
        /\ silence[s] \in Nat /\ lost[s] \in 0..silence[s]
    /\ stalled \subseteq Speakers /\ mute \subseteq Speakers
    /\ garbled \subseteq Speakers

(* send(): write_all() within a deadline. *)
Sending(x, k, seconds) == [x EXCEPT !.out = Frame(k), !.deadline = seconds]

(* Connected, and handshake() began to write its OPEN. *)
Init ==
    /\ cfg \in Settings
    /\ verdict = [s \in Speakers |->
           parse_open(open(cfg[Other(s)].c, Peer(Other(s))), cfg[s].c, Peer(s))]
    /\ speaker = [s \in Speakers |->
           Sending([Closed EXCEPT !.state = "opensend", !.timer = Peer(s).connect_timeout_secs],
                   "OPEN", Peer(s).write_timeout_secs)]
    /\ chan = [s \in Speakers |-> <<>>]
    /\ stalled = {} /\ mute = {} /\ garbled = {}
    /\ silence = [s \in Speakers |-> 0]
    /\ lost = [s \in Speakers |-> 0]

----------------------------------------------------------------------------
(* Steps of a speaker s, which becomes x. *)

Become(s, x) == speaker' = [speaker EXCEPT ![s] = x]

(* Mutant of Report: a NOTIFICATION may take as long as any write. *)
ReportPatient(s) ==
    Become(s, [Sending(Closed, "NOTIFICATION", Peer(s).write_timeout_secs)
                  EXCEPT !.state = "notify"])

(* report(): an attempt of at most one second at a NOTIFICATION, in place  *)
(* of whatever was being written.                                          *)
Report(s) ==
    Become(s, [Sending(Closed, "NOTIFICATION", 1) EXCEPT !.state = "notify"])

(* session() after the handshake: a KEEPALIVE confirms the OPEN. *)
Confirm(s, n) ==
    Become(s, Sending([Closed EXCEPT !.state = "confirmsend", !.n = n],
                      "KEEPALIVE", Peer(s).write_timeout_secs))

(* receive() and transmit() start. *)
Establish(s) ==
    Become(s, [speaker[s] EXCEPT !.state = "established", !.timer = Hold(s),
                                 !.keepalive = keepalive(Hold(s))])

(* write_all() made progress: k more halves are in the socket buffer. *)
Written(s, k) ==
    LET x == speaker[s]
        rest == SubSeq(x.out, k + 1, Len(x.out))
    IN  CASE rest # <<>> -> [x EXCEPT !.out = rest]
          [] rest = <<>> /\ x.state = "opensend" ->
                [x EXCEPT !.state = "opensent", !.out = <<>>, !.deadline = 0]
          [] rest = <<>> /\ x.state = "confirmsend" ->
                [x EXCEPT !.state = "openconfirm", !.out = <<>>, !.deadline = 0,
                          !.timer = IF x.n.hold = 0 THEN Peer(s).connect_timeout_secs
                                    ELSE x.n.hold]
          [] rest = <<>> /\ x.state = "established" ->
                [x EXCEPT !.out = <<>>, !.deadline = 0,
                          !.keepalive = IF Head(x.out)[1] = "KEEPALIVE"
                                        THEN keepalive(x.n.hold) ELSE @]
          [] OTHER -> Closed

Space(s) == BufferCap - Len(chan[s])

Write(s) ==
    LET k == Min({Space(s), Len(speaker[s].out)})
    IN  /\ s \notin mute /\ k > 0
        /\ chan' = [chan EXCEPT ![s] = @ \o SubSeq(speaker[s].out, 1, k)]
        /\ Become(s, Written(s, k))
        /\ UNCHANGED <<fixed, faults, history, garbled>>

(* Mutant of WriteDeadline: transmit() drops the frame and goes on. *)
WriteDeadlineResumes(s) ==
    /\ s \notin mute
    /\ speaker[s].out # <<>> /\ speaker[s].deadline = 0 /\ Space(s) = 0
    /\ Become(s, IF State(s) = "established" THEN [speaker[s] EXCEPT !.out = <<>>] ELSE Closed)
    /\ UNCHANGED <<fixed, chan, faults, history, garbled>>

(* The deadline of send() passed and write_all() cannot go on.  The error  *)
(* is no ProtocolError, so nothing is reported and the stream is dropped.  *)
WriteDeadline(s) ==
    /\ s \notin mute
    /\ speaker[s].out # <<>> /\ speaker[s].deadline = 0 /\ Space(s) = 0
    /\ Become(s, Closed)
    /\ UNCHANGED <<fixed, chan, faults, history, garbled>>

----------------------------------------------------------------------------
(* transmit() *)

KeepaliveDue(s) ==
    /\ State(s) = "established" /\ speaker[s].out = <<>>
    /\ Hold(s) # 0 /\ speaker[s].keepalive = 0

SendKeepalive(s) ==
    /\ s \notin mute /\ KeepaliveDue(s)
    /\ Become(s, Sending(speaker[s], "KEEPALIVE", Peer(s).write_timeout_secs))
    /\ UNCHANGED <<fixed, chan, faults, history, garbled>>

(* A batch or a marker, whenever there is one and no KEEPALIVE is due. *)
SendUpdate(s) ==
    /\ s \notin mute
    /\ State(s) = "established" /\ speaker[s].out = <<>> /\ ~KeepaliveDue(s)
    /\ Become(s, Sending(speaker[s], "UPDATE", Peer(s).write_timeout_secs))
    /\ UNCHANGED <<fixed, chan, faults, history, garbled>>

----------------------------------------------------------------------------
(* Reading: handshake(), the confirmation in session(), receive() *)

Reading(s) == State(s) \in {"opensent", "openconfirm", "established"}
Readable(s) == Len(chan[Other(s)]) >= 2 /\ Other(s) \notin stalled
Ended(s) == State(Other(s)) = "closed" /\ Other(s) \notin stalled

ResetHold(s) ==
    /\ Become(s, [speaker[s] EXCEPT !.timer = Hold(s)])
    /\ silence' = [silence EXCEPT ![s] = 0]
    /\ lost' = [lost EXCEPT ![s] = 0]

(* unexpected(): a NOTIFICATION ends the session without an answer. *)
Unexpected(s, k) ==
    /\ IF k = "NOTIFICATION" THEN Become(s, Closed) ELSE Report(s)
    /\ UNCHANGED history

HandleOpen(s) ==
    /\ IF verdict[s].ok THEN Confirm(s, verdict[s].n) ELSE Report(s)
    /\ UNCHANGED history

(* Mutant of Handle: every message restarts the hold timer. *)
HandleAlways(s, k) ==
    \/ State(s) = "established" /\ k = "ROUTE-REFRESH" /\ UNCHANGED history
       /\ Become(s, [speaker[s] EXCEPT !.timer = Hold(s)])
    \/ State(s) = "opensent" /\ k = "OPEN" /\ HandleOpen(s)
    \/ State(s) = "openconfirm" /\ k = "KEEPALIVE" /\ Establish(s) /\ UNCHANGED history
    \/ State(s) = "established" /\ k \in {"KEEPALIVE", "UPDATE"} /\ ResetHold(s)
    \/ State(s) = "established" /\ k = "NOTIFICATION" /\ Unexpected(s, k)

Handle(s, k) ==
    \/ State(s) = "opensent" /\ k = "OPEN" /\ HandleOpen(s)
    \/ State(s) = "openconfirm" /\ k = "KEEPALIVE" /\ Establish(s) /\ UNCHANGED history
    \/ State(s) = "established" /\ k \in {"KEEPALIVE", "UPDATE"} /\ ResetHold(s)
    \/ State(s) = "established" /\ k = "ROUTE-REFRESH" /\ UNCHANGED <<speaker, history>>
    \/ State(s) = "opensent" /\ k # "OPEN" /\ Unexpected(s, k)
    \/ State(s) = "openconfirm" /\ k # "KEEPALIVE" /\ Unexpected(s, k)
    \/ State(s) = "established" /\ k \in {"OPEN", "NOTIFICATION"} /\ Unexpected(s, k)

(* read_frame() takes the length from the first half and the rest from     *)
(* whatever follows; what two halves of different frames decode to is      *)
(* anything from a frame to a protocol error.                              *)
Read(s) ==
    LET in == chan[Other(s)]
    IN  /\ s \notin mute /\ Reading(s) /\ Readable(s)
        /\ chan' = [chan EXCEPT ![Other(s)] = SubSeq(@, 3, Len(@))]
        /\ \/ /\ SubSeq(in, 1, 2) = Frame(in[1][1])
              /\ Handle(s, in[1][1])
              /\ UNCHANGED garbled
           \/ /\ SubSeq(in, 1, 2) # Frame(in[1][1])
              /\ garbled' = garbled \cup {s}
              /\ Handle(s, in[1][1]) \/ (Report(s) /\ UNCHANGED history)
        /\ UNCHANGED <<fixed, faults>>

(* The connection is closed or reset: an I/O error of a read or a write.   *)
(* A reset may destroy what was sent before it.                            *)
Lose(s) ==
    /\ s \notin mute /\ State(s) # "closed" /\ Ended(s)
    /\ Reading(s) \/ speaker[s].out # <<>>
    /\ Become(s, Closed)
    /\ UNCHANGED <<fixed, chan, faults, history, garbled>>

(* Mutant of Expired: the confirmation has no timeout. *)
ExpiredLate(s) ==
    /\ State(s) \in {"opensend", "opensent", "established"}
    /\ State(s) = "established" => Hold(s) # 0
    /\ speaker[s].timer = 0

(* The timeouts: of handshake(), which reports nothing, of the             *)
(* confirmation, and the hold timer.                                       *)
Expired(s) ==
    /\ State(s) \in {"opensend", "opensent", "openconfirm", "established"}
    /\ State(s) = "established" => Hold(s) # 0
    /\ speaker[s].timer = 0

(* timeout() and timeout_at() try what they limit before they look at the  *)
(* time: the OPEN to be written, or the frame to be read.                  *)
Blocked(s) ==
    IF State(s) = "opensend" THEN Space(s) = 0 ELSE ~Readable(s) /\ ~Ended(s)

Expire(s) ==
    /\ s \notin mute /\ Expired(s) /\ Blocked(s)
    /\ IF State(s) \in {"opensend", "opensent"} THEN Become(s, Closed) ELSE Report(s)
    /\ UNCHANGED <<fixed, chan, faults, history, garbled>>

----------------------------------------------------------------------------
(* The network, a speaker gone mute, and time *)

Stall(s) ==
    /\ stalled' = IF s \in stalled THEN stalled \ {s} ELSE stalled \cup {s}
    /\ UNCHANGED <<fixed, speaker, chan, mute, history, garbled>>

GoMute(s) ==
    /\ State(s) = "established" /\ mute = {}
    /\ mute' = {s}
    /\ UNCHANGED <<fixed, speaker, chan, stalled, history, garbled>>

(* A mute speaker reads on, and may ask for a refresh between two frames. *)
MuteRead(s) ==
    /\ s \in mute /\ Readable(s)
    /\ chan' = [chan EXCEPT ![Other(s)] = SubSeq(@, 3, Len(@))]
    /\ UNCHANGED <<fixed, speaker, faults, history, garbled>>

MuteRefresh(s) ==
    /\ s \in mute /\ speaker[s].out = <<>> /\ Space(s) >= 2
    /\ chan' = [chan EXCEPT ![s] = @ \o Frame("ROUTE-REFRESH")]
    /\ UNCHANGED <<fixed, speaker, faults, history, garbled>>

(* A mute neighbor may send its ROUTE-REFRESH messages as fast as s reads  *)
(* them, so that there is always another one: time passes all the same.    *)
Flooded(s) ==
    /\ State(s) = "established" /\ Other(s) \in mute /\ Readable(s)
    /\ chan[Other(s)][1][1] = "ROUTE-REFRESH"

(* Something s does at once. *)
Due(s) ==
    /\ s \notin mute
    /\ \/ speaker[s].out # <<>> /\ (speaker[s].deadline = 0 \/ Space(s) > 0 \/ Ended(s))
       \/ Reading(s) /\ (Ended(s) \/ (Readable(s) /\ ~Flooded(s)))
       \/ KeepaliveDue(s)
       \/ Expired(s) /\ Blocked(s)

Less(t) == IF t > 0 THEN t - 1 ELSE 0

(* s is in a session with a hold time. *)
Timed(s) == State(s) = "established" /\ Hold(s) # 0 /\ s \notin mute

Counted(f, k) ==
    [s \in Speakers |-> IF Timed(s) THEN f[s] + (IF silence[s] < Hold(s) THEN k ELSE 0)
                        ELSE 0]

Tick ==
    /\ \E s \in Speakers : State(s) # "closed" /\ s \notin mute
    /\ \A s \in Speakers : ~Due(s)
    /\ speaker' = [s \in Speakers |->
           IF s \in mute THEN speaker[s]
           ELSE [speaker[s] EXCEPT !.timer = Less(@), !.keepalive = Less(@),
                                   !.deadline = Less(@)]]
    /\ silence' = Counted(silence, 1)
    /\ lost' = Counted(lost, IF stalled = {} THEN 0 ELSE 1)
    /\ UNCHANGED <<fixed, chan, faults, garbled>>

Step(s) ==
    \/ Write(s)
    \/ WriteDeadline(s)
    \/ SendKeepalive(s)
    \/ Read(s)
    \/ Lose(s)
    \/ Expire(s)

Next ==
    \/ \E s \in Speakers : Step(s)
    \/ \E s \in Speakers : SendUpdate(s)
    \/ \E s \in Speakers : Stall(s)
    \/ \E s \in Speakers : GoMute(s)
    \/ \E s \in Speakers : MuteRead(s)
    \/ \E s \in Speakers : MuteRefresh(s)
    \/ Tick

Spec == Init /\ [][Next]_vars

----------------------------------------------------------------------------
(* Safety *)

Negotiated(s) == State(s) \in {"confirmsend", "openconfirm", "established"}

(* Two speakers that both accept the other's OPEN agree on the session:    *)
(* hold time, ASN width, kind, families; each has a next hop for every     *)
(* family it may export, so update() finds one; and of two connections     *)
(* they prefer the same one, because exactly one of them prefers its       *)
(* incoming connection.                                                    *)
NegotiationAgrees ==
    (\A s \in Speakers : Negotiated(s)) =>
        \A s \in Speakers :
            LET n == speaker[s].n
                m == speaker[Other(s)].n
            IN  /\ n.hold = m.hold /\ n.asn4 = m.asn4 /\ n.internal = m.internal
                /\ n.ipv4 = m.ipv4 /\ n.ipv6 = m.ipv6
                /\ n.ipv4 => nh4(Peer(s)) # {}
                /\ n.ipv6 => nh6(Peer(s)) # {}
                /\ prefer_incoming(cfg[s].c, Peer(s), n)
                   <=> ~prefer_incoming(cfg[Other(s)].c, Peer(Other(s)), m)

(* The hold timer of receive() runs out on a neighbor that has not gone    *)
(* mute only if the network held data back, in one direction or the other, *)
(* for two thirds of the hold time: transmit()'s KEEPALIVEs keep a working *)
(* session up however updates and writes interleave with them.             *)
HoldExpiryNeedsStall ==
    \A s \in Speakers :
        (State(s) = "established" /\ Expired(s) /\ mute = {}) =>
            3 * lost[s] >= 2 * Hold(s)

(* A session goes on without a KEEPALIVE or UPDATE for longer than the     *)
(* hold time only while there is a ROUTE-REFRESH to be read whenever       *)
(* receive() looks: they do not restart the hold timer, and neither single *)
(* ones, nor half a frame, nor a write of its own that blocks keep a       *)
(* session up.                                                             *)
OnlyFloodOutlivesHold ==
    [][\A s \in Speakers :
          Timed(s) /\ silence[s] >= Hold(s) /\ Tick => Flooded(s)]_vars

(* A write given up halfway is the last but for a NOTIFICATION: a speaker  *)
(* never reads a frame made of two unless the sender has ended the session. *)
TornFrameEndsSession ==
    \A s \in garbled : State(Other(s)) \in {"notify", "closed"}

----------------------------------------------------------------------------
(* Liveness *)

(* Tasks run when they are ready, and time passes. *)
LiveSpec ==
    /\ Spec
    /\ \A s \in Speakers : WF_vars(Step(s))
    /\ SF_vars(Tick)

(* Once one end is closed the other closes too, whatever the network does  *)
(* with the close, unless it has gone mute or no hold time was negotiated: *)
(* every state has a timeout or a write deadline that ends it.             *)
CloseIsMutual ==
    \A s \in Speakers :
        State(s) = "closed" ~>
            \/ State(Other(s)) = "closed" \/ Other(s) \in mute
            \/ State(Other(s)) = "established" /\ Hold(Other(s)) = 0
=============================================================================
