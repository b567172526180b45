-------------------------------- MODULE Peer --------------------------------
(***************************************************************************)
(* Session setup in src/src/bgp.rs, between two speakers that both run it: *)
(* the listener, choose() with its two concurrent handshakes and the       *)
(* collision preference, session() and peer_loop() with its backoff.       *)
(*                                                                         *)
(* A TCP connection is a slot with two ends and an ordered inbox per end;  *)
(* the slot is free again once both ends are closed.  How long timeouts    *)
(* and backoffs last is left open: they may fire at any time.              *)
(***************************************************************************)
EXTENDS Naturals, Sequences

CONSTANTS
    Speakers,   \* the two neighbors
    Rank,       \* order of their (router_id, asn) pairs
    Conns,      \* connection slots
    QueueCap,   \* capacity of a peer's incoming channel (2 in the code)
    Reaches,    \* which speakers' connect() can succeed: the cases
    None        \* Option::None

ASSUME PeerAssumption ==
    /\ \E a, b \in Speakers : a # b /\ Speakers = {a, b}
    /\ Rank \in [Speakers -> Nat]
    /\ \A s, t \in Speakers : s # t => Rank[s] # Rank[t]
    /\ QueueCap \in Nat \ {0}
    /\ Reaches \subseteq SUBSET Speakers
    /\ Conns \cap {None, "connect", "waiting", "failed", "done"} = {}

VARIABLES
    reach,      \* the speakers whose connect() can succeed
    conn,       \* the connections
    pc,         \* where peer_loop() is
    outgoing,   \* choose()'s outgoing task
    incoming,   \* choose()'s incoming task
    pending,    \* choose()'s pending candidate
    current,    \* the stream of the session, or of the handshake in backoff
    late,       \* that session was accepted during backoff
    queue,      \* the incoming channel: accepted streams
    status      \* PeerStatus.state

tasks == <<outgoing, incoming, pending>>
moving == <<conn, pc, tasks, current, late, queue, status>>
vars == <<reach, moving>>

Other(s) == CHOOSE t \in Speakers : t # s

Messages == {"OPEN", "KEEPALIVE", "UPDATE", "NOTIFICATION"}
Ends == {"closed", "backlog", "queued", "opensent", "openrecv", "session"}
Unused == [from |-> None,
           end |-> [s \in Speakers |-> "closed"],
           inbox |-> [s \in Speakers |-> <<>>]]

Places == {"choose", "confirm", "established", "backoff", "accept"}

TypeOK ==
    /\ conn \in [Conns -> [from : Speakers \cup {None}, end : [Speakers -> Ends],
                           inbox : [Speakers -> Seq(Messages)]]]
    /\ pc \in [Speakers -> Places]
    /\ outgoing \in [Speakers -> Conns \cup {"connect", "failed", "done"}]
    /\ incoming \in [Speakers -> Conns \cup {"waiting", "failed", "done"}]
    /\ pending \in [Speakers -> Conns \cup {None}]
    /\ current \in [Speakers -> Conns \cup {None}]
    /\ late \in [Speakers -> BOOLEAN]
    /\ queue \in [Speakers -> Seq(Conns)]
    /\ \A s \in Speakers : Len(queue[s]) <= QueueCap
    /\ status \in [Speakers -> {"Connect", "Active", "OpenConfirm", "Established"}]

(* run() spawned the peer workers, which entered choose(). *)
Init ==
    /\ reach \in Reaches
    /\ conn = [c \in Conns |-> Unused]
    /\ pc = [s \in Speakers |-> "choose"]
    /\ outgoing = [s \in Speakers |-> "connect"]
    /\ incoming = [s \in Speakers |-> "waiting"]
    /\ pending = [s \in Speakers |-> None]
    /\ current = [s \in Speakers |-> None]
    /\ late = [s \in Speakers |-> FALSE]
    /\ queue = [s \in Speakers |-> <<>>]
    /\ status = [s \in Speakers |-> "Connect"]

----------------------------------------------------------------------------
(* management::update() *)
Update(s, state) == status' = [status EXCEPT ![s] = state]

----------------------------------------------------------------------------
(* TCP: what s does to a connection r. *)

End(c, s) == conn[c].end[s]
Inbox(c, s) == conn[c].inbox[s]
First(c, s, m) == Inbox(c, s) # <<>> /\ Head(Inbox(c, s)) = m

(* send(): what is written to an end that is gone is lost. *)
Write(r, s, m) ==
    IF r.end[Other(s)] = "closed" THEN r
    ELSE [r EXCEPT !.inbox[Other(s)] = Append(@, m)]

Consume(r, s) == [r EXCEPT !.inbox[s] = Tail(@)]

Become(r, s, e) == [r EXCEPT !.end[s] = e]

(* The stream is dropped. *)
Drop(r, s) ==
    IF r.end[Other(s)] = "closed" THEN Unused
    ELSE [r EXCEPT !.end[s] = "closed", !.inbox[s] = <<>>]

(* A NOTIFICATION is sent and the stream dropped. *)
Notify(r, s) == Drop(Write(r, s, "NOTIFICATION"), s)

(* The other end closed, or said that it would. *)
Broken(c, s) ==
    \/ First(c, s, "NOTIFICATION")
    \/ Inbox(c, s) = <<>> /\ End(c, Other(s)) = "closed"

(* What was sent before a close may be destroyed by a reset. *)
Reset(c, s) ==
    /\ End(c, s) # "closed" /\ End(c, Other(s)) = "closed"
    /\ Inbox(c, s) # <<>>
    /\ conn' = [conn EXCEPT ![c].inbox[s] = <<>>]
    /\ UNCHANGED <<pc, tasks, current, late, queue, status>>

(* Mutant of Accept: the channel has no limit. *)
AcceptUnbounded(s, c) ==
    /\ End(c, s) = "backlog"
    /\ conn' = [conn EXCEPT ![c] = Become(@, s, "queued")]
    /\ queue' = [queue EXCEPT ![s] = Append(@, c)]
    /\ UNCHANGED <<pc, tasks, current, late, status>>

(* The listener: a stream from a configured peer goes to that peer's       *)
(* channel, or is closed when the channel is full.                         *)
Accept(s, c) ==
    /\ End(c, s) = "backlog"
    /\ IF Len(queue[s]) < QueueCap
       THEN /\ conn' = [conn EXCEPT ![c] = Become(@, s, "queued")]
            /\ queue' = [queue EXCEPT ![s] = Append(@, c)]
       ELSE /\ conn' = [conn EXCEPT ![c] = Drop(@, s)]
            /\ UNCHANGED queue
    /\ UNCHANGED <<pc, tasks, current, late, status>>

----------------------------------------------------------------------------
(* choose() *)

Tasks(s) == {outgoing[s], incoming[s]} \cap Conns

(* prefer_incoming() *)
PreferIncoming(s) == Rank[s] < Rank[Other(s)]
Preferred(s, c) == (conn[c].from # s) = PreferIncoming(s)

(* peer_loop()'s head: status, then choose() up to its loop. *)
EnterChoose(s) ==
    /\ pc' = [pc EXCEPT ![s] = "choose"]
    /\ outgoing' = [outgoing EXCEPT ![s] = "connect"]
    /\ incoming' = [incoming EXCEPT ![s] = "waiting"]
    /\ current' = [current EXCEPT ![s] = None]
    /\ late' = [late EXCEPT ![s] = FALSE]
    /\ Update(s, "Connect")
    /\ UNCHANGED pending

EnterBackoff(s) ==
    /\ pc' = [pc EXCEPT ![s] = "backoff"]
    /\ current' = [current EXCEPT ![s] = None]
    /\ Update(s, "Active")
    /\ UNCHANGED late

LeaveChoose(s) ==
    /\ outgoing' = [outgoing EXCEPT ![s] = "done"]
    /\ incoming' = [incoming EXCEPT ![s] = "done"]
    /\ pending' = [pending EXCEPT ![s] = None]

(* connect() succeeded in the outgoing task, whose handshake() sent OPEN. *)
Connect(s) ==
    /\ pc[s] = "choose" /\ outgoing[s] = "connect"
    /\ s \in reach
    /\ \E c \in Conns :
          /\ conn[c] = Unused
          /\ conn' = [conn EXCEPT ![c] =
                [from |-> s,
                 end |-> [t \in Speakers |-> IF t = s THEN "opensent" ELSE "backlog"],
                 inbox |-> [t \in Speakers |-> IF t = s THEN <<>> ELSE <<"OPEN">>]]]
          /\ outgoing' = [outgoing EXCEPT ![s] = c]
    /\ UNCHANGED <<pc, incoming, pending, current, late, queue, status>>

ConnectFail(s) ==
    /\ pc[s] = "choose" /\ outgoing[s] = "connect"
    /\ outgoing' = [outgoing EXCEPT ![s] = "failed"]
    /\ UNCHANGED <<conn, pc, incoming, pending, current, late, queue, status>>

(* The first incoming stream of this attempt: its handshake() sends OPEN. *)
TakeIncoming(s) ==
    /\ pc[s] = "choose" /\ incoming[s] = "waiting"
    /\ queue[s] # <<>>
    /\ LET c == Head(queue[s])
       IN /\ conn' = [conn EXCEPT ![c] = Write(Become(@, s, "opensent"), s, "OPEN")]
          /\ incoming' = [incoming EXCEPT ![s] = c]
    /\ queue' = [queue EXCEPT ![s] = Tail(@)]
    /\ UNCHANGED <<pc, outgoing, pending, current, late, status>>

(* Mutant of ReadOpen: the handshake itself confirms the OPEN. *)
ReadOpenConfirming(s, c) ==
    /\ c \in Tasks(s) /\ End(c, s) = "opensent"
    /\ First(c, s, "OPEN")
    /\ conn' = [conn EXCEPT ![c] =
                   Write(Become(Consume(@, s), s, "openrecv"), s, "KEEPALIVE")]
    /\ UNCHANGED <<pc, tasks, current, late, queue, status>>

(* A task's handshake() read a valid OPEN. *)
ReadOpen(s, c) ==
    /\ c \in Tasks(s) /\ End(c, s) = "opensent"
    /\ First(c, s, "OPEN")
    /\ conn' = [conn EXCEPT ![c] = Become(Consume(@, s), s, "openrecv")]
    /\ UNCHANGED <<pc, tasks, current, late, queue, status>>

(* A task's handshake() failed: another message, a closed connection, a    *)
(* timeout, an unacceptable OPEN or a local error.  Protocol errors are    *)
(* reported to the peer.                                                   *)
HandshakeFail(s, c) ==
    /\ c \in Tasks(s) /\ End(c, s) = "opensent"
    /\ \E r \in {Drop(conn[c], s), Notify(conn[c], s)} : conn' = [conn EXCEPT ![c] = r]
    /\ IF c = outgoing[s]
       THEN outgoing' = [outgoing EXCEPT ![s] = "failed"] /\ UNCHANGED incoming
       ELSE incoming' = [incoming EXCEPT ![s] = "failed"] /\ UNCHANGED outgoing
    /\ UNCHANGED <<pc, pending, current, late, queue, status>>

(* Mutant of Chosen: the losing handshake is a task of its own, which the  *)
(* end of choose() does not abort.                                         *)
ChosenDetached(s, c) ==
    /\ conn' = [x \in Conns |->
          IF x = c THEN Write(Become(conn[x], s, "session"), s, "KEEPALIVE")
          ELSE IF x = pending[s] THEN Notify(conn[x], s)
          ELSE conn[x]]
    /\ LeaveChoose(s)
    /\ pc' = [pc EXCEPT ![s] = "confirm"]
    /\ current' = [current EXCEPT ![s] = c]
    /\ Update(s, "OpenConfirm")
    /\ UNCHANGED <<late, queue>>

(* choose() returned candidate c: the JoinSet is dropped and session()     *)
(* sends its KEEPALIVE.  A superseded candidate is told.                   *)
Chosen(s, c) ==
    /\ conn' = [x \in Conns |->
          IF x = c THEN Write(Become(conn[x], s, "session"), s, "KEEPALIVE")
          ELSE IF x = pending[s] THEN Notify(conn[x], s)
          ELSE IF x \in Tasks(s) THEN Drop(conn[x], s)
          ELSE conn[x]]
    /\ LeaveChoose(s)
    /\ pc' = [pc EXCEPT ![s] = "confirm"]
    /\ current' = [current EXCEPT ![s] = c]
    /\ Update(s, "OpenConfirm")
    /\ UNCHANGED <<late, queue>>

(* The loop saw a finished task: a candidate in the preferred direction is *)
(* used at once, one in the other direction waits for the settling window. *)
Join(s, c) ==
    /\ pc[s] = "choose"
    /\ c \in Tasks(s) /\ End(c, s) = "openrecv"
    /\ IF Preferred(s, c)
       THEN Chosen(s, c)
       ELSE /\ pending' = [pending EXCEPT ![s] = c]
            /\ IF c = outgoing[s]
               THEN outgoing' = [outgoing EXCEPT ![s] = "done"] /\ UNCHANGED incoming
               ELSE incoming' = [incoming EXCEPT ![s] = "done"] /\ UNCHANGED outgoing
            /\ UNCHANGED <<conn, pc, current, late, queue, status>>

(* The loop saw a failed task, and gives up when nothing can follow. *)
JoinFailed(s) ==
    /\ pc[s] = "choose"
    /\ "failed" \in {outgoing[s], incoming[s]}
    /\ LET out == IF outgoing[s] = "failed" THEN "done" ELSE outgoing[s]
           inc == IF outgoing[s] # "failed" THEN "done" ELSE incoming[s]
       IN IF out = "done" /\ inc = "done" /\ pending[s] = None
          THEN EnterBackoff(s) /\ LeaveChoose(s)
          ELSE /\ outgoing' = [outgoing EXCEPT ![s] = out]
               /\ incoming' = [incoming EXCEPT ![s] = inc]
               /\ UNCHANGED <<pc, pending, current, late, status>>
    /\ UNCHANGED <<conn, queue>>

(* Mutant of Deadline: the pending candidate is dropped. *)
DeadlineBailing(s) ==
    /\ pc[s] = "choose"
    /\ conn' = [x \in Conns |->
          IF x \in Tasks(s) \cup {pending[s]} THEN Drop(conn[x], s) ELSE conn[x]]
    /\ LeaveChoose(s)
    /\ EnterBackoff(s)
    /\ UNCHANGED queue

(* The settling window or the selection deadline ran out. *)
Deadline(s) ==
    /\ pc[s] = "choose"
    /\ IF pending[s] # None
       THEN Chosen(s, pending[s])
       ELSE /\ conn' = [x \in Conns |-> IF x \in Tasks(s) THEN Drop(conn[x], s) ELSE conn[x]]
            /\ LeaveChoose(s)
            /\ EnterBackoff(s)
            /\ UNCHANGED queue

----------------------------------------------------------------------------
(* session() *)

(* OpenConfirm read its KEEPALIVE; transmit() starts with an UPDATE. *)
Confirm(s) ==
    /\ pc[s] = "confirm"
    /\ First(current[s], s, "KEEPALIVE")
    /\ conn' = [conn EXCEPT ![current[s]] = Write(Consume(@, s), s, "UPDATE")]
    /\ pc' = [pc EXCEPT ![s] = "established"]
    /\ Update(s, "Established")
    /\ UNCHANGED <<tasks, current, late, queue>>

(* receive() got a KEEPALIVE or an UPDATE. *)
Receive(s) ==
    /\ pc[s] = "established"
    /\ \/ First(current[s], s, "KEEPALIVE")
       \/ First(current[s], s, "UPDATE")
    /\ conn' = [conn EXCEPT ![current[s]] = Consume(@, s)]
    /\ UNCHANGED <<pc, tasks, current, late, queue, status>>

(* session() failed, in OpenConfirm or Established: peer_loop() backs off, *)
(* but starts over at once when the session was accepted during a backoff. *)
SessionFail(s) ==
    /\ pc[s] \in {"confirm", "established"}
    /\ \E r \in {Drop(conn[current[s]], s), Notify(conn[current[s]], s)} :
          conn' = [conn EXCEPT ![current[s]] = r]
    /\ IF late[s]
       THEN EnterChoose(s)
       ELSE EnterBackoff(s) /\ UNCHANGED tasks
    /\ UNCHANGED queue

(* peer_loop() turns away a new stream while its session lasts. *)
RejectIncoming(s) ==
    /\ pc[s] \in {"confirm", "established"} /\ ~late[s]
    /\ queue[s] # <<>>
    /\ conn' = [conn EXCEPT ![Head(queue[s])] = Notify(@, s)]
    /\ queue' = [queue EXCEPT ![s] = Tail(@)]
    /\ UNCHANGED <<pc, tasks, current, late, status>>

----------------------------------------------------------------------------
(* The backoff of peer_loop() *)

BackoffEnd(s) ==
    /\ pc[s] = "backoff"
    /\ EnterChoose(s)
    /\ UNCHANGED <<conn, queue>>

(* Mutant of BackoffAccept: no OPEN is sent. *)
BackoffAcceptSilent(s) ==
    /\ pc[s] = "backoff"
    /\ queue[s] # <<>>
    /\ LET c == Head(queue[s])
       IN /\ conn' = [conn EXCEPT ![c] = Become(@, s, "opensent")]
          /\ current' = [current EXCEPT ![s] = c]
    /\ pc' = [pc EXCEPT ![s] = "accept"]
    /\ late' = [late EXCEPT ![s] = TRUE]
    /\ queue' = [queue EXCEPT ![s] = Tail(@)]
    /\ UNCHANGED <<tasks, status>>

(* An incoming stream ends the backoff: handshake() sends OPEN. *)
BackoffAccept(s) ==
    /\ pc[s] = "backoff"
    /\ queue[s] # <<>>
    /\ LET c == Head(queue[s])
       IN /\ conn' = [conn EXCEPT ![c] = Write(Become(@, s, "opensent"), s, "OPEN")]
          /\ current' = [current EXCEPT ![s] = c]
    /\ pc' = [pc EXCEPT ![s] = "accept"]
    /\ late' = [late EXCEPT ![s] = TRUE]
    /\ queue' = [queue EXCEPT ![s] = Tail(@)]
    /\ UNCHANGED <<tasks, status>>

(* That handshake() succeeded, and session() sends its KEEPALIVE. *)
AcceptOpen(s) ==
    /\ pc[s] = "accept"
    /\ First(current[s], s, "OPEN")
    /\ conn' = [conn EXCEPT ![current[s]] =
                   Write(Become(Consume(@, s), s, "session"), s, "KEEPALIVE")]
    /\ pc' = [pc EXCEPT ![s] = "confirm"]
    /\ Update(s, "OpenConfirm")
    /\ UNCHANGED <<tasks, current, late, queue>>

AcceptFail(s) ==
    /\ pc[s] = "accept"
    /\ \E r \in {Drop(conn[current[s]], s), Notify(conn[current[s]], s)} :
          conn' = [conn EXCEPT ![current[s]] = r]
    /\ EnterChoose(s)
    /\ UNCHANGED queue

----------------------------------------------------------------------------
Next ==
    /\ UNCHANGED reach
    /\ \E s \in Speakers :
       \/ Connect(s) \/ ConnectFail(s) \/ TakeIncoming(s) \/ JoinFailed(s) \/ Deadline(s)
       \/ Confirm(s) \/ Receive(s) \/ SessionFail(s) \/ RejectIncoming(s)
       \/ BackoffEnd(s) \/ BackoffAccept(s) \/ AcceptOpen(s) \/ AcceptFail(s)
       \/ \E c \in Conns :
             Accept(s, c) \/ Reset(c, s) \/ ReadOpen(s, c) \/ HandshakeFail(s, c) \/ Join(s, c)

Spec == Init /\ [][Next]_vars

----------------------------------------------------------------------------
(* Properties *)

(* An Established session is mutual: its other end is committed to the     *)
(* same connection, or gave it up and the news is on its way.  So two      *)
(* neighbors never exchange routes over two connections, whichever of      *)
(* them they both opened and accepted at the same time.                    *)
EstablishedIsMutual ==
    \A s \in Speakers :
        pc[s] = "established" =>
            LET c == current[s]
                t == Other(s)
            IN \/ End(c, t) = "closed"
               \/ current[t] = c /\ pc[t] \in {"confirm", "established"}

(* Two of these speakers never send each other a message that is an error  *)
(* in the state of the one that reads it (wire::unexpected): OPEN is read  *)
(* in OpenSent, the first KEEPALIVE in OpenConfirm, UPDATE when            *)
(* Established.                                                            *)
NothingUnexpected ==
    \A s \in Speakers, c \in Conns :
        LET expected ==
                CASE End(c, s) = "opensent" -> {"OPEN"}
                  [] End(c, s) = "session" /\ pc[s] = "confirm" -> {"KEEPALIVE"}
                  [] End(c, s) = "session" /\ pc[s] = "established" -> {"KEEPALIVE", "UPDATE"}
                  [] OTHER -> Messages
        IN Inbox(c, s) # <<>> => Head(Inbox(c, s)) \in expected \cup {"NOTIFICATION"}

(* "Dropping JoinSet aborts all unused candidates and closes their         *)
(* sockets": every stream a speaker holds open belongs to a handshake, the *)
(* pending candidate, the session or the channel, and to one of them only, *)
(* so no superseded connection lingers.                                    *)
EveryStreamOwned ==
    \A s \in Speakers :
        /\ {c \in Conns : End(c, s) \in {"opensent", "openrecv", "session"}}
              = Tasks(s) \cup ({pending[s], current[s]} \ {None})
        /\ {c \in Conns : End(c, s) = "queued"} = {queue[s][i] : i \in 1..Len(queue[s])}
        /\ pending[s] # None => pending[s] \notin Tasks(s) /\ current[s] = None
        /\ Tasks(s) # {} => current[s] = None

----------------------------------------------------------------------------
(* Liveness *)

(* What the speakers' tasks do without a timer or a fault. *)
Listener(s) == \E c \in Conns : Accept(s, c)
Handshakes(s) ==
    \/ Connect(s)
    \/ s \notin reach /\ ConnectFail(s)
    \/ \E c \in Conns : ReadOpen(s, c) \/ (Broken(c, s) /\ HandshakeFail(s, c))
Loop(s) ==
    \/ TakeIncoming(s) \/ JoinFailed(s) \/ \E c \in Conns : Join(s, c)
    \/ Confirm(s) \/ Receive(s) \/ RejectIncoming(s) \/ BackoffAccept(s) \/ AcceptOpen(s)
    \/ current[s] # None /\ Broken(current[s], s) /\ (SessionFail(s) \/ AcceptFail(s))
Work == \E s \in Speakers : Listener(s) \/ Handshakes(s) \/ Loop(s)

(* Every task of the runtime is polled again and every timer fires. *)
Fairness ==
    \A s \in Speakers :
        /\ WF_moving(Listener(s)) /\ WF_moving(Handshakes(s)) /\ WF_moving(Loop(s))
        /\ WF_moving(Deadline(s)) /\ WF_moving(BackoffEnd(s))

LiveSpec == Spec /\ Fairness

(* A fault, or a timer that fires out of proportion: the 500 ms window     *)
(* while a message is still on its way or a task has not run yet, or a     *)
(* selection deadline or backoff, both of seconds, in such a state or      *)
(* during a 500 ms window.                                                 *)
Disturbance ==
    LET settling == \E s \in Speakers : pc[s] = "choose" /\ pending[s] # None
        window(s) == pending[s] # None /\ Deadline(s)
        timer(s) == (pending[s] = None /\ Deadline(s)) \/ BackoffEnd(s)
    IN \/ ~Work /\ \A s \in Speakers : ~window(s) /\ ~timer(s)
       \/ ENABLED Work /\ \E s \in Speakers : window(s) \/ timer(s)
       \/ settling /\ \E s \in Speakers : timer(s)

(* Two speakers that can reach each other in at least one direction agree  *)
(* on one connection and stay on it, once faults end and messages are      *)
(* faster than the selection timers, whatever connections and backoffs     *)
(* they were left with.                                                    *)
Establishes ==
    <>[][~Disturbance]_vars =>
        <>[](/\ \A s \in Speakers : pc[s] = "established"
             /\ \A s, t \in Speakers : current[s] = current[t])
=============================================================================
