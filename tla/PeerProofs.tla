----------------------------- MODULE PeerProofs -----------------------------
(***************************************************************************)
(* Proofs about module Peer: for any number of connection slots, any       *)
(* capacity of the incoming channel and either order of the two speakers.  *)
(***************************************************************************)
EXTENDS Peer, TLAPS

----------------------------------------------------------------------------
(* The inductive invariant *)

Slots == [from : Speakers \cup {None}, end : [Speakers -> Ends],
          inbox : [Speakers -> Seq(Messages)]]

(* The stage of an end of a connection: an end in session is Established   *)
(* once its speaker is.                                                    *)
Stages == Ends \cup {"established"}
Stage(c, s) ==
    IF End(c, s) = "session" /\ pc[s] = "established" THEN "established" ELSE End(c, s)

(* The messages of a setup in order, how many of them an end in stage a    *)
(* has sent, and how many it has read.                                     *)
Script(n) == CASE n = 1 -> "OPEN" [] n = 2 -> "KEEPALIVE" [] OTHER -> "UPDATE"
Sent(a) ==
    CASE a \in {"backlog", "queued"} -> 0
      [] a \in {"opensent", "openrecv"} -> 1
      [] a = "session" -> 2
      [] OTHER -> 3
Read(a) == IF a \in {"openrecv", "session"} THEN 1 ELSE 0

(* Inbox q of an end in stage a, whose other end is in stage b.  A setup   *)
(* is read in the order of the script, without a gap, up to what the other *)
(* end has sent; a NOTIFICATION comes last, from an end that is gone.      *)
Flow(q, a, b) ==
    /\ a = "closed" => q = <<>>
    /\ a = "established" =>
        /\ b \in {"session", "established", "closed"}
        /\ \A i \in 1..Len(q) : q[i] # "OPEN"
    /\ a \notin {"closed", "established"} =>
        /\ b # "closed" => Read(a) + Len(q) = Sent(b)
        /\ \A i \in 1..Len(q) :
            \/ q[i] = Script(Read(a) + i)
            \/ q[i] = "NOTIFICATION" /\ i = Len(q) /\ b = "closed"

FlowInv ==
    \A s \in Speakers, c \in Conns :
        Flow(Inbox(c, s), Stage(c, s), Stage(c, Other(s)))

(* What s holds, given where peer_loop() is. *)
Held(s, c) == c \in {outgoing[s], incoming[s], pending[s], current[s]}

(* c is in channel q, in which no stream is twice. *)
In(c, q) == \E i \in 1..Len(q) : q[i] = c
Distinct(q) == \A i, j \in 1..Len(q) : q[i] = q[j] => i = j

(* A stream is held if and only if it is open, in the role its direction   *)
(* and stage call for.                                                     *)
Owns(s, c) ==
    /\ End(c, s) \in {"opensent", "openrecv", "session"} <=> Held(s, c)
    /\ End(c, s) = "queued" <=> In(c, queue[s])
    /\ End(c, s) \in {"backlog", "queued"} => conn[c].from # s
    /\ c = outgoing[s] => End(c, s) \in {"opensent", "openrecv"} /\ conn[c].from = s
    /\ c = incoming[s] => End(c, s) \in {"opensent", "openrecv"} /\ conn[c].from # s
    /\ c = pending[s] =>
        /\ End(c, s) = "openrecv" /\ ~Preferred(s, c)
        /\ IF conn[c].from = s THEN outgoing[s] = "done" ELSE incoming[s] = "done"
    /\ c = current[s] => End(c, s) = IF pc[s] = "accept" THEN "opensent" ELSE "session"

Located(s) ==
    /\ pc[s] \in {"choose", "backoff"} <=> current[s] = None
    /\ pc[s] # "choose" => outgoing[s] = "done" /\ incoming[s] = "done" /\ pending[s] = None
    /\ Distinct(queue[s])

OwnInv == \A s \in Speakers : Located(s) /\ \A c \in Conns : Owns(s, c)

PeerInv == TypeOK /\ OwnInv /\ FlowInv

----------------------------------------------------------------------------
(* Two speakers *)

(* Each of the two speakers has one neighbor, whose neighbor it is. *)
LEMMA TwoSpeakers ==
  ASSUME NEW s \in Speakers
  PROVE  /\ Other(s) \in Speakers /\ Other(s) # s
         /\ Other(Other(s)) = s
         /\ Speakers = {s, Other(s)}
<1>1. PICK t \in Speakers : Speakers = {s, t} /\ t # s
  BY PeerAssumption
<1>2. Other(s) = t /\ Other(t) = s
  BY <1>1, Zenon DEF Other
<1> QED
  BY <1>1, <1>2, Zenon

(* No connection is mistaken for the state of a task. *)
LEMMA Markers ==
  ASSUME NEW c \in Conns
  PROVE  c # None /\ c # "connect" /\ c # "waiting" /\ c # "failed" /\ c # "done"
  BY PeerAssumption, Zenon

----------------------------------------------------------------------------
(* What sending, reading and closing do to an inbox *)

(* The other end sends the next message of the script. *)
LEMMA FlowAppend ==
  ASSUME NEW q \in Seq(Messages), NEW a \in Stages, NEW b \in Stages, NEW d \in Stages,
         Flow(q, a, b), a # "closed", b # "closed", d # "closed", Sent(d) = Sent(b) + 1
  PROVE  Flow(Append(q, Script(Sent(d))), a, d)
<1> DEFINE p == Append(q, Script(Sent(d)))
<1>1. Len(p) = Len(q) + 1 /\ p[Len(q) + 1] = Script(Sent(d))
      /\ \A i \in 1..Len(q) : p[i] = q[i]
  BY DEF Script, Messages
<1> HIDE DEF p
<1>2. CASE a = "established"
  <2>1. b = "session" /\ d = "established"
    BY <1>2 DEF Flow, Sent, Stages, Ends
  <2>2. Script(Sent(d)) # "OPEN"
    BY <2>1 DEF Script, Sent
  <2> QED
    BY <1>1, <1>2, <2>1, <2>2 DEF Flow, p
<1>3. CASE a # "established"
  <2>1. Read(a) \in Nat /\ Sent(b) \in Nat /\ Read(a) + Len(q) = Sent(b)
    BY <1>3, Zenon DEF Flow, Read, Sent
  <2>2. Read(a) + (Len(q) + 1) = Sent(d)
    BY <2>1
  <2>3. \A i \in 1..Len(q) : q[i] = Script(Read(a) + i)
    BY <1>3, Zenon DEF Flow
  <2>4. \A i \in 1..Len(p) : p[i] = Script(Read(a) + i)
    BY <1>1, <2>2, <2>3
  <2> QED
    BY <1>1, <1>3, <2>2, <2>4, Zenon DEF Flow, p
<1> QED
  BY <1>2, <1>3, Zenon

(* The other end moves on without sending. *)
LEMMA FlowOther ==
  ASSUME NEW q \in Seq(Messages), NEW a \in Stages, NEW b \in Stages, NEW d \in Stages,
         Flow(q, a, b), a = "closed" \/ (b # "closed" /\ d # "closed" /\ Sent(d) = Sent(b))
  PROVE  Flow(q, a, d)
  BY DEF Flow, Sent, Stages, Ends

(* The other end closes, with a NOTIFICATION or without. *)
LEMMA FlowGone ==
  ASSUME NEW q \in Seq(Messages), NEW a \in Stages, NEW b \in Stages, Flow(q, a, b)
  PROVE  /\ Flow(q, a, "closed")
         /\ a # "closed" /\ b # "closed" => Flow(Append(q, "NOTIFICATION"), a, "closed")
<1>1. Flow(q, a, "closed")
  BY Zenon DEF Flow
<1>2. ASSUME a # "closed", b # "closed"
      PROVE  Flow(Append(q, "NOTIFICATION"), a, "closed")
  <2> DEFINE p == Append(q, "NOTIFICATION")
  <2>1. Len(p) = Len(q) + 1 /\ p[Len(q) + 1] = "NOTIFICATION"
        /\ \A i \in 1..Len(q) : p[i] = q[i]
    BY DEF Messages
  <2> HIDE DEF p
  <2>2. CASE a = "established"
    <3>1. \A i \in 1..Len(q) : q[i] # "OPEN"
      BY <2>2, Zenon DEF Flow
    <3>2. \A i \in 1..Len(p) : p[i] # "OPEN"
      BY <2>1, <3>1
    <3> QED
      BY <2>2, <3>2, Zenon DEF Flow, p
  <2>3. CASE a # "established"
    <3>1. \A i \in 1..Len(q) : q[i] = Script(Read(a) + i)
      BY <1>2, <2>3, Zenon DEF Flow
    <3> QED
      BY <1>2, <2>1, <2>3, <3>1 DEF Flow, p
  <2> QED
    BY <2>2, <2>3, Zenon
<1> QED
  BY <1>1, <1>2, Zenon

(* An end moves on without reading. *)
LEMMA FlowSame ==
  ASSUME NEW q \in Seq(Messages), NEW a \in Stages, NEW b \in Stages, NEW d \in Stages,
         Flow(q, a, b), {a, d} \cap {"closed", "established"} = {}, Read(a) = Read(d)
  PROVE  Flow(q, d, b)
  BY Zenon DEF Flow

(* An end reads the message it waits for. *)
LEMMA FlowRead ==
  ASSUME NEW q \in Seq(Messages), NEW a \in Stages, NEW b \in Stages, Flow(q, a, b), q # <<>>
  PROVE  /\ a = "opensent" /\ Head(q) = "OPEN" =>
              Flow(Tail(q), "openrecv", b) /\ Flow(Tail(q), "session", b)
         /\ a = "session" /\ Head(q) = "KEEPALIVE" => Flow(Tail(q), "established", b)
         /\ a = "established" => Flow(Tail(q), "established", b)
<1> DEFINE p == Tail(q)
<1>1. /\ Len(q) \in Nat /\ Len(q) # 0 /\ Len(p) = Len(q) - 1 /\ Head(q) = q[1]
      /\ \A i \in 1..Len(p) : p[i] = q[i + 1] /\ i + 1 \in 1..Len(q)
  OBVIOUS
<1> HIDE DEF p
<1>2. ASSUME a = "opensent", q[1] = "OPEN", NEW d \in {"openrecv", "session"}
      PROVE  Flow(p, d, b)
  <2>1. Read(a) = 0 /\ Read(d) = 1 /\ Sent(b) \in Nat
    BY <1>2, Zenon DEF Read, Sent
  <2>2. \A i \in 1..Len(q) : q[i] = Script(Read(a) + i)
             \/ (q[i] = "NOTIFICATION" /\ i = Len(q) /\ b = "closed")
    BY <1>2, Zenon DEF Flow
  <2>3. \A i \in 1..Len(p) : p[i] = Script(Read(d) + i)
             \/ (p[i] = "NOTIFICATION" /\ i = Len(p) /\ b = "closed")
    <3> TAKE i \in 1..Len(p)
    <3>1. Read(a) + (i + 1) = Read(d) + i /\ (i + 1 = Len(q) <=> i = Len(p))
      BY <1>1, <2>1
    <3>2. i + 1 \in 1..Len(q) /\ p[i] = q[i + 1]
      BY <1>1, Zenon
    <3> QED
      BY <2>2, <3>1, <3>2, Zenon
  <2>4. b # "closed" => Read(d) + Len(p) = Sent(b)
    BY <1>1, <1>2, <2>1 DEF Flow
  <2> QED
    BY <1>2, <2>3, <2>4, Zenon DEF Flow
<1>3. ASSUME a = "session", q[1] = "KEEPALIVE"
      PROVE  Flow(p, "established", b)
  <2>1. Read(a) = 1
    BY <1>3, Zenon DEF Read
  <2>2. b \in {"session", "established", "closed"}
    BY <1>1, <1>3, <2>1 DEF Flow, Sent, Stages, Ends
  <2>3. \A i \in 1..Len(p) : p[i] # "OPEN"
    BY <1>1, <1>3, <2>1 DEF Flow, Script
  <2> QED
    BY <2>2, <2>3, Zenon DEF Flow
<1>4. ASSUME a = "established"
      PROVE  Flow(p, "established", b)
  BY <1>1, <1>4, Zenon DEF Flow
<1> QED
  BY <1>1, <1>2, <1>3, <1>4, Zenon DEF p

----------------------------------------------------------------------------
(* What the operations of a speaker do to a connection *)

(* Both inboxes of connection r, with s in stage a and the other in b. *)
Pair(r, s, a, b) == Flow(r.inbox[s], a, b) /\ Flow(r.inbox[Other(s)], b, a)

(* s took its end of r to stage e, and left the other's alone. *)
Moved(r, w, s, e) ==
    /\ w \in Slots /\ w.end[s] = e /\ w.end[Other(s)] = r.end[Other(s)]
    /\ e # "closed" \/ r.end[Other(s)] # "closed" => w.from = r.from

(* The other end is in stage b. *)
At(r, s, b) == b \in Stages /\ (b = "closed" <=> r.end[s] = "closed")

LEMMA UnusedSlot == Unused \in Slots
  BY DEF Unused, Slots, Ends

LEMMA BecomeMoves ==
  ASSUME NEW s \in Speakers, NEW r \in Slots, NEW e \in Ends
  PROVE  Moved(r, Become(r, s, e), s, e) /\ Become(r, s, e).inbox = r.inbox
  BY TwoSpeakers, Zenon DEF Become, Moved, Slots

LEMMA WriteMoves ==
  ASSUME NEW s \in Speakers, NEW r \in Slots, NEW m \in Messages
  PROVE  /\ Moved(r, Write(r, s, m), s, r.end[s])
         /\ Write(r, s, m).inbox[s] = r.inbox[s]
         /\ Write(r, s, m).inbox[Other(s)] =
              IF r.end[Other(s)] = "closed" THEN r.inbox[Other(s)]
              ELSE Append(r.inbox[Other(s)], m)
<1> DEFINE t == Other(s)
<1>1. t \in Speakers /\ t # s
  BY TwoSpeakers, Zenon
<1>2. CASE r.end[t] = "closed"
  BY <1>2, Zenon DEF Write, Moved
<1>3. CASE r.end[t] # "closed"
  <2> DEFINE box == [r.inbox EXCEPT ![t] = Append(@, m)]
  <2>1. Write(r, s, m) = [r EXCEPT !.inbox = box]
    BY <1>3, Zenon DEF Write
  <2>2. r.inbox \in [Speakers -> Seq(Messages)]
    BY Zenon DEF Slots
  <2>3. box[s] = r.inbox[s] /\ box[t] = Append(r.inbox[t], m)
    BY <1>1, <2>2, Zenon
  <2>4. box \in [Speakers -> Seq(Messages)]
    BY <1>1, <2>2
  <2> HIDE DEF box
  <2>5. [r EXCEPT !.inbox = box] \in Slots
    BY <2>4, Zenon DEF Slots
  <2> QED
    BY <1>3, <2>1, <2>3, <2>5, Zenon DEF Moved, Slots
<1> QED
  BY <1>2, <1>3, Zenon

LEMMA ConsumeMoves ==
  ASSUME NEW s \in Speakers, NEW r \in Slots, r.inbox[s] # <<>>
  PROVE  /\ Moved(r, Consume(r, s), s, r.end[s])
         /\ Consume(r, s).inbox[s] = Tail(r.inbox[s])
         /\ Consume(r, s).inbox[Other(s)] = r.inbox[Other(s)]
<1> DEFINE box == [r.inbox EXCEPT ![s] = Tail(@)]
<1>1. Consume(r, s) = [r EXCEPT !.inbox = box]
  BY Zenon DEF Consume
<1>2. r.inbox \in [Speakers -> Seq(Messages)]
  BY Zenon DEF Slots
<1>3. box[s] = Tail(r.inbox[s]) /\ box[Other(s)] = r.inbox[Other(s)]
  BY <1>2, TwoSpeakers, Zenon
<1>4. box \in [Speakers -> Seq(Messages)]
  BY <1>2
<1> HIDE DEF box
<1>5. [r EXCEPT !.inbox = box] \in Slots
  BY <1>4, Zenon DEF Slots
<1> QED
  BY <1>1, <1>3, <1>5, Zenon DEF Moved, Slots

LEMMA DropMoves ==
  ASSUME NEW s \in Speakers, NEW r \in Slots,
         r.end[Other(s)] = "closed" => r.inbox[Other(s)] = <<>>
  PROVE  /\ Moved(r, Drop(r, s), s, "closed")
         /\ Drop(r, s).inbox[s] = <<>>
         /\ Drop(r, s).inbox[Other(s)] = r.inbox[Other(s)]
<1>1. CASE r.end[Other(s)] = "closed"
  BY <1>1, TwoSpeakers, UnusedSlot, Zenon DEF Drop, Moved, Unused
<1>2. CASE r.end[Other(s)] # "closed"
  <2> DEFINE ends == [r.end EXCEPT ![s] = "closed"]
             box == [r.inbox EXCEPT ![s] = <<>>]
  <2>1. Drop(r, s) = [r EXCEPT !.end = ends, !.inbox = box]
    BY <1>2, Zenon DEF Drop
  <2>2. r.inbox \in [Speakers -> Seq(Messages)] /\ r.end \in [Speakers -> Ends]
    BY Zenon DEF Slots
  <2>3. /\ box[s] = <<>> /\ box[Other(s)] = r.inbox[Other(s)]
        /\ ends[s] = "closed" /\ ends[Other(s)] = r.end[Other(s)]
    BY <2>2, TwoSpeakers, Zenon
  <2>4. box \in [Speakers -> Seq(Messages)] /\ ends \in [Speakers -> Ends]
    BY <2>2 DEF Ends
  <2> HIDE DEF box, ends
  <2>5. [r EXCEPT !.end = ends, !.inbox = box] \in Slots
    BY <2>4, Zenon DEF Slots
  <2> QED
    BY <2>1, <2>3, <2>5, Zenon DEF Moved, Slots
<1> QED
  BY <1>1, <1>2, Zenon

(* A stream is dropped, with a NOTIFICATION or without. *)
LEMMA Closes ==
  ASSUME NEW s \in Speakers, NEW r \in Slots, NEW a \in Stages, NEW b, At(r, Other(s), b),
         Pair(r, s, a, b), a # "closed", NEW w \in {Drop(r, s), Notify(r, s)}
  PROVE  Moved(r, w, s, "closed") /\ Pair(w, s, "closed", b)
<1> DEFINE t == Other(s)
<1>1. t \in Speakers /\ r.inbox[t] \in Seq(Messages) /\ b \in Stages
      /\ (r.end[t] = "closed" => r.inbox[t] = <<>>)
  BY TwoSpeakers, Zenon DEF Slots, At, Pair, Flow
<1>2. Flow(<<>>, "closed", b)
  BY Zenon DEF Flow
<1>3. CASE w = Drop(r, s)
  <2>1. Moved(r, w, s, "closed") /\ w.inbox[s] = <<>> /\ w.inbox[t] = r.inbox[t]
    BY <1>1, <1>3, DropMoves, Zenon
  <2>2. Flow(r.inbox[t], b, "closed")
    BY <1>1, FlowGone, Zenon DEF Pair
  <2> QED
    BY <1>2, <2>1, <2>2, Zenon DEF Pair
<1>4. CASE w = Notify(r, s)
  <2> DEFINE v == Write(r, s, "NOTIFICATION")
  <2>1. /\ Moved(r, v, s, r.end[s]) /\ v \in Slots
        /\ v.inbox[t] = IF r.end[t] = "closed" THEN r.inbox[t]
                        ELSE Append(r.inbox[t], "NOTIFICATION")
    BY WriteMoves, Zenon DEF Messages, Moved
  <2>2. v.end[t] = r.end[t] /\ (r.end[t] # "closed" => v.from = r.from)
    BY <2>1, Zenon DEF Moved
  <2> HIDE DEF v
  <2>3. v.end[t] = "closed" => v.inbox[t] = <<>>
    BY <1>1, <2>1, <2>2, Zenon
  <2>4. Moved(v, Drop(v, s), s, "closed") /\ Drop(v, s).inbox[s] = <<>>
        /\ Drop(v, s).inbox[t] = v.inbox[t]
    BY <2>1, <2>3, DropMoves, Zenon
  <2>5. w = Drop(v, s)
    BY <1>4, Zenon DEF v, Notify
  <2>6. Moved(r, w, s, "closed")
    BY <2>2, <2>4, <2>5, Zenon DEF Moved
  <2>7. Flow(v.inbox[t], b, "closed")
    BY <1>1, <2>1, FlowGone, Zenon DEF Pair, At
  <2> QED
    BY <1>2, <2>4, <2>5, <2>6, <2>7, Zenon DEF Pair
<1> QED
  BY <1>3, <1>4, Zenon

(* s goes from stage a to stage d, for which its inbox is as it should be, *)
(* and sends the next message of the script or none.                       *)
LEMMA Sends ==
  ASSUME NEW s \in Speakers, NEW r \in Slots, NEW v, NEW e, e # "closed", Moved(r, v, s, e),
         v.inbox[Other(s)] = r.inbox[Other(s)],
         NEW a \in Stages, NEW b, NEW d \in Stages, At(r, Other(s), b),
         a # "closed", d # "closed", Flow(r.inbox[Other(s)], b, a), Flow(v.inbox[s], d, b),
         Sent(d) = Sent(a) + 1, NEW m, m = Script(Sent(d))
  PROVE  Moved(r, Write(v, s, m), s, e) /\ Pair(Write(v, s, m), s, d, b)
<1> DEFINE t == Other(s)
           w == Write(v, s, m)
<1>1. m \in Messages
  BY Zenon DEF Script, Messages
<1>2. v \in Slots /\ v.end[s] = e /\ v.end[t] = r.end[t] /\ v.from = r.from
  BY Zenon DEF Moved
<1>3. /\ Moved(v, w, s, e) /\ w.inbox[s] = v.inbox[s]
      /\ w.inbox[t] = IF r.end[t] = "closed" THEN r.inbox[t] ELSE Append(r.inbox[t], m)
  BY <1>1, <1>2, WriteMoves
<1>4. r.inbox[t] \in Seq(Messages) /\ b \in Stages
  BY TwoSpeakers, Zenon DEF Slots, At
<1> HIDE DEF w
<1>5. Moved(r, w, s, e)
  BY <1>2, <1>3, Zenon DEF Moved
<1>6. Flow(w.inbox[t], b, d)
  <2>1. CASE b = "closed"
    BY <1>3, <1>4, <2>1, FlowOther, Zenon DEF At
  <2>2. CASE b # "closed"
    BY <1>3, <1>4, <2>2, FlowAppend, Zenon DEF At
  <2> QED
    BY <2>1, <2>2, Zenon
<1> QED
  BY <1>3, <1>5, <1>6, Zenon DEF Pair, w

LEMMA Rests ==
  ASSUME NEW s \in Speakers, NEW r \in Slots, NEW v, NEW e, Moved(r, v, s, e),
         v.inbox[Other(s)] = r.inbox[Other(s)],
         NEW a \in Stages, NEW b, NEW d \in Stages, At(r, Other(s), b),
         a # "closed", d # "closed", Flow(r.inbox[Other(s)], b, a), Flow(v.inbox[s], d, b),
         Sent(d) = Sent(a)
  PROVE  Pair(v, s, d, b)
<1>1. r.inbox[Other(s)] \in Seq(Messages) /\ b \in Stages
  BY TwoSpeakers, Zenon DEF Slots, At
<1>2. Flow(r.inbox[Other(s)], b, d)
  BY <1>1, FlowOther, Zenon
<1> QED
  BY <1>2, Zenon DEF Pair

(* A queued stream is taken, and OPEN sent. *)
LEMMA Takes ==
  ASSUME NEW s \in Speakers, NEW r \in Slots, NEW b, At(r, Other(s), b),
         Pair(r, s, "queued", b), NEW w, w = Write(Become(r, s, "opensent"), s, "OPEN")
  PROVE  Moved(r, w, s, "opensent") /\ Pair(w, s, "opensent", b)
<1> DEFINE v == Become(r, s, "opensent")
<1>1. Moved(r, v, s, "opensent") /\ v.inbox = r.inbox
  BY BecomeMoves, Zenon DEF Ends
<1>2. Flow(r.inbox[s], "opensent", b)
  BY FlowSame, Zenon DEF Pair, Read, Stages, Ends, Slots, At
<1> HIDE DEF v
<1>3. "OPEN" = Script(Sent("opensent")) /\ Sent("opensent") = Sent("queued") + 1
  BY DEF Script, Sent
<1>4. w = Write(v, s, "OPEN")
  BY Zenon DEF v
<1> QED
  BY <1>1, <1>2, <1>3, <1>4, Sends DEF Pair, Stages, Ends

(* A stream is queued. *)
LEMMA Queues ==
  ASSUME NEW s \in Speakers, NEW r \in Slots, NEW b, At(r, Other(s), b),
         Pair(r, s, "backlog", b), NEW w, w = Become(r, s, "queued")
  PROVE  Moved(r, w, s, "queued") /\ Pair(w, s, "queued", b)
<1>1. Moved(r, w, s, "queued") /\ w.inbox = r.inbox
  BY BecomeMoves, Zenon DEF Ends
<1>2. Flow(r.inbox[s], "queued", b)
  BY FlowSame, Zenon DEF Pair, Read, Stages, Ends, Slots, At
<1>3. Sent("queued") = Sent("backlog")
  BY Zenon DEF Sent
<1> QED
  BY <1>1, <1>2, <1>3, Rests, Zenon DEF Pair, Stages, Ends

(* The candidate is chosen, and KEEPALIVE sent. *)
LEMMA Commits ==
  ASSUME NEW s \in Speakers, NEW r \in Slots, NEW b, At(r, Other(s), b),
         Pair(r, s, "openrecv", b),
         NEW w, w = Write(Become(r, s, "session"), s, "KEEPALIVE")
  PROVE  Moved(r, w, s, "session") /\ Pair(w, s, "session", b)
<1> DEFINE v == Become(r, s, "session")
<1>1. Moved(r, v, s, "session") /\ v.inbox = r.inbox
  BY BecomeMoves, Zenon DEF Ends
<1>2. Flow(r.inbox[s], "session", b)
  BY FlowSame, Zenon DEF Pair, Read, Stages, Ends, Slots, At
<1> HIDE DEF v
<1>3. "KEEPALIVE" = Script(Sent("session")) /\ Sent("session") = Sent("openrecv") + 1
  BY DEF Script, Sent
<1>4. w = Write(v, s, "KEEPALIVE")
  BY Zenon DEF v
<1> QED
  BY <1>1, <1>2, <1>3, <1>4, Sends DEF Pair, Stages, Ends

(* OPEN is read: by a task of choose(), or in backoff, where KEEPALIVE is  *)
(* sent at once.                                                           *)
LEMMA ReadsOpen ==
  ASSUME NEW s \in Speakers, NEW r \in Slots, NEW b, At(r, Other(s), b),
         r.end[s] = "opensent", Pair(r, s, "opensent", b),
         r.inbox[s] # <<>>, Head(r.inbox[s]) = "OPEN"
  PROVE  /\ LET w == Become(Consume(r, s), s, "openrecv")
            IN Moved(r, w, s, "openrecv") /\ Pair(w, s, "openrecv", b)
         /\ LET w == Write(Become(Consume(r, s), s, "session"), s, "KEEPALIVE")
            IN Moved(r, w, s, "session") /\ Pair(w, s, "session", b)
<1> DEFINE t == Other(s)
           u == Consume(r, s)
<1>1. /\ Moved(r, u, s, r.end[s]) /\ u \in Slots
      /\ u.inbox[s] = Tail(r.inbox[s]) /\ u.inbox[t] = r.inbox[t]
  BY ConsumeMoves, Zenon DEF Moved
<1>2. Flow(u.inbox[s], "openrecv", b) /\ Flow(u.inbox[s], "session", b)
  BY <1>1, FlowRead DEF Pair, Stages, Ends, Slots, At
<1> HIDE DEF u
<1>3. ASSUME NEW e \in {"openrecv", "session"}
      PROVE  Moved(r, Become(u, s, e), s, e) /\ Become(u, s, e).inbox = u.inbox
  <2>1. Moved(u, Become(u, s, e), s, e) /\ Become(u, s, e).inbox = u.inbox
    BY <1>1, BecomeMoves, Zenon DEF Ends
  <2>2. u.end[t] = r.end[t] /\ u.from = r.from
    BY <1>1, Zenon DEF Moved
  <2> QED
    BY <1>1, <2>1, <2>2, Zenon DEF Moved
<1>4. /\ Sent("openrecv") = Sent("opensent") /\ Sent("session") = Sent("opensent") + 1
      /\ "KEEPALIVE" = Script(Sent("session"))
  BY DEF Sent, Script
<1>5. Flow(r.inbox[t], b, "opensent")
  BY Zenon DEF Pair
<1>6. Pair(Become(u, s, "openrecv"), s, "openrecv", b)
  BY <1>1, <1>2, <1>3, <1>4, <1>5, Rests, Zenon DEF Stages, Ends
<1>7. /\ Moved(r, Write(Become(u, s, "session"), s, "KEEPALIVE"), s, "session")
      /\ Pair(Write(Become(u, s, "session"), s, "KEEPALIVE"), s, "session", b)
  BY <1>1, <1>2, <1>3, <1>4, <1>5, Sends, Zenon DEF Stages, Ends
<1> QED
  BY <1>3, <1>6, <1>7, Zenon DEF u

(* The first KEEPALIVE is read, and an UPDATE sent. *)
LEMMA Confirms ==
  ASSUME NEW s \in Speakers, NEW r \in Slots, NEW b, At(r, Other(s), b),
         r.end[s] = "session", Pair(r, s, "session", b),
         r.inbox[s] # <<>>, Head(r.inbox[s]) = "KEEPALIVE",
         NEW w, w = Write(Consume(r, s), s, "UPDATE")
  PROVE  Moved(r, w, s, "session") /\ Pair(w, s, "established", b)
<1> DEFINE u == Consume(r, s)
<1>1. /\ Moved(r, u, s, "session")
      /\ u.inbox[s] = Tail(r.inbox[s]) /\ u.inbox[Other(s)] = r.inbox[Other(s)]
  BY ConsumeMoves, Zenon
<1>2. Flow(u.inbox[s], "established", b)
  BY <1>1, FlowRead DEF Pair, Stages, Ends, Slots, At
<1>3. Sent("established") = Sent("session") + 1 /\ "UPDATE" = Script(Sent("established"))
  BY DEF Sent, Script
<1>4. Flow(r.inbox[Other(s)], b, "session")
  BY Zenon DEF Pair
<1> HIDE DEF u
<1>5. w = Write(u, s, "UPDATE")
  BY Zenon DEF u
<1> QED
  BY <1>1, <1>2, <1>3, <1>4, <1>5, Sends DEF Stages, Ends

(* An Established end reads. *)
LEMMA Receives ==
  ASSUME NEW s \in Speakers, NEW r \in Slots, NEW b, At(r, Other(s), b),
         r.end[s] = "session", Pair(r, s, "established", b), r.inbox[s] # <<>>,
         NEW w, w = Consume(r, s)
  PROVE  Moved(r, w, s, "session") /\ Pair(w, s, "established", b)
<1>1. /\ Moved(r, w, s, "session")
      /\ w.inbox[s] = Tail(r.inbox[s]) /\ w.inbox[Other(s)] = r.inbox[Other(s)]
  BY ConsumeMoves, Zenon
<1>2. Flow(w.inbox[s], "established", b)
  BY <1>1, FlowRead DEF Pair, Stages, Ends, Slots, At
<1> QED
  BY <1>1, <1>2, Zenon DEF Pair

(* What a closed end sent is lost. *)
LEMMA Loses ==
  ASSUME NEW s \in Speakers, NEW r \in Slots, NEW a \in Stages, r.end[s] # "closed",
         r.end[Other(s)] = "closed", Pair(r, s, a, "closed"),
         NEW w, w = [r EXCEPT !.inbox[s] = <<>>]
  PROVE  Moved(r, w, s, r.end[s]) /\ Pair(w, s, a, "closed")
<1> DEFINE box == [r.inbox EXCEPT ![s] = <<>>]
<1>1. r.inbox \in [Speakers -> Seq(Messages)]
  BY Zenon DEF Slots
<1>2. box[s] = <<>> /\ box[Other(s)] = r.inbox[Other(s)] /\ box \in [Speakers -> Seq(Messages)]
  BY <1>1, TwoSpeakers
<1> HIDE DEF box
<1>3. w = [r EXCEPT !.inbox = box]
  BY Zenon DEF box
<1>4. w \in Slots /\ w.inbox = box /\ w.end = r.end /\ w.from = r.from
  BY <1>2, <1>3, Zenon DEF Slots
<1>5. Flow(<<>>, a, "closed")
  BY DEF Flow
<1> QED
  BY <1>2, <1>4, <1>5, Zenon DEF Moved, Pair

----------------------------------------------------------------------------
(* What a step of s must show *)

LEMMA ChannelTakes ==
  ASSUME NEW q \in Seq(Conns), q # <<>>, Distinct(q)
  PROVE  /\ Tail(q) \in Seq(Conns) /\ Distinct(Tail(q)) /\ Len(Tail(q)) <= Len(q)
         /\ Head(q) \in Conns /\ In(Head(q), q)
         /\ \A c : In(c, Tail(q)) <=> In(c, q) /\ c # Head(q)
<1> DEFINE p == Tail(q)
<1>1. /\ Len(q) \in Nat /\ Len(q) # 0 /\ Len(p) = Len(q) - 1 /\ Head(q) = q[1]
      /\ p \in Seq(Conns) /\ Head(q) \in Conns
      /\ \A i \in 1..Len(p) : p[i] = q[i + 1] /\ i + 1 \in 1..Len(q)
  OBVIOUS
<1> HIDE DEF p
<1>2. Distinct(p)
  BY <1>1 DEF Distinct
<1>3. In(Head(q), q)
  BY <1>1 DEF In
<1>4. ASSUME NEW c
      PROVE  In(c, p) <=> In(c, q) /\ c # Head(q)
  <2>1. ASSUME In(c, p) PROVE In(c, q) /\ c # Head(q)
    <3>1. PICK i \in 1..Len(p) : p[i] = c
      BY <2>1, Zenon DEF In
    <3>2. i + 1 \in 1..Len(q) /\ q[i + 1] = c /\ i + 1 # 1 /\ 1 \in 1..Len(q)
      BY <1>1, <3>1
    <3> QED
      BY <1>1, <3>2, Zenon DEF In, Distinct
  <2>2. ASSUME In(c, q), c # Head(q) PROVE In(c, p)
    <3>1. PICK i \in 1..Len(q) : q[i] = c
      BY <2>2, Zenon DEF In
    <3>2. i - 1 \in 1..Len(p) /\ p[i - 1] = q[(i - 1) + 1] /\ (i - 1) + 1 = i
      BY <1>1, <2>2, <3>1
    <3> QED
      BY <3>1, <3>2, Zenon DEF In
  <2> QED
    BY <2>1, <2>2, Zenon
<1> QED
  BY <1>1, <1>2, <1>3, <1>4 DEF p

LEMMA ChannelGrows ==
  ASSUME NEW q \in Seq(Conns), Distinct(q), NEW x \in Conns, ~In(x, q)
  PROVE  /\ Append(q, x) \in Seq(Conns) /\ Distinct(Append(q, x))
         /\ Len(Append(q, x)) = Len(q) + 1
         /\ \A c : In(c, Append(q, x)) <=> In(c, q) \/ c = x
<1> DEFINE p == Append(q, x)
<1>1. /\ Len(q) \in Nat /\ Len(p) = Len(q) + 1 /\ p[Len(q) + 1] = x
      /\ p \in Seq(Conns) /\ \A i \in 1..Len(q) : p[i] = q[i]
  OBVIOUS
<1> HIDE DEF p
<1>2. Distinct(p)
  <2> SUFFICES ASSUME NEW i \in 1..Len(p), NEW j \in 1..Len(p), p[i] = p[j] PROVE i = j
    BY Zenon DEF Distinct
  <2>1. CASE i \in 1..Len(q) /\ j \in 1..Len(q)
    BY <1>1, <2>1, Zenon DEF Distinct
  <2>2. CASE i = Len(q) + 1 /\ j \in 1..Len(q)
    BY <1>1, <2>2, Zenon DEF In
  <2>3. CASE j = Len(q) + 1 /\ i \in 1..Len(q)
    BY <1>1, <2>3, Zenon DEF In
  <2> QED
    BY <1>1, <2>1, <2>2, <2>3
<1>3. ASSUME NEW c
      PROVE  In(c, p) <=> In(c, q) \/ c = x
  BY <1>1 DEF In
<1> QED
  BY <1>1, <1>2, <1>3, Zenon DEF p

(* The other speaker's part of the state stays. *)
Alone(s) ==
    LET t == Other(s)
    IN /\ pc'[t] = pc[t] /\ queue'[t] = queue[t] /\ current'[t] = current[t]
       /\ outgoing'[t] = outgoing[t] /\ incoming'[t] = incoming[t] /\ pending'[t] = pending[t]

(* A step of s, which takes its ends to other stages, keeps the invariant  *)
(* if it keeps it for s.                                                   *)
LEMMA StepKeeps ==
  ASSUME PeerInv, NEW s \in Speakers, Alone(s), TypeOK',
         \A c \in Conns : Moved(conn[c], conn'[c], s, conn'[c].end[s]),
         \A c \in Conns : Pair(conn'[c], s, Stage(c, s)', Stage(c, Other(s))),
         Located(s)', \A c \in Conns : Owns(s, c)'
  PROVE  PeerInv'
<1> DEFINE t == Other(s)
<1>1. t \in Speakers /\ t # s /\ Other(t) = s /\ Speakers = {s, t}
  BY TwoSpeakers, Zenon
<1>2. \A c \in Conns : /\ conn'[c].end[t] = conn[c].end[t]
                       /\ conn[c].end[t] # "closed" => conn'[c].from = conn[c].from
  BY Zenon DEF Moved
<1>3. Located(t)'
  BY <1>1, Zenon DEF PeerInv, OwnInv, Located, Alone
<1>4. ASSUME NEW c \in Conns PROVE Owns(t, c)'
  <2>1. Owns(t, c)
    BY <1>1, Zenon DEF PeerInv, OwnInv
  <2>2. CASE conn[c].end[t] = "closed"
    BY <1>2, <2>1, <2>2, Zenon DEF Owns, Alone, End, Held
  <2>3. CASE conn[c].end[t] # "closed"
    BY <1>2, <2>1, <2>3 DEF Owns, Alone, End, Held, Preferred, PreferIncoming
  <2> QED
    BY <2>2, <2>3, Zenon
<1>5. OwnInv'
  BY <1>1, <1>3, <1>4, Zenon DEF OwnInv
<1>6. \A c \in Conns : Stage(c, t)' = Stage(c, t)
  BY <1>2, Zenon DEF Stage, End, Alone
<1>7. FlowInv'
  BY <1>1, <1>6, Zenon DEF FlowInv, Pair, Inbox
<1> QED
  BY <1>5, <1>7, Zenon DEF PeerInv

(* The facts of the invariant about s that its steps use. *)
LEMMA SlotFacts ==
  ASSUME PeerInv, NEW s \in Speakers, NEW c \in Conns
  PROVE  /\ conn[c] \in Slots /\ Stage(c, s) \in Stages /\ conn[c].end[s] \in Ends
         /\ At(conn[c], s, Stage(c, s)) /\ At(conn[c], Other(s), Stage(c, Other(s)))
         /\ Pair(conn[c], s, Stage(c, s), Stage(c, Other(s)))
         /\ Owns(s, c) /\ Located(s)
<1>1. conn[c] \in Slots
  BY Zenon DEF PeerInv, TypeOK, Slots
<1>2. \A t \in Speakers : conn[c].end[t] \in Ends
  BY <1>1, Zenon DEF Slots
<1>3. \A t \in Speakers : Stage(c, t) \in Stages /\ At(conn[c], t, Stage(c, t))
  BY <1>2, Zenon DEF Stage, Stages, Ends, At, End
<1>4. Pair(conn[c], s, Stage(c, s), Stage(c, Other(s)))
  BY TwoSpeakers, Zenon DEF PeerInv, FlowInv, Pair, Inbox
<1> QED
  BY <1>1, <1>2, <1>3, <1>4, TwoSpeakers, Zenon DEF PeerInv, OwnInv

LEMMA Typed == PeerInv => TypeOK
  BY Zenon DEF PeerInv

LEMMA Shapes ==
  ASSUME PeerInv
  PROVE  /\ conn \in [Conns -> Slots] /\ pc \in [Speakers -> Places]
         /\ outgoing \in [Speakers -> Conns \cup {"connect", "failed", "done"}]
         /\ incoming \in [Speakers -> Conns \cup {"waiting", "failed", "done"}]
         /\ pending \in [Speakers -> Conns \cup {None}]
         /\ current \in [Speakers -> Conns \cup {None}]
         /\ queue \in [Speakers -> Seq(Conns)]
         /\ \A s \in Speakers : Len(queue[s]) <= QueueCap
  BY Typed, Zenon DEF TypeOK, Slots

(* What a move of s says of the new state of the connection. *)
LEMMA MovedFacts ==
  ASSUME NEW r, NEW w, NEW s, NEW e, Moved(r, w, s, e)
  PROVE  w \in Slots /\ w.end[s] = e /\ (e # "closed" => w.from = r.from)
  BY Zenon DEF Moved

LEMMA Owned ==
  ASSUME PeerInv, NEW s \in Speakers
  PROVE  Located(s) /\ \A c \in Conns : Owns(s, c)
  BY Zenon DEF PeerInv, OwnInv

(* The step leaves what s does with c as it is. *)
Kept(s, c) ==
    /\ conn'[c].end[s] = conn[c].end[s] /\ conn'[c].from = conn[c].from
    /\ In(c, queue'[s]) <=> In(c, queue[s])
    /\ c = outgoing'[s] <=> c = outgoing[s]
    /\ c = incoming'[s] <=> c = incoming[s]
    /\ c = pending'[s] <=> c = pending[s]
    /\ c = current'[s] <=> c = current[s]
    /\ c = pending[s] => /\ outgoing[s] = "done" => outgoing'[s] = "done"
                         /\ incoming[s] = "done" => incoming'[s] = "done"
    /\ c = current[s] => (pc'[s] = "accept" <=> pc[s] = "accept")

LEMMA OwnsKept ==
  ASSUME NEW s \in Speakers, NEW c \in Conns, Owns(s, c), Kept(s, c)
  PROVE  Owns(s, c)'
<1>1. End(c, s)' = End(c, s) /\ (Held(s, c)' <=> Held(s, c))
  BY Zenon DEF Kept, End, Held
<1>2. Preferred(s, c)' <=> Preferred(s, c)
  BY Zenon DEF Kept, Preferred, PreferIncoming
<1> QED
  BY <1>1, <1>2, Zenon DEF Owns, Kept

(* s has closed its end of c. *)
LEMMA OwnsClosed ==
  ASSUME NEW s \in Speakers, NEW c \in Conns, conn'[c].end[s] = "closed",
         ~In(c, queue'[s]), ~Held(s, c)'
  PROVE  Owns(s, c)'
  BY Zenon DEF Owns, End, Held

(* A step that changes one connection. *)
LEMMA OneSlot ==
  ASSUME PeerInv, NEW s \in Speakers, Alone(s), TypeOK', NEW x \in Conns, NEW w, NEW e, NEW d,
         conn' = [conn EXCEPT ![x] = w], Moved(conn[x], w, s, e),
         Pair(w, s, d, Stage(x, Other(s))),
         d = IF e = "session" /\ pc'[s] = "established" THEN "established" ELSE e,
         \A c \in Conns \ {x} : End(c, s) = "session" => pc'[s] = pc[s],
         Located(s)', \A c \in Conns : Owns(s, c)'
  PROVE  PeerInv'
<1>1. conn \in [Conns -> Slots]
  BY Typed, Zenon DEF TypeOK, Slots
<1>2. conn'[x] = w /\ \A c \in Conns \ {x} : conn'[c] = conn[c]
  BY <1>1, Zenon
<1>3. w.end[s] = e
  BY MovedFacts
<1>4. Stage(x, s)' = d
  BY <1>2, <1>3 DEF Stage, End
<1>5. ASSUME NEW c \in Conns \ {x}
      PROVE  /\ Moved(conn[c], conn'[c], s, conn'[c].end[s])
             /\ Pair(conn'[c], s, Stage(c, s)', Stage(c, Other(s)))
  <2>1. Stage(c, s)' = Stage(c, s)
    BY <1>2 DEF Stage, End
  <2>2. conn[c] \in Slots
    BY <1>1, Zenon
  <2> QED
    BY <1>2, <2>1, <2>2, SlotFacts, Zenon DEF Moved
<1> QED
  BY <1>2, <1>3, <1>4, <1>5, StepKeeps, Zenon

(* A step that changes none. *)
LEMMA NoSlot ==
  ASSUME PeerInv, NEW s \in Speakers, Alone(s), TypeOK', conn' = conn,
         \A c \in Conns : End(c, s) = "session" => pc'[s] = pc[s],
         Located(s)', \A c \in Conns : Owns(s, c)'
  PROVE  PeerInv'
<1>1. ASSUME NEW c \in Conns
      PROVE  /\ Moved(conn[c], conn'[c], s, conn'[c].end[s])
             /\ Pair(conn'[c], s, Stage(c, s)', Stage(c, Other(s)))
  <2>1. Stage(c, s)' = Stage(c, s)
    BY Zenon DEF Stage, End
  <2> QED
    BY <2>1, SlotFacts, Zenon DEF Moved
<1> QED
  BY <1>1, StepKeeps, Zenon

----------------------------------------------------------------------------
(* The steps, one by one *)

LEMMA ResetKeeps ==
  ASSUME PeerInv, NEW s \in Speakers, NEW x \in Conns, Reset(x, s)
  PROVE  PeerInv'
<1> DEFINE w == [conn[x] EXCEPT !.inbox[s] = <<>>]
<1>1. /\ conn' = [conn EXCEPT ![x] = w] /\ conn[x].end[s] # "closed"
      /\ conn[x].end[Other(s)] = "closed"
      /\ UNCHANGED <<pc, outgoing, incoming, pending, current, late, queue, status>>
  BY Zenon DEF Reset, tasks, End
<1>2. Stage(x, Other(s)) = "closed"
  BY <1>1, SlotFacts, Zenon DEF At
<1>3. Moved(conn[x], w, s, conn[x].end[s]) /\ Pair(w, s, Stage(x, s), Stage(x, Other(s)))
  BY <1>1, <1>2, SlotFacts, Loses, Zenon
<1>4. w \in Slots /\ w.end = conn[x].end /\ w.from = conn[x].from
  BY <1>3, SlotFacts, Zenon DEF Moved, Slots
<1> HIDE DEF w
<1>5. TypeOK'
  BY <1>1, <1>4, Typed, Zenon DEF TypeOK, Slots
<1>6. conn'[x] = w /\ \A c \in Conns \ {x} : conn'[c] = conn[c]
  BY <1>1, Shapes, Zenon
<1>7. Located(s)' /\ Alone(s)
  BY <1>1, SlotFacts, Zenon DEF Located, Alone
<1>8. ASSUME NEW c \in Conns PROVE Owns(s, c)'
  <2>1. Owns(s, c) /\ Owns(s, x)
    BY Owned, Zenon
  <2>2. CASE c # x
    <3>1. Kept(s, c)
      BY <1>1, <1>6, <2>2, Zenon DEF Kept
    <3> QED
      BY <2>1, <2>2, <3>1, OwnsKept, Zenon
  <2>3. CASE c = x
    <3>1. Kept(s, x)
      BY <1>1, <1>4, <1>6, Zenon DEF Kept
    <3> QED
      BY <2>1, <2>3, <3>1, OwnsKept, Zenon
  <2> QED
    BY <2>2, <2>3, Zenon
<1> QED
  BY <1>1, <1>3, <1>5, <1>7, <1>8, OneSlot, Zenon DEF Stage, End

LEMMA AcceptKeeps ==
  ASSUME PeerInv, NEW s \in Speakers, NEW x \in Conns, Accept(s, x)
  PROVE  PeerInv'
<1>1. /\ End(x, s) = "backlog" /\ conn[x].end[s] = "backlog" /\ Stage(x, s) = "backlog"
      /\ UNCHANGED <<pc, outgoing, incoming, pending, current, late, status>>
  BY Zenon DEF Accept, tasks, End, Stage
<1>2. queue \in [Speakers -> Seq(Conns)] /\ queue[s] \in Seq(Conns) /\ Distinct(queue[s])
      /\ ~In(x, queue[s]) /\ ~Held(s, x)
  BY <1>1, SlotFacts, Shapes, Zenon DEF Owns, Located
<1>3. conn \in [Conns -> Slots]
  BY Typed, Zenon DEF TypeOK, Slots
<1>4. CASE Len(queue[s]) < QueueCap
  <2> DEFINE w == Become(conn[x], s, "queued")
             q == Append(queue[s], x)
  <2>1. conn' = [conn EXCEPT ![x] = w] /\ queue' = [queue EXCEPT ![s] = q]
    BY <1>4, Zenon DEF Accept
  <2>2. Moved(conn[x], w, s, "queued") /\ Pair(w, s, "queued", Stage(x, Other(s)))
    BY <1>1, SlotFacts, Queues, Zenon
  <2>3. w \in Slots /\ w.end[s] = "queued" /\ w.from = conn[x].from
    BY <2>2, MovedFacts
  <2>4. /\ q \in Seq(Conns) /\ Distinct(q) /\ Len(q) <= QueueCap
        /\ \A c : In(c, q) <=> In(c, queue[s]) \/ c = x
    BY <1>2, <1>4, ChannelGrows, PeerAssumption
  <2> HIDE DEF w, q
  <2>5. TypeOK'
    BY <1>1, <1>2, <2>1, <2>3, <2>4, Typed, Zenon DEF TypeOK, Slots
  <2>6. conn'[x] = w /\ \A c \in Conns \ {x} : conn'[c] = conn[c]
    BY <1>3, <2>1, Zenon
  <2>7. queue'[s] = q /\ queue'[Other(s)] = queue[Other(s)]
    BY <1>2, <2>1, TwoSpeakers, Zenon
  <2>8. Located(s)' /\ Alone(s)
    BY <1>1, <2>4, <2>7, SlotFacts, Zenon DEF Located, Alone
  <2>9. ASSUME NEW c \in Conns PROVE Owns(s, c)'
    <3>1. Owns(s, c) /\ Owns(s, x)
      BY Owned, Zenon
    <3>2. CASE c # x
      <4>1. Kept(s, c)
        BY <1>1, <2>4, <2>6, <2>7, <3>2, Zenon DEF Kept
      <4> QED
        BY <3>1, <3>2, <4>1, OwnsKept, Zenon
    <3>3. CASE c = x
      <4>1. ~Held(s, x)' /\ End(x, s)' = "queued" /\ In(x, queue'[s]) /\ conn'[x].from # s
        BY <1>1, <1>2, <2>3, <2>4, <2>6, <2>7, <3>1, Zenon DEF Held, End, Owns
      <4> QED
        BY <3>3, <4>1, Zenon DEF Owns, Held
    <3> QED
      BY <3>2, <3>3, Zenon
  <2> QED
    BY <1>1, <2>1, <2>2, <2>5, <2>8, <2>9, OneSlot, Zenon
<1>5. CASE ~(Len(queue[s]) < QueueCap)
  <2> DEFINE w == Drop(conn[x], s)
  <2>1. conn' = [conn EXCEPT ![x] = w] /\ queue' = queue
    BY <1>5, Zenon DEF Accept
  <2>2. Moved(conn[x], w, s, "closed") /\ Pair(w, s, "closed", Stage(x, Other(s)))
    BY <1>1, SlotFacts, Closes, Zenon
  <2> HIDE DEF w
  <2>3. w \in Slots /\ w.end[s] = "closed"
    BY <2>2, MovedFacts
  <2>4. TypeOK'
    BY <1>1, <1>2, <2>1, <2>3, Typed, Zenon DEF TypeOK, Slots
  <2>5. conn'[x] = w /\ \A c \in Conns \ {x} : conn'[c] = conn[c]
    BY <1>3, <2>1, Zenon
  <2>6. Located(s)' /\ Alone(s)
    BY <1>1, <2>1, SlotFacts, Zenon DEF Located, Alone
  <2>7. ASSUME NEW c \in Conns PROVE Owns(s, c)'
    <3>1. Owns(s, c) /\ Owns(s, x)
      BY Owned, Zenon
    <3>2. CASE c # x
      <4>1. Kept(s, c)
        BY <1>1, <2>1, <2>5, <3>2, Zenon DEF Kept
      <4> QED
        BY <3>1, <3>2, <4>1, OwnsKept, Zenon
    <3>3. CASE c = x
      <4>1. ~Held(s, x)' /\ conn'[x].end[s] = "closed" /\ ~In(x, queue'[s])
        BY <1>1, <1>2, <2>1, <2>3, <2>5, Zenon DEF Held
      <4> QED
        BY <3>3, <4>1, OwnsClosed, Zenon
    <3> QED
      BY <3>2, <3>3, Zenon
  <2> QED
    BY <1>1, <2>1, <2>2, <2>4, <2>6, <2>7, OneSlot, Zenon
<1> QED
  BY <1>4, <1>5, Zenon

(* Taking the first stream of the channel. *)
LEMMA HeadFacts ==
  ASSUME PeerInv, NEW s \in Speakers, queue[s] # <<>>
  PROVE  LET x == Head(queue[s])
             q == Tail(queue[s])
         IN /\ x \in Conns /\ conn[x].end[s] = "queued" /\ Stage(x, s) = "queued"
            /\ ~Held(s, x) /\ conn[x].from # s
            /\ q \in Seq(Conns) /\ Distinct(q) /\ Len(q) <= QueueCap
            /\ \A c : In(c, q) <=> In(c, queue[s]) /\ c # x
<1>1. queue[s] \in Seq(Conns) /\ Len(queue[s]) <= QueueCap /\ QueueCap \in Nat
  BY PeerAssumption, Shapes, Zenon
<1>2. Distinct(queue[s])
  BY Owned, Zenon DEF Located
<1> DEFINE x == Head(queue[s])
           q == Tail(queue[s])
<1>3. /\ q \in Seq(Conns) /\ Distinct(q) /\ Len(q) <= Len(queue[s]) /\ x \in Conns
      /\ In(x, queue[s]) /\ \A c : In(c, q) <=> In(c, queue[s]) /\ c # x
  BY <1>1, <1>2, ChannelTakes, Zenon
<1> HIDE DEF x, q
<1>4. conn[x].end[s] = "queued" /\ ~Held(s, x) /\ conn[x].from # s /\ Stage(x, s) = "queued"
  BY <1>3, SlotFacts, Zenon DEF Owns, End, Stage
<1>5. Len(q) <= QueueCap
  BY <1>1, <1>3
<1> QED
  BY <1>3, <1>4, <1>5, Zenon DEF x, q

LEMMA TakeIncomingKeeps ==
  ASSUME PeerInv, NEW s \in Speakers, TakeIncoming(s)
  PROVE  PeerInv'
<1> DEFINE x == Head(queue[s])
           q == Tail(queue[s])
           w == Write(Become(conn[x], s, "opensent"), s, "OPEN")
<1>1. /\ pc[s] = "choose" /\ incoming[s] = "waiting" /\ queue[s] # <<>>
      /\ conn' = [conn EXCEPT ![x] = w]
      /\ incoming' = [incoming EXCEPT ![s] = x] /\ queue' = [queue EXCEPT ![s] = q]
      /\ UNCHANGED <<pc, outgoing, pending, current, late, status>>
  BY Zenon DEF TakeIncoming
<1>2. /\ x \in Conns /\ conn[x].end[s] = "queued" /\ Stage(x, s) = "queued"
      /\ ~Held(s, x) /\ conn[x].from # s
      /\ q \in Seq(Conns) /\ Distinct(q) /\ Len(q) <= QueueCap
      /\ \A c : In(c, q) <=> In(c, queue[s]) /\ c # x
  BY <1>1, HeadFacts, Zenon
<1>3. Moved(conn[x], w, s, "opensent") /\ Pair(w, s, "opensent", Stage(x, Other(s)))
  BY <1>2, SlotFacts, Takes, Zenon
<1> HIDE DEF x, q, w
<1>4. w \in Slots /\ w.end[s] = "opensent" /\ w.from = conn[x].from
  BY <1>3, MovedFacts
<1>5. TypeOK'
  BY <1>1, <1>2, <1>4, Typed, Zenon DEF TypeOK, Slots
<1>6. conn'[x] = w /\ \A c \in Conns \ {x} : conn'[c] = conn[c]
  BY <1>1, <1>2, Shapes, Zenon
<1>7. /\ queue'[s] = q /\ queue'[Other(s)] = queue[Other(s)]
      /\ incoming'[s] = x /\ incoming'[Other(s)] = incoming[Other(s)]
  BY <1>1, TwoSpeakers, Shapes, Zenon
<1>8. Located(s)' /\ Alone(s)
  BY <1>1, <1>2, <1>7, SlotFacts, Zenon DEF Located, Alone
<1>9. ASSUME NEW c \in Conns PROVE Owns(s, c)'
  <2>1. Owns(s, c) /\ c # "waiting"
    BY Owned, Markers, Zenon
  <2>2. CASE c # x
    <3>1. Kept(s, c)
      BY <1>1, <1>2, <1>6, <1>7, <2>1, <2>2, Zenon DEF Kept
    <3> QED
      BY <2>1, <2>2, <3>1, OwnsKept, Zenon
  <2>3. CASE c = x
    <3>1. conn'[c].end[s] = "opensent" /\ conn'[c].from # s
      BY <1>2, <1>4, <1>6, <2>3, Zenon
    <3>2. ~In(c, queue'[s])
      BY <1>2, <1>7, <2>3, Zenon
    <3>3. c = incoming'[s] /\ c # outgoing'[s] /\ c # pending'[s] /\ c # current'[s]
      BY <1>1, <1>2, <1>7, <2>3, Zenon DEF Held
    <3> QED
      BY <3>1, <3>2, <3>3, Zenon DEF Owns, Held, End
  <2> QED
    BY <2>2, <2>3, Zenon
<1> QED
  BY <1>1, <1>2, <1>3, <1>5, <1>8, <1>9, OneSlot, Zenon

LEMMA ReadOpenKeeps ==
  ASSUME PeerInv, NEW s \in Speakers, NEW x \in Conns, ReadOpen(s, x)
  PROVE  PeerInv'
<1> DEFINE w == Become(Consume(conn[x], s), s, "openrecv")
<1>1. /\ x \in Tasks(s) /\ conn[x].end[s] = "opensent" /\ Stage(x, s) = "opensent"
      /\ conn[x].inbox[s] # <<>> /\ Head(conn[x].inbox[s]) = "OPEN"
      /\ conn' = [conn EXCEPT ![x] = w]
      /\ UNCHANGED <<pc, outgoing, incoming, pending, current, late, queue, status>>
  BY Zenon DEF ReadOpen, tasks, End, Stage, First, Inbox
<1>2. Moved(conn[x], w, s, "openrecv") /\ Pair(w, s, "openrecv", Stage(x, Other(s)))
  BY <1>1, SlotFacts, ReadsOpen, Zenon
<1> HIDE DEF w
<1>3. w \in Slots /\ w.end[s] = "openrecv" /\ w.from = conn[x].from
  BY <1>2, MovedFacts
<1>4. TypeOK'
  BY <1>1, <1>3, Typed, Zenon DEF TypeOK, Slots
<1>5. conn'[x] = w /\ \A c \in Conns \ {x} : conn'[c] = conn[c]
  BY <1>1, Shapes, Zenon
<1>6. Located(s)' /\ Alone(s)
  BY <1>1, SlotFacts, Zenon DEF Located, Alone
<1>7. x # current[s]
  <2>1. pc[s] = "choose" => current[s] = None
    BY Owned, Zenon DEF Located
  <2>2. pc[s] # "choose" => outgoing[s] = "done" /\ incoming[s] = "done"
    BY Owned, Zenon DEF Located
  <2> QED
    BY <1>1, <2>1, <2>2, Markers, Zenon DEF Tasks
<1>8. ASSUME NEW c \in Conns PROVE Owns(s, c)'
  <2>1. Owns(s, c) /\ Owns(s, x)
    BY Owned, Zenon
  <2>2. CASE c # x
    <3>1. Kept(s, c)
      BY <1>1, <1>5, <2>2, Zenon DEF Kept
    <3> QED
      BY <2>1, <2>2, <3>1, OwnsKept, Zenon
  <2>3. CASE c = x
    <3>1. End(x, s)' = "openrecv" /\ conn'[x].from = conn[x].from /\ Held(s, x)
      BY <1>1, <1>3, <1>5, Zenon DEF End, Held, Tasks
    <3>2. x # pending[s] /\ ~In(x, queue[s])
      BY <1>1, <2>1, <2>3, Zenon DEF Owns, End
    <3>3. Held(s, x)'
      BY <1>1, <3>1, Zenon DEF Held
    <3> QED
      BY <1>1, <1>7, <2>1, <2>3, <3>1, <3>2, <3>3, Zenon DEF Owns
  <2> QED
    BY <2>2, <2>3, Zenon
<1> QED
  BY <1>1, <1>2, <1>4, <1>6, <1>8, OneSlot, Zenon

LEMMA HandshakeFailKeeps ==
  ASSUME PeerInv, NEW s \in Speakers, NEW x \in Conns, HandshakeFail(s, x)
  PROVE  PeerInv'
<1>1. PICK w \in {Drop(conn[x], s), Notify(conn[x], s)} : conn' = [conn EXCEPT ![x] = w]
  BY Zenon DEF HandshakeFail
<1>2. /\ x \in {outgoing[s], incoming[s]} /\ conn[x].end[s] = "opensent"
      /\ Stage(x, s) = "opensent"
      /\ UNCHANGED <<pc, pending, current, late, queue, status>>
  BY Zenon DEF HandshakeFail, Tasks, End, Stage
<1>3. Moved(conn[x], w, s, "closed") /\ Pair(w, s, "closed", Stage(x, Other(s)))
  BY <1>2, SlotFacts, Closes, Zenon
<1>4. w \in Slots /\ w.end[s] = "closed"
  BY <1>3, MovedFacts
<1>5. /\ IF x = outgoing[s] THEN outgoing' = [outgoing EXCEPT ![s] = "failed"]
                            ELSE outgoing' = outgoing
      /\ IF x = outgoing[s] THEN incoming' = incoming
                            ELSE incoming' = [incoming EXCEPT ![s] = "failed"]
  BY Zenon DEF HandshakeFail
<1>6. TypeOK'
  BY <1>1, <1>2, <1>4, <1>5, Typed, Zenon DEF TypeOK, Slots
<1>7. conn'[x] = w /\ \A c \in Conns \ {x} : conn'[c] = conn[c]
  BY <1>1, Shapes, Zenon
<1>8. /\ outgoing'[s] = IF x = outgoing[s] THEN "failed" ELSE outgoing[s]
      /\ incoming'[s] = IF x = outgoing[s] THEN incoming[s] ELSE "failed"
      /\ outgoing'[Other(s)] = outgoing[Other(s)] /\ incoming'[Other(s)] = incoming[Other(s)]
  BY <1>5, TwoSpeakers, Shapes, Zenon
<1>9. x # current[s] /\ x # pending[s] /\ pc[s] = "choose"
  <2>1. Located(s) /\ Owns(s, x) /\ x # "done" /\ x # None
    BY Owned, Markers, Zenon
  <2> QED
    BY <1>2, <2>1, Zenon DEF Located, Owns, End
<1>10. Located(s)' /\ Alone(s)
  <2>1. Located(s)
    BY Owned, Zenon
  <2> QED
    BY <1>2, <1>8, <1>9, <2>1, Zenon DEF Located, Alone
<1>11. ASSUME NEW c \in Conns PROVE Owns(s, c)'
  <2>1. Owns(s, c) /\ Owns(s, x) /\ c # "failed" /\ x # "failed" /\ x # "done"
    BY Owned, Markers, Zenon
  <2>2. CASE c # x
    <3>1. Kept(s, c)
      <4>1. CASE x = outgoing[s]
        BY <1>2, <1>7, <1>8, <2>1, <2>2, <4>1, Zenon DEF Kept
      <4>2. CASE x # outgoing[s]
        BY <1>2, <1>7, <1>8, <2>1, <2>2, <4>2, Zenon DEF Kept
      <4> QED
        BY <4>1, <4>2, Zenon
    <3> QED
      BY <2>1, <2>2, <3>1, OwnsKept, Zenon
  <2>3. CASE c = x
    <3>1. ~In(x, queue[s])
      BY <1>2, <2>1, Zenon DEF Owns, End
    <3>2. ~(x = outgoing[s] /\ x = incoming[s])
      BY <1>2, <2>1, Zenon DEF Owns
    <3>3. ~Held(s, x)'
      BY <1>2, <1>8, <1>9, <2>1, <2>3, <3>2, Zenon DEF Held
    <3> QED
      BY <1>2, <1>4, <1>7, <2>3, <3>1, <3>3, OwnsClosed, Zenon
  <2> QED
    BY <2>2, <2>3, Zenon
<1> QED
  BY <1>1, <1>2, <1>3, <1>6, <1>10, <1>11, OneSlot, Zenon

LEMMA ConnectFailKeeps ==
  ASSUME PeerInv, NEW s \in Speakers, ConnectFail(s)
  PROVE  PeerInv'
<1>1. /\ pc[s] = "choose" /\ outgoing[s] = "connect"
      /\ outgoing' = [outgoing EXCEPT ![s] = "failed"]
      /\ UNCHANGED <<conn, pc, incoming, pending, current, late, queue, status>>
  BY Zenon DEF ConnectFail
<1>2. TypeOK'
  BY <1>1, Typed, Zenon DEF TypeOK
<1>3. outgoing'[s] = "failed" /\ outgoing'[Other(s)] = outgoing[Other(s)]
  BY <1>1, TwoSpeakers, Shapes, Zenon
<1>4. Located(s)' /\ Alone(s)
  BY <1>1, <1>3, Owned, Zenon DEF Located, Alone
<1>5. ASSUME NEW c \in Conns PROVE Owns(s, c)'
  <2>1. c # "failed" /\ c # "connect" /\ Owns(s, c)
    BY Owned, Markers, Zenon
  <2>2. Kept(s, c)
    BY <1>1, <1>3, <2>1, Zenon DEF Kept
  <2> QED
    BY <2>1, <2>2, OwnsKept, Zenon
<1> QED
  BY <1>1, <1>2, <1>4, <1>5, NoSlot, Zenon

LEMMA JoinFailedKeeps ==
  ASSUME PeerInv, NEW s \in Speakers, JoinFailed(s)
  PROVE  PeerInv'
<1> DEFINE out == IF outgoing[s] = "failed" THEN "done" ELSE outgoing[s]
           inc == IF outgoing[s] # "failed" THEN "done" ELSE incoming[s]
<1>1. /\ pc[s] = "choose" /\ "failed" \in {outgoing[s], incoming[s]}
      /\ UNCHANGED <<conn, queue>>
      /\ IF out = "done" /\ inc = "done" /\ pending[s] = None
         THEN EnterBackoff(s) /\ LeaveChoose(s)
         ELSE /\ outgoing' = [outgoing EXCEPT ![s] = out]
              /\ incoming' = [incoming EXCEPT ![s] = inc]
              /\ UNCHANGED <<pc, pending, current, late, status>>
  BY Zenon DEF JoinFailed
<1>2. /\ outgoing' = [outgoing EXCEPT ![s] = out] /\ incoming' = [incoming EXCEPT ![s] = inc]
      /\ pending' = pending /\ current' = current /\ late' = late
  <2>1. current[s] = None
    BY <1>1, Owned, Zenon DEF Located
  <2>2. CASE out = "done" /\ inc = "done" /\ pending[s] = None
    <3>1. EnterBackoff(s) /\ LeaveChoose(s)
      BY <1>1, <2>2, Zenon
    <3>2. current \in [Speakers -> Conns \cup {None}] /\ pending \in [Speakers -> Conns \cup {None}]
      BY Shapes, Zenon
    <3> HIDE DEF out, inc
    <3> QED
      BY <2>1, <2>2, <3>1, <3>2, Zenon DEF EnterBackoff, LeaveChoose
  <2>3. CASE ~(out = "done" /\ inc = "done" /\ pending[s] = None)
    BY <1>1, <2>3, Zenon
  <2> QED
    BY <2>2, <2>3, Zenon
<1>3. \/ pc' = pc /\ status' = status
      \/ /\ pc' = [pc EXCEPT ![s] = "backoff"] /\ status' = [status EXCEPT ![s] = "Active"]
         /\ out = "done" /\ inc = "done" /\ pending[s] = None
  BY <1>1, Zenon DEF EnterBackoff, Update
<1>4. out \in Conns \cup {"connect", "failed", "done"}
      /\ inc \in Conns \cup {"waiting", "failed", "done"}
  BY Shapes, Zenon
<1>5. TypeOK'
  BY <1>1, <1>2, <1>3, <1>4, Typed, Zenon DEF TypeOK, Places
<1>6. /\ outgoing'[s] = out /\ outgoing'[Other(s)] = outgoing[Other(s)]
      /\ incoming'[s] = inc /\ incoming'[Other(s)] = incoming[Other(s)]
      /\ pc'[Other(s)] = pc[Other(s)]
      /\ pc'[s] = "choose" \/ (pc'[s] = "backoff" /\ out = "done" /\ inc = "done"
                                /\ pending[s] = None)
  BY <1>1, <1>2, <1>3, TwoSpeakers, Shapes, Zenon
<1>7. current[s] = None /\ Located(s)
  BY <1>1, Owned, Zenon DEF Located
<1>8. Located(s)' /\ Alone(s)
  BY <1>1, <1>2, <1>6, <1>7, Zenon DEF Located, Alone
<1>9. ASSUME NEW c \in Conns
      PROVE  Owns(s, c)' /\ End(c, s) # "session"
  <2>1. c = out <=> c = outgoing[s]
    BY Markers, Zenon
  <2>2. c = inc <=> c = incoming[s]
    BY <1>1, Markers, Zenon
  <2>3. c # current[s]
    BY <1>7, Markers, Zenon
  <2>4. Owns(s, c)
    BY Owned, Zenon
  <2>5. (outgoing[s] = "done" => out = "done") /\ (incoming[s] = "done" => inc = "done")
    BY <1>1, Zenon
  <2> HIDE DEF out, inc
  <2>6. Kept(s, c)
    BY <1>1, <1>2, <1>6, <2>1, <2>2, <2>3, <2>5, Zenon DEF Kept
  <2>7. End(c, s) # "session"
    BY <2>3, <2>4, Zenon DEF Owns, Held
  <2> QED
    BY <2>4, <2>6, <2>7, OwnsKept, Zenon
<1> QED
  BY <1>1, <1>5, <1>8, <1>9, NoSlot, Zenon

(* What choose() does to stream c as it ends with candidate x. *)
Left(s, x, c) ==
    \/ c = x /\ Moved(conn[c], conn'[c], s, "session")
             /\ Pair(conn'[c], s, "session", Stage(c, Other(s)))
    \/ c # x /\ Held(s, c) /\ Moved(conn[c], conn'[c], s, "closed")
             /\ Pair(conn'[c], s, "closed", Stage(c, Other(s)))
    \/ c # x /\ ~Held(s, c) /\ conn'[c] = conn[c]

(* choose() ends: every stream it holds is closed, but for the candidate   *)
(* x, if it has one.                                                       *)
LEMMA ChooseEnds ==
  ASSUME PeerInv, NEW s \in Speakers, pc[s] = "choose", LeaveChoose(s), TypeOK', Alone(s),
         queue' = queue, NEW x \in Conns \cup {None}, current'[s] = x, x # None => Held(s, x),
         pc'[s] = IF x = None THEN "backoff" ELSE "confirm",
         \A c \in Conns : Left(s, x, c)
  PROVE  PeerInv'
<1>1. outgoing'[s] = "done" /\ incoming'[s] = "done" /\ pending'[s] = None
  BY Shapes, Zenon DEF LeaveChoose
<1>2. Located(s)'
  BY <1>1, Owned, Zenon DEF Located
<1>3. current[s] = None
  BY Owned, Zenon DEF Located
<1>4. ASSUME NEW c \in Conns
      PROVE  /\ Moved(conn[c], conn'[c], s, conn'[c].end[s])
             /\ Pair(conn'[c], s, Stage(c, s)', Stage(c, Other(s)))
             /\ Owns(s, c)'
  <2>1. Owns(s, c) /\ conn[c] \in Slots /\ Pair(conn[c], s, Stage(c, s), Stage(c, Other(s)))
    BY SlotFacts, Zenon
  <2>2. c # None /\ c # "done" /\ c # current[s]
    BY <1>3, Markers, Zenon
  <2>3. CASE /\ c = x /\ Moved(conn[c], conn'[c], s, "session")
             /\ Pair(conn'[c], s, "session", Stage(c, Other(s)))
    <3>1. conn'[c].end[s] = "session"
      BY <2>3, MovedFacts
    <3>2. Stage(c, s)' = "session"
      BY <2>2, <2>3, <3>1, Zenon DEF Stage, End
    <3>3. ~In(c, queue[s])
      BY <2>1, <2>2, <2>3, Zenon DEF Owns
    <3> QED
      BY <1>1, <2>2, <2>3, <3>1, <3>2, <3>3, Zenon DEF Owns, Held, End
  <2>4. CASE /\ c # x /\ Held(s, c) /\ Moved(conn[c], conn'[c], s, "closed")
             /\ Pair(conn'[c], s, "closed", Stage(c, Other(s)))
    <3>1. conn'[c].end[s] = "closed"
      BY <2>4, MovedFacts
    <3>2. Stage(c, s)' = "closed"
      BY <3>1, Zenon DEF Stage, End
    <3>3. ~In(c, queue[s])
      BY <2>1, <2>4, Zenon DEF Owns
    <3> QED
      BY <1>1, <2>2, <2>4, <3>1, <3>2, <3>3, Zenon DEF Owns, Held, End
  <2>5. CASE c # x /\ ~Held(s, c) /\ conn'[c] = conn[c]
    <3>1. conn[c].end[s] # "session"
      BY <2>1, <2>5, Zenon DEF Owns, End
    <3>2. Stage(c, s)' = Stage(c, s)
      BY <2>5, <3>1, Zenon DEF Stage, End
    <3> QED
      BY <1>1, <2>1, <2>2, <2>5, <3>2, Zenon DEF Owns, Held, End, Moved
  <2> QED
    BY <2>3, <2>4, <2>5, Zenon DEF Left
<1> QED
  BY <1>2, <1>4, StepKeeps, Zenon

LEMMA ChosenKeeps ==
  ASSUME PeerInv, NEW s \in Speakers, pc[s] = "choose", NEW x \in Conns, Held(s, x),
         End(x, s) = "openrecv", Chosen(s, x)
  PROVE  PeerInv'
<1>1. /\ conn' = [c \in Conns |->
            IF c = x THEN Write(Become(conn[c], s, "session"), s, "KEEPALIVE")
            ELSE IF c = pending[s] THEN Notify(conn[c], s)
            ELSE IF c \in Tasks(s) THEN Drop(conn[c], s)
            ELSE conn[c]]
      /\ LeaveChoose(s) /\ pc' = [pc EXCEPT ![s] = "confirm"]
      /\ current' = [current EXCEPT ![s] = x]
      /\ status' = [status EXCEPT ![s] = "OpenConfirm"] /\ late' = late /\ queue' = queue
  BY Zenon DEF Chosen, Update
<1>2. current[s] = None
  BY Owned, Zenon DEF Located
<1>3. ASSUME NEW c \in Conns
      PROVE  Left(s, x, c)
  <2>1. c # current[s]
    BY <1>2, Markers, Zenon
  <2>2. CASE c = x
    <3>1. Stage(c, s) = "openrecv"
      BY <2>2, Zenon DEF Stage
    <3>2. conn'[c] = Write(Become(conn[c], s, "session"), s, "KEEPALIVE")
      BY <1>1, <2>2, Zenon
    <3> QED
      BY <2>2, <3>1, <3>2, SlotFacts, Commits, Zenon DEF Left
  <2>3. CASE c # x /\ Held(s, c)
    <3>1. conn'[c] \in {Drop(conn[c], s), Notify(conn[c], s)}
      BY <1>1, <2>1, <2>3, Zenon DEF Held, Tasks
    <3>2. Stage(c, s) # "closed"
      BY <2>3, SlotFacts, Zenon DEF Owns, Stage
    <3> QED
      BY <2>3, <3>1, <3>2, SlotFacts, Closes, Zenon DEF Left
  <2>4. CASE c # x /\ ~Held(s, c)
    BY <1>1, <2>4, Zenon DEF Left, Held, Tasks
  <2> QED
    BY <2>2, <2>3, <2>4, Zenon
<1>4. conn' \in [Conns -> Slots]
  <2>1. \A c \in Conns : conn'[c] \in Slots
    BY <1>3, SlotFacts, Zenon DEF Left, Moved
  <2> QED
    BY <1>1, <2>1, Zenon
<1>5. TypeOK'
  BY <1>1, <1>4, Typed, Zenon DEF TypeOK, LeaveChoose, Slots, Places
<1>6. Alone(s) /\ current'[s] = x /\ pc'[s] = "confirm"
  BY <1>1, TwoSpeakers, Shapes, Zenon DEF LeaveChoose, Alone
<1>7. x # None
  BY Markers, Zenon
<1> QED
  BY <1>1, <1>3, <1>5, <1>6, <1>7, ChooseEnds, Zenon

LEMMA DeadlineKeeps ==
  ASSUME PeerInv, NEW s \in Speakers, Deadline(s)
  PROVE  PeerInv'
<1>1. pc[s] = "choose" /\ current[s] = None
  BY Owned, Zenon DEF Deadline, Located
<1>2. CASE pending[s] # None
  <2>1. pending[s] \in Conns /\ Chosen(s, pending[s])
    BY <1>2, Shapes, Zenon DEF Deadline
  <2>2. Held(s, pending[s]) /\ End(pending[s], s) = "openrecv"
    BY <2>1, SlotFacts, Zenon DEF Owns, Held
  <2> QED
    BY <1>1, <2>1, <2>2, ChosenKeeps, Zenon
<1>3. CASE pending[s] = None
  <2>1. /\ conn' = [c \in Conns |-> IF c \in Tasks(s) THEN Drop(conn[c], s) ELSE conn[c]]
        /\ LeaveChoose(s) /\ pc' = [pc EXCEPT ![s] = "backoff"]
        /\ current' = [current EXCEPT ![s] = None]
        /\ status' = [status EXCEPT ![s] = "Active"] /\ late' = late /\ queue' = queue
    BY <1>3, Zenon DEF Deadline, EnterBackoff, Update
  <2>2. ASSUME NEW c \in Conns
        PROVE  Left(s, None, c)
    <3>1. c # None /\ (Held(s, c) <=> c \in Tasks(s))
      BY <1>1, <1>3, Markers, Zenon DEF Held, Tasks
    <3>2. CASE Held(s, c)
      <4>1. conn'[c] = Drop(conn[c], s)
        BY <2>1, <3>1, <3>2, Zenon
      <4>2. Stage(c, s) # "closed"
        BY <3>2, SlotFacts, Zenon DEF Owns, Stage
      <4> QED
        BY <3>1, <3>2, <4>1, <4>2, SlotFacts, Closes, Zenon DEF Left
    <3>3. CASE ~Held(s, c)
      BY <2>1, <3>1, <3>3, Zenon DEF Left
    <3> QED
      BY <3>2, <3>3, Zenon
  <2>3. conn' \in [Conns -> Slots]
    <3>1. \A c \in Conns : conn'[c] \in Slots
      BY <2>2, SlotFacts, Zenon DEF Left, Moved
    <3> QED
      BY <2>1, <3>1, Zenon
  <2>4. TypeOK'
    BY <2>1, <2>3, Typed, Zenon DEF TypeOK, LeaveChoose, Slots, Places
  <2>5. Alone(s) /\ current'[s] = None /\ pc'[s] = "backoff"
    BY <2>1, TwoSpeakers, Shapes, Zenon DEF LeaveChoose, Alone
  <2> QED
    BY <1>1, <2>1, <2>2, <2>4, <2>5, ChooseEnds, Zenon
<1> QED
  BY <1>2, <1>3, Zenon

LEMMA JoinKeeps ==
  ASSUME PeerInv, NEW s \in Speakers, NEW x \in Conns, Join(s, x)
  PROVE  PeerInv'
<1>1. /\ pc[s] = "choose" /\ x \in {outgoing[s], incoming[s]} /\ End(x, s) = "openrecv"
      /\ current[s] = None
  BY Owned, Zenon DEF Join, Tasks, Located
<1>2. CASE Preferred(s, x)
  BY <1>1, <1>2, ChosenKeeps, Zenon DEF Join, Held
<1>3. CASE ~Preferred(s, x)
  <2>1. /\ pending' = [pending EXCEPT ![s] = x]
        /\ UNCHANGED <<conn, pc, current, late, queue, status>>
        /\ IF x = outgoing[s] THEN outgoing' = [outgoing EXCEPT ![s] = "done"]
                              ELSE outgoing' = outgoing
        /\ IF x = outgoing[s] THEN incoming' = incoming
                              ELSE incoming' = [incoming EXCEPT ![s] = "done"]
    BY <1>3, Zenon DEF Join
  <2>2. TypeOK'
    BY <2>1, Typed, Zenon DEF TypeOK
  <2>3. /\ outgoing'[s] = IF x = outgoing[s] THEN "done" ELSE outgoing[s]
        /\ incoming'[s] = IF x = outgoing[s] THEN incoming[s] ELSE "done"
        /\ pending'[s] = x /\ pending'[Other(s)] = pending[Other(s)]
        /\ outgoing'[Other(s)] = outgoing[Other(s)]
        /\ incoming'[Other(s)] = incoming[Other(s)]
    BY <2>1, TwoSpeakers, Shapes, Zenon
  <2>4. Located(s)' /\ Alone(s)
    BY <1>1, <2>1, <2>3, Owned, Zenon DEF Located, Alone
  <2>5. pending[s] = None
    <3>1. SUFFICES ASSUME pending[s] \in Conns PROVE FALSE
      BY Shapes, Zenon
    <3>2. ~Preferred(s, pending[s])
          /\ IF conn[pending[s]].from = s THEN outgoing[s] = "done" ELSE incoming[s] = "done"
      BY <3>1, SlotFacts, Zenon DEF Owns
    <3>3. IF x = outgoing[s] THEN conn[x].from = s ELSE conn[x].from # s
      BY <1>1, SlotFacts, Zenon DEF Owns
    <3>4. x # "done"
      BY Markers, Zenon
    <3> QED
      BY <1>1, <1>3, <3>2, <3>3, <3>4 DEF Preferred, PreferIncoming
  <2>6. ASSUME NEW c \in Conns
        PROVE  Owns(s, c)' /\ End(c, s) # "session"
    <3>1. c # None /\ c # "done"
      BY Markers, Zenon
    <3>2. Owns(s, c) /\ Owns(s, x)
      BY Owned, Zenon
    <3>3. End(c, s) # "session"
      BY <1>1, <2>5, <3>1, <3>2, Zenon DEF Owns, Held
    <3>4. CASE c # x
      <4>1. Kept(s, c)
        <5>1. CASE x = outgoing[s]
          BY <2>1, <2>3, <2>5, <3>1, <3>4, <5>1, Zenon DEF Kept
        <5>2. CASE x # outgoing[s]
          BY <1>1, <2>1, <2>3, <2>5, <3>1, <3>4, <5>2, Zenon DEF Kept
        <5> QED
          BY <5>1, <5>2, Zenon
      <4> QED
        BY <3>2, <3>3, <4>1, OwnsKept, Zenon
    <3>5. CASE c = x
      <4>1. conn'[c].end[s] = "openrecv" /\ ~In(c, queue'[s])
        BY <1>1, <2>1, <3>2, <3>5, Zenon DEF Owns, End
      <4>2. c # outgoing'[s] /\ c # incoming'[s] /\ c # current'[s] /\ c = pending'[s]
        BY <1>1, <2>1, <2>3, <3>1, <3>2, <3>5, Zenon DEF Owns
      <4>3. IF conn'[c].from = s THEN outgoing'[s] = "done" ELSE incoming'[s] = "done"
        BY <1>1, <2>1, <2>3, <3>2, <3>5, Zenon DEF Owns
      <4>4. ~Preferred(s, c)'
        BY <1>3, <2>1, <3>5, Zenon DEF Preferred, PreferIncoming
      <4> QED
        BY <3>3, <4>1, <4>2, <4>3, <4>4, Zenon DEF Owns, Held, End
    <3> QED
      BY <3>4, <3>5, Zenon
  <2> QED
    BY <2>1, <2>2, <2>4, <2>6, NoSlot, Zenon
<1> QED
  BY <1>2, <1>3, Zenon

LEMMA ConnectKeeps ==
  ASSUME PeerInv, NEW s \in Speakers, Connect(s)
  PROVE  PeerInv'
<1> DEFINE t == Other(s)
           w == [from |-> s,
                 end |-> [u \in Speakers |-> IF u = s THEN "opensent" ELSE "backlog"],
                 inbox |-> [u \in Speakers |-> IF u = s THEN <<>> ELSE <<"OPEN">>]]
<1>1. PICK x \in Conns : /\ conn[x] = Unused /\ conn' = [conn EXCEPT ![x] = w]
                         /\ outgoing' = [outgoing EXCEPT ![s] = x]
  BY Zenon DEF Connect
<1>2. /\ pc[s] = "choose" /\ outgoing[s] = "connect"
      /\ UNCHANGED <<pc, incoming, pending, current, late, queue, status>>
  BY Zenon DEF Connect
<1>3. t \in Speakers /\ t # s /\ Other(t) = s /\ Speakers = {s, t}
  BY TwoSpeakers, Zenon
<1>4. /\ w.from = s /\ w.end[s] = "opensent" /\ w.end[t] = "backlog"
      /\ w.inbox[s] = <<>> /\ w.inbox[t] = <<"OPEN">>
  BY <1>3, Zenon
<1>5. w \in Slots
  <2>1. <<>> \in Seq(Messages) /\ <<"OPEN">> \in Seq(Messages)
    BY DEF Messages
  <2>2. w.inbox \in [Speakers -> Seq(Messages)]
    BY <2>1, Zenon
  <2>3. w.end \in [Speakers -> Ends]
    BY Zenon DEF Ends
  <2> QED
    BY <2>2, <2>3, Zenon DEF Slots
<1>6. conn[x].end[s] = "closed" /\ conn[x].end[t] = "closed"
  BY <1>1, <1>3 DEF Unused
<1> HIDE DEF w
<1>7. TypeOK'
  BY <1>1, <1>2, <1>5, Typed, Zenon DEF TypeOK, Slots
<1>8. conn'[x] = w /\ \A c \in Conns \ {x} : conn'[c] = conn[c]
  BY <1>1, Shapes, Zenon
<1>9. outgoing'[s] = x /\ outgoing'[t] = outgoing[t]
  BY <1>1, <1>3, Shapes, Zenon
<1>10. Located(s)' /\ Located(t)'
  BY <1>2, <1>3, <1>9, Owned, Zenon DEF Located
<1>11. ASSUME NEW c \in Conns PROVE Owns(s, c)'
  <2>1. Owns(s, c) /\ c # "connect"
    BY Owned, Markers, Zenon
  <2>2. CASE c # x
    <3>1. Kept(s, c)
      BY <1>2, <1>8, <1>9, <2>1, <2>2, Zenon DEF Kept
    <3> QED
      BY <2>1, <3>1, OwnsKept, Zenon
  <2>3. CASE c = x
    <3>1. ~Held(s, c) /\ ~In(c, queue[s])
      BY <1>6, <2>1, <2>3, Zenon DEF Owns, End
    <3>2. c = outgoing'[s] /\ c # incoming'[s] /\ c # pending'[s] /\ c # current'[s]
      BY <1>2, <1>9, <2>3, <3>1, Zenon DEF Held
    <3>3. conn'[c].end[s] = "opensent" /\ conn'[c].from = s /\ ~In(c, queue'[s])
      BY <1>2, <1>4, <1>8, <2>3, <3>1, Zenon
    <3> QED
      BY <3>2, <3>3, Zenon DEF Owns, Held, End
  <2> QED
    BY <2>2, <2>3, Zenon
<1>12. ASSUME NEW c \in Conns PROVE Owns(t, c)'
  <2>1. Owns(t, c)
    BY <1>3, Owned, Zenon
  <2>2. CASE c # x
    <3>1. Kept(t, c)
      BY <1>2, <1>8, <1>9, <2>2, Zenon DEF Kept
    <3> QED
      BY <1>3, <2>1, <3>1, OwnsKept, Zenon
  <2>3. CASE c = x
    <3>1. ~Held(t, c) /\ ~In(c, queue[t])
      BY <1>6, <2>1, <2>3, Zenon DEF Owns, End
    <3>2. ~Held(t, c)' /\ ~In(c, queue'[t])
      BY <1>2, <1>9, <3>1, Zenon DEF Held
    <3>3. conn'[c].end[t] = "backlog" /\ conn'[c].from # t
      BY <1>3, <1>4, <1>8, <2>3, Zenon
    <3> QED
      BY <3>2, <3>3, Zenon DEF Owns, Held, End
  <2> QED
    BY <2>2, <2>3, Zenon
<1>13. OwnInv'
  BY <1>3, <1>10, <1>11, <1>12, Zenon DEF OwnInv
<1>14. ASSUME NEW c \in Conns, NEW u \in Speakers
       PROVE  Flow(Inbox(c, u), Stage(c, u), Stage(c, Other(u)))'
  <2>1. CASE c # x
    BY <1>2, <1>8, <2>1, Zenon DEF PeerInv, FlowInv, Stage, End, Inbox
  <2>2. CASE c = x
    <3>1. Stage(x, s)' = "opensent" /\ Stage(x, t)' = "backlog"
      BY <1>4, <1>8, Zenon DEF Stage, End
    <3>2. Flow(<<>>, "opensent", "backlog")
      BY DEF Flow, Read, Sent
    <3>3. Flow(<<"OPEN">>, "backlog", "opensent")
      BY DEF Flow, Read, Sent, Script
    <3> QED
      BY <1>3, <1>4, <1>8, <2>2, <3>1, <3>2, <3>3 DEF Inbox
  <2> QED
    BY <2>1, <2>2, Zenon
<1> QED
  BY <1>7, <1>13, <1>14, Zenon DEF PeerInv, FlowInv

(* The stream of the session, or of the handshake in backoff. *)
LEMMA CurrentFacts ==
  ASSUME PeerInv, NEW s \in Speakers, pc[s] \in {"confirm", "established", "accept"},
         NEW x, x = current[s]
  PROVE  /\ x \in Conns /\ x # None /\ ~In(x, queue[s])
         /\ conn[x].end[s] = IF pc[s] = "accept" THEN "opensent" ELSE "session"
         /\ Stage(x, s) = CASE pc[s] = "accept" -> "opensent"
                            [] pc[s] = "confirm" -> "session"
                            [] OTHER -> "established"
         /\ \A c \in Conns \ {x} : ~Held(s, c) /\ conn[c].end[s] # "session"
         /\ outgoing[s] = "done" /\ incoming[s] = "done" /\ pending[s] = None
<1>1. /\ x # None /\ outgoing[s] = "done" /\ incoming[s] = "done" /\ pending[s] = None
  BY Owned, Zenon DEF Located
<1>2. x \in Conns
  BY <1>1, Shapes, Zenon
<1>3. /\ conn[x].end[s] = IF pc[s] = "accept" THEN "opensent" ELSE "session"
      /\ ~In(x, queue[s])
  <2>1. Owns(s, x)
    BY <1>2, Owned, Zenon
  <2> QED
    BY <2>1, Zenon DEF Owns, End
<1>4. ASSUME NEW c \in Conns \ {x} PROVE ~Held(s, c) /\ conn[c].end[s] # "session"
  <2>1. Owns(s, c) /\ c # "done" /\ c # None
    BY Owned, Markers, Zenon
  <2>2. ~Held(s, c)
    BY <1>1, <2>1, Zenon DEF Held
  <2> QED
    BY <2>1, <2>2, Zenon DEF Owns, End
<1>5. Stage(x, s) = CASE pc[s] = "accept" -> "opensent"
                      [] pc[s] = "confirm" -> "session"
                      [] OTHER -> "established"
  BY <1>3, Zenon DEF Stage, End
<1> QED
  BY <1>1, <1>2, <1>3, <1>4, <1>5, Zenon

LEMMA ConfirmKeeps ==
  ASSUME PeerInv, NEW s \in Speakers, Confirm(s)
  PROVE  PeerInv'
<1> DEFINE x == current[s]
           w == Write(Consume(conn[x], s), s, "UPDATE")
<1>1. /\ pc[s] = "confirm" /\ conn[x].inbox[s] # <<>> /\ Head(conn[x].inbox[s]) = "KEEPALIVE"
      /\ conn' = [conn EXCEPT ![x] = w] /\ pc' = [pc EXCEPT ![s] = "established"]
      /\ status' = [status EXCEPT ![s] = "Established"]
      /\ UNCHANGED <<outgoing, incoming, pending, current, late, queue>>
  BY Zenon DEF Confirm, Update, First, Inbox, tasks
<1>2. /\ x \in Conns /\ conn[x].end[s] = "session" /\ Stage(x, s) = "session"
      /\ \A c \in Conns \ {x} : conn[c].end[s] # "session"
  BY <1>1, CurrentFacts, Zenon
<1>3. Moved(conn[x], w, s, "session") /\ Pair(w, s, "established", Stage(x, Other(s)))
  BY <1>1, <1>2, SlotFacts, Confirms, Zenon
<1> HIDE DEF x, w
<1>4. w \in Slots /\ w.end[s] = "session" /\ w.from = conn[x].from
  BY <1>3, MovedFacts
<1>5. TypeOK'
  BY <1>1, <1>2, <1>4, Typed, Zenon DEF TypeOK, Slots, Places
<1>6. conn'[x] = w /\ \A c \in Conns \ {x} : conn'[c] = conn[c]
  BY <1>1, <1>2, Shapes, Zenon
<1>7. pc'[s] = "established" /\ pc'[Other(s)] = pc[Other(s)]
  BY <1>1, TwoSpeakers, Shapes, Zenon
<1>8. Located(s)' /\ Alone(s)
  BY <1>1, <1>7, Owned, Zenon DEF Located, Alone
<1>9. ASSUME NEW c \in Conns PROVE Owns(s, c)'
  <2>1. Owns(s, c)
    BY Owned, Zenon
  <2>2. Kept(s, c)
    <3>1. CASE c # x
      BY <1>1, <1>6, <1>7, <3>1, Zenon DEF Kept
    <3>2. CASE c = x
      BY <1>1, <1>2, <1>4, <1>6, <1>7, <3>2, Zenon DEF Kept
    <3> QED
      BY <3>1, <3>2, Zenon
  <2> QED
    BY <2>1, <2>2, OwnsKept, Zenon
<1> QED
  BY <1>1, <1>2, <1>3, <1>5, <1>7, <1>8, <1>9, OneSlot, Zenon DEF End

LEMMA ReceiveKeeps ==
  ASSUME PeerInv, NEW s \in Speakers, Receive(s)
  PROVE  PeerInv'
<1> DEFINE x == current[s]
           w == Consume(conn[x], s)
<1>1. /\ pc[s] = "established" /\ conn[x].inbox[s] # <<>>
      /\ conn' = [conn EXCEPT ![x] = w]
      /\ UNCHANGED <<pc, outgoing, incoming, pending, current, late, queue, status>>
  BY Zenon DEF Receive, First, Inbox, tasks
<1>2. x \in Conns /\ conn[x].end[s] = "session" /\ Stage(x, s) = "established"
  BY <1>1, CurrentFacts, Zenon
<1>3. Moved(conn[x], w, s, "session") /\ Pair(w, s, "established", Stage(x, Other(s)))
  BY <1>1, <1>2, SlotFacts, Receives, Zenon
<1> HIDE DEF x, w
<1>4. w \in Slots /\ w.end[s] = "session" /\ w.from = conn[x].from
  BY <1>3, MovedFacts
<1>5. TypeOK'
  BY <1>1, <1>2, <1>4, Typed, Zenon DEF TypeOK, Slots
<1>6. conn'[x] = w /\ \A c \in Conns \ {x} : conn'[c] = conn[c]
  BY <1>1, <1>2, Shapes, Zenon
<1>7. Located(s)' /\ Alone(s)
  BY <1>1, Owned, Zenon DEF Located, Alone
<1>8. ASSUME NEW c \in Conns PROVE Owns(s, c)'
  <2>1. Owns(s, c)
    BY Owned, Zenon
  <2>2. Kept(s, c)
    <3>1. CASE c # x
      BY <1>1, <1>6, <3>1, Zenon DEF Kept
    <3>2. CASE c = x
      BY <1>1, <1>2, <1>4, <1>6, <3>2, Zenon DEF Kept
    <3> QED
      BY <3>1, <3>2, Zenon
  <2> QED
    BY <2>1, <2>2, OwnsKept, Zenon
<1> QED
  BY <1>1, <1>2, <1>3, <1>5, <1>7, <1>8, OneSlot, Zenon

LEMMA AcceptOpenKeeps ==
  ASSUME PeerInv, NEW s \in Speakers, AcceptOpen(s)
  PROVE  PeerInv'
<1> DEFINE x == current[s]
           w == Write(Become(Consume(conn[x], s), s, "session"), s, "KEEPALIVE")
<1>1. /\ pc[s] = "accept" /\ conn[x].inbox[s] # <<>> /\ Head(conn[x].inbox[s]) = "OPEN"
      /\ conn' = [conn EXCEPT ![x] = w] /\ pc' = [pc EXCEPT ![s] = "confirm"]
      /\ status' = [status EXCEPT ![s] = "OpenConfirm"]
      /\ UNCHANGED <<outgoing, incoming, pending, current, late, queue>>
  BY Zenon DEF AcceptOpen, Update, First, Inbox, tasks
<1>2. /\ x \in Conns /\ conn[x].end[s] = "opensent" /\ Stage(x, s) = "opensent"
      /\ \A c \in Conns \ {x} : conn[c].end[s] # "session"
      /\ outgoing[s] = "done" /\ incoming[s] = "done" /\ pending[s] = None
      /\ x \notin {"done", None}
  BY <1>1, CurrentFacts, Markers, Zenon
<1>3. Moved(conn[x], w, s, "session") /\ Pair(w, s, "session", Stage(x, Other(s)))
  BY <1>1, <1>2, SlotFacts, ReadsOpen, Zenon
<1>4. w \in Slots /\ w.end[s] = "session" /\ w.from = conn[x].from
  BY <1>3, MovedFacts
<1>5. x = current[s]
  BY Zenon
<1> HIDE DEF x, w
<1>6. TypeOK'
  BY <1>1, <1>2, <1>4, Typed, Zenon DEF TypeOK, Slots, Places
<1>7. conn'[x] = w /\ \A c \in Conns \ {x} : conn'[c] = conn[c]
  BY <1>1, <1>2, Shapes, Zenon
<1>8. pc'[s] = "confirm" /\ pc'[Other(s)] = pc[Other(s)]
  BY <1>1, TwoSpeakers, Shapes, Zenon
<1>9. Located(s)' /\ Alone(s)
  BY <1>1, <1>8, Owned, Zenon DEF Located, Alone
<1>10. ASSUME NEW c \in Conns PROVE Owns(s, c)'
  <2>1. Owns(s, c)
    BY Owned, Zenon
  <2>2. CASE c # x
    <3>1. Kept(s, c)
      BY <1>1, <1>5, <1>7, <1>8, <2>2, Zenon DEF Kept
    <3> QED
      BY <2>1, <3>1, OwnsKept, Zenon
  <2>3. CASE c = x
    <3>1. conn'[c].end[s] = "session" /\ ~In(c, queue'[s])
      BY <1>1, <1>2, <1>4, <1>7, <2>1, <2>3, Zenon DEF Owns, End
    <3>2. c = current'[s] /\ c # outgoing'[s] /\ c # incoming'[s] /\ c # pending'[s]
      BY <1>1, <1>2, <1>5, <2>3, Zenon
    <3> QED
      BY <1>8, <3>1, <3>2, Zenon DEF Owns, Held, End
  <2> QED
    BY <2>2, <2>3, Zenon
<1> QED
  BY <1>1, <1>2, <1>3, <1>6, <1>8, <1>9, <1>10, OneSlot, Zenon DEF End

(* A stream x that s gives up: the session's, or the first of the channel. *)
LEMMA SessionEnds ==
  ASSUME PeerInv, NEW s \in Speakers, pc[s] \in {"confirm", "established", "accept"},
         NEW w \in {Drop(conn[current[s]], s), Notify(conn[current[s]], s)},
         conn' = [conn EXCEPT ![current[s]] = w], queue' = queue,
         EnterChoose(s) \/ (EnterBackoff(s) /\ UNCHANGED tasks)
  PROVE  PeerInv'
<1> DEFINE x == current[s]
<1>1. /\ x \in Conns /\ x # None /\ ~In(x, queue[s])
      /\ Stage(x, s) \in {"opensent", "session", "established"}
      /\ \A c \in Conns \ {x} : ~Held(s, c) /\ conn[c].end[s] # "session"
      /\ outgoing[s] = "done" /\ incoming[s] = "done" /\ pending[s] = None
  BY CurrentFacts, Zenon
<1>2. Moved(conn[x], w, s, "closed") /\ Pair(w, s, "closed", Stage(x, Other(s)))
  BY <1>1, SlotFacts, Closes, Zenon
<1>3. w \in Slots /\ w.end[s] = "closed"
  BY <1>2, MovedFacts
<1>4. /\ current' = [current EXCEPT ![s] = None] /\ pending' = pending
      /\ \/ /\ pc' = [pc EXCEPT ![s] = "choose"] /\ status' = [status EXCEPT ![s] = "Connect"]
            /\ outgoing' = [outgoing EXCEPT ![s] = "connect"]
            /\ incoming' = [incoming EXCEPT ![s] = "waiting"]
            /\ late' = [late EXCEPT ![s] = FALSE]
         \/ /\ pc' = [pc EXCEPT ![s] = "backoff"] /\ status' = [status EXCEPT ![s] = "Active"]
            /\ outgoing' = outgoing /\ incoming' = incoming /\ late' = late
  BY Zenon DEF EnterChoose, EnterBackoff, Update, tasks
<1>5. conn' = [conn EXCEPT ![x] = w]
  BY Zenon
<1> HIDE DEF x
<1>6. TypeOK'
  <2>1. conn' \in [Conns -> Slots]
    BY <1>1, <1>3, <1>5, Typed, Zenon DEF TypeOK, Slots
  <2>2. pc' \in [Speakers -> Places]
    BY <1>4, Shapes, Zenon DEF Places
  <2>3. /\ outgoing' \in [Speakers -> Conns \cup {"connect", "failed", "done"}]
        /\ incoming' \in [Speakers -> Conns \cup {"waiting", "failed", "done"}]
    BY <1>4, Shapes, Zenon
  <2>4. /\ pending' \in [Speakers -> Conns \cup {None}]
        /\ current' \in [Speakers -> Conns \cup {None}]
    BY <1>4, Shapes, Zenon
  <2>5. late' \in [Speakers -> BOOLEAN]
    BY <1>4, Typed, Zenon DEF TypeOK
  <2>6. status' \in [Speakers -> {"Connect", "Active", "OpenConfirm", "Established"}]
    BY <1>4, Typed, Zenon DEF TypeOK
  <2>7. queue' \in [Speakers -> Seq(Conns)] /\ \A r \in Speakers : Len(queue'[r]) <= QueueCap
    BY Shapes, Zenon
  <2> QED
    BY <2>1, <2>2, <2>3, <2>4, <2>5, <2>6, <2>7, Zenon DEF TypeOK, Slots
<1>7. conn'[x] = w /\ \A c \in Conns \ {x} : conn'[c] = conn[c]
  BY <1>1, <1>5, Shapes, Zenon
<1>8. /\ current'[s] = None /\ pending'[s] = None
      /\ \/ pc'[s] = "choose" /\ outgoing'[s] = "connect" /\ incoming'[s] = "waiting"
         \/ pc'[s] = "backoff" /\ outgoing'[s] = "done" /\ incoming'[s] = "done"
  BY <1>1, <1>4, Shapes, Zenon
<1>9. Alone(s)
  BY <1>4, TwoSpeakers, Shapes, Zenon DEF Alone
<1>10. Located(s)'
  BY <1>8, Owned, Zenon DEF Located
<1>11. ASSUME NEW c \in Conns PROVE Owns(s, c)'
  <2>1. ~Held(s, c)'
    BY <1>8, Markers, Zenon DEF Held
  <2>2. Owns(s, c)
    BY Owned, Zenon
  <2>3. CASE c = x
    BY <1>1, <1>3, <1>7, <2>1, <2>3, OwnsClosed, Zenon
  <2>4. CASE c # x
    <3>1. conn'[c] = conn[c] /\ ~Held(s, c)
      BY <1>1, <1>7, <2>4, Zenon
    <3> QED
      BY <2>1, <2>2, <3>1, Zenon DEF Owns, Held, End
  <2> QED
    BY <2>3, <2>4, Zenon
<1> QED
  BY <1>1, <1>2, <1>5, <1>6, <1>9, <1>10, <1>11, OneSlot, Zenon DEF End

LEMMA SessionFailKeeps ==
  ASSUME PeerInv, NEW s \in Speakers, SessionFail(s) \/ AcceptFail(s)
  PROVE  PeerInv'
<1>1. PICK w \in {Drop(conn[current[s]], s), Notify(conn[current[s]], s)} :
         conn' = [conn EXCEPT ![current[s]] = w]
  BY Zenon DEF SessionFail, AcceptFail
<1>2. /\ pc[s] \in {"confirm", "established", "accept"} /\ queue' = queue
      /\ EnterChoose(s) \/ (EnterBackoff(s) /\ UNCHANGED tasks)
  BY Zenon DEF SessionFail, AcceptFail
<1> QED
  BY <1>1, <1>2, SessionEnds, Zenon

LEMMA RejectIncomingKeeps ==
  ASSUME PeerInv, NEW s \in Speakers, RejectIncoming(s)
  PROVE  PeerInv'
<1> DEFINE x == Head(queue[s])
           q == Tail(queue[s])
           w == Notify(conn[x], s)
<1>1. /\ queue[s] # <<>> /\ conn' = [conn EXCEPT ![x] = w]
      /\ queue' = [queue EXCEPT ![s] = q]
      /\ UNCHANGED <<pc, outgoing, incoming, pending, current, late, status>>
  BY Zenon DEF RejectIncoming, tasks
<1>2. /\ x \in Conns /\ Stage(x, s) = "queued" /\ ~Held(s, x)
      /\ q \in Seq(Conns) /\ Distinct(q) /\ Len(q) <= QueueCap
      /\ \A c : In(c, q) <=> In(c, queue[s]) /\ c # x
  BY <1>1, HeadFacts, Zenon
<1>3. Moved(conn[x], w, s, "closed") /\ Pair(w, s, "closed", Stage(x, Other(s)))
  BY <1>2, SlotFacts, Closes, Zenon
<1> HIDE DEF x, q, w
<1>4. w \in Slots /\ w.end[s] = "closed"
  BY <1>3, MovedFacts
<1>5. TypeOK'
  BY <1>1, <1>2, <1>4, Typed, Zenon DEF TypeOK, Slots
<1>6. conn'[x] = w /\ \A c \in Conns \ {x} : conn'[c] = conn[c]
  BY <1>1, <1>2, Shapes, Zenon
<1>7. queue'[s] = q /\ queue'[Other(s)] = queue[Other(s)]
  BY <1>1, TwoSpeakers, Shapes, Zenon
<1>8. Located(s)' /\ Alone(s)
  BY <1>1, <1>2, <1>7, Owned, Zenon DEF Located, Alone
<1>9. ASSUME NEW c \in Conns PROVE Owns(s, c)'
  <2>1. Owns(s, c)
    BY Owned, Zenon
  <2>2. CASE c # x
    <3>1. Kept(s, c)
      BY <1>1, <1>2, <1>6, <1>7, <2>2, Zenon DEF Kept
    <3> QED
      BY <2>1, <3>1, OwnsKept, Zenon
  <2>3. CASE c = x
    <3>1. ~Held(s, c)' /\ conn'[c].end[s] = "closed"
      BY <1>1, <1>2, <1>4, <1>6, <2>3, Zenon DEF Held
    <3>2. ~In(c, queue'[s])
      BY <1>2, <1>7, <2>3, Zenon
    <3> QED
      BY <3>1, <3>2, OwnsClosed, Zenon
  <2> QED
    BY <2>2, <2>3, Zenon
<1> QED
  BY <1>1, <1>2, <1>3, <1>5, <1>8, <1>9, OneSlot, Zenon

LEMMA BackoffEndKeeps ==
  ASSUME PeerInv, NEW s \in Speakers, BackoffEnd(s)
  PROVE  PeerInv'
<1>1. /\ pc[s] = "backoff" /\ pc' = [pc EXCEPT ![s] = "choose"]
      /\ outgoing' = [outgoing EXCEPT ![s] = "connect"]
      /\ incoming' = [incoming EXCEPT ![s] = "waiting"]
      /\ current' = [current EXCEPT ![s] = None] /\ late' = [late EXCEPT ![s] = FALSE]
      /\ status' = [status EXCEPT ![s] = "Connect"] /\ UNCHANGED <<conn, queue, pending>>
  BY Zenon DEF BackoffEnd, EnterChoose, Update
<1>2. outgoing[s] = "done" /\ incoming[s] = "done" /\ pending[s] = None /\ current[s] = None
  BY <1>1, Owned, Zenon DEF Located
<1>3. TypeOK'
  BY <1>1, Typed, Zenon DEF TypeOK, Places
<1>4. pc'[s] = "choose" /\ outgoing'[s] = "connect" /\ incoming'[s] = "waiting"
      /\ current'[s] = None
  BY <1>1, Shapes, Zenon
<1>5. Alone(s)
  BY <1>1, TwoSpeakers, Shapes, Zenon DEF Alone
<1>6. Located(s)'
  BY <1>1, <1>4, Owned, Zenon DEF Located
<1>7. ASSUME NEW c \in Conns
      PROVE  Owns(s, c)' /\ End(c, s) # "session"
  <2>1. ~Held(s, c) /\ ~Held(s, c)'
    BY <1>1, <1>2, <1>4, Markers, Zenon DEF Held
  <2>2. Owns(s, c)
    BY Owned, Zenon
  <2> QED
    BY <1>1, <2>1, <2>2, Zenon DEF Owns, Held, End
<1> QED
  BY <1>1, <1>3, <1>5, <1>6, <1>7, NoSlot, Zenon

LEMMA BackoffAcceptKeeps ==
  ASSUME PeerInv, NEW s \in Speakers, BackoffAccept(s)
  PROVE  PeerInv'
<1> DEFINE x == Head(queue[s])
           q == Tail(queue[s])
           w == Write(Become(conn[x], s, "opensent"), s, "OPEN")
<1>1. /\ pc[s] = "backoff" /\ queue[s] # <<>> /\ conn' = [conn EXCEPT ![x] = w]
      /\ current' = [current EXCEPT ![s] = x] /\ pc' = [pc EXCEPT ![s] = "accept"]
      /\ late' = [late EXCEPT ![s] = TRUE] /\ queue' = [queue EXCEPT ![s] = q]
      /\ UNCHANGED <<outgoing, incoming, pending, status>>
  BY Zenon DEF BackoffAccept, tasks
<1>2. /\ x \in Conns /\ Stage(x, s) = "queued" /\ ~Held(s, x)
      /\ q \in Seq(Conns) /\ Distinct(q) /\ Len(q) <= QueueCap
      /\ \A c : In(c, q) <=> In(c, queue[s]) /\ c # x
  BY <1>1, HeadFacts, Zenon
<1>3. outgoing[s] = "done" /\ incoming[s] = "done" /\ pending[s] = None /\ current[s] = None
  BY <1>1, Owned, Zenon DEF Located
<1>4. Moved(conn[x], w, s, "opensent") /\ Pair(w, s, "opensent", Stage(x, Other(s)))
  BY <1>2, SlotFacts, Takes, Zenon
<1> HIDE DEF x, q, w
<1>5. w \in Slots /\ w.end[s] = "opensent" /\ w.from = conn[x].from
  BY <1>4, MovedFacts
<1>6. TypeOK'
  BY <1>1, <1>2, <1>5, Typed, Zenon DEF TypeOK, Slots, Places
<1>7. conn'[x] = w /\ \A c \in Conns \ {x} : conn'[c] = conn[c]
  BY <1>1, <1>2, Shapes, Zenon
<1>8. queue'[s] = q /\ current'[s] = x /\ pc'[s] = "accept"
  BY <1>1, Shapes, Zenon
<1>9. Alone(s)
  BY <1>1, TwoSpeakers, Shapes, Zenon DEF Alone
<1>10. x # None
  BY <1>2, Markers, Zenon
<1>11. Located(s)'
  BY <1>1, <1>2, <1>3, <1>8, <1>10, Zenon DEF Located
<1>12. ASSUME NEW c \in Conns
       PROVE  Owns(s, c)' /\ End(c, s) # "session"
  <2>1. c \notin {"done", None} /\ ~Held(s, c)
    BY <1>3, Markers, Zenon DEF Held
  <2>2. Owns(s, c)
    BY Owned, Zenon
  <2>3. End(c, s) # "session"
    BY <2>1, <2>2, Zenon DEF Owns
  <2>4. CASE c # x
    <3>1. ~Held(s, c)' /\ conn'[c] = conn[c] /\ (In(c, queue'[s]) <=> In(c, queue[s]))
      BY <1>1, <1>2, <1>3, <1>7, <1>8, <2>1, <2>4, Zenon DEF Held
    <3> QED
      BY <2>1, <2>2, <2>3, <3>1, Zenon DEF Owns, Held, End
  <2>5. CASE c = x
    <3>1. conn'[c].end[s] = "opensent" /\ c = current'[s]
      BY <1>2, <1>5, <1>7, <1>8, <2>5, Zenon
    <3>2. ~In(c, queue'[s])
      BY <1>2, <1>8, <2>5, Zenon
    <3>3. c # outgoing'[s] /\ c # incoming'[s] /\ c # pending'[s]
      BY <1>1, <1>3, <2>1, Zenon
    <3> QED
      BY <1>8, <2>3, <3>1, <3>2, <3>3, Zenon DEF Owns, Held, End
  <2> QED
    BY <2>4, <2>5, Zenon
<1> QED
  BY <1>1, <1>2, <1>4, <1>6, <1>9, <1>11, <1>12, OneSlot, Zenon

----------------------------------------------------------------------------
(* The invariant, and what follows from it *)

LEMMA PeerInit == Init => PeerInv
<1> SUFFICES ASSUME Init PROVE PeerInv
  BY Zenon
<1>1. TypeOK
  BY PeerAssumption, UnusedSlot DEF Init, TypeOK, Slots, Places
<1>2. ASSUME NEW s \in Speakers, NEW c \in Conns
      PROVE  /\ conn[c].end[s] = "closed" /\ conn[c].inbox[s] = <<>>
             /\ queue[s] = <<>> /\ ~Held(s, c)
  BY PeerAssumption, Zenon DEF Init, Unused, Held
<1>3. OwnInv
  <2>1. ASSUME NEW s \in Speakers PROVE Located(s)
    BY DEF Init, Located, Distinct
  <2>2. ASSUME NEW s \in Speakers, NEW c \in Conns PROVE Owns(s, c)
    BY <1>2 DEF Owns, End, In, Held
  <2> QED
    BY <2>1, <2>2, Zenon DEF OwnInv
<1>4. FlowInv
  BY <1>2, TwoSpeakers DEF FlowInv, Flow, Stage, End, Inbox
<1> QED
  BY <1>1, <1>3, <1>4, Zenon DEF PeerInv

LEMMA PeerNext == PeerInv /\ [Next]_vars => PeerInv'
<1> SUFFICES ASSUME PeerInv, [Next]_vars PROVE PeerInv'
  BY Zenon
<1>1. CASE UNCHANGED vars
  <2>1. UNCHANGED <<conn, pc, outgoing, incoming, pending, current, late, queue, status, reach>>
    BY <1>1, Zenon DEF vars, moving, tasks
  <2>2. TypeOK'
    BY <2>1, Zenon DEF PeerInv, TypeOK
  <2>3. ASSUME NEW s \in Speakers PROVE Located(s)'
    BY <2>1, Owned, Zenon DEF Located
  <2>4. ASSUME NEW s \in Speakers, NEW c \in Conns PROVE Owns(s, c)'
    <3>1. Owns(s, c)
      BY Owned, Zenon
    <3>2. Kept(s, c)
      BY <2>1, Zenon DEF Kept
    <3> QED
      BY <3>1, <3>2, OwnsKept, Zenon
  <2>5. FlowInv'
    BY <2>1, Zenon DEF PeerInv, FlowInv, Inbox, Stage, End
  <2> QED
    BY <2>2, <2>3, <2>4, <2>5, Zenon DEF PeerInv, OwnInv
<1>2. CASE Next
  <2>1. PICK s \in Speakers :
          \/ Connect(s) \/ ConnectFail(s) \/ TakeIncoming(s) \/ JoinFailed(s) \/ Deadline(s)
          \/ Confirm(s) \/ Receive(s) \/ SessionFail(s) \/ RejectIncoming(s)
          \/ BackoffEnd(s) \/ BackoffAccept(s) \/ AcceptOpen(s) \/ AcceptFail(s)
          \/ \E c \in Conns :
                Accept(s, c) \/ Reset(c, s) \/ ReadOpen(s, c) \/ HandshakeFail(s, c) \/ Join(s, c)
    BY <1>2, Zenon DEF Next
  <2>2. CASE Connect(s) \/ ConnectFail(s) \/ TakeIncoming(s) \/ JoinFailed(s) \/ Deadline(s)
    BY <2>2, ConnectKeeps, ConnectFailKeeps, TakeIncomingKeeps, JoinFailedKeeps, DeadlineKeeps, Zenon
  <2>3. CASE Confirm(s) \/ Receive(s) \/ SessionFail(s) \/ RejectIncoming(s)
    BY <2>3, ConfirmKeeps, ReceiveKeeps, SessionFailKeeps, RejectIncomingKeeps, Zenon
  <2>4. CASE BackoffEnd(s) \/ BackoffAccept(s) \/ AcceptOpen(s) \/ AcceptFail(s)
    BY <2>4, BackoffEndKeeps, BackoffAcceptKeeps, AcceptOpenKeeps, SessionFailKeeps, Zenon
  <2>5. CASE \E c \in Conns :
                Accept(s, c) \/ Reset(c, s) \/ ReadOpen(s, c) \/ HandshakeFail(s, c) \/ Join(s, c)
    BY <2>5, AcceptKeeps, ResetKeeps, ReadOpenKeeps, HandshakeFailKeeps, JoinKeeps, Zenon
  <2> QED
    BY <2>1, <2>2, <2>3, <2>4, <2>5, Zenon
<1> QED
  BY <1>1, <1>2, Zenon

LEMMA PeerInvariant == Spec => []PeerInv
  BY PeerInit, PeerNext, PTL DEF Spec

(* Connections, tasks and channels keep their types, and no channel holds  *)
(* more streams than its capacity.                                         *)
THEOREM TypeCorrect == Spec => []TypeOK
<1>1. PeerInv => TypeOK
  BY Zenon DEF PeerInv
<1> QED
  BY PeerInvariant, <1>1, PTL

(* Every stream a speaker holds open has exactly one owner, whatever       *)
(* handshakes, collisions, backoffs and failures came before: dropping the *)
(* JoinSet of choose() leaves none behind.                                 *)
THEOREM StreamsOwned == Spec => []EveryStreamOwned
<1>1. ASSUME PeerInv, NEW s \in Speakers
      PROVE  /\ {c \in Conns : End(c, s) \in {"opensent", "openrecv", "session"}}
                   = Tasks(s) \cup ({pending[s], current[s]} \ {None})
             /\ {c \in Conns : End(c, s) = "queued"} = {queue[s][i] : i \in 1..Len(queue[s])}
             /\ pending[s] # None => pending[s] \notin Tasks(s) /\ current[s] = None
             /\ Tasks(s) # {} => current[s] = None
  <2>1. /\ pending[s] \in Conns \cup {None} /\ current[s] \in Conns \cup {None}
        /\ queue[s] \in Seq(Conns) /\ Located(s)
    BY <1>1, Zenon DEF PeerInv, TypeOK, OwnInv
  <2>2. \A c \in Conns : Owns(s, c) /\ c # None /\ c # "done"
    BY <1>1, Markers, Zenon DEF PeerInv, OwnInv
  <2>3. {c \in Conns : End(c, s) \in {"opensent", "openrecv", "session"}}
           = Tasks(s) \cup ({pending[s], current[s]} \ {None})
    BY <2>1, <2>2, Zenon DEF Owns, Held, Tasks
  <2>4. {c \in Conns : End(c, s) = "queued"} = {queue[s][i] : i \in 1..Len(queue[s])}
    <3>1. \A i \in 1..Len(queue[s]) : queue[s][i] \in Conns
      BY <2>1
    <3>2. \A c \in Conns : End(c, s) = "queued" <=> \E i \in 1..Len(queue[s]) : queue[s][i] = c
      BY <2>2, Zenon DEF Owns, In
    <3> QED
      BY <3>1, <3>2, Zenon
  <2>5. pc[s] # "choose" => Tasks(s) = {} /\ pending[s] = None
    BY <2>1, <2>2, Zenon DEF Located, Tasks
  <2>6. pc[s] = "choose" => current[s] = None
    BY <2>1, Zenon DEF Located
  <2>7. pending[s] # None => pending[s] \notin Tasks(s)
    BY <2>1, <2>2, Zenon DEF Owns, Tasks
  <2> QED
    BY <2>3, <2>4, <2>5, <2>6, <2>7, Zenon
<1>2. PeerInv => EveryStreamOwned
  BY <1>1, Zenon DEF EveryStreamOwned
<1> QED
  BY PeerInvariant, <1>2, PTL

(* No interleaving of the two speakers' handshakes makes one send the      *)
(* other a message that wire::unexpected rejects.                          *)
THEOREM MessagesExpected == Spec => []NothingUnexpected
<1>1. ASSUME PeerInv, NEW s \in Speakers, NEW c \in Conns, Inbox(c, s) # <<>>
      PROVE  /\ End(c, s) = "opensent" => Head(Inbox(c, s)) \in {"OPEN", "NOTIFICATION"}
             /\ End(c, s) = "session" /\ pc[s] = "confirm" =>
                   Head(Inbox(c, s)) \in {"KEEPALIVE", "NOTIFICATION"}
             /\ End(c, s) = "session" /\ pc[s] = "established" =>
                   Head(Inbox(c, s)) \in {"KEEPALIVE", "UPDATE", "NOTIFICATION"}
             /\ Head(Inbox(c, s)) \in Messages
  <2> DEFINE q == Inbox(c, s)
  <2>1. Flow(q, Stage(c, s), Stage(c, Other(s)))
    BY <1>1, Zenon DEF PeerInv, FlowInv
  <2>2. q \in Seq(Messages)
    BY <1>1 DEF PeerInv, TypeOK, Inbox
  <2> HIDE DEF q
  <2>3. 1 \in 1..Len(q) /\ Head(q) = q[1] /\ q[1] \in Messages
    BY <1>1, <2>2 DEF q
  <2>4. End(c, s) = "opensent" => q[1] \in {"OPEN", "NOTIFICATION"}
    BY <2>1, <2>3 DEF Flow, Stage, Read, Script
  <2>5. End(c, s) = "session" /\ pc[s] = "confirm" => q[1] \in {"KEEPALIVE", "NOTIFICATION"}
    BY <2>1, <2>3 DEF Flow, Stage, Read, Script
  <2>6. End(c, s) = "session" /\ pc[s] = "established" =>
           q[1] \in {"KEEPALIVE", "UPDATE", "NOTIFICATION"}
    BY <2>1, <2>3, Zenon DEF Flow, Stage, Messages
  <2> QED
    BY <2>3, <2>4, <2>5, <2>6, Zenon DEF q
<1>2. PeerInv => NothingUnexpected
  BY <1>1, Zenon DEF NothingUnexpected
<1> QED
  BY PeerInvariant, <1>2, PTL

(* An Established speaker shares its connection with one that is committed *)
(* to it, or that has already closed it: simultaneous connections never    *)
(* leave the two on different ones.                                        *)
THEOREM SessionsMutual == Spec => []EstablishedIsMutual
<1>1. ASSUME PeerInv, NEW s \in Speakers, pc[s] = "established",
             End(current[s], Other(s)) # "closed"
      PROVE  current[Other(s)] = current[s] /\ pc[Other(s)] \in {"confirm", "established"}
  <2> DEFINE x == current[s]
             t == Other(s)
  <2>1. x \in Conns /\ Stage(x, s) = "established"
    BY <1>1, CurrentFacts, Zenon
  <2>2. t \in Speakers
    BY TwoSpeakers, Zenon
  <2>3. Stage(x, t) \in {"session", "established"}
    <3>1. /\ Flow(conn[x].inbox[s], Stage(x, s), Stage(x, t))
          /\ Stage(x, t) = "closed" <=> End(x, t) = "closed"
      BY <1>1, <2>1, SlotFacts, Zenon DEF Pair, At, End
    <3> QED
      BY <1>1, <2>1, <3>1, Zenon DEF Flow
  <2>4. End(x, t) = "session"
    <3>1. End(x, t) \in Ends
      BY <1>1, <2>1, <2>2, SlotFacts, Zenon DEF End
    <3> QED
      BY <2>3, <3>1, Zenon DEF Stage, Ends
  <2>5. x = current[t]
    <3>1. Owns(t, x) /\ Located(t) /\ x # "done" /\ x # None
      BY <1>1, <2>1, <2>2, Owned, Markers, Zenon
    <3>2. Held(t, x) /\ x \notin {outgoing[t], incoming[t], pending[t]}
      BY <2>4, <3>1, Zenon DEF Owns
    <3> QED
      BY <3>2, Zenon DEF Held
  <2>6. Located(t) /\ Owns(t, x)
    BY <1>1, <2>1, <2>2, Owned, Zenon
  <2>7. pc[t] # "accept"
    BY <2>4, <2>5, <2>6, Zenon DEF Owns
  <2>8. pc[t] \in Places /\ x # None
    BY <1>1, <2>1, <2>2, Markers, Zenon DEF PeerInv, TypeOK
  <2> QED
    BY <2>5, <2>6, <2>7, <2>8, Zenon DEF Located, Places
<1>2. PeerInv => EstablishedIsMutual
  BY <1>1, Zenon DEF EstablishedIsMutual
<1> QED
  BY PeerInvariant, <1>2, PTL
=============================================================================
