----------------------------- MODULE ClockProofs ----------------------------
(***************************************************************************)
(* Proofs about the timers of module Session: what may keep a session up   *)
(* after its neighbor's last message, and why two working speakers never   *)
(* lose it.  They rest on the types and on the frames under way, which     *)
(* SessionProofs establishes.                                              *)
(***************************************************************************)
EXTENDS SessionProofs

----------------------------------------------------------------------------
(* Silence and the hold timer add up to the hold time, and no KEEPALIVE is *)
(* further off than its interval.                                          *)

ClockInv ==
    \A s \in Speakers :
        /\ State(s) \in {"opensend", "opensent", "confirmsend", "openconfirm"} => silence[s] = 0
        /\ State(s) = "established" =>
            /\ speaker[s].keepalive <= keepalive(Hold(s))
            /\ (Hold(s) # 0 /\ s \notin mute) => silence[s] + speaker[s].timer = Hold(s)

(* The hold time of a session is zero or at least three seconds, and the   *)
(* two ends agree on it.                                                   *)
LEMMA HoldTimes ==
  ASSUME TypeInv, NEW s \in Speakers, State(s) = "established"
  PROVE  /\ Hold(s) \in Nat \ {1, 2} /\ Hold(s) = speaker[s].n.hold
         /\ keepalive(Hold(s)) \in Nat \ {0}
         /\ Hold(s) # 0 => 3 * keepalive(Hold(s)) <= Hold(s)
         /\ Negotiated(Other(s)) => Hold(Other(s)) = Hold(s)
<1>1. Negotiated(s) /\ verdict[s].ok /\ speaker[s].n = verdict[s].n
  BY Zenon DEF TypeInv, Negotiated
<1>2. Hold(s) \in Nat \ {1, 2} /\ Hold(s) = speaker[s].n.hold
  BY <1>1, ValidSettings, Zenon DEF TypeInv, Hold
<1>3. Negotiated(Other(s)) => Hold(Other(s)) = Hold(s)
  <2>1. Negotiated(Other(s)) => \A r \in Speakers : Negotiated(r)
    BY <1>1, TwoSpeakers, Zenon
  <2> QED
    BY <2>1, TypeAgrees, Zenon DEF NegotiationAgrees, Hold
<1> QED
  BY <1>2, <1>3, KeepaliveInterval

LEMMA ClockKeeps ==
  ASSUME TypeInv, ClockInv, NEW s \in Speakers, NEW y \in Records, Become(s, y),
         UNCHANGED mute, silence'[Other(s)] = silence[Other(s)],
         y.state \in {"opensend", "opensent", "confirmsend", "openconfirm"} => silence'[s] = 0,
         y.state = "established" => y.keepalive <= keepalive(y.n.hold),
         y.state = "established" /\ y.n.hold # 0 /\ s \notin mute =>
             silence'[s] + y.timer = y.n.hold
  PROVE  ClockInv'
<1>1. /\ Other(s) \in Speakers /\ Other(s) # s /\ Speakers = {s, Other(s)}
  BY TwoSpeakers, Zenon
<1>2. speaker'[s] = y /\ speaker'[Other(s)] = speaker[Other(s)]
  BY <1>1, Zenon DEF Become, TypeInv
<1> QED
  BY <1>1, <1>2, Zenon DEF ClockInv, State, Hold

LEMMA ClockStep ==
  ASSUME TypeInv, ClockInv, NEW s \in Speakers,
         Write(s) \/ SendKeepalive(s) \/ SendUpdate(s) \/ WriteDeadline(s) \/ Lose(s)
             \/ Expire(s)
  PROVE  ClockInv'
<1> DEFINE x == speaker[s]
<1>1. UNCHANGED <<mute, silence>>
  BY Zenon DEF Write, SendKeepalive, SendUpdate, WriteDeadline, Lose, Expire, faults, history
<1>2. x \in Records /\ x.n.hold \in Nat
  BY DEF TypeInv, Records, Sessions, NoSession
<1>3. x.state = "established" => keepalive(x.n.hold) \in Nat
  BY <1>2, KeepaliveInterval, Zenon
<1>4. CASE Write(s)
  <2> DEFINE k == Min({Space(s), Len(x.out)})
             y == Written(s, k)
  <2>1. k \in 1..Len(x.out) /\ Become(s, y)
    BY <1>4, WriteAmount, Zenon DEF Write
  <2>2. y \in Records /\ AfterWrite(x, y)
    BY <2>1, WrittenRecord, Zenon
  <2> HIDE DEF y
  <2>3. y.state \in {"opensend", "opensent", "confirmsend", "openconfirm"} =>
            x.state \in {"opensend", "opensent", "confirmsend", "openconfirm"}
    BY <2>2, Zenon DEF AfterWrite
  <2>4. y.state = "established" =>
            /\ x.state = "established" /\ y.n = x.n /\ y.timer = x.timer
            /\ y.keepalive \in {x.keepalive, keepalive(x.n.hold)}
    BY <2>2, Zenon DEF AfterWrite
  <2>5. /\ y.state \in {"opensend", "opensent", "confirmsend", "openconfirm"} => silence'[s] = 0
        /\ y.state = "established" => y.keepalive <= keepalive(y.n.hold)
        /\ y.state = "established" /\ y.n.hold # 0 /\ s \notin mute =>
              silence'[s] + y.timer = y.n.hold
    BY <1>1, <1>3, <2>3, <2>4 DEF ClockInv, State, Hold
  <2> QED
    BY <1>1, <2>1, <2>2, <2>5, ClockKeeps, Zenon
<1>5. CASE SendKeepalive(s) \/ SendUpdate(s)
  <2>1. PICK k \in Kinds : Become(s, Sending(speaker[s], k, Peer(s).write_timeout_secs))
    BY <1>5, Zenon DEF SendKeepalive, SendUpdate, Kinds
  <2> DEFINE y == Sending(speaker[s], k, Peer(s).write_timeout_secs)
  <2>2. Peer(s).write_timeout_secs \in Nat
    BY ValidSettings, Zenon DEF TypeInv
  <2>3. /\ y \in Records /\ y.state = x.state /\ y.n = x.n
        /\ y.timer = x.timer /\ y.keepalive = x.keepalive
    BY <1>2, <2>2, SendingRecord
  <2>4. Become(s, y)
    BY <2>1, Zenon
  <2> HIDE DEF y
  <2> QED
    BY <1>1, <2>3, <2>4, ClockKeeps, Zenon DEF ClockInv, State, Hold
<1>6. CASE WriteDeadline(s) \/ Lose(s) \/ Expire(s)
  <2>1. Become(s, Closed) \/ Report(s)
    BY <1>6, Zenon DEF WriteDeadline, Lose, Expire
  <2>2. PICK y \in Records : Become(s, y) /\ Ending(y)
    BY <2>1, ClosedRecord, ReportEffect, Zenon DEF Ending
  <2> QED
    BY <1>1, <2>2, ClockKeeps, Zenon DEF Ending
<1> QED
  BY <1>4, <1>5, <1>6, Zenon

LEMMA ClockRead ==
  ASSUME TypeInv, ClockInv, NEW s \in Speakers, Read(s)
  PROVE  ClockInv'
<1> DEFINE x == speaker[s]
<1>1. UNCHANGED mute
  BY Zenon DEF Read, faults
<1>2. PICK y \in Records : /\ Become(s, y)
                           /\ \/ Ending(y) /\ UNCHANGED history
                              \/ Handled(s, chan[Other(s)][1][1], y)
  BY ReadTypes, Zenon
<1>3. Other(s) \in Speakers /\ Other(s) # s
  BY TwoSpeakers, Zenon
<1>4. silence'[Other(s)] = silence[Other(s)]
  BY <1>2, <1>3, Zenon DEF Handled, history, TypeInv
<1>5. x \in Records /\ x.n.hold \in Nat /\ Hold(s) = x.n.hold /\ keepalive(x.n.hold) \in Nat
  <2>1. x \in Records /\ x.n.hold \in Nat /\ Hold(s) = x.n.hold
    BY DEF TypeInv, Records, Sessions, NoSession, Hold
  <2> QED
    BY <2>1, KeepaliveInterval, Zenon
<1>6. y.state \in {"opensend", "opensent", "confirmsend", "openconfirm"} => silence'[s] = 0
  <2>1. CASE Ending(y)
    BY <2>1, Zenon DEF Ending
  <2>2. CASE State(s) = "opensent" /\ UNCHANGED history
    BY <2>2, Zenon DEF ClockInv, history
  <2>3. CASE y.state = "established"
    BY <2>3, Zenon
  <2> QED
    BY <1>2, <2>1, <2>2, <2>3, Zenon DEF Handled, State
<1>7. y.state = "established" => y.keepalive <= keepalive(y.n.hold)
  BY <1>2, <1>5 DEF Handled, Ending, ClockInv, State
<1>8. y.state = "established" /\ y.n.hold # 0 /\ s \notin mute =>
          silence'[s] + y.timer = y.n.hold
  <2>1. CASE Ending(y)
    BY <2>1, Zenon DEF Ending
  <2>2. CASE /\ State(s) = "openconfirm" /\ y.n = x.n /\ y.timer = Hold(s)
             /\ UNCHANGED history
    BY <1>5, <2>2 DEF ClockInv, history
  <2>3. CASE y.n = x.n /\ y.timer = Hold(s) /\ silence' = [silence EXCEPT ![s] = 0]
    BY <1>5, <2>3 DEF TypeInv
  <2>4. CASE State(s) = "established" /\ y = x /\ UNCHANGED history
    BY <1>5, <2>4, Zenon DEF ClockInv, history
  <2>5. CASE y.state = "confirmsend"
    BY <2>5, Zenon
  <2> QED
    BY <1>2, <2>1, <2>2, <2>3, <2>4, <2>5, Zenon DEF Handled
<1> QED
  BY <1>1, <1>2, <1>4, <1>6, <1>7, <1>8, ClockKeeps, Zenon

(* One tick of the clocks of speaker s. *)
LEMMA TickEffect ==
  ASSUME TypeInv, Tick, NEW s \in Speakers
  PROVE  /\ speaker'[s].state = speaker[s].state /\ speaker'[s].n = speaker[s].n
         /\ speaker'[s].out = speaker[s].out
         /\ s \in mute => speaker'[s] = speaker[s]
         /\ s \notin mute => /\ speaker'[s].timer = Less(speaker[s].timer)
                             /\ speaker'[s].keepalive = Less(speaker[s].keepalive)
         /\ ~Timed(s) => silence'[s] = 0 /\ lost'[s] = 0
         /\ Timed(s) /\ silence[s] < Hold(s) =>
             /\ silence'[s] = silence[s] + 1
             /\ lost'[s] = lost[s] + (IF stalled = {} THEN 0 ELSE 1)
         /\ Timed(s) /\ ~(silence[s] < Hold(s)) =>
             silence'[s] = silence[s] /\ lost'[s] = lost[s]
<1> DEFINE x == speaker[s]
           y == [x EXCEPT !.timer = Less(x.timer), !.keepalive = Less(x.keepalive),
                          !.deadline = Less(x.deadline)]
<1>1. x \in Records
  BY Zenon DEF TypeInv
<1>2. speaker'[s] = IF s \in mute THEN x ELSE y
  BY Zenon DEF Tick
<1>3. /\ silence' = Counted(silence, 1)
      /\ lost' = Counted(lost, IF stalled = {} THEN 0 ELSE 1)
  BY Zenon DEF Tick
<1> HIDE DEF x
<1>4. /\ y.state = x.state /\ y.n = x.n /\ y.out = x.out
      /\ y.timer = Less(x.timer) /\ y.keepalive = Less(x.keepalive)
  BY <1>1, Zenon DEF Records
<1> HIDE DEF y
<1>5. /\ speaker'[s].state = speaker[s].state /\ speaker'[s].n = speaker[s].n
      /\ speaker'[s].out = speaker[s].out
      /\ s \in mute => speaker'[s] = speaker[s]
      /\ s \notin mute => /\ speaker'[s].timer = Less(speaker[s].timer)
                          /\ speaker'[s].keepalive = Less(speaker[s].keepalive)
  BY <1>2, <1>4, Zenon DEF x
<1>6. /\ ~Timed(s) => silence'[s] = 0 /\ lost'[s] = 0
      /\ Timed(s) /\ silence[s] < Hold(s) =>
          /\ silence'[s] = silence[s] + 1
          /\ lost'[s] = lost[s] + (IF stalled = {} THEN 0 ELSE 1)
      /\ Timed(s) /\ ~(silence[s] < Hold(s)) =>
          silence'[s] = silence[s] /\ lost'[s] = lost[s]
  <2>1. silence[s] \in Nat /\ lost[s] \in Nat
    BY Zenon DEF TypeInv
  <2> QED
    BY <1>3, <2>1 DEF Counted
<1> QED
  BY <1>5, <1>6, Zenon

LEMMA ClockTick ==
  ASSUME TypeInv, ClockInv, Tick
  PROVE  ClockInv'
<1>1. UNCHANGED mute /\ \A s \in Speakers : ~Due(s)
  BY Zenon DEF Tick, faults
<1>2. ASSUME NEW s \in Speakers
      PROVE  /\ State(s)' = State(s) /\ Hold(s)' = Hold(s)
             /\ State(s)' \in {"opensend", "opensent", "confirmsend", "openconfirm"} =>
                   silence'[s] = 0
             /\ State(s)' = "established" =>
                   /\ speaker'[s].keepalive <= keepalive(Hold(s)')
                   /\ (Hold(s)' # 0 /\ s \notin mute') =>
                         silence'[s] + speaker'[s].timer = Hold(s)'
  <2>1. State(s)' = State(s) /\ Hold(s)' = Hold(s)
    BY TickEffect, Zenon DEF State, Hold
  <2>2. State(s) \in {"opensend", "opensent", "confirmsend", "openconfirm"} => silence'[s] = 0
    BY TickEffect, Zenon DEF Timed
  <2>3. /\ speaker[s].timer \in Nat /\ speaker[s].keepalive \in Nat /\ silence[s] \in Nat
        /\ Hold(s) \in Nat /\ keepalive(Hold(s)) \in Nat
    <3>1. /\ speaker[s].timer \in Nat /\ speaker[s].keepalive \in Nat /\ silence[s] \in Nat
          /\ Hold(s) \in Nat
      BY DEF TypeInv, Records, Sessions, NoSession, Hold
    <3> QED
      BY <3>1, KeepaliveInterval, Zenon
  <2>4. State(s) = "established" => speaker'[s].keepalive <= keepalive(Hold(s))
    BY <2>3, TickEffect DEF ClockInv, Less
  <2>5. ASSUME State(s) = "established", Hold(s) # 0, s \notin mute
        PROVE  silence'[s] + speaker'[s].timer = Hold(s)
    <3>1. Timed(s) /\ silence[s] + speaker[s].timer = Hold(s)
      BY <2>5, Zenon DEF Timed, ClockInv
    <3>2. speaker'[s].timer = Less(speaker[s].timer)
      BY <2>5, TickEffect, Zenon
    <3>3. CASE speaker[s].timer > 0
      <4>1. silence[s] < Hold(s)
        BY <2>3, <3>1, <3>3
      <4>2. silence'[s] = silence[s] + 1
        BY <3>1, <4>1, TickEffect, Zenon
      <4> QED
        BY <2>3, <3>1, <3>2, <3>3, <4>2 DEF Less
    <3>4. CASE speaker[s].timer = 0
      <4>1. ~(silence[s] < Hold(s))
        BY <2>3, <3>1, <3>4
      <4>2. silence'[s] = silence[s]
        BY <3>1, <4>1, TickEffect, Zenon
      <4> QED
        BY <2>3, <3>1, <3>2, <3>4, <4>2 DEF Less
    <3> QED
      BY <2>3, <3>3, <3>4
  <2> QED
    BY <1>1, <2>1, <2>2, <2>4, <2>5, Zenon
<1> QED
  BY <1>2, Zenon DEF ClockInv

LEMMA ClockInit == Init => ClockInv
<1> SUFFICES ASSUME Init PROVE ClockInv
  BY Zenon
<1>1. \A s \in Speakers : silence[s] = 0
  <2>1. silence = [s \in Speakers |-> 0]
    BY Zenon DEF Init
  <2> QED
    BY <2>1, Zenon
<1>2. \A s \in Speakers : State(s) # "established"
  BY OpeningInit, Zenon DEF State
<1> QED
  BY <1>1, <1>2, Zenon DEF ClockInv

LEMMA ClockNext == TypeInv /\ ClockInv /\ [Next]_vars => ClockInv'
<1> SUFFICES ASSUME TypeInv, ClockInv, [Next]_vars
             PROVE  ClockInv'
  BY Zenon
<1>1. ASSUME UNCHANGED <<speaker, silence>>, mute \subseteq mute'
      PROVE  ClockInv'
  BY <1>1, Zenon DEF ClockInv, State, Hold
<1>2. ASSUME NEW s \in Speakers, Stall(s) \/ GoMute(s) \/ MuteRead(s) \/ MuteRefresh(s)
      PROVE  ClockInv'
  <2>1. UNCHANGED <<speaker, silence>>
    BY <1>2, Zenon DEF Stall, GoMute, MuteRead, MuteRefresh, history
  <2>2. mute \subseteq mute'
    BY <1>2, Zenon DEF Stall, GoMute, MuteRead, MuteRefresh, faults
  <2> QED
    BY <1>1, <2>1, <2>2, Zenon
<1>3. CASE UNCHANGED vars
  BY <1>1, <1>3, Zenon DEF vars, faults, history
<1> QED
  BY <1>2, <1>3, ClockStep, ClockRead, ClockTick, Zenon DEF Next, Step

LEMMA ClockInvariant == Spec => [](TypeInv /\ FlowInv /\ ClockInv)
  BY TypeInit, TypeNext, FlowInit, FlowNext, ClockInit, ClockNext, PTL DEF Spec

(* For every hold time and buffer, a session outlives the hold time        *)
(* without a whole KEEPALIVE or UPDATE only while a ROUTE-REFRESH is there *)
(* to be read: receive() restarts its timer on nothing else, and looks at  *)
(* it as soon as there is nothing to read.                                 *)
THEOREM SilenceEndsSession == Spec => OnlyFloodOutlivesHold
<1>1. TypeInv /\ ClockInv /\ [Next]_vars =>
          [\A s \in Speakers : Timed(s) /\ silence[s] >= Hold(s) /\ Tick => Flooded(s)]_vars
  <2> SUFFICES ASSUME TypeInv, ClockInv, Tick, NEW s \in Speakers,
                      Timed(s), silence[s] >= Hold(s)
               PROVE  Flooded(s)
    BY Zenon
  <2>1. State(s) = "established" /\ Hold(s) # 0 /\ s \notin mute /\ ~Due(s)
    BY Zenon DEF Timed, Tick
  <2>2. silence[s] \in Nat /\ speaker[s].timer \in Nat /\ Hold(s) \in Nat
    BY DEF TypeInv, Records, Sessions, NoSession, Hold
  <2>3. speaker[s].timer = 0
    BY <2>1, <2>2 DEF ClockInv
  <2>4. Expired(s) /\ Reading(s)
    BY <2>1, <2>3, Zenon DEF Expired, Reading
  <2>5. ~Blocked(s) /\ ~Ended(s)
    BY <2>1, <2>4, Zenon DEF Due
  <2>6. Readable(s)
    BY <2>1, <2>5, Zenon DEF Blocked
  <2> QED
    BY <2>1, <2>4, <2>6, Zenon DEF Due
<1> QED
  BY <1>1, ClockInvariant, PTL DEF Spec, OnlyFloodOutlivesHold

(***************************************************************************)
(* The pace of KEEPALIVEs while nobody is mute: as long as the network     *)
(* delivers, a speaker's silence and the time to the neighbor's next       *)
(* KEEPALIVE add up to no more than one interval.                          *)
(***************************************************************************)

(* The ticks of silence at which the network delivered everything. *)
Quiet(s) == silence[s] - lost[s]

PaceInv ==
    mute = {} =>
        \A s \in Speakers :
            (State(s) = "established" /\ Hold(s) # 0) =>
                /\ Quiet(s) <= keepalive(Hold(s))
                /\ Confirming(Other(s)) => Quiet(s) = 0
                /\ (State(Other(s)) = "established" /\ Stream(Other(s)) = <<>>) =>
                    Quiet(s) + speaker[Other(s)].keepalive <= keepalive(Hold(s))

(* Nobody is established before the other has read its OPEN. *)
LEMMA StagesClose ==
  ASSUME FlowInv, NEW s \in Speakers, Alive(s), Alive(Other(s)), Stage(s) = 1
  PROVE  Stage(Other(s)) # 3
<1>1. Flows(s)
  BY TwoSpeakers, Zenon DEF FlowInv
<1>2. PICK F \in Seq(Kinds) : InOrder(1, Stage(Other(s)), F)
  BY <1>1, Zenon DEF Flows
<1> QED
  BY <1>2 DEF InOrder

(* A step of s, judged by what it does to its own silence and pace. *)
LEMMA PaceKeeps ==
  ASSUME TypeInv, PaceInv, NEW s \in Speakers, NEW y \in Records, Become(s, y),
         UNCHANGED mute,
         silence'[Other(s)] = silence[Other(s)], lost'[Other(s)] = lost[Other(s)],
         mute = {} /\ State(Other(s)) = "established" /\ Hold(Other(s)) # 0 =>
             /\ y.state \in {"confirmsend", "openconfirm"} => Quiet(Other(s)) = 0
             /\ y.state = "established" /\ Stream(s)' = <<>> =>
                 Quiet(Other(s)) + y.keepalive <= keepalive(Hold(Other(s))),
         mute = {} /\ y.state = "established" /\ y.n.hold # 0 =>
             /\ Quiet(s)' <= keepalive(y.n.hold)
             /\ Confirming(Other(s)) => Quiet(s)' = 0
             /\ State(Other(s)) = "established" /\ Stream(Other(s))' = <<>> =>
                 Quiet(s)' + speaker[Other(s)].keepalive <= keepalive(y.n.hold)
  PROVE  PaceInv'
<1> DEFINE o == Other(s)
<1>1. o \in Speakers /\ o # s /\ Other(o) = s /\ Speakers = {s, o}
  BY TwoSpeakers, Zenon
<1>2. speaker'[s] = y /\ speaker'[o] = speaker[o]
  BY <1>1, Zenon DEF Become, TypeInv
<1>3. /\ State(s)' = y.state /\ Hold(s)' = y.n.hold
      /\ State(o)' = State(o) /\ Hold(o)' = Hold(o) /\ Quiet(o)' = Quiet(o)
      /\ Confirming(s)' <=> y.state \in {"confirmsend", "openconfirm"}
      /\ Confirming(o)' <=> Confirming(o)
  BY <1>2, Zenon DEF State, Hold, Quiet, Confirming
<1>4. ASSUME mute = {}, State(s)' = "established", Hold(s)' # 0
      PROVE  /\ Quiet(s)' <= keepalive(Hold(s)')
             /\ Confirming(o)' => Quiet(s)' = 0
             /\ (State(o)' = "established" /\ Stream(o)' = <<>>) =>
                 Quiet(s)' + speaker'[o].keepalive <= keepalive(Hold(s)')
  BY <1>2, <1>3, <1>4, Zenon
<1>5. ASSUME mute = {}, State(o)' = "established", Hold(o)' # 0
      PROVE  /\ Quiet(o)' <= keepalive(Hold(o)')
             /\ Confirming(s)' => Quiet(o)' = 0
             /\ (State(s)' = "established" /\ Stream(s)' = <<>>) =>
                 Quiet(o)' + speaker'[s].keepalive <= keepalive(Hold(o)')
  BY <1>1, <1>2, <1>3, <1>5, Zenon DEF PaceInv
<1> QED
  BY <1>1, <1>4, <1>5, Zenon DEF PaceInv

(* The streams and Quiet as the integers and sequences they are. *)
LEMMA PaceTypes ==
  ASSUME TypeInv, NEW s \in Speakers
  PROVE  /\ Stream(s) \in Seq(Halves) /\ Quiet(s) \in Nat /\ speaker[s].keepalive \in Nat
         /\ silence[s] = 0 => Quiet(s) = 0
         /\ Stream(s) = <<>> => chan[s] = <<>> /\ speaker[s].out = <<>>
<1>1. /\ chan[s] \in Seq(Halves) /\ speaker[s].out \in Seq(Halves)
      /\ speaker[s].keepalive \in Nat
  BY Zenon DEF TypeInv, Records
<1>2. Quiet(s) \in Nat /\ (silence[s] = 0 => Quiet(s) = 0)
  BY DEF TypeInv, Quiet
<1>3. /\ Stream(s) \in Seq(Halves) /\ Len(Stream(s)) = Len(chan[s]) + Len(speaker[s].out)
      /\ Len(chan[s]) \in Nat /\ Len(speaker[s].out) \in Nat
  BY <1>1, ConcatHalves, Zenon DEF Stream
<1>4. ASSUME Stream(s) = <<>>
      PROVE  chan[s] = <<>> /\ speaker[s].out = <<>>
  <2> DEFINE a == Len(chan[s])
             b == Len(speaker[s].out)
  <2>1. a \in Nat /\ b \in Nat /\ a + b = 0
    BY <1>3, <1>4, Zenon
  <2> HIDE DEF a, b
  <2>2. a = 0 /\ b = 0
    BY <2>1
  <2> QED
    BY <1>1, <2>2, EmptySeq, Zenon DEF a, b
<1> QED
  BY <1>1, <1>2, <1>3, <1>4, Zenon

LEMMA PaceWrite ==
  ASSUME TypeInv, PaceInv, NEW s \in Speakers, Write(s)
  PROVE  PaceInv'
<1> DEFINE x == speaker[s]
           k == Min({Space(s), Len(x.out)})
           y == Written(s, k)
           o == Other(s)
<1>1. k \in 1..Len(x.out) /\ x \in Records /\ x.out \in Seq(Halves) /\ chan[s] \in Seq(Halves)
  BY WriteAmount, Zenon DEF TypeInv, Records
<1>2. /\ chan' = [chan EXCEPT ![s] = @ \o SubSeq(x.out, 1, k)]
      /\ Become(s, y) /\ UNCHANGED <<mute, silence, lost>>
  BY Zenon DEF Write, faults, history
<1> HIDE DEF k
<1>3. /\ y \in Records /\ AfterWrite(x, y)
      /\ y.out = SubSeq(x.out, k + 1, Len(x.out))
  BY <1>1, WrittenRecord, Zenon
<1> HIDE DEF y
<1>4. o \in Speakers /\ o # s /\ Other(o) = s
  BY TwoSpeakers, Zenon
<1>5. /\ speaker'[s] = y /\ speaker'[o] = speaker[o] /\ chan'[o] = chan[o]
      /\ chan'[s] = chan[s] \o SubSeq(x.out, 1, k)
  BY <1>2, <1>4, Zenon DEF Become, TypeInv
<1>6. Stream(o)' = Stream(o) /\ Quiet(s)' = Quiet(s)
  BY <1>2, <1>5, Zenon DEF Stream, Quiet
<1>7. Stream(s)' # <<>>
  <2>1. (chan[s] \o SubSeq(x.out, 1, k)) \o SubSeq(x.out, k + 1, Len(x.out)) = chan[s] \o x.out
    BY <1>1, WriteStream, Zenon
  <2>2. Stream(s)' = Stream(s)
    BY <1>3, <1>5, <2>1, Zenon DEF Stream
  <2>3. x.out # <<>>
    BY <1>1
  <2> QED
    BY <2>2, <2>3, PaceTypes, Zenon
<1>8. /\ y.state \in {"confirmsend", "openconfirm"} => Confirming(s)
      /\ y.state = "established" => State(s) = "established" /\ y.n.hold = Hold(s)
  BY <1>3, Zenon DEF AfterWrite, Confirming, State, Hold
<1> QED
  BY <1>2, <1>3, <1>4, <1>6, <1>7, <1>8, PaceKeeps, Zenon DEF PaceInv

LEMMA PaceSend ==
  ASSUME TypeInv, PaceInv, NEW s \in Speakers, SendKeepalive(s) \/ SendUpdate(s)
  PROVE  PaceInv'
<1> DEFINE o == Other(s)
<1>1. PICK k \in {"KEEPALIVE", "UPDATE"} :
          Become(s, Sending(speaker[s], k, Peer(s).write_timeout_secs))
  BY Zenon DEF SendKeepalive, SendUpdate
<1>2. State(s) = "established" /\ UNCHANGED <<chan, mute, silence, lost>>
  BY Zenon DEF SendKeepalive, SendUpdate, KeepaliveDue, faults, history
<1>3. k \in Kinds /\ speaker[s] \in Records /\ Peer(s).write_timeout_secs \in Nat
  BY ValidSettings, Zenon DEF TypeInv, Kinds
<1> DEFINE y == Sending(speaker[s], k, Peer(s).write_timeout_secs)
<1>4. y \in Records /\ y.state = "established" /\ y.out = Frame(k) /\ y.n = speaker[s].n
  BY <1>2, <1>3, SendingRecord, Zenon DEF State
<1>5. Become(s, y)
  BY <1>1, Zenon
<1> HIDE DEF y
<1>6. o \in Speakers /\ o # s
  BY TwoSpeakers, Zenon
<1>7. speaker'[s] = y /\ speaker'[o] = speaker[o]
  BY <1>5, <1>6, Zenon DEF Become, TypeInv
<1>8. Stream(o)' = Stream(o) /\ Quiet(s)' = Quiet(s) /\ y.n.hold = Hold(s)
  BY <1>2, <1>4, <1>7, Zenon DEF Stream, Quiet, Hold
<1>9. Stream(s)' # <<>>
  <2>1. Stream(s)' = chan[s] \o Frame(k)
    BY <1>2, <1>4, <1>7, Zenon DEF Stream
  <2>2. chan[s] \in Seq(Halves) /\ Frame(k) \in Seq(Halves) /\ Len(Frame(k)) = 2
    BY <1>3, FrameHalves, Zenon DEF TypeInv
  <2>3. Len(chan[s] \o Frame(k)) = Len(chan[s]) + 2 /\ Len(chan[s]) \in Nat
    BY <2>2, ConcatHalves
  <2> QED
    BY <2>1, <2>3
<1> QED
  BY <1>2, <1>4, <1>5, <1>6, <1>8, <1>9, PaceKeeps, Zenon DEF PaceInv

LEMMA PaceEnd ==
  ASSUME TypeInv, PaceInv, NEW s \in Speakers, WriteDeadline(s) \/ Lose(s) \/ Expire(s)
  PROVE  PaceInv'
<1>1. /\ Become(s, Closed) \/ Report(s)
      /\ UNCHANGED <<mute, silence, lost>>
  BY Zenon DEF WriteDeadline, Lose, Expire, faults, history
<1>2. PICK y \in Records : Become(s, y) /\ Ending(y)
  BY <1>1, ClosedRecord, ReportEffect, Zenon DEF Ending
<1> QED
  BY <1>1, <1>2, PaceKeeps, Zenon DEF Ending

LEMMA PaceRead ==
  ASSUME TypeInv, FlowInv, ClockInv, PaceInv, NEW s \in Speakers, Read(s)
  PROVE  PaceInv'
<1> DEFINE x == speaker[s]
           o == Other(s)
           k == chan[o][1][1]
<1>1. o \in Speakers /\ o # s /\ Other(o) = s
  BY TwoSpeakers, Zenon
<1>2. /\ Len(chan[o]) >= 2 /\ State(s) \in {"opensent", "openconfirm", "established"}
      /\ chan' = [chan EXCEPT ![o] = SubSeq(@, 3, Len(@))] /\ UNCHANGED mute
  BY Zenon DEF Read, Readable, Reading, faults
<1>3. PICK y \in Records : /\ Become(s, y)
                           /\ \/ Ending(y) /\ UNCHANGED history
                              \/ Handled(s, k, y)
  BY ReadTypes, Zenon
<1>4. /\ speaker'[s] = y /\ speaker'[o] = speaker[o] /\ chan'[s] = chan[s]
  BY <1>1, <1>2, <1>3, Zenon DEF Become, TypeInv
<1>5. silence'[o] = silence[o] /\ lost'[o] = lost[o]
  BY <1>1, <1>3, Zenon DEF Handled, history, TypeInv
<1>6. State(o) = "established" => speaker[o].keepalive <= keepalive(Hold(o))
  BY <1>1, Zenon DEF ClockInv
<1>7. Alive(s) /\ (Alive(o) => Flows(o))
  <2>1. Alive(s)
    BY <1>2, Zenon DEF Alive
  <2> QED
    BY <2>1, TwoSpeakers, Zenon DEF FlowInv
<1> HIDE DEF k
<1>8. CASE Ending(y)
  BY <1>2, <1>3, <1>5, <1>8, PaceKeeps, Zenon DEF Ending
<1>9. CASE State(s) = "opensent" /\ y.state = "confirmsend"
  <2>1. State(o) # "established"
    <3>1. Stage(s) = 1
      BY <1>9, Zenon DEF Stage, Opening
    <3>2. State(o) = "established" => Alive(o) /\ Stage(o) = 3
      BY Zenon DEF Alive, Stage, Opening, Confirming
    <3> QED
      BY <1>7, <3>1, <3>2, StagesClose, Zenon
  <2> QED
    BY <1>2, <1>3, <1>5, <1>9, <2>1, PaceKeeps, Zenon
<1>10. CASE /\ State(s) = "openconfirm" /\ y.state = "established" /\ y.n = x.n
            /\ y.keepalive = keepalive(Hold(s)) /\ UNCHANGED history
  <2>1. Negotiated(s) /\ Confirming(s)
    BY <1>10, Zenon DEF Negotiated, Confirming
  <2>2. State(o) = "established" =>
            /\ Hold(s) = Hold(o) /\ keepalive(Hold(o)) \in Nat
    BY <1>1, <2>1, HoldTimes, Zenon
  <2>3. Quiet(s) = 0 /\ Quiet(s)' = Quiet(s)
    <3>1. silence[s] = 0
      BY <1>10, Zenon DEF ClockInv
    <3> QED
      BY <1>10, <3>1, PaceTypes, Zenon DEF Quiet, history
  <2>4. mute = {} /\ State(o) = "established" /\ Hold(o) # 0 => Quiet(o) = 0
    BY <1>1, <2>1, Zenon DEF PaceInv
  <2>5. y.n.hold = Hold(s) /\ Hold(s) \in Nat /\ keepalive(Hold(s)) \in Nat
    <3>1. y.n.hold = Hold(s) /\ Hold(s) \in Nat
      BY <1>10 DEF Hold, TypeInv, Records, Sessions, NoSession
    <3> QED
      BY <3>1, KeepaliveInterval, Zenon
  <2>6. speaker[o].keepalive \in Nat
    BY <1>1, PaceTypes, Zenon
  <2> QED
    BY <1>2, <1>3, <1>5, <1>6, <1>10, <2>2, <2>3, <2>4, <2>5, <2>6, PaceKeeps
<1>11. ASSUME State(s) = "established", y.state = "established", y.n = x.n,
              y.keepalive = x.keepalive, y.out = x.out,
              mute = {} /\ Alive(o) => Quiet(s)' = 0,
              Quiet(s)' <= Quiet(s), Quiet(s)' \in Nat
       PROVE  PaceInv'
  <2>1. Stream(s)' = Stream(s) /\ y.n.hold = Hold(s) /\ Hold(s) \in Nat
        /\ keepalive(Hold(s)) \in Nat
    BY <1>4, <1>11, HoldTimes, Zenon DEF Stream, Hold
  <2>2. State(o) = "established" => Hold(o) = Hold(s) /\ Alive(o)
    BY <1>1, <1>11, HoldTimes, Zenon DEF Negotiated, Alive
  <2>3. Confirming(o) => Alive(o)
    BY Zenon DEF Confirming, Alive
  <2>4. speaker[o].keepalive \in Nat /\ Quiet(s) \in Nat
    BY <1>1, PaceTypes, Zenon
  <2>5. mute = {} /\ Hold(s) # 0 => Quiet(s)' <= keepalive(Hold(s))
    BY <1>11, <2>1, <2>4 DEF PaceInv
  <2>6. mute = {} /\ State(o) = "established" => Quiet(s)' + speaker[o].keepalive <= keepalive(Hold(s))
    BY <1>6, <1>11, <2>2, <2>4
  <2>7. mute = {} /\ State(o) = "established" /\ Hold(o) # 0 /\ Stream(s)' = <<>> =>
            Quiet(o) + y.keepalive <= keepalive(Hold(o))
    BY <1>1, <1>11, <2>1, Zenon DEF PaceInv
  <2> QED
    BY <1>2, <1>3, <1>5, <1>11, <2>1, <2>3, <2>5, <2>6, <2>7, PaceKeeps, Zenon
<1>12. CASE /\ State(s) = "established" /\ y.state = "established" /\ y.n = x.n /\ y.out = x.out
            /\ y.keepalive = x.keepalive
            /\ silence' = [silence EXCEPT ![s] = 0] /\ lost' = [lost EXCEPT ![s] = 0]
  <2>1. Quiet(s)' = 0
    BY <1>12 DEF Quiet, TypeInv
  <2>2. Quiet(s) \in Nat
    BY PaceTypes, Zenon
  <2> QED
    BY <1>11, <1>12, <2>1, <2>2
<1>13. CASE State(s) = "established" /\ k = "ROUTE-REFRESH" /\ y = x /\ UNCHANGED history
  <2>1. ~(mute = {} /\ Alive(o))
    <3>1. Stage(s) = 3
      BY <1>13, Zenon DEF Stage, Opening, Confirming
    <3> QED
      BY <1>1, <1>2, <1>7, <1>13, <3>1, FirstFrame, Zenon DEF k
  <2>2. Quiet(s)' = Quiet(s) /\ Quiet(s) \in Nat
    BY <1>13, PaceTypes, Zenon DEF Quiet, history
  <2>3. y.state = "established"
    BY <1>13, Zenon DEF State
  <2> QED
    BY <1>11, <1>13, <2>1, <2>2, <2>3
<1> QED
  BY <1>3, <1>8, <1>9, <1>10, <1>12, <1>13, Zenon DEF Handled

(* When time passes and the network delivers, an established speaker that  *)
(* waits has a neighbor that is established too, has nothing under way and *)
(* counts down to its next KEEPALIVE.                                      *)
LEMMA QuietNeighbor ==
  ASSUME TypeInv, FlowInv, mute = {}, stalled = {}, \A r \in Speakers : ~Due(r),
         NEW s \in Speakers, State(s) = "established", Hold(s) # 0
  PROVE  /\ State(Other(s)) = "established" /\ Stream(Other(s)) = <<>>
         /\ speaker[Other(s)].keepalive > 0
<1> DEFINE o == Other(s)
<1>1. o \in Speakers /\ o # s /\ Other(o) = s /\ Speakers = {s, o}
  BY TwoSpeakers, Zenon
<1>2. /\ chan[s] \in Seq(Halves) /\ chan[o] \in Seq(Halves)
      /\ speaker[s].out \in Seq(Halves) /\ speaker[o].out \in Seq(Halves)
      /\ Len(chan[s]) \in Nat /\ Len(chan[o]) \in Nat /\ speaker[o].keepalive \in Nat
      /\ BufferCap \in Nat \ {0, 1}
  BY <1>1, SessionAssumption DEF TypeInv, Records
<1>3. Len(chan[o]) < 2 /\ State(o) # "closed"
  <2>1. ~(Readable(s) \/ Ended(s))
    BY Zenon DEF Due, Reading, Flooded
  <2> QED
    BY <1>2, <2>1 DEF Readable, Ended
<1>4. speaker[o].out = <<>>
  <2>1. Space(o) > 0
    BY <1>2, <1>3 DEF Space
  <2> QED
    BY <1>1, <2>1, Zenon DEF Due
<1>5. State(o) \notin {"opensend", "confirmsend", "notify"}
  BY <1>1, <1>4, Zenon DEF FlowInv
<1>6. Alive(s) /\ Alive(o) /\ Stage(s) = 3
  BY <1>3, <1>5, Zenon DEF Alive, Stage, Opening, Confirming
<1>7. Flows(s) /\ Flows(o)
  BY <1>1, <1>6, Zenon DEF FlowInv
<1>8. Len(chan[s]) < 2 \/ ~Reading(o)
  <2>1. ~(Reading(o) /\ Readable(o))
    BY <1>1, Zenon DEF Due, Flooded
  <2> QED
    BY <1>1, <1>2, <2>1 DEF Readable
<1>9. speaker[s].out = <<>> \/ ~Reading(o)
  <2>1. Len(chan[s]) < 2 => Space(s) > 0
    BY <1>2 DEF Space
  <2> QED
    BY <1>8, <2>1, Zenon DEF Due
<1>10. State(o) # "opensent"
  <2>1. State(o) = "opensent" => Stage(o) = 1
    BY Zenon DEF Stage, Opening
  <2> QED
    BY <1>1, <1>6, <2>1, StagesClose, Zenon
<1>11. State(o) # "openconfirm"
  <2> SUFFICES ASSUME State(o) = "openconfirm" PROVE FALSE
    BY Zenon
  <2>1. Reading(o) /\ Stage(o) = 2
    BY Zenon DEF Reading, Stage, Opening, Confirming
  <2>2. PICK F \in Seq(Kinds) : Carries(Stream(s), F) /\ InOrder(3, 2, F)
    BY <1>6, <1>7, <2>1, Zenon DEF Flows
  <2>3. Len(F) \in Nat /\ Len(F) >= 1 /\ Len(Stream(s)) = 2 * Len(F)
    BY <2>2 DEF InOrder, Carries
  <2>4. Stream(s) = chan[s]
    BY <1>2, <1>9, <2>1, ConcatEmptySeq, Zenon DEF Stream
  <2> QED
    BY <1>2, <1>8, <2>1, <2>3, <2>4
<1>12. State(o) = "established"
  <2>1. State(o) \in States
    BY <1>1, Zenon DEF TypeInv, Records, State
  <2> QED
    BY <1>3, <1>5, <1>10, <1>11, <2>1, Zenon DEF States
<1>13. Stream(o) = <<>>
  <2>1. PICK F \in Seq(Kinds) : Carries(Stream(o), F)
    BY <1>7, Zenon DEF Flows
  <2>2. Stream(o) = chan[o]
    BY <1>2, <1>4, ConcatEmptySeq, Zenon DEF Stream
  <2>3. Len(F) \in Nat /\ Len(chan[o]) = 2 * Len(F)
    BY <2>1, <2>2 DEF Carries
  <2>4. Len(chan[o]) = 0
    BY <1>2, <1>3, <2>3
  <2> QED
    BY <1>2, <2>2, <2>4, EmptySeq, Zenon
<1>14. speaker[o].keepalive # 0
  <2>1. Hold(o) = Hold(s)
    BY <1>12, HoldTimes, Zenon DEF Negotiated
  <2>2. ~KeepaliveDue(o)
    BY <1>1, Zenon DEF Due
  <2> QED
    BY <1>4, <1>12, <2>1, <2>2, Zenon DEF KeepaliveDue
<1> QED
  BY <1>2, <1>12, <1>13, <1>14

LEMMA PaceTick ==
  ASSUME TypeInv, FlowInv, ClockInv, PaceInv, Tick
  PROVE  PaceInv'
<1>1. UNCHANGED <<mute, chan>> /\ \A s \in Speakers : ~Due(s)
  BY Zenon DEF Tick, faults
<1> SUFFICES ASSUME mute = {}, NEW s \in Speakers, State(s)' = "established", Hold(s)' # 0
             PROVE  /\ Quiet(s)' <= keepalive(Hold(s)')
                    /\ Confirming(Other(s))' => Quiet(s)' = 0
                    /\ (State(Other(s))' = "established" /\ Stream(Other(s))' = <<>>) =>
                        Quiet(s)' + speaker'[Other(s)].keepalive <= keepalive(Hold(s)')
  BY <1>1, Zenon DEF PaceInv
<1> DEFINE o == Other(s)
<1>2. o \in Speakers
  BY TwoSpeakers, Zenon
<1>3. \A r \in Speakers : State(r)' = State(r) /\ Hold(r)' = Hold(r) /\ Stream(r)' = Stream(r)
  BY <1>1, TickEffect, Zenon DEF State, Hold, Stream
<1>4. Confirming(o)' <=> Confirming(o)
  BY <1>2, <1>3, Zenon DEF Confirming
<1>5. State(s) = "established" /\ Hold(s) # 0
  BY <1>3, Zenon
<1>6. /\ Quiet(s) \in Nat /\ speaker[o].keepalive \in Nat /\ keepalive(Hold(s)) \in Nat
      /\ silence[s] \in Nat /\ lost[s] \in Nat
  BY <1>2, <1>5, PaceTypes, HoldTimes, Zenon DEF TypeInv
<1>7. speaker'[o].keepalive = Less(speaker[o].keepalive)
  BY <1>2, TickEffect, Zenon
<1>8. Quiet(s)' = Quiet(s) + (IF stalled = {} THEN 1 ELSE 0)
  <2>1. Timed(s) /\ silence[s] + speaker[s].timer = Hold(s)
    BY <1>5, Zenon DEF Timed, ClockInv
  <2>2. speaker[s].timer # 0
    <3>1. ~(Readable(s) \/ Ended(s))
      BY <1>1, <1>5, Zenon DEF Due, Reading, Flooded
    <3> QED
      BY <1>1, <1>5, <3>1, Zenon DEF Due, Expired, Blocked
  <2>3. speaker[s].timer \in Nat /\ Hold(s) \in Nat
    BY <1>5, HoldTimes, Zenon DEF TypeInv, Records
  <2>4. silence[s] < Hold(s)
    BY <1>6, <2>1, <2>2, <2>3
  <2>5. silence'[s] = silence[s] + 1 /\ lost'[s] = lost[s] + (IF stalled = {} THEN 0 ELSE 1)
    BY <2>1, <2>4, TickEffect, Zenon
  <2> QED
    BY <1>6, <2>5 DEF Quiet
<1>9. /\ Quiet(s) <= keepalive(Hold(s))
      /\ Confirming(o) => Quiet(s) = 0
      /\ (State(o) = "established" /\ Stream(o) = <<>>) =>
          Quiet(s) + speaker[o].keepalive <= keepalive(Hold(s))
  BY <1>5, Zenon DEF PaceInv
<1>10. CASE stalled # {}
  BY <1>2, <1>3, <1>4, <1>6, <1>7, <1>8, <1>9, <1>10 DEF Less
<1>11. CASE stalled = {}
  <2>1. State(o) = "established" /\ Stream(o) = <<>> /\ speaker[o].keepalive > 0
    BY <1>1, <1>5, <1>11, QuietNeighbor, Zenon
  <2>2. ~Confirming(o)
    BY <2>1, Zenon DEF Confirming
  <2> QED
    BY <1>3, <1>4, <1>6, <1>7, <1>8, <1>9, <1>11, <2>1, <2>2 DEF Less
<1> QED
  BY <1>10, <1>11, Zenon

LEMMA PaceInit == Init => PaceInv
<1> SUFFICES ASSUME Init PROVE PaceInv
  BY Zenon
<1>1. \A s \in Speakers : State(s) # "established"
  BY OpeningInit, Zenon DEF State
<1> QED
  BY <1>1, Zenon DEF PaceInv

LEMMA PaceNext ==
  TypeInv /\ FlowInv /\ ClockInv /\ PaceInv /\ [Next]_vars => PaceInv'
<1> SUFFICES ASSUME TypeInv, FlowInv, ClockInv, PaceInv, [Next]_vars
             PROVE  PaceInv'
  BY Zenon
<1>1. ASSUME UNCHANGED <<speaker, chan, mute, silence, lost>>
      PROVE  PaceInv'
  <2>1. \A r \in Speakers : /\ State(r)' = State(r) /\ Hold(r)' = Hold(r)
                            /\ Stream(r)' = Stream(r) /\ Quiet(r)' = Quiet(r)
    BY <1>1, Zenon DEF State, Hold, Stream, Quiet
  <2>2. \A r \in Speakers : Other(r) \in Speakers
    BY TwoSpeakers, Zenon
  <2>3. \A r \in Speakers : Confirming(r)' <=> Confirming(r)
    BY <2>1, Zenon DEF Confirming
  <2> QED
    BY <1>1, <2>1, <2>2, <2>3, Zenon DEF PaceInv
<1>2. ASSUME NEW s \in Speakers, Stall(s)
      PROVE  PaceInv'
  BY <1>1, <1>2, Zenon DEF Stall, history
<1>3. ASSUME NEW s \in Speakers, GoMute(s) \/ MuteRead(s) \/ MuteRefresh(s)
      PROVE  PaceInv'
  <2>1. mute' # {}
    BY <1>3, Zenon DEF GoMute, MuteRead, MuteRefresh, faults
  <2> QED
    BY <2>1, Zenon DEF PaceInv
<1>4. CASE UNCHANGED vars
  BY <1>1, <1>4, Zenon DEF vars, faults, history
<1> QED
  BY <1>2, <1>3, <1>4, PaceWrite, PaceSend, PaceEnd, PaceRead, PaceTick DEF Next, Step

LEMMA PaceInvariant == Spec => [](TypeInv /\ FlowInv /\ ClockInv /\ PaceInv)
  BY TypeInit, TypeNext, FlowInit, FlowNext, ClockInit, ClockNext, PaceInit, PaceNext, PTL DEF Spec

(* Whatever hold time is negotiated, the hold timer runs out on a neighbor *)
(* that has not gone mute only after the network held data back for two    *)
(* thirds of it: updates and blocked writes never starve the KEEPALIVEs of *)
(* transmit().                                                             *)
THEOREM WorkingSessionsStayUp == Spec => []HoldExpiryNeedsStall
<1>1. TypeInv /\ ClockInv /\ PaceInv => HoldExpiryNeedsStall
  <2> SUFFICES ASSUME TypeInv, ClockInv, PaceInv, mute = {}, NEW s \in Speakers,
                      State(s) = "established", Expired(s)
               PROVE  3 * lost[s] >= 2 * Hold(s)
    BY Zenon DEF HoldExpiryNeedsStall
  <2>1. Hold(s) # 0 /\ speaker[s].timer = 0
    BY Zenon DEF Expired
  <2>2. /\ Hold(s) \in Nat /\ keepalive(Hold(s)) \in Nat
        /\ 3 * keepalive(Hold(s)) <= Hold(s)
    BY <2>1, HoldTimes, Zenon
  <2>3. silence[s] \in Nat /\ lost[s] \in Nat
    BY Zenon DEF TypeInv
  <2>4. silence[s] = Hold(s)
    BY <2>1, <2>2, <2>3 DEF ClockInv
  <2>5. silence[s] - lost[s] <= keepalive(Hold(s))
    BY <2>1, Zenon DEF PaceInv, Quiet
  <2> QED
    BY <2>2, <2>3, <2>4, <2>5
<1> QED
  BY <1>1, PaceInvariant, PTL
=============================================================================
