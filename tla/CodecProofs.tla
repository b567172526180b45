---------------------------- MODULE CodecProofs ----------------------------
(* The encoder's assertions hold, and the validator answers every UPDATE by *)
(* its worst defect and its own encoder's by none, for every configuration, *)
(* neighbor and message.                                                    *)
EXTENDS Codec, TLAPS

----------------------------------------------------------------------------
(* The encoder *)

(* The octets of the largest prefix of a family. *)
widest == IF v6 THEN 17 ELSE 5

(* What the loop of Plan::next() keeps: the counters are in range, the     *)
(* NLRI take at most the widest encoding per prefix, the next hop that     *)
(* validate() asked for is still there, and the session is the one that    *)
(* parse_open() negotiated.                                                *)
BatchInv ==
    /\ v6 \in BOOLEAN /\ withdraw \in BOOLEAN
    /\ count \in 0..MAX_UPDATE_PREFIXES
    /\ encoded \in Nat /\ encoded <= widest * count
    /\ (IF v6 THEN nh6(me.p) ELSE nh4(me.p)) # {}
    /\ n.asn4 \in BOOLEAN /\ n.internal = ~external
    /\ pc \in {"batch", "encode", "validate", "done"}
    /\ pc = "encode" => count > 0

(* nlri() takes at most an octet more than the address. *)
LEMMA NlriBounded ==
    ASSUME NEW bits \in IF v6 THEN Bits6 ELSE Bits4
    PROVE  nlri(bits) \in Nat /\ nlri(bits) <= widest
<1>1. bits \in Nat /\ bits <= IF v6 THEN 128 ELSE 32
  BY EncodeAssumption
<1> QED
  BY <1>1 DEF nlri, widest

(* validate() leaves every enabled family a next hop, and session()'s      *)
(* link-local address does not touch it.                                   *)
LEMMA BeginHasNextHop ==
    ASSUME NEW x, Begin(x)
    PROVE  (IF v6 THEN nh6(me.p) ELSE nh4(me.p)) # {}
<1>1. me.p = x.p
  BY DEF Begin
<1>2. IF v6 THEN x.p.ipv6 ELSE x.p.ipv4
  BY Zenon DEF Begin, negotiated
<1>3. (x.p.ipv4 => nh4(x.p) # {}) /\ (x.p.ipv6 => nh6(x.p) # {})
  BY Zenon DEF Begin, validate, validate_peer
<1> QED
  BY <1>1, <1>2, <1>3, Zenon

(* Every session begins with an empty batch. *)
LEMMA BeginBatch ==
    ASSUME NEW x, Begin(x), pc \in {"batch", "validate"}
    PROVE  BatchInv
<1>1. (IF v6 THEN nh6(me.p) ELSE nh4(me.p)) # {}
  BY BeginHasNextHop, Zenon
<1>2. v6 \in BOOLEAN /\ withdraw \in BOOLEAN /\ count = 0 /\ encoded = 0
  BY Zenon DEF Begin
<1>3. n.asn4 \in BOOLEAN /\ n.internal = (x.c.asn = x.p.remote_asn)
  BY Zenon DEF Begin, negotiated
<1>4. me.c = x.c /\ me.p = x.p
  BY DEF Begin
<1> QED
  BY <1>1, <1>2, <1>3, <1>4 DEF BatchInv, widest, external, MAX_UPDATE_PREFIXES

(* The actions of the receiver; they leave the encoder's state alone. *)
Receiver ==
    \/ Deliver \/ DeliverMarker \/ RejectFrame \/ Broken \/ Duplicate \/ Discard
    \/ ReadMultiprotocol \/ ReadAttribute \/ ReadUnknown \/ Finish

LEMMA ReceiverLeavesEncoding ==
    ASSUME Receiver
    PROVE  UNCHANGED encoding /\ (pc' = pc \/ pc' \in {"validate", "done"})
  BY Zenon DEF Receiver, Deliver, DeliverMarker, Arrive, RejectFrame, Broken, Duplicate, Discard,
         ReadMultiprotocol, ReadAttribute, ReadUnknown, Finish, Skip, Fail, Done

LEMMA BatchInvInductive == Spec => []BatchInv
<1>1. Init => BatchInv
  <2> SUFFICES ASSUME Init PROVE BatchInv
    BY Zenon
  <2>1. PICK x : Begin(x) /\ pc \in {"batch", "validate"}
    BY Zenon DEF Init, EncodeInit
  <2> QED
    BY <2>1, BeginBatch, Zenon
<1>2. BatchInv /\ [Next]_vars => BatchInv'
  <2> SUFFICES ASSUME BatchInv, [Next]_vars PROVE BatchInv'
    BY Zenon
  <2>1. ASSUME NEW bits \in IF v6 THEN Bits6 ELSE Bits4, Push(bits) PROVE BatchInv'
    <3>1. nlri(bits) \in Nat /\ nlri(bits) <= widest
      BY NlriBounded, Zenon
    <3>2. count' \in 0..MAX_UPDATE_PREFIXES /\ count' = count + 1
      BY <2>1 DEF Push, BatchInv, MAX_UPDATE_PREFIXES
    <3>3. encoded' \in Nat /\ encoded' <= widest' * count'
      <4>1. widest' = widest /\ widest \in {5, 17}
        BY <2>1, Zenon DEF Push, widest, BatchInv
      <4>2. encoded' = encoded + nlri(bits)
        BY <2>1, Zenon DEF Push
      <4>3. count \in Nat /\ encoded \in Nat /\ encoded <= widest * count
        BY DEF BatchInv, MAX_UPDATE_PREFIXES
      <4>4. CASE widest = 5
        BY <3>1, <3>2, <4>1, <4>2, <4>3, <4>4
      <4>5. CASE widest = 17
        BY <3>1, <3>2, <4>1, <4>2, <4>3, <4>5
      <4> QED
        BY <4>1, <4>4, <4>5, Zenon
    <3> QED
      BY <2>1, <3>2, <3>3, Zenon DEF Push, BatchInv, external
  <2>2. CASE Batched
    BY <2>2, Zenon DEF Batched, encoding, BatchInv, widest, external, MAX_UPDATE_PREFIXES
  <2>3. CASE Receiver
    <3>1. UNCHANGED encoding /\ (pc' = pc \/ pc' \in {"validate", "done"})
      BY <2>3, ReceiverLeavesEncoding, Zenon
    <3> QED
      BY <3>1, Zenon DEF encoding, BatchInv, widest, external
  <2>4. CASE UNCHANGED vars
    BY <2>4 DEF vars, encoding, BatchInv, widest, external
  <2> QED
    BY <2>1, <2>2, <2>3, <2>4, Zenon DEF Next, Encoding, EncodeNext, Receiver
<1> QED
  BY <1>1, <1>2, PTL DEF Spec

(* A message with a legal batch is no longer than MAX_MESSAGE, and no      *)
(* shorter than the shortest UPDATE.                                       *)
LEMMA MessageFits ==
    ASSUME BatchInv
    PROVE  /\ mp_length \in Nat /\ mp_length >= 3
           /\ ~withdraw => mp_length >= 5
           /\ update_octets \in Nat /\ update_octets >= 4
           /\ update_octets + 19 <= MAX_MESSAGE
<1>1. count \in 0..200 /\ encoded \in Nat
  BY Zenon DEF BatchInv, MAX_UPDATE_PREFIXES
<1>2. encoded <= (IF v6 THEN 3400 ELSE 1000)
  BY <1>1 DEF BatchInv, widest
<1>3. /\ mp_length \in Nat /\ mp_length <= encoded + 37 /\ mp_length >= 3
      /\ ~withdraw => mp_length >= 5
  BY <1>1 DEF mp_length
<1>4. path_length \in Nat /\ path_length <= 6
  BY DEF path_length
<1>5. attrs_octets \in Nat /\ attrs_octets <= (IF v6 THEN encoded + 41 ELSE 0) + 4 + 9 + 9 + 7 + 7
  BY <1>1, <1>3, <1>4 DEF attrs_octets, attr_octets
<1>6. update_octets \in Nat /\ update_octets >= 4 /\ update_octets + 19 <= 4096
  BY <1>1, <1>2, <1>5 DEF update_octets, BatchInv
<1> QED
  BY <1>3, <1>6 DEF MAX_MESSAGE

(* For every accepted configuration and OPEN, no assertion of update() or  *)
(* frame() fails on a batch that Plan::next() makes.                       *)
THEOREM EncodingIsSafe == Spec => []UpdateNeverPanics
<1>1. BatchInv => UpdateNeverPanics
  <2> SUFFICES ASSUME BatchInv, pc = "encode"
               PROVE  /\ count \in 1..MAX_UPDATE_PREFIXES
                      /\ ~withdraw => (IF v6 THEN nh6(me.p) ELSE nh4(me.p)) # {}
                      /\ update_octets + 19 <= MAX_MESSAGE
    BY Zenon DEF UpdateNeverPanics
  <2>1. update_octets + 19 <= MAX_MESSAGE
    BY MessageFits, Zenon
  <2>2. count \in 1..MAX_UPDATE_PREFIXES
    BY DEF BatchInv, MAX_UPDATE_PREFIXES
  <2> QED
    BY <2>1, <2>2, Zenon DEF BatchInv
<1> QED
  BY <1>1, BatchInvInductive, PTL

----------------------------------------------------------------------------
(* What the verdict on an UPDATE should be *)

(* The set of which Strongest() takes the maximum. *)
Defects(u) ==
    {Valid} \cup {Judgement(u, i) : i \in Whole(u)} \cup CutJudgement(u)
            \cup IF MissingFrom(u) THEN {TreatAsWithdraw} ELSE {}

LEMMA MaxIs ==
    ASSUME NEW S \in SUBSET Nat, NEW m \in S, \A y \in S : y <= m
    PROVE  Max(S) = m
<1>1. PICK x \in S : x = Max(S) /\ \A y \in S : x >= y
  BY Zenon DEF Max
<1> QED
  BY <1>1

LEMMA Severities == Valid = 0 /\ AttributeDiscard = 1 /\ TreatAsWithdraw = 2 /\ Fatal = 3
  BY Zenon DEF Valid, AttributeDiscard, TreatAsWithdraw, Fatal

LEMMA JudgementRange ==
    ASSUME NEW u, NEW i
    PROVE  Judgement(u, i) \in {Valid, AttributeDiscard, TreatAsWithdraw, Fatal}
  BY Zenon DEF Judgement, severity_of

LEMMA DefectsRange ==
    ASSUME NEW u
    PROVE  Defects(u) \subseteq {Valid, AttributeDiscard, TreatAsWithdraw, Fatal}
<1>1. \A i : Judgement(u, i) \in {Valid, AttributeDiscard, TreatAsWithdraw, Fatal}
  BY JudgementRange, Zenon
<1>2. CutJudgement(u) \subseteq {TreatAsWithdraw, Fatal}
  BY Zenon DEF CutJudgement
<1> QED
  BY <1>1, <1>2, Zenon DEF Defects

(* A fatal defect decides whatever else is wrong. *)
LEMMA FatalWins ==
    ASSUME NEW u, Fatal \in Defects(u)
    PROVE  Strongest(u) = Fatal
<1>1. Max(Defects(u)) = Fatal
  BY DefectsRange, Severities, MaxIs
<1> QED
  BY <1>1, Severities, Zenon DEF Strongest, Defects

(* Without one, the worst defect does, if there are routes to withdraw. *)
LEMMA WorstDecides ==
    ASSUME NEW u, ~BadFrame(u), NEW w \in Defects(u), \A y \in Defects(u) : y <= w
    PROVE  Strongest(u) = IF w = TreatAsWithdraw /\ update_prefixes(u) = {} THEN Fatal ELSE w
<1>1. Max(Defects(u)) = w
  BY DefectsRange, Severities, MaxIs
<1> QED
  BY <1>1, Zenon DEF Strongest, Defects

(* Nothing wrong with any part: a valid UPDATE. *)
LEMMA NothingWrong ==
    ASSUME NEW u, ~BadFrame(u), ~MissingFrom(u),
           \A i \in DOMAIN u.attrs : u.attrs[i].cut = "no" /\ Judgement(u, i) = Valid,
           u \in Updates
    PROVE  Strongest(u) = Valid
<1>1. Whole(u) = DOMAIN u.attrs
  BY DEF Whole, Updates
<1>2. CutJudgement(u) = {}
  BY <1>1, Zenon DEF CutJudgement
<1>3. Defects(u) = {Valid}
  BY <1>1, <1>2, Zenon DEF Defects
<1> QED
  BY <1>3, WorstDecides, Severities

----------------------------------------------------------------------------
(* The attribute loop *)

announces(a) == a.kind = 14 /\ a.value \in {"v4", "v6"}

(* The first k attributes were whole, and seen and mp_reach tell of them.  *)
(* No one asks for more than the action.                                   *)
Progress(k) ==
    /\ \A i \in 1..k : message.attrs[i].cut = "no"
    /\ seen = {message.attrs[i].kind : i \in 1..k}
    /\ mp_reach = (\E i \in 1..k : announces(message.attrs[i]))
    /\ action \in {Valid, AttributeDiscard, TreatAsWithdraw}
    /\ \A i \in 1..k : Judgement(message, i) <= action

(* The others are still to be read, and one of the k asked for the action. *)
Unread(k) ==
    /\ Len(left) = Len(message.attrs) - k
    /\ \A i \in 1..Len(left) : left[i] = message.attrs[k + i]
    /\ action = Valid \/ \E i \in 1..k : Judgement(message, i) = action

(* Or the next is cut off, and ended the loop. *)
CutOff(k) ==
    /\ left = <<>> /\ action = TreatAsWithdraw
    /\ k < Len(message.attrs)
    /\ message.attrs[k + 1].cut # "no"
    /\ ~(message.attrs[k + 1].cut = "value" /\ message.attrs[k + 1].kind \in Multiprotocol)

ReadInv == \E k \in 0..Len(message.attrs) : Progress(k) /\ (Unread(k) \/ CutOff(k))

ReceiverType ==
    /\ message \in Updates /\ left \in Seq(Attributes)
    /\ mp_reach \in BOOLEAN /\ own \in BOOLEAN

LoopInv ==
    /\ ReceiverType
    /\ pc \in {"batch", "encode"} =>
        /\ seen = {} /\ mp_reach = FALSE /\ action = Valid /\ own = TRUE
    /\ pc = "validate" => ReadInv
    /\ WorstDefectWins
    /\ RecoveryNamesRoutes

(* The verdict on an attribute depends on the message and the session. *)
LEMMA JudgementOf ==
    ASSUME NEW u, message' = u, UNCHANGED n, NEW i
    PROVE  Judgement(message, i)' = Judgement(u, i)
  BY Zenon DEF Judgement, flags_ok, value_ok, length_ok, Unwanted, validate_path, validate_nlri

LEMMA JudgementKept ==
    ASSUME UNCHANGED <<message, n>>, NEW i
    PROVE  Judgement(message, i)' = Judgement(message, i)
<1>1. PICK u : u = message
  BY Zenon
<1> QED
  BY <1>1, JudgementOf, Zenon

LEMMA StrongestOf ==
    ASSUME NEW u, message' = u, UNCHANGED n
    PROVE  Strongest(message)' = Strongest(u)
<1>1. \A i : Judgement(message, i)' = Judgement(u, i)
  BY JudgementOf, Zenon
<1>2. Defects(message)' = Defects(u)
  <2>1. Whole(message)' = Whole(u)
    BY Zenon DEF Whole
  <2>2. CutJudgement(message)' = CutJudgement(u)
    BY <2>1, Zenon DEF CutJudgement
  <2>3. update_prefixes(message)' = update_prefixes(u)
    BY <2>1, Zenon DEF update_prefixes
  <2>4. MissingFrom(message)' <=> MissingFrom(u)
    BY <2>1, <2>3 DEF MissingFrom
  <2> QED
    BY <1>1, <2>1, <2>2, <2>4, Zenon DEF Defects
<1>3. (BadFrame(message)' <=> BadFrame(u)) /\ update_prefixes(message)' = update_prefixes(u)
  BY Zenon DEF BadFrame, update_prefixes, Whole
<1> QED
  BY <1>2, <1>3, Zenon DEF Strongest, Defects

LEMMA StrongestKept ==
    ASSUME UNCHANGED <<message, n>>
    PROVE  Strongest(message)' = Strongest(message)
<1>1. PICK u : u = message
  BY Zenon
<1> QED
  BY <1>1, StrongestOf, Zenon

(* A message that has just arrived. *)
Arrived ==
    /\ message \in Updates /\ left = message.attrs
    /\ seen = {} /\ mp_reach = FALSE /\ action = Valid

LEMMA ArrivedInv == Arrived => ReadInv
<1> SUFFICES ASSUME Arrived PROVE ReadInv
  BY Zenon
<1>1. Len(message.attrs) \in Nat /\ message.attrs \in Seq(Attributes)
  BY DEF Arrived, Updates
<1>2. 1..0 = {}
  OBVIOUS
<1>3. Progress(0)
  BY <1>2, Zenon DEF Arrived, Progress
<1>4. Unread(0)
  BY <1>1 DEF Arrived, Unread
<1> QED
  BY <1>1, <1>3, <1>4 DEF ReadInv

LEMMA ArrivedNext == Arrived' => ReadInv'
  BY ArrivedInv, PTL

(* What the loop looks at next. *)
LEMMA NextAttribute ==
    ASSUME ReceiverType, NEW k \in 0..Len(message.attrs), left # <<>>, Unread(k) \/ CutOff(k)
    PROVE  /\ Unread(k)
           /\ k + 1 \in 1..Len(message.attrs) /\ DOMAIN message.attrs = 1..Len(message.attrs)
           /\ k \in Nat /\ Len(message.attrs) \in Nat
           /\ attr = message.attrs[k + 1]
           /\ attr \in Attributes
           /\ Tail(left) \in Seq(Attributes)
           /\ Len(Tail(left)) = Len(message.attrs) - (k + 1)
           /\ \A i \in 1..Len(Tail(left)) : Tail(left)[i] = message.attrs[(k + 1) + i]
<1>1. Unread(k)
  BY Zenon DEF CutOff
<1>2. message.attrs \in Seq(Attributes) /\ left \in Seq(Attributes)
  BY Zenon DEF ReceiverType, Updates
<1>3. Len(left) \in Nat /\ Len(left) >= 1 /\ Len(message.attrs) \in Nat
  BY <1>2
<1>4. Len(left) = Len(message.attrs) - k /\ \A i \in 1..Len(left) : left[i] = message.attrs[k + i]
  BY <1>1, Zenon DEF Unread
<1>5. k + 1 \in 1..Len(message.attrs) /\ k \in Nat
  BY <1>3, <1>4
<1>6. attr = left[1] /\ attr = message.attrs[k + 1] /\ attr \in Attributes
  BY <1>2, <1>3, <1>4 DEF attr
<1>7. Tail(left) \in Seq(Attributes) /\ Len(Tail(left)) = Len(left) - 1
  BY <1>2
<1>8. ASSUME NEW i \in 1..Len(Tail(left)) PROVE Tail(left)[i] = message.attrs[(k + 1) + i]
  <2>1. Tail(left)[i] = left[i + 1] /\ i + 1 \in 1..Len(left)
    BY <1>2, <1>3, <1>7
  <2>2. k + (i + 1) = (k + 1) + i
    BY <1>3, <1>5, <1>7
  <2> QED
    BY <1>4, <2>1, <2>2, Zenon
<1> QED
  BY <1>1, <1>2, <1>3, <1>4, <1>5, <1>6, <1>7, <1>8

(* The kinds seen before the next attribute. *)
LEMMA SeenBefore ==
    ASSUME NEW k \in Nat, Progress(k), attr = message.attrs[k + 1]
    PROVE  attr.kind \in seen <=> \E j \in 1..((k + 1) - 1) : message.attrs[j].kind = attr.kind
<1>1. (k + 1) - 1 = k
  OBVIOUS
<1> QED
  BY <1>1, Zenon DEF Progress

(* One more attribute was read, and its judgement counted. *)
LEMMA SkipKeeps ==
    ASSUME ReceiverType, NEW k \in 0..Len(message.attrs), left # <<>>,
           Progress(k), Unread(k) \/ CutOff(k), attr.cut = "no",
           UNCHANGED <<message, n>>, left' = Tail(left),
           action' = AtLeast(Judgement(message, k + 1)), Judgement(message, k + 1) # Fatal,
           seen' = seen \cup {attr.kind},
           mp_reach' = (mp_reach \/ announces(attr))
    PROVE  ReadInv' /\ left' \in Seq(Attributes) /\ mp_reach' \in BOOLEAN
<1> DEFINE J == Judgement(message, k + 1)
<1>1. /\ Unread(k) /\ k \in Nat /\ Len(message.attrs) \in Nat
      /\ k + 1 \in 1..Len(message.attrs) /\ attr = message.attrs[k + 1]
      /\ Tail(left) \in Seq(Attributes)
      /\ Len(Tail(left)) = Len(message.attrs) - (k + 1)
      /\ \A i \in 1..Len(Tail(left)) : Tail(left)[i] = message.attrs[(k + 1) + i]
  BY NextAttribute, Zenon
<1>1a. k + 1 \in 0..Len(message.attrs)
  BY <1>1
<1>2. 1..(k + 1) = 1..k \cup {k + 1}
  BY <1>1
<1>3. J \in {Valid, AttributeDiscard, TreatAsWithdraw}
  BY JudgementRange, Zenon
<1>4. action \in {Valid, AttributeDiscard, TreatAsWithdraw}
  BY Zenon DEF Progress
<1>5. /\ action' \in {Valid, AttributeDiscard, TreatAsWithdraw}
      /\ action <= action' /\ J <= action' /\ (action' = action \/ action' = J)
  BY <1>3, <1>4, Severities DEF AtLeast
<1>6. \A i : Judgement(message, i)' = Judgement(message, i)
  BY JudgementKept, Zenon
<1>7. ASSUME NEW i \in 1..(k + 1) PROVE Judgement(message, i)' <= action'
  <2>1. CASE i = k + 1
    BY <2>1, <1>5, <1>6, Zenon
  <2>2. CASE i \in 1..k
    <3>1. Judgement(message, i) <= action
      BY <2>2, Zenon DEF Progress
    <3>2. Judgement(message, i) \in {Valid, AttributeDiscard, TreatAsWithdraw, Fatal}
      BY JudgementRange, Zenon
    <3> HIDE DEF J
    <3> QED
      BY <3>1, <3>2, <1>4, <1>5, <1>6, Severities
  <2> QED
    BY <2>1, <2>2, <1>2, Zenon
<1>8. seen' = {message'.attrs[i].kind : i \in 1..(k + 1)}
  BY <1>1, <1>2, Zenon DEF Progress
<1>9. mp_reach' = (\E i \in 1..(k + 1) : announces(message'.attrs[i]))
  BY <1>1, <1>2, Zenon DEF Progress
<1>10. \A i \in 1..(k + 1) : message'.attrs[i].cut = "no"
  BY <1>1, <1>2, Zenon DEF Progress
<1>11. Progress(k + 1)'
  BY <1>5, <1>7, <1>8, <1>9, <1>10, Zenon DEF Progress, announces
<1>12. action' = Valid \/ \E i \in 1..(k + 1) : Judgement(message, i)' = action'
  <2>1. CASE action' = J
    BY <2>1, <1>2, <1>6, Zenon
  <2>2. CASE action' = action
    BY <2>2, <1>1, <1>2, <1>6, Zenon DEF Unread
  <2> QED
    BY <2>1, <2>2, <1>5, Zenon
<1>13. Unread(k + 1)'
  BY <1>1, <1>12, Zenon DEF Unread
<1> QED
  BY <1>1, <1>1a, <1>9, <1>11, <1>13, Zenon DEF ReadInv

(* A fatal attribute, or one of two kinds cut off in its value. *)
LEMMA FatalAttribute ==
    ASSUME ReceiverType, NEW k \in 0..Len(message.attrs), left # <<>>,
           Progress(k), Unread(k) \/ CutOff(k),
           \/ attr.cut = "no" /\ Judgement(message, k + 1) = Fatal
           \/ attr.cut = "value" /\ attr.kind \in Multiprotocol
    PROVE  Strongest(message) = Fatal
<1>1. /\ k \in Nat /\ Len(message.attrs) \in Nat /\ attr = message.attrs[k + 1]
      /\ k + 1 \in DOMAIN message.attrs /\ DOMAIN message.attrs = 1..Len(message.attrs)
  BY NextAttribute, Zenon
<1>2. 1..(k + 1) = 1..k \cup {k + 1} /\ 1..k \subseteq DOMAIN message.attrs /\ (k + 1) - 1 = k
  BY <1>1
<1>3. \A i \in 1..k : message.attrs[i].cut = "no" /\ 1..i \subseteq 1..k
  BY <1>1 DEF Progress
<1>4. 1..k \subseteq Whole(message)
  BY <1>2, <1>3, Zenon DEF Whole
<1>5. CASE attr.cut = "no" /\ Judgement(message, k + 1) = Fatal
  <2>1. k + 1 \in Whole(message)
    BY <1>1, <1>2, <1>3, <1>5, Zenon DEF Whole
  <2> QED
    BY <2>1, <1>5, FatalWins, Zenon DEF Defects
<1>6. CASE attr.cut = "value" /\ attr.kind \in Multiprotocol
  <2>1. k + 1 \notin Whole(message)
    BY <1>1, <1>2, <1>6, Zenon DEF Whole
  <2>2. Fatal \in CutJudgement(message)
    BY <1>1, <1>2, <1>4, <1>6, <2>1, Zenon DEF CutJudgement
  <2> QED
    BY <2>2, FatalWins, Zenon DEF Defects
<1> QED
  BY <1>5, <1>6, Zenon

(* The loop has ended: it read what is whole, and an attribute that is cut *)
(* off costs the routes.                                                   *)
LEMMA LoopEnded ==
    ASSUME ReceiverType, NEW k \in 0..Len(message.attrs), left = <<>>,
           Progress(k), Unread(k) \/ CutOff(k)
    PROVE  /\ Whole(message) = 1..k
           /\ \A y \in CutJudgement(message) : y = TreatAsWithdraw /\ action = TreatAsWithdraw
           /\ action \in Defects(message)
<1>1. /\ message.attrs \in Seq(Attributes) /\ Len(message.attrs) \in Nat /\ k \in Nat
      /\ DOMAIN message.attrs = 1..Len(message.attrs)
  BY DEF ReceiverType, Updates
<1>2. 1..(k + 1) = 1..k \cup {k + 1} /\ 1..k \subseteq DOMAIN message.attrs /\ (k + 1) - 1 = k
  BY <1>1
<1>3. \A i \in 1..k : message.attrs[i].cut = "no" /\ 1..i \subseteq 1..k
  BY <1>1 DEF Progress
<1>4. 1..k \subseteq Whole(message)
  BY <1>2, <1>3, Zenon DEF Whole
<1>5. CASE Unread(k)
  <2>1. k = Len(message.attrs)
    BY <1>1, <1>5 DEF Unread
  <2>2. Whole(message) = 1..k
    BY <1>1, <1>4, <2>1, Zenon DEF Whole
  <2>3. CutJudgement(message) = {}
    BY <1>1, <2>1, <2>2, Zenon DEF CutJudgement
  <2>4. action \in Defects(message)
    BY <1>5, <2>2, Zenon DEF Unread, Defects
  <2> QED
    BY <2>2, <2>3, <2>4, Zenon
<1>6. CASE CutOff(k)
  <2>1. /\ k + 1 \in DOMAIN message.attrs /\ message.attrs[k + 1].cut # "no"
        /\ action = TreatAsWithdraw
    BY <1>1, <1>6 DEF CutOff
  <2>2. \A i \in DOMAIN message.attrs : i \in 1..k \/ k + 1 \in 1..i
    BY <1>1
  <2>3. Whole(message) = 1..k
    BY <1>4, <2>1, <2>2, Zenon DEF Whole
  <2>4. \A j \in DOMAIN message.attrs :
            j \notin Whole(message) /\ 1..(j - 1) \subseteq Whole(message) <=> j = k + 1
    <3> SUFFICES ASSUME NEW j \in DOMAIN message.attrs
                 PROVE  j \notin 1..k /\ 1..(j - 1) \subseteq 1..k <=> j = k + 1
      BY <2>3, Zenon
    <3>1. j \in Nat
      BY <1>1
    <3>2. ASSUME j > k + 1 PROVE k + 1 \in 1..(j - 1) /\ k + 1 \notin 1..k
      BY <1>1, <3>1, <3>2
    <3>3. j = k + 1 => j \notin 1..k /\ 1..(j - 1) \subseteq 1..k
      BY <1>1
    <3>4. j \in 1..k \/ j = k + 1 \/ j > k + 1
      BY <1>1, <3>1
    <3> QED
      BY <3>2, <3>3, <3>4, Zenon
  <2>5. CutJudgement(message) = {TreatAsWithdraw}
    BY <1>6, <2>1, <2>4, Zenon DEF CutJudgement, CutOff
  <2> QED
    BY <2>1, <2>3, <2>5, Zenon DEF Defects
<1> QED
  BY <1>5, <1>6, Zenon

(* The routes and the attributes that the loop found are those that        *)
(* update_prefixes() and the reference find.                               *)
LEMMA FoundAll ==
    ASSUME ReceiverType, NEW k \in Nat, Progress(k), Whole(message) = 1..k
    PROVE  /\ reachable <=> update_prefixes(message) # {}
           /\ Missing <=> MissingFrom(message)
<1>1. reachable <=> update_prefixes(message) # {}
  <2>1. mp_reach <=> \E i \in 1..k : announces(message.attrs[i])
    BY Zenon DEF Progress
  <2> QED
    BY <2>1, Zenon DEF reachable, update_prefixes, announces
<1>2. {message.attrs[i].kind : i \in Whole(message)} = seen
  BY Zenon DEF Progress
<1>3. message.tail # "none" => reachable
  BY Zenon DEF reachable
<1>4. CASE reachable
  <2>1. update_prefixes(message) # {}
    BY <1>1, <1>4, Zenon
  <2> QED
    BY <1>1, <1>2, <1>4, <2>1, Zenon DEF Missing, MissingFrom
<1>5. CASE ~reachable
  <2>1. update_prefixes(message) = {} /\ message.tail = "none"
    BY <1>1, <1>3, <1>5, Zenon
  <2> QED
    BY <1>1, <1>5, <2>1, Zenon DEF Missing, MissingFrom
<1> QED
  BY <1>4, <1>5, Zenon

(* What Finish answers is the worst defect. *)
LEMMA FinishCorrect ==
    ASSUME ReceiverType, NEW k \in 0..Len(message.attrs), left = <<>>, ~BadFrame(message),
           Progress(k), Unread(k) \/ CutOff(k)
    PROVE  LET result == IF Missing THEN TreatAsWithdraw ELSE action
           IN  Strongest(message) = IF result = TreatAsWithdraw /\ ~reachable THEN Fatal ELSE result
<1> DEFINE result == IF Missing THEN TreatAsWithdraw ELSE action
<1>1. /\ Whole(message) = 1..k /\ action \in Defects(message)
      /\ \A y \in CutJudgement(message) : y = TreatAsWithdraw /\ action = TreatAsWithdraw
  BY LoopEnded, Zenon
<1>2. k \in Nat
  BY DEF ReceiverType, Updates
<1>3. (reachable <=> update_prefixes(message) # {}) /\ (Missing <=> MissingFrom(message))
  BY <1>1, <1>2, FoundAll, Zenon
<1>4. action \in {Valid, AttributeDiscard, TreatAsWithdraw}
  BY Zenon DEF Progress
<1>5. result \in Defects(message)
  BY <1>1, <1>3, Zenon DEF Defects
<1>6. ASSUME NEW y \in Defects(message) PROVE y <= result
  <2>1. action <= result /\ result <= TreatAsWithdraw /\ Valid <= result
    BY <1>4, Severities
  <2>2. CASE y = Valid
    BY <2>1, <2>2, Zenon
  <2>3. CASE y \in {Judgement(message, i) : i \in Whole(message)}
    <3>1. y <= action
      BY <1>1, <2>3, Zenon DEF Progress
    <3>2. y \in {Valid, AttributeDiscard, TreatAsWithdraw, Fatal}
      BY DefectsRange, Zenon
    <3> QED
      BY <1>4, <3>1, <3>2, Severities
  <2>4. CASE y \in CutJudgement(message)
    BY <1>1, <2>1, <2>4, Zenon
  <2>5. CASE MissingFrom(message) /\ y = TreatAsWithdraw
    BY <1>3, <2>5, Severities
  <2> QED
    BY <2>2, <2>3, <2>4, <2>5, Zenon DEF Defects
<1> HIDE DEF result
<1>7. Strongest(message) = IF result = TreatAsWithdraw /\ update_prefixes(message) = {} THEN Fatal ELSE result
  BY <1>5, <1>6, WorstDecides, Zenon
<1>8. Strongest(message) = IF result = TreatAsWithdraw /\ ~reachable THEN Fatal ELSE result
  BY <1>3, <1>7, Zenon
<1> QED
  BY <1>8, Zenon DEF result

----------------------------------------------------------------------------
(* What update() and end_of_rib() send *)

(* An attribute that the receiver has nothing against. *)
Fine(a) ==
    /\ a.cut = "no" /\ a.kind \in Known /\ ~Unwanted(a.kind)
    /\ flags_ok(a) /\ value_ok(a)

Kinds(s) == {s[i].kind : i \in DOMAIN s}

(* A list of such attributes, of different kinds. *)
Orderly(s) ==
    /\ s \in Seq(Attributes)
    /\ \A i \in DOMAIN s : Fine(s[i])
    /\ \A i, j \in DOMAIN s : s[i].kind = s[j].kind => i = j

LEMMA OnlyOrderly ==
    ASSUME NEW c, NEW a \in Attributes, c => Fine(a)
    PROVE  Orderly(Only(c, a)) /\ Kinds(Only(c, a)) = IF c THEN {a.kind} ELSE {}
<1>1. CASE c
  <2> DEFINE t == <<a>>
  <2>1. Only(c, a) = t
    BY <1>1, Zenon DEF Only
  <2>2. t \in Seq(Attributes) /\ DOMAIN t = {1} /\ t[1] = a
    OBVIOUS
  <2> HIDE DEF t
  <2>3. \A i \in DOMAIN t : i = 1
    BY <2>2, Zenon
  <2>4. Orderly(t)
    BY <1>1, <2>2, <2>3, Zenon DEF Orderly
  <2>5. Kinds(t) = {a.kind}
    BY <2>2, Zenon DEF Kinds
  <2> QED
    BY <1>1, <2>1, <2>4, <2>5, Zenon
<1>2. CASE ~c
  <2>1. Only(c, a) = <<>>
    BY <1>2, Zenon DEF Only
  <2>2. <<>> \in Seq(Attributes) /\ DOMAIN <<>> = {}
    OBVIOUS
  <2> QED
    BY <1>2, <2>1, <2>2, Zenon DEF Orderly, Kinds
<1> QED
  BY <1>1, <1>2, Zenon

LEMMA AppendOrderly ==
    ASSUME NEW s, Orderly(s), NEW c, NEW a \in Attributes,
           c => Fine(a) /\ a.kind \notin Kinds(s)
    PROVE  /\ Orderly(s \o Only(c, a))
           /\ Kinds(s \o Only(c, a)) = Kinds(s) \cup IF c THEN {a.kind} ELSE {}
<1>1. s \in Seq(Attributes) /\ Len(s) \in Nat /\ DOMAIN s = 1..Len(s)
  BY DEF Orderly
<1>2. CASE c
  <2> DEFINE t == s \o <<a>>
  <2>1. Only(c, a) = <<a>>
    BY <1>2, Zenon DEF Only
  <2>2. /\ t \in Seq(Attributes) /\ DOMAIN t = 1..(Len(s) + 1)
        /\ t[Len(s) + 1] = a /\ \A i \in 1..Len(s) : t[i] = s[i]
    BY <1>1
  <2>3. DOMAIN t = DOMAIN s \cup {Len(s) + 1} /\ Len(s) + 1 \notin DOMAIN s
    BY <1>1, <2>2
  <2> DEFINE e == Len(s) + 1
  <2> HIDE DEF t, e
  <2>a. t[e] = a /\ \A i \in DOMAIN t : i = e \/ (i \in DOMAIN s /\ t[i] = s[i])
    BY <1>1, <2>2, <2>3, Zenon DEF e
  <2>b. \A i \in DOMAIN s : s[i].kind # a.kind
    BY <1>2, Zenon DEF Kinds
  <2>4. \A i \in DOMAIN t : Fine(t[i])
    <3> TAKE i \in DOMAIN t
    <3>1. CASE i = e
      BY <1>2, <2>a, <3>1, Zenon
    <3>2. CASE i \in DOMAIN s /\ t[i] = s[i]
      BY <3>2, Zenon DEF Orderly
    <3> QED
      BY <2>a, <3>1, <3>2, Zenon
  <2>5. \A i, j \in DOMAIN t : t[i].kind = t[j].kind => i = j
    <3> SUFFICES ASSUME NEW i \in DOMAIN t, NEW j \in DOMAIN t, t[i].kind = t[j].kind
                 PROVE  i = j
      BY Zenon
    <3>1. CASE i = e
      BY <2>a, <2>b, <3>1, Zenon
    <3>2. CASE j = e
      BY <2>a, <2>b, <3>2, Zenon
    <3>3. CASE i # e /\ j # e
      BY <2>a, <3>3, Zenon DEF Orderly
    <3> QED
      BY <3>1, <3>2, <3>3, Zenon
  <2>6. Kinds(t) = Kinds(s) \cup {a.kind}
    <3>1. ASSUME NEW i \in DOMAIN t PROVE t[i].kind \in Kinds(s) \cup {a.kind}
      BY <2>a, Zenon DEF Kinds
    <3>2. a.kind \in Kinds(t) /\ e \in DOMAIN t
      BY <2>3, <2>a, Zenon DEF Kinds, e
    <3>3. ASSUME NEW i \in DOMAIN s PROVE s[i].kind \in Kinds(t)
      <4>1. i \in DOMAIN t /\ t[i] = s[i]
        BY <1>1, <2>2, <2>3, Zenon
      <4> QED
        BY <4>1, Zenon DEF Kinds
    <3> QED
      BY <3>1, <3>2, <3>3, Zenon DEF Kinds
  <2> QED
    BY <1>2, <2>1, <2>2, <2>4, <2>5, <2>6, Zenon DEF Orderly, t
<1>3. CASE ~c
  <2>1. s \o Only(c, a) = s
    BY <1>1, <1>3 DEF Only
  <2> QED
    BY <1>3, <2>1, Zenon
<1> QED
  BY <1>2, <1>3, Zenon

(* Such a list in a good frame, with the mandatory attributes: valid. *)
LEMMA OrderlyIsValid ==
    ASSUME NEW u \in Updates, Orderly(u.attrs), ~BadFrame(u), ~MissingFrom(u)
    PROVE  Strongest(u) = Valid
<1>1. ASSUME NEW i \in DOMAIN u.attrs
      PROVE  u.attrs[i].cut = "no" /\ Judgement(u, i) = Valid
  <2>1. Fine(u.attrs[i])
    BY Zenon DEF Orderly
  <2>2. u.attrs \in Seq(Attributes) /\ DOMAIN u.attrs = 1..Len(u.attrs) /\ Len(u.attrs) \in Nat
    BY DEF Updates
  <2>3. \A j \in 1..(i - 1) : j \in DOMAIN u.attrs /\ j # i
    BY <2>2
  <2>4. ~\E j \in 1..(i - 1) : u.attrs[j].kind = u.attrs[i].kind
    BY <2>3, Zenon DEF Orderly
  <2>5. CASE u.attrs[i].kind \in Multiprotocol
    BY <2>1, <2>4, <2>5, Zenon DEF Judgement, Fine
  <2>6. CASE u.attrs[i].kind \notin Multiprotocol
    BY <2>1, <2>4, <2>6, Zenon DEF Judgement, Fine
  <2> QED
    BY <2>1, <2>5, <2>6, Zenon DEF Fine
<1> QED
  BY <1>1, NothingWrong, Zenon

(* The mandatory attributes are there if their kinds are. *)
LEMMA Complete ==
    ASSUME NEW u \in Updates, Orderly(u.attrs),
           14 \in Kinds(u.attrs) \/ u.tail # "none" =>
               {1, 2} \subseteq Kinds(u.attrs) /\ (n.internal => 5 \in Kinds(u.attrs)),
           u.tail # "none" => 3 \in Kinds(u.attrs)
    PROVE  ~MissingFrom(u)
<1>1. u.attrs \in Seq(Attributes) /\ DOMAIN u.attrs = 1..Len(u.attrs) /\ Len(u.attrs) \in Nat
  BY DEF Updates
<1>2. \A i \in DOMAIN u.attrs : u.attrs[i].cut = "no" /\ 1..i \subseteq DOMAIN u.attrs
  BY <1>1 DEF Orderly, Fine
<1>3. Whole(u) = DOMAIN u.attrs
  BY <1>2, Zenon DEF Whole
<1>4. {u.attrs[i].kind : i \in Whole(u)} = Kinds(u.attrs)
  BY <1>3, Zenon DEF Kinds
<1>5. update_prefixes(u) # {} => 14 \in Kinds(u.attrs) \/ u.tail # "none"
  BY <1>3, Zenon DEF Kinds, update_prefixes
<1> QED
  BY <1>4, <1>5, Zenon DEF MissingFrom

(* The attributes of update(): each suits the session, none is repeated.   *)
LEMMA UpdateOrderly ==
    ASSUME BatchInv
    PROVE  /\ Orderly(update_attrs)
           /\ Kinds(update_attrs) =
                (IF v6 THEN {IF withdraw THEN 15 ELSE 14} ELSE {})
                \cup IF withdraw THEN {}
                     ELSE {1, 2} \cup (IF needs_as4_path THEN {17} ELSE {})
                                 \cup (IF external THEN {} ELSE {5})
                                 \cup (IF v6 THEN {} ELSE {3})
<1> USE DEF Attribute, wellknown, nontransitive, transitive
<1> DEFINE kind == IF withdraw THEN 15 ELSE 14
           mp == Attribute(nontransitive, kind, mp_length, "v6")
           origin == Attribute(wellknown, 1, 1, "good")
           width == IF ~external THEN "good" ELSE IF n.asn4 THEN "four" ELSE "two"
           path == Attribute(wellknown, 2, path_length, width)
           path4 == Attribute(transitive, 17, 6, "good")
           pref == Attribute(wellknown, 5, 4, "good")
           hop == Attribute(wellknown, 3, 4, "good")
           if1 == ~withdraw
           if17 == ~withdraw /\ needs_as4_path
           if5 == ~withdraw /\ ~external
           if3 == ~withdraw /\ ~v6
           s1 == Only(v6, mp)
           s2 == s1 \o Only(if1, origin)
           s3 == s2 \o Only(if1, path)
           s4 == s3 \o Only(if17, path4)
           s5 == s4 \o Only(if5, pref)
           s6 == s5 \o Only(if3, hop)
<1>1. /\ mp_length \in Nat /\ mp_length >= 3 /\ (~withdraw => mp_length >= 5)
      /\ v6 \in BOOLEAN /\ withdraw \in BOOLEAN /\ n.asn4 \in BOOLEAN /\ n.internal = ~external
  BY MessageFits, Zenon DEF BatchInv
<1>2. path_length \in Nat
  BY Zenon DEF path_length
<1>3. /\ mp \in Attributes /\ origin \in Attributes /\ path \in Attributes
      /\ path4 \in Attributes /\ pref \in Attributes /\ hop \in Attributes
  BY <1>1, <1>2, Zenon DEF Attributes
<1>4. Fine(mp)
  <2>1. /\ mp.kind = kind /\ mp.cut = "no" /\ mp.flags = {"optional"}
        /\ mp.length = mp_length /\ mp.value = "v6"
    BY Zenon
  <2>2. kind \in {14, 15} /\ (kind = 14 => mp_length >= 5)
    BY <1>1
  <2> HIDE DEF mp, kind
  <2>3. flags_ok(mp)
    BY <2>1, <2>2 DEF flags_ok, expected
  <2>4. value_ok(mp)
    BY <1>1, <2>1, <2>2 DEF value_ok, length_ok, Multiprotocol, validate_nlri
  <2> QED
    BY <2>1, <2>2, <2>3, <2>4 DEF Fine, Known, Unwanted
<1>5. Fine(origin)
  <2>1. /\ origin.kind = 1 /\ origin.cut = "no" /\ origin.flags = {"transitive"}
        /\ origin.length = 1 /\ origin.value = "good"
    BY Zenon
  <2> HIDE DEF origin
  <2> QED
    BY <2>1 DEF Fine, Known, Unwanted, flags_ok, expected, value_ok, length_ok, Multiprotocol
<1>6. Fine(path)
  <2>1. /\ path.kind = 2 /\ path.cut = "no" /\ path.flags = {"transitive"}
        /\ path.value = width
    BY Zenon
  <2>2. width \in {"good", IF n.asn4 THEN "four" ELSE "two"}
    BY <1>1, Zenon
  <2> HIDE DEF path, width
  <2>3. flags_ok(path)
    BY <2>1, Zenon DEF flags_ok, expected
  <2>4. value_ok(path)
    BY <2>1, <2>2 DEF value_ok, length_ok, validate_path, Multiprotocol
  <2> QED
    BY <2>1, <2>3, <2>4 DEF Fine, Known, Unwanted
<1>7. needs_as4_path => Fine(path4)
  <2>1. /\ path4.kind = 17 /\ path4.cut = "no" /\ path4.flags = {"optional", "transitive"}
        /\ path4.length = 6 /\ path4.value = "good"
    BY Zenon
  <2> HIDE DEF path4
  <2>2. flags_ok(path4)
    BY <2>1 DEF flags_ok, expected
  <2>3. value_ok(path4)
    BY <2>1 DEF value_ok, length_ok, validate_path, Multiprotocol
  <2> QED
    BY <2>1, <2>2, <2>3 DEF Fine, Known, Unwanted, needs_as4_path
<1>8. ~external => Fine(pref)
  <2>1. /\ pref.kind = 5 /\ pref.cut = "no" /\ pref.flags = {"transitive"}
        /\ pref.length = 4 /\ pref.value = "good"
    BY Zenon
  <2> HIDE DEF pref
  <2>2. flags_ok(pref)
    BY <2>1, Zenon DEF flags_ok, expected
  <2>3. value_ok(pref)
    BY <2>1 DEF value_ok, length_ok, Multiprotocol
  <2>4. ~external => ~Unwanted(5)
    <3>1. 5 \notin {17, 18}
      OBVIOUS
    <3> QED
      BY <1>1, <3>1, Zenon DEF Unwanted
  <2> QED
    BY <2>1, <2>2, <2>3, <2>4, Zenon DEF Fine, Known
<1>9. Fine(hop)
  <2>1. /\ hop.kind = 3 /\ hop.cut = "no" /\ hop.flags = {"transitive"}
        /\ hop.length = 4 /\ hop.value = "good"
    BY Zenon
  <2> HIDE DEF hop
  <2>2. flags_ok(hop)
    BY <2>1, Zenon DEF flags_ok, expected
  <2>3. value_ok(hop)
    BY <2>1 DEF value_ok, length_ok, Multiprotocol
  <2> QED
    BY <2>1, <2>2, <2>3 DEF Fine, Known, Unwanted
<1>10. /\ mp.kind = kind /\ origin.kind = 1 /\ path.kind = 2
       /\ path4.kind = 17 /\ pref.kind = 5 /\ hop.kind = 3
  BY Zenon
<1>11. update_attrs = s6
  BY Zenon DEF update_attrs
<1> HIDE DEF kind, mp, origin, path, path4, pref, hop, width
<1>12. kind \in {14, 15}
  BY Zenon DEF kind
<1>13. Orderly(s1) /\ Kinds(s1) = IF v6 THEN {kind} ELSE {}
  BY <1>3, <1>4, <1>10, OnlyOrderly, Zenon
<1> HIDE DEF s1
<1>7a. if17 => Fine(path4)
  BY <1>7, Zenon
<1>8a. if5 => Fine(pref)
  BY <1>8, Zenon
<1> HIDE DEF if1, if17, if5, if3
<1>14. Orderly(s2) /\ Kinds(s2) = Kinds(s1) \cup IF if1 THEN {1} ELSE {}
  <2>1. origin.kind \notin Kinds(s1)
    BY <1>10, <1>12, <1>13
  <2>2. /\ Orderly(s2)
        /\ Kinds(s2) = Kinds(s1) \cup IF if1 THEN {origin.kind} ELSE {}
    BY <1>3, <1>5, <1>13, <2>1, AppendOrderly
  <2> QED
    BY <1>10, <2>2, Zenon
<1> HIDE DEF s2
<1>15. Orderly(s3) /\ Kinds(s3) = Kinds(s2) \cup IF if1 THEN {2} ELSE {}
  <2>1. path.kind \notin Kinds(s2)
    BY <1>10, <1>12, <1>13, <1>14
  <2>2. /\ Orderly(s3)
        /\ Kinds(s3) = Kinds(s2) \cup IF if1 THEN {path.kind} ELSE {}
    BY <1>3, <1>6, <1>14, <2>1, AppendOrderly
  <2> QED
    BY <1>10, <2>2, Zenon
<1> HIDE DEF s3
<1>16. Orderly(s4) /\ Kinds(s4) = Kinds(s3) \cup IF if17 THEN {17} ELSE {}
  <2>1. path4.kind \notin Kinds(s3)
    BY <1>10, <1>12, <1>13, <1>14, <1>15
  <2>2. /\ Orderly(s4)
        /\ Kinds(s4) = Kinds(s3) \cup IF if17 THEN {path4.kind} ELSE {}
    BY <1>3, <1>7a, <1>15, <2>1, AppendOrderly
  <2> QED
    BY <1>10, <2>2, Zenon
<1> HIDE DEF s4
<1>17. Orderly(s5) /\ Kinds(s5) = Kinds(s4) \cup IF if5 THEN {5} ELSE {}
  <2>1. pref.kind \notin Kinds(s4)
    BY <1>10, <1>12, <1>13, <1>14, <1>15, <1>16
  <2>2. /\ Orderly(s5)
        /\ Kinds(s5) = Kinds(s4) \cup IF if5 THEN {pref.kind} ELSE {}
    BY <1>3, <1>8a, <1>16, <2>1, AppendOrderly
  <2> QED
    BY <1>10, <2>2, Zenon
<1> HIDE DEF s5
<1>18. Orderly(s6) /\ Kinds(s6) = Kinds(s5) \cup IF if3 THEN {3} ELSE {}
  <2>1. hop.kind \notin Kinds(s5)
    BY <1>10, <1>12, <1>13, <1>14, <1>15, <1>16, <1>17
  <2>2. /\ Orderly(s6)
        /\ Kinds(s6) = Kinds(s5) \cup IF if3 THEN {hop.kind} ELSE {}
    BY <1>3, <1>9, <1>17, <2>1, AppendOrderly
  <2> QED
    BY <1>10, <2>2, Zenon
<1> HIDE DEF s6
<1> QED
  BY <1>11, <1>13, <1>14, <1>15, <1>16, <1>17, <1>18, Zenon DEF kind, if1, if17, if5, if3

(* update() sends what the receiver finds nothing wrong with. *)
LEMMA UpdateIsValid ==
    ASSUME BatchInv
    PROVE  update \in Updates /\ Strongest(update) = Valid
<1>1. Orderly(update_attrs)
  BY UpdateOrderly, Zenon
<1>2. valid_length(2, 19 + update_octets)
  <2>1. update_octets \in Nat /\ update_octets >= 4 /\ update_octets + 19 <= 4096
    BY MessageFits DEF MAX_MESSAGE
  <2> HIDE DEF update_octets
  <2>2. 19 + update_octets \in 19..4096 /\ 19 + update_octets >= 23
    BY <2>1
  <2> QED
    BY <2>2 DEF valid_length, MAX_MESSAGE
<1>3. /\ update.attrs = update_attrs /\ update.framed = TRUE
      /\ update.withdrawn = (IF withdraw /\ ~v6 THEN "good" ELSE "none")
      /\ update.tail = (IF ~withdraw /\ ~v6 THEN "good" ELSE "none")
  BY <1>2, Zenon DEF update
<1>4. update \in Updates
  BY <1>1, <1>2, Zenon DEF update, Updates, Fields, Orderly
<1>5. ~BadFrame(update)
  BY <1>3, Zenon DEF BadFrame, validate_nlri
<1>6. ~MissingFrom(update)
  <2>1. /\ v6 \in BOOLEAN /\ withdraw \in BOOLEAN /\ n.internal = ~external
    BY Zenon DEF BatchInv
  <2>2. CASE withdraw
    <3>1. 14 \notin Kinds(update_attrs) /\ update.tail = "none"
      BY <1>3, <2>1, <2>2, UpdateOrderly
    <3> QED
      BY <1>1, <1>3, <1>4, <3>1, Complete, Zenon
  <2>3. CASE ~withdraw
    <3>1. /\ {1, 2} \subseteq Kinds(update_attrs) /\ (~external => 5 \in Kinds(update_attrs))
          /\ ~v6 => 3 \in Kinds(update_attrs)
      BY <2>3, UpdateOrderly, Zenon
    <3>2. n.internal => ~external
      BY <2>1, Zenon
    <3>3. update.tail # "none" => ~v6
      BY <1>3, Zenon
    <3> QED
      BY <1>1, <1>3, <1>4, <3>1, <3>2, <3>3, Complete, Zenon
  <2> QED
    BY <2>2, <2>3, Zenon
<1> QED
  BY <1>1, <1>3, <1>4, <1>5, <1>6, OrderlyIsValid, Zenon

(* So does end_of_rib(). *)
LEMMA MarkerIsValid ==
    ASSUME BatchInv
    PROVE  end_of_rib \in Updates /\ Strongest(end_of_rib) = Valid
<1> DEFINE mp == Attribute(nontransitive, 15, 3, "empty")
<1>1. mp \in Attributes /\ mp.kind = 15
  BY Zenon DEF Attributes, Attribute, nontransitive
<1>2. Fine(mp)
  <2>1. /\ mp.kind = 15 /\ mp.cut = "no" /\ mp.flags = {"optional"}
        /\ mp.length = 3 /\ mp.value = "empty"
    BY Zenon DEF Attribute, nontransitive
  <2> HIDE DEF mp
  <2>2. flags_ok(mp)
    BY <2>1 DEF flags_ok, expected, nontransitive
  <2>3. value_ok(mp)
    BY <2>1 DEF value_ok, length_ok, Multiprotocol, validate_nlri
  <2> QED
    BY <2>1, <2>2, <2>3 DEF Fine, Known, Unwanted
<1> DEFINE list == Only(v6, mp)
<1>3. Orderly(list) /\ Kinds(list) = IF v6 THEN {mp.kind} ELSE {}
  <2> HIDE DEF mp
  <2> QED
    BY <1>1, <1>2, OnlyOrderly, Zenon
<1> DEFINE ok == valid_length(2, 19 + IF v6 THEN 10 ELSE 4)
<1>a. ok = TRUE
  <2>1. CASE v6
    BY <2>1 DEF valid_length, MAX_MESSAGE
  <2>2. CASE ~v6
    BY <2>2 DEF valid_length, MAX_MESSAGE
  <2> QED
    BY <2>1, <2>2, Zenon
<1>b. end_of_rib = [framed |-> ok, withdrawn |-> "none", attrs |-> list, tail |-> "none"]
  <2> HIDE DEF ok, list
  <2>1. end_of_rib = [NoMessage EXCEPT !.framed = ok, !.attrs = list]
    BY Zenon DEF end_of_rib, ok, list
  <2> QED
    BY <2>1, Zenon DEF NoMessage
<1> HIDE DEF list, ok
<1>4. /\ end_of_rib.attrs = list /\ end_of_rib.framed = TRUE
      /\ end_of_rib.withdrawn = "none" /\ end_of_rib.tail = "none"
      /\ end_of_rib = [framed |-> TRUE, withdrawn |-> "none", attrs |-> list, tail |-> "none"]
  BY <1>a, <1>b, Zenon
<1>5. end_of_rib \in Updates
  BY <1>3, <1>4, Zenon DEF Updates, Fields, Orderly
<1>6. ~BadFrame(end_of_rib)
  BY <1>4, Zenon DEF BadFrame, validate_nlri
<1>7. ~MissingFrom(end_of_rib)
  <2>1. 14 \notin Kinds(list)
    BY <1>1, <1>3
  <2> QED
    BY <1>3, <1>4, <1>5, <2>1, Complete, Zenon
<1> QED
  BY <1>3, <1>4, <1>5, <1>6, <1>7, OrderlyIsValid, Zenon

----------------------------------------------------------------------------
(* The loop invariant, step by step *)

OwnInv == own /\ pc \in {"validate", "done"} => Strongest(message) = Valid

LEMMA LoopInit ==
    ASSUME Init
    PROVE  LoopInv
<1>1. NoMessage \in Updates /\ NoMessage.attrs = <<>>
  BY DEF NoMessage, Updates, Fields
<1>2. PICK u \in Updates : Fresh(u)
  BY <1>1, CodecAssumption, Zenon DEF Init
<1>3. u.attrs \in Seq(Attributes)
  BY Zenon DEF Updates
<1>4. ReceiverType
  BY <1>2, <1>3, Zenon DEF Fresh, Init, ReceiverType
<1>5. /\ message \in Updates /\ left = message.attrs
      /\ seen = {} /\ mp_reach = FALSE /\ action = Valid
  BY <1>2, Zenon DEF Fresh
<1>6. ReadInv
  BY <1>5, ArrivedInv, Zenon DEF Arrived
<1>7. (pc = "batch" /\ own = TRUE) \/ pc = "validate"
  BY Zenon DEF Init, EncodeInit
<1> QED
  BY <1>4, <1>5, <1>6, <1>7, Zenon DEF LoopInv, WorstDefectWins, RecoveryNamesRoutes

(* A verdict that is the strongest one. *)
LEMMA VerdictKeeps ==
    ASSUME ReceiverType, UNCHANGED <<encoding, message, left, seen, mp_reach, own>>,
           pc' = "done", action' = Strongest(message),
           action' # Fatal =>
               /\ reachable <=> update_prefixes(message) # {}
               /\ action' = TreatAsWithdraw => reachable
    PROVE  LoopInv'
<1>1. UNCHANGED <<message, n>>
  BY Zenon DEF encoding
<1>2. ReceiverType'
  BY Zenon DEF ReceiverType
<1>3. WorstDefectWins'
  BY <1>1, StrongestKept, Zenon DEF WorstDefectWins
<1>4. update_prefixes(message)' = update_prefixes(message) /\ (reachable' <=> reachable)
  BY Zenon DEF update_prefixes, Whole, reachable
<1>5. RecoveryNamesRoutes'
  <2>1. reachable' \in BOOLEAN
    BY Zenon DEF reachable, ReceiverType
  <2> QED
    BY <1>4, <2>1, Zenon DEF RecoveryNamesRoutes
<1> QED
  BY <1>2, <1>3, <1>5, Zenon DEF LoopInv

(* A step that goes on reading. *)
LEMMA ReadingKeeps ==
    ASSUME ReceiverType, pc = "validate", UNCHANGED <<pc, message, own>>,
           left' \in Seq(Attributes), mp_reach' \in BOOLEAN, ReadInv'
    PROVE  LoopInv'
<1>1. ReceiverType'
  BY Zenon DEF ReceiverType
<1> QED
  BY <1>1, Zenon DEF LoopInv, WorstDefectWins, RecoveryNamesRoutes

(* What arrives from the encoder. *)
LEMMA ArriveKeeps ==
    ASSUME LoopInv, pc \in {"batch", "encode"},
           NEW u \in Updates, Strongest(u) = Valid, Arrive(u)
    PROVE  LoopInv' /\ OwnInv'
<1>1. /\ seen' = {} /\ mp_reach' = FALSE /\ action' = Valid /\ own' = TRUE
      /\ message' = u /\ left' = u.attrs /\ pc' = "validate" /\ n' = n
  BY Zenon DEF Arrive, LoopInv, encoding
<1>2. ReadInv'
  BY <1>1, ArrivedNext, Zenon DEF Arrived
<1>3. u.attrs \in Seq(Attributes)
  BY Zenon DEF Updates
<1>4. ReceiverType'
  BY <1>1, <1>3, Zenon DEF ReceiverType
<1>5. Strongest(message)' = Valid'
  BY <1>1, StrongestOf, Zenon DEF Valid
<1> QED
  BY <1>1, <1>2, <1>4, <1>5, Zenon DEF LoopInv, OwnInv, WorstDefectWins, RecoveryNamesRoutes

(* The loop gives up on a fatal defect. *)
LEMMA FailKeeps ==
    ASSUME LoopInv, Strongest(message) = Fatal, Fail
    PROVE  LoopInv'
<1>1. UNCHANGED <<encoding, message, left, seen, mp_reach, own>> /\ pc' = "done" /\ action' = Fatal
  BY Zenon DEF Fail, Done
<1> QED
  BY <1>1, VerdictKeeps, Zenon DEF LoopInv

LEMMA RejectFrameKeeps ==
    ASSUME LoopInv, RejectFrame
    PROVE  LoopInv'
<1>1. Strongest(message) = Fatal
  BY Zenon DEF RejectFrame, Strongest
<1>2. Fail
  BY Zenon DEF RejectFrame, Fail
<1> QED
  BY <1>1, <1>2, FailKeeps, Zenon

(* The place of the loop, for the actions that read an attribute. *)
LEMMA Place ==
    ASSUME LoopInv, Reading
    PROVE  \E k \in 0..Len(message.attrs) :
               /\ Progress(k) /\ (Unread(k) \/ CutOff(k)) /\ left # <<>> /\ k \in Nat
               /\ attr = message.attrs[k + 1] /\ attr \in Attributes
               /\ attr.kind \in seen <=>
                      \E j \in 1..((k + 1) - 1) : message.attrs[j].kind = message.attrs[k + 1].kind
<1>1. PICK k \in 0..Len(message.attrs) : Progress(k) /\ (Unread(k) \/ CutOff(k))
  BY Zenon DEF LoopInv, ReadInv, Reading
<1>2. left # <<>> /\ ReceiverType
  BY Zenon DEF Reading, LoopInv
<1>3. k \in Nat /\ attr = message.attrs[k + 1] /\ attr \in Attributes
  BY <1>1, <1>2, NextAttribute, Zenon
<1> QED
  BY <1>1, <1>2, <1>3, SeenBefore, Zenon

(* Goes on with the judgement of the attribute counted, or fails on it. *)
LEMMA JudgedKeeps ==
    ASSUME LoopInv, Reading, attr.cut = "no",
           NEW k \in 0..Len(message.attrs), Progress(k), Unread(k) \/ CutOff(k),
           \/ Judgement(message, k + 1) = Fatal /\ Fail
           \/ /\ Judgement(message, k + 1) # Fatal
              /\ Skip(Judgement(message, k + 1))
              /\ seen' = seen \cup {attr.kind}
              /\ mp_reach' = (mp_reach \/ announces(attr))
    PROVE  LoopInv'
<1>1. left # <<>> /\ ReceiverType /\ pc = "validate"
  BY Zenon DEF Reading, LoopInv
<1>2. CASE Judgement(message, k + 1) = Fatal /\ Fail
  BY <1>1, <1>2, FatalAttribute, FailKeeps, Zenon
<1>3. CASE /\ Judgement(message, k + 1) # Fatal
           /\ Skip(Judgement(message, k + 1))
           /\ seen' = seen \cup {attr.kind}
           /\ mp_reach' = (mp_reach \/ announces(attr))
  <2>1. /\ UNCHANGED <<message, n>> /\ UNCHANGED <<pc, message, own>> /\ left' = Tail(left)
        /\ action' = AtLeast(Judgement(message, k + 1))
    BY <1>3, Zenon DEF Skip, encoding
  <2>2. ReadInv' /\ left' \in Seq(Attributes) /\ mp_reach' \in BOOLEAN
    BY <1>1, <1>3, <2>1, SkipKeeps, Zenon
  <2> QED
    BY <1>1, <2>1, <2>2, ReadingKeeps, Zenon
<1> QED
  BY <1>2, <1>3, Zenon

LEMMA BrokenKeeps ==
    ASSUME LoopInv, Broken
    PROVE  LoopInv'
<1>1. Reading /\ attr.cut # "no"
  BY Zenon DEF Broken
<1>2. PICK k \in 0..Len(message.attrs) :
         /\ Progress(k) /\ (Unread(k) \/ CutOff(k)) /\ left # <<>> /\ k \in Nat
         /\ attr = message.attrs[k + 1]
  BY <1>1, Place, Zenon
<1>3. ReceiverType /\ pc = "validate"
  BY <1>1, Zenon DEF Reading, LoopInv
<1>4. CASE attr.cut = "value" /\ attr.kind \in Multiprotocol
  <2>1. Strongest(message) = Fatal
    BY <1>2, <1>3, <1>4, FatalAttribute, Zenon
  <2>2. Fail
    BY <1>4, Zenon DEF Broken
  <2> QED
    BY <2>1, <2>2, FailKeeps, Zenon
<1>5. CASE ~(attr.cut = "value" /\ attr.kind \in Multiprotocol)
  <2>1. /\ action' = TreatAsWithdraw /\ left' = <<>>
        /\ UNCHANGED <<encoding, pc, message, seen, mp_reach, own>>
    BY <1>5, Zenon DEF Broken
  <2>2. UNCHANGED <<message, n>>
    BY <2>1, Zenon DEF encoding
  <2>3. \A i : Judgement(message, i)' = Judgement(message, i)
    BY <2>2, JudgementKept, Zenon
  <2>4. ASSUME NEW i \in 1..k PROVE Judgement(message, i)' <= action'
    <3>1. Judgement(message, i) <= action /\ action \in {Valid, AttributeDiscard, TreatAsWithdraw}
      BY <1>2, Zenon DEF Progress
    <3>2. Judgement(message, i) \in {Valid, AttributeDiscard, TreatAsWithdraw, Fatal}
      BY JudgementRange, Zenon
    <3> QED
      BY <2>1, <2>3, <3>1, <3>2, Severities
  <2>5. Progress(k)'
    BY <1>2, <2>1, <2>4, Zenon DEF Progress, announces
  <2>6. k + 1 \in 1..Len(message.attrs) /\ Len(message.attrs) \in Nat
    BY <1>2, <1>3, NextAttribute, Zenon
  <2>7. CutOff(k)'
    <3>1. k < Len(message.attrs)
      BY <1>2, <2>6
    <3> QED
      BY <1>1, <1>2, <1>5, <2>1, <3>1, Zenon DEF CutOff
  <2>8. ReadInv'
    BY <1>2, <2>1, <2>5, <2>7, Zenon DEF ReadInv
  <2>9. left' \in Seq(Attributes) /\ mp_reach' \in BOOLEAN
    BY <1>3, <2>1 DEF ReceiverType
  <2> QED
    BY <1>3, <2>1, <2>8, <2>9, ReadingKeeps, Zenon
<1> QED
  BY <1>4, <1>5, Zenon

LEMMA DuplicateKeeps ==
    ASSUME LoopInv, Duplicate
    PROVE  LoopInv'
<1>1. Reading /\ attr.cut = "no" /\ attr.kind \in seen
  BY Zenon DEF Duplicate
<1>2. PICK k \in 0..Len(message.attrs) :
         /\ Progress(k) /\ (Unread(k) \/ CutOff(k)) /\ attr = message.attrs[k + 1]
         /\ \E j \in 1..((k + 1) - 1) : message.attrs[j].kind = message.attrs[k + 1].kind
  BY <1>1, Place, Zenon
<1>3. CASE attr.kind \in Multiprotocol
  <2>1. Judgement(message, k + 1) = Fatal
    BY <1>2, <1>3, Zenon DEF Judgement
  <2>2. Fail
    BY <1>3, Zenon DEF Duplicate
  <2> QED
    BY <1>1, <1>2, <2>1, <2>2, JudgedKeeps, Zenon
<1>4. CASE attr.kind \notin Multiprotocol
  <2>1. Judgement(message, k + 1) = AttributeDiscard
    BY <1>2, <1>4, Zenon DEF Judgement
  <2>2. Skip(AttributeDiscard) /\ UNCHANGED <<seen, mp_reach>>
    BY <1>4, Zenon DEF Duplicate
  <2>3. seen' = seen \cup {attr.kind}
    BY <1>1, <2>2, Zenon
  <2>4. ~announces(attr)
    BY <1>4, Zenon DEF announces, Multiprotocol
  <2>5. mp_reach' = (mp_reach \/ announces(attr))
    BY <2>2, <2>4, Zenon DEF LoopInv, ReceiverType
  <2>6. AttributeDiscard # Fatal
    BY Severities
  <2> QED
    BY <1>1, <1>2, <2>1, <2>2, <2>3, <2>5, <2>6, JudgedKeeps, Zenon
<1> QED
  BY <1>3, <1>4, Zenon

(* A kind that was not seen before. *)
LEMMA PlaceNew ==
    ASSUME LoopInv, New
    PROVE  /\ Reading /\ attr.cut = "no" /\ mp_reach \in BOOLEAN
           /\ \E k \in 0..Len(message.attrs) :
                 /\ Progress(k) /\ (Unread(k) \/ CutOff(k)) /\ attr = message.attrs[k + 1]
                 /\ ~\E j \in 1..((k + 1) - 1) : message.attrs[j].kind = message.attrs[k + 1].kind
<1>1. Reading /\ attr.cut = "no" /\ attr.kind \notin seen /\ mp_reach \in BOOLEAN
  BY Zenon DEF New, LoopInv, ReceiverType
<1>2. PICK k \in 0..Len(message.attrs) :
               /\ Progress(k) /\ (Unread(k) \/ CutOff(k))
               /\ attr = message.attrs[k + 1]
               /\ attr.kind \in seen <=>
                      \E j \in 1..((k + 1) - 1) : message.attrs[j].kind = message.attrs[k + 1].kind
  BY <1>1, Place, Zenon
<1> QED
  BY <1>1, <1>2, Zenon

LEMMA DiscardKeeps ==
    ASSUME LoopInv, Discard
    PROVE  LoopInv'
<1>1. /\ New /\ Unwanted(attr.kind) /\ seen' = seen \cup {attr.kind}
      /\ Skip(AttributeDiscard) /\ UNCHANGED mp_reach
  BY Zenon DEF Discard
<1>2. Reading /\ attr.cut = "no" /\ mp_reach \in BOOLEAN
  BY <1>1, PlaceNew, Zenon
<1>3. PICK k \in 0..Len(message.attrs) :
         Progress(k) /\ (Unread(k) \/ CutOff(k)) /\ attr = message.attrs[k + 1]
  BY <1>1, PlaceNew, Zenon
<1>4. attr.kind \notin Multiprotocol /\ attr.kind \in Known
  BY <1>1 DEF Unwanted, Multiprotocol, Known
<1>5. Judgement(message, k + 1) = AttributeDiscard
  BY <1>1, <1>3, <1>4, Zenon DEF Judgement
<1>6. mp_reach' = (mp_reach \/ announces(attr))
  <2>1. ~announces(attr)
    BY <1>4, Zenon DEF announces, Multiprotocol
  <2> QED
    BY <1>1, <1>2, <2>1, Zenon
<1>7. AttributeDiscard # Fatal
  BY Severities
<1> QED
  BY <1>1, <1>2, <1>3, <1>5, <1>6, <1>7, JudgedKeeps, Zenon

LEMMA ReadMultiprotocolKeeps ==
    ASSUME LoopInv, ReadMultiprotocol
    PROVE  LoopInv'
<1>1. New /\ attr.kind \in Multiprotocol /\ attr.kind \in Known
  BY Zenon DEF ReadMultiprotocol, Multiprotocol, Known
<1>2. Reading /\ attr.cut = "no" /\ mp_reach \in BOOLEAN
  BY <1>1, PlaceNew, Zenon
<1>3. PICK k \in 0..Len(message.attrs) :
         /\ Progress(k) /\ (Unread(k) \/ CutOff(k)) /\ attr = message.attrs[k + 1]
         /\ ~\E j \in 1..((k + 1) - 1) : message.attrs[j].kind = message.attrs[k + 1].kind
  BY <1>1, PlaceNew, Zenon
<1>4. CASE ~flags_ok(attr) \/ ~value_ok(attr)
  <2>1. Judgement(message, k + 1) = Fatal
    BY <1>1, <1>3, <1>4, Zenon DEF Judgement
  <2>2. Fail
    BY <1>4, Zenon DEF ReadMultiprotocol
  <2> QED
    BY <1>2, <1>3, <2>1, <2>2, JudgedKeeps, Zenon
<1>5. CASE flags_ok(attr) /\ value_ok(attr)
  <2>1. Judgement(message, k + 1) = Valid
    BY <1>1, <1>3, <1>5, Zenon DEF Judgement
  <2>2. /\ mp_reach' = (mp_reach \/ announces(attr))
        /\ seen' = seen \cup {attr.kind} /\ Skip(Valid)
    BY <1>5, Zenon DEF ReadMultiprotocol, announces
  <2>3. Valid # Fatal
    BY Severities
  <2> QED
    BY <1>2, <1>3, <2>1, <2>2, <2>3, JudgedKeeps, Zenon
<1> QED
  BY <1>4, <1>5, Zenon

LEMMA ReadAttributeKeeps ==
    ASSUME LoopInv, ReadAttribute
    PROVE  LoopInv'
<1> DEFINE s == IF flags_ok(attr) /\ value_ok(attr) THEN Valid ELSE severity_of(attr.kind)
<1>1. /\ New /\ ~Unwanted(attr.kind) /\ attr.kind \in Known \ Multiprotocol
      /\ seen' = seen \cup {attr.kind} /\ Skip(s) /\ UNCHANGED mp_reach
  BY Zenon DEF ReadAttribute
<1>2. Reading /\ attr.cut = "no" /\ mp_reach \in BOOLEAN
  BY <1>1, PlaceNew, Zenon
<1>3. PICK k \in 0..Len(message.attrs) :
         /\ Progress(k) /\ (Unread(k) \/ CutOff(k)) /\ attr = message.attrs[k + 1]
         /\ ~\E j \in 1..((k + 1) - 1) : message.attrs[j].kind = message.attrs[k + 1].kind
  BY <1>1, PlaceNew, Zenon
<1>4. Judgement(message, k + 1) = s
  BY <1>1, <1>3, Zenon DEF Judgement
<1>5. s # Fatal
  BY Severities DEF severity_of
<1> HIDE DEF s
<1>6. mp_reach' = (mp_reach \/ announces(attr))
  <2>1. ~announces(attr)
    BY <1>1, Zenon DEF announces, Multiprotocol
  <2> QED
    BY <1>1, <1>2, <2>1, Zenon
<1> QED
  BY <1>1, <1>2, <1>3, <1>4, <1>5, <1>6, JudgedKeeps, Zenon

LEMMA ReadUnknownKeeps ==
    ASSUME LoopInv, ReadUnknown
    PROVE  LoopInv'
<1>1. New /\ attr.kind \notin Known
  BY Zenon DEF ReadUnknown
<1>2. Reading /\ attr.cut = "no" /\ mp_reach \in BOOLEAN
  BY <1>1, PlaceNew, Zenon
<1>3. PICK k \in 0..Len(message.attrs) :
         /\ Progress(k) /\ (Unread(k) \/ CutOff(k)) /\ attr = message.attrs[k + 1]
         /\ ~\E j \in 1..((k + 1) - 1) : message.attrs[j].kind = message.attrs[k + 1].kind
  BY <1>1, PlaceNew, Zenon
<1>4. attr.kind \notin Multiprotocol /\ ~Unwanted(attr.kind)
  BY <1>1, Zenon DEF Known, Multiprotocol, Unwanted
<1>5. CASE "optional" \notin attr.flags
  <2>1. Judgement(message, k + 1) = Fatal
    BY <1>1, <1>3, <1>4, <1>5, Zenon DEF Judgement
  <2>2. Fail
    BY <1>5, Zenon DEF ReadUnknown
  <2> QED
    BY <1>2, <1>3, <2>1, <2>2, JudgedKeeps, Zenon
<1>6. CASE "optional" \in attr.flags
  <2>1. Judgement(message, k + 1) = Valid
    BY <1>1, <1>3, <1>4, <1>6, Zenon DEF Judgement
  <2>2. seen' = seen \cup {attr.kind} /\ Skip(Valid) /\ UNCHANGED mp_reach
    BY <1>6, Zenon DEF ReadUnknown
  <2>3. Valid # Fatal /\ ~announces(attr)
    BY <1>4, Severities DEF announces, Multiprotocol
  <2>4. mp_reach' = (mp_reach \/ announces(attr))
    BY <1>2, <2>2, <2>3, Zenon
  <2> QED
    BY <1>2, <1>3, <2>1, <2>2, <2>3, <2>4, JudgedKeeps, Zenon
<1> QED
  BY <1>5, <1>6, Zenon

LEMMA FinishKeeps ==
    ASSUME LoopInv, Finish
    PROVE  LoopInv'
<1> DEFINE result == IF Missing THEN TreatAsWithdraw ELSE action
<1>1. /\ pc = "validate" /\ ~BadFrame(message) /\ left = <<>>
      /\ UNCHANGED <<encoding, message, left, seen, mp_reach, own>> /\ pc' = "done"
      /\ action' = IF result = TreatAsWithdraw /\ ~reachable THEN Fatal ELSE result
  BY Zenon DEF Finish, Done
<1>2. ReceiverType
  BY Zenon DEF LoopInv
<1>3. PICK k \in 0..Len(message.attrs) : Progress(k) /\ (Unread(k) \/ CutOff(k))
  BY <1>1, Zenon DEF LoopInv, ReadInv
<1>4. Strongest(message) = IF result = TreatAsWithdraw /\ ~reachable THEN Fatal ELSE result
  BY <1>1, <1>2, <1>3, FinishCorrect, Zenon
<1>5. Whole(message) = 1..k /\ k \in Nat
  BY <1>1, <1>2, <1>3, LoopEnded DEF ReceiverType, Updates
<1>6. reachable <=> update_prefixes(message) # {}
  BY <1>2, <1>3, <1>5, FoundAll, Zenon
<1> HIDE DEF result
<1>7. TreatAsWithdraw # Fatal
  BY Severities
<1>8. action' = TreatAsWithdraw => reachable
  BY <1>1, <1>7, Zenon
<1> QED
  BY <1>1, <1>2, <1>4, <1>6, <1>8, VerdictKeeps, Zenon

(* Nothing that the invariant mentions changes. *)
LEMMA StutterKeeps ==
    ASSUME LoopInv, UNCHANGED receiving, UNCHANGED <<n, pc>>
    PROVE  LoopInv'
<1>1. UNCHANGED <<message, left, seen, mp_reach, action, own, n, pc>>
  BY Zenon DEF receiving
<1>2. \A i : Judgement(message, i)' = Judgement(message, i)
  BY <1>1, JudgementKept, Zenon
<1>3. Strongest(message)' = Strongest(message)
  BY <1>1, StrongestKept, Zenon
<1>4. ReceiverType'
  BY <1>1, Zenon DEF LoopInv, ReceiverType
<1>5. ASSUME ReadInv PROVE ReadInv'
  <2>1. PICK k \in 0..Len(message.attrs) : Progress(k) /\ (Unread(k) \/ CutOff(k))
    BY <1>5, Zenon DEF ReadInv
  <2>2. Progress(k)'
    BY <1>1, <1>2, <2>1, Zenon DEF Progress, announces
  <2>3. Unread(k) => Unread(k)'
    BY <1>1, <1>2, Zenon DEF Unread
  <2>4. CutOff(k) => CutOff(k)'
    BY <1>1, Zenon DEF CutOff
  <2> QED
    BY <1>1, <2>1, <2>2, <2>3, <2>4, Zenon DEF ReadInv
<1>6. WorstDefectWins'
  BY <1>1, <1>3, Zenon DEF LoopInv, WorstDefectWins
<1>7. RecoveryNamesRoutes'
  BY <1>1, Zenon DEF LoopInv, RecoveryNamesRoutes, update_prefixes, Whole, reachable
<1> QED
  BY <1>1, <1>4, <1>5, <1>6, <1>7, Zenon DEF LoopInv

(* The receiver's verdict on what its neighbor's encoder sent stays. *)
LEMMA OwnKept ==
    ASSUME OwnInv, UNCHANGED <<message, n, own>>,
           pc \in {"validate", "done"} \/ pc' \notin {"validate", "done"}
    PROVE  OwnInv'
<1>1. Strongest(message)' = Strongest(message)
  BY StrongestKept, Zenon
<1> QED
  BY <1>1, Zenon DEF OwnInv

LEMMA EncodingKeeps ==
    ASSUME LoopInv, OwnInv, Encoding
    PROVE  LoopInv' /\ OwnInv'
<1>1. /\ UNCHANGED <<message, left, seen, mp_reach, action, own, n>>
      /\ pc \in {"batch", "encode"} /\ pc' \in {"batch", "encode"}
  BY Zenon DEF Encoding, EncodeNext, Push, Batched, encoding, receiving
<1>2. ReceiverType'
  BY <1>1, Zenon DEF LoopInv, ReceiverType
<1>3. LoopInv'
  BY <1>1, <1>2, Zenon DEF LoopInv, WorstDefectWins, RecoveryNamesRoutes
<1>4. OwnInv'
  BY <1>1, Zenon DEF OwnInv
<1> QED
  BY <1>3, <1>4, Zenon

LEMMA DeliverKeeps ==
    ASSUME BatchInv, LoopInv, Deliver \/ DeliverMarker
    PROVE  LoopInv' /\ OwnInv'
<1>1. CASE Deliver
  <2>1. PICK u : u = update
    BY Zenon
  <2>2. u \in Updates /\ Strongest(u) = Valid
    BY <2>1, UpdateIsValid, Zenon
  <2>3. Arrive(u) /\ pc \in {"batch", "encode"}
    BY <1>1, <2>1, Zenon DEF Deliver
  <2> QED
    BY <2>2, <2>3, ArriveKeeps, Zenon
<1>2. CASE DeliverMarker
  <2>1. PICK u : u = end_of_rib
    BY Zenon
  <2>2. u \in Updates /\ Strongest(u) = Valid
    BY <2>1, MarkerIsValid, Zenon
  <2>3. Arrive(u) /\ pc \in {"batch", "encode"}
    BY <1>2, <2>1, Zenon DEF DeliverMarker
  <2> QED
    BY <2>2, <2>3, ArriveKeeps, Zenon
<1> QED
  BY <1>1, <1>2, Zenon

(* The actions of validate_update(). *)
Validating ==
    \/ RejectFrame \/ Broken \/ Duplicate \/ Discard
    \/ ReadMultiprotocol \/ ReadAttribute \/ ReadUnknown \/ Finish

LEMMA ValidatingLeaves ==
    ASSUME Validating
    PROVE  UNCHANGED <<message, n, own>> /\ pc = "validate"
  BY Zenon DEF Validating, RejectFrame, Broken, Duplicate, Discard, ReadMultiprotocol, ReadAttribute,
         ReadUnknown, Finish, Skip, Fail, New, Reading, encoding

LEMMA ValidatingKeeps ==
    ASSUME LoopInv, Validating
    PROVE  LoopInv'
  BY RejectFrameKeeps, BrokenKeeps, DuplicateKeeps, DiscardKeeps, ReadMultiprotocolKeeps,
     ReadAttributeKeeps, ReadUnknownKeeps, FinishKeeps, Zenon DEF Validating

LEMMA CodecInvInductive == Spec => [](LoopInv /\ OwnInv)
<1>1. Init => LoopInv /\ OwnInv
  <2> SUFFICES ASSUME Init PROVE LoopInv /\ OwnInv
    BY Zenon
  <2>1. OwnInv
    BY Zenon DEF Init, EncodeInit, OwnInv
  <2> QED
    BY <2>1, LoopInit, Zenon
<1>2. BatchInv /\ LoopInv /\ OwnInv /\ [Next]_vars => (LoopInv /\ OwnInv)'
  <2> SUFFICES ASSUME BatchInv, LoopInv, OwnInv, [Next]_vars PROVE LoopInv' /\ OwnInv'
    BY Zenon
  <2>1. CASE Encoding
    BY <2>1, EncodingKeeps, Zenon
  <2>2. CASE Deliver \/ DeliverMarker
    BY <2>2, DeliverKeeps, Zenon
  <2>3. CASE Validating
    <3>1. UNCHANGED <<message, n, own>> /\ pc \in {"validate", "done"}
      BY <2>3, ValidatingLeaves, Zenon
    <3>2. LoopInv'
      BY <2>3, ValidatingKeeps, Zenon
    <3> QED
      BY <3>1, <3>2, OwnKept, Zenon
  <2>4. CASE UNCHANGED vars
    <3>1. UNCHANGED receiving /\ UNCHANGED <<n, pc>> /\ UNCHANGED <<message, n, own>>
      BY <2>4, Zenon DEF vars, encoding, receiving
    <3>2. LoopInv'
      BY <3>1, StutterKeeps, Zenon
    <3>3. OwnInv'
      <4>1. pc \in {"validate", "done"} \/ pc' \notin {"validate", "done"}
        BY <3>1, Zenon
      <4> QED
        BY <3>1, <4>1, OwnKept, Zenon
    <3> QED
      BY <3>2, <3>3, Zenon
  <2> QED
    BY <2>1, <2>2, <2>3, <2>4, Zenon DEF Next, Validating
<1> QED
  BY <1>1, <1>2, BatchInvInductive, PTL DEF Spec

(* The three results below hold for every set of UPDATEs, of any length    *)
(* and in any order of their attributes.                                   *)

(* validate_update() answers by the worst defect: its early exits and the  *)
(* order of its checks never hide a worse one.                             *)
THEOREM WorstDefectDecides == Spec => []WorstDefectWins
<1>1. LoopInv => WorstDefectWins
  BY Zenon DEF LoopInv
<1> QED
  BY <1>1, CodecInvInductive, PTL

(* update_prefixes(), a second parser, finds routes exactly where          *)
(* validate_update() did.                                                  *)
THEOREM ParsersAgree == Spec => []RecoveryNamesRoutes
<1>1. LoopInv => RecoveryNamesRoutes
  BY Zenon DEF LoopInv
<1> QED
  BY <1>1, CodecInvInductive, PTL

(* What update() and end_of_rib() send is valid for a receiver of the same *)
(* session, for every configuration, OPEN and batch.                       *)
THEOREM OwnUpdatesAccepted == Spec => []OwnUpdatesAreValid
<1>1. LoopInv /\ OwnInv => OwnUpdatesAreValid
  BY Zenon DEF LoopInv, OwnInv, WorstDefectWins, OwnUpdatesAreValid
<1> QED
  BY <1>1, CodecInvInductive, PTL
=============================================================================
