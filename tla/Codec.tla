------------------------------- MODULE Codec -------------------------------
(***************************************************************************)
(* The length check of read_frame() and validate_update() of               *)
(* src/src/wire.rs, on the UPDATEs of a neighbor that runs the same        *)
(* encoder and on those of any other implementation.  The attribute loop   *)
(* is one action per branch.                                               *)
(*                                                                         *)
(* The value of an attribute is "good" or "bad", apart from its length; a  *)
(* path with ASNs is "two" or "four", for the ASN width it is good in.     *)
(* That of a multiprotocol attribute is "v4", "v6" (reachable NLRI of the  *)
(* family), "empty" (no NLRI), "foreign" (another family) or "bad".  NLRI  *)
(* fields are "none", "good" or "bad".                                     *)
(***************************************************************************)
EXTENDS Encode

CONSTANTS
    Foreign,            \* UPDATEs of another implementation
    ForeignSettings     \* and the settings under which they arrive

(* What the validator tells apart in an attribute, and in an UPDATE. *)
Attributes ==
    [flags : SUBSET {"optional", "transitive", "partial"}, kind : Nat, length : Nat,
     value : {"good", "bad", "two", "four", "v4", "v6", "empty", "foreign"},
     cut : {"no", "header", "value"}]

Fields == {"none", "good", "bad"}

Updates == [framed : BOOLEAN, withdrawn : Fields, attrs : Seq(Attributes), tail : Fields]

ASSUME CodecAssumption == Foreign \subseteq Updates

VARIABLES
    message,    \* the UPDATE under validation
    left,       \* its attributes not yet read
    seen,       \* the kinds that were read
    mp_reach,   \* MP_REACH_NLRI announced something
    action,     \* UpdateAction, by severity
    own         \* the message is from update() or end_of_rib()

receiving == <<message, left, seen, mp_reach, action, own>>
vars == <<encoding, pc, receiving>>

Valid == 0
AttributeDiscard == 1
TreatAsWithdraw == 2
Fatal == 3      \* Err(ProtocolError)

Multiprotocol == {14, 15}
Known == {1, 2, 3, 4, 5, 6, 7, 8, 9, 10, 14, 15, 16, 17, 18, 32}

NoMessage == [framed |-> TRUE, withdrawn |-> "none", attrs |-> <<>>, tail |-> "none"]

(* The state of the loop before the first attribute of u. *)
Fresh(u) ==
    /\ message = u /\ left = u.attrs
    /\ seen = {} /\ mp_reach = FALSE /\ action = Valid

Init ==
    \/ EncodeInit /\ Fresh(NoMessage) /\ own = TRUE
    \/ /\ pc = "validate" /\ own = FALSE
       /\ \E x \in ForeignSettings : Begin(x)
       /\ \E u \in Foreign : Fresh(u)

Encoding == EncodeNext /\ UNCHANGED receiving

(* read_frame(): the length that a type of message may have. *)
valid_length(kind, len) ==
    /\ len \in 19..MAX_MESSAGE
    /\ CASE kind = 1 -> len >= 29 [] kind = 2 -> len >= 23 [] kind = 3 -> len >= 21
         [] kind = 4 -> len = 19  [] kind = 5 -> len = 23  [] OTHER -> FALSE

(* The messages of update() and end_of_rib(). *)
update ==
    [framed |-> valid_length(2, 19 + update_octets), attrs |-> update_attrs,
     withdrawn |-> IF withdraw /\ ~v6 THEN "good" ELSE "none",
     tail |-> IF ~withdraw /\ ~v6 THEN "good" ELSE "none"]

end_of_rib ==
    [NoMessage EXCEPT
        !.framed = valid_length(2, 19 + IF v6 THEN 10 ELSE 4),
        !.attrs = Only(v6, Attribute(nontransitive, 15, 3, "empty"))]

(* A message arrives at a receiver that negotiated the same session. *)
Arrive(u) ==
    /\ message' = u /\ left' = u.attrs
    /\ pc' = "validate"
    /\ UNCHANGED <<encoding, seen, mp_reach, action, own>>

Deliver == pc = "encode" /\ Arrive(update)
DeliverMarker == pc = "batch" /\ count = 0 /\ Arrive(end_of_rib)

----------------------------------------------------------------------------
(* validate_update() *)

Done(verdict) == action' = verdict /\ pc' = "done"

(* The lengths of the packed prefixes fit the field and the family. *)
validate_nlri(field) == field # "bad"

(* What surrounds the attributes: lengths that do not add up, or broken    *)
(* IPv4 NLRI.                                                              *)
BadFrame(u) == ~u.framed \/ ~validate_nlri(u.withdrawn) \/ ~validate_nlri(u.tail)

RejectFrame ==
    /\ pc = "validate" /\ BadFrame(message)
    /\ Done(Fatal)
    /\ UNCHANGED <<encoding, message, left, seen, mp_reach, own>>

Reading == pc = "validate" /\ ~BadFrame(message) /\ left # <<>>
attr == Head(left)

AtLeast(severity) == IF action > severity THEN action ELSE severity

(* Goes on with the next attribute. *)
Skip(severity) ==
    /\ action' = AtLeast(severity) /\ left' = Tail(left)
    /\ UNCHANGED <<encoding, pc, message, own>>

Fail ==
    /\ Done(Fatal)
    /\ UNCHANGED <<encoding, message, left, seen, mp_reach, own>>

(* Mutant of Broken: a broken attribute is merely discarded. *)
BrokenDiscarded ==
    /\ Reading /\ attr.cut # "no"
    /\ IF attr.cut = "value" /\ attr.kind \in Multiprotocol THEN Fail
       ELSE /\ action' = AtLeast(AttributeDiscard) /\ left' = <<>>
            /\ UNCHANGED <<encoding, pc, message, seen, mp_reach, own>>

(* A header or a value that the enclosing length cuts off ends the loop;   *)
(* of a header that is cut off the kind is not looked at.                  *)
Broken ==
    /\ Reading /\ attr.cut # "no"
    /\ IF attr.cut = "value" /\ attr.kind \in Multiprotocol THEN Fail
       ELSE /\ action' = TreatAsWithdraw /\ left' = <<>>
            /\ UNCHANGED <<encoding, pc, message, seen, mp_reach, own>>

Duplicate ==
    /\ Reading /\ attr.cut = "no" /\ attr.kind \in seen
    /\ IF attr.kind \in Multiprotocol THEN Fail
       ELSE Skip(AttributeDiscard) /\ UNCHANGED <<seen, mp_reach>>

(* Kinds to be discarded whatever their value. *)
Unwanted(kind) ==
    \/ n.asn4 /\ kind \in {17, 18}
    \/ ~n.internal /\ kind \in {5, 9, 10}

New == Reading /\ attr.cut = "no" /\ attr.kind \notin seen

Discard ==
    /\ New /\ Unwanted(attr.kind)
    /\ seen' = seen \cup {attr.kind}
    /\ Skip(AttributeDiscard) /\ UNCHANGED mp_reach

expected(kind) ==
    IF kind \in {1, 2, 3, 5, 6} THEN wellknown
    ELSE IF kind \in {4, 9, 10, 14, 15} THEN nontransitive ELSE transitive

flags_ok(a) ==
    a.kind \in Known =>
        /\ a.flags \ {"partial"} = expected(a.kind)
        /\ "partial" \in a.flags => expected(a.kind) = transitive

length_ok(a) ==
    CASE a.kind = 1 -> a.length = 1
      [] a.kind \in {3, 4, 5, 9} -> a.length = 4
      [] a.kind = 6 -> a.length = 0
      [] a.kind = 7 -> a.length = IF n.asn4 THEN 8 ELSE 6
      [] a.kind \in {8, 10} -> a.length # 0 /\ a.length % 4 = 0
      [] a.kind = 14 -> a.length >= 5
      [] a.kind = 15 -> a.length >= 3
      [] a.kind = 16 -> a.length # 0 /\ a.length % 8 = 0
      [] a.kind = 17 -> a.length >= 6 /\ a.length % 2 = 0
      [] a.kind = 18 -> a.length = 8
      [] a.kind = 32 -> a.length # 0 /\ a.length % 12 = 0
      [] OTHER -> TRUE

(* Segments whose lengths add up in one ASN width, or in both ("good", as  *)
(* for an empty path).                                                     *)
validate_path(value, width) == value \in {"good", width}

value_ok(a) ==
    /\ length_ok(a)
    /\ CASE a.kind = 2 -> validate_path(a.value, IF n.asn4 THEN "four" ELSE "two")
         [] a.kind = 17 -> validate_path(a.value, "four")
         [] a.kind \in Multiprotocol -> validate_nlri(a.value)
         [] OTHER -> a.value # "bad"

ReadMultiprotocol ==
    /\ New /\ attr.kind \in Multiprotocol
    /\ IF ~flags_ok(attr) \/ ~value_ok(attr) THEN Fail
       ELSE /\ mp_reach' = (mp_reach \/ (attr.kind = 14 /\ attr.value \in {"v4", "v6"}))
            /\ seen' = seen \cup {attr.kind}
            /\ Skip(Valid)

(* A value that cannot be trusted costs the attribute or the routes. *)
severity_of(kind) ==
    IF kind \in {6, 7, 17, 18} THEN AttributeDiscard ELSE TreatAsWithdraw

ReadAttribute ==
    /\ New /\ ~Unwanted(attr.kind) /\ attr.kind \in Known \ Multiprotocol
    /\ seen' = seen \cup {attr.kind}
    /\ Skip(IF flags_ok(attr) /\ value_ok(attr) THEN Valid ELSE severity_of(attr.kind))
    /\ UNCHANGED mp_reach

ReadUnknown ==
    /\ New /\ attr.kind \notin Known
    /\ IF "optional" \notin attr.flags THEN Fail
       ELSE seen' = seen \cup {attr.kind} /\ Skip(Valid) /\ UNCHANGED mp_reach

reachable == message.tail # "none" \/ mp_reach

Missing ==
    \/ reachable /\ ({1, 2} \cup IF n.internal THEN {5} ELSE {}) \ seen # {}
    \/ message.tail # "none" /\ 3 \notin seen

(* Mutant of Finish: recovers an UPDATE in which no route was found. *)
FinishRecovers ==
    /\ pc = "validate" /\ ~BadFrame(message) /\ left = <<>>
    /\ Done(IF Missing THEN TreatAsWithdraw ELSE action)
    /\ UNCHANGED <<encoding, message, left, seen, mp_reach, own>>

Finish ==
    /\ pc = "validate" /\ ~BadFrame(message) /\ left = <<>>
    /\ LET result == IF Missing THEN TreatAsWithdraw ELSE action
       IN  Done(IF result = TreatAsWithdraw /\ ~reachable THEN Fatal ELSE result)
    /\ UNCHANGED <<encoding, message, left, seen, mp_reach, own>>

Next ==
    \/ Encoding
    \/ Deliver
    \/ DeliverMarker
    \/ RejectFrame
    \/ Broken
    \/ Duplicate
    \/ Discard
    \/ ReadMultiprotocol
    \/ ReadAttribute
    \/ ReadUnknown
    \/ Finish

Spec == Init /\ [][Next]_vars

----------------------------------------------------------------------------
(* update_prefixes(): where it finds reachable NLRI, 0 for the tail.       *)

Whole(u) == {i \in DOMAIN u.attrs : \A j \in 1..i : u.attrs[j].cut = "no"}

update_prefixes(u) ==
    (IF u.tail # "none" THEN {0} ELSE {})
    \cup {i \in Whole(u) : u.attrs[i].kind = 14 /\ u.attrs[i].value \in {"v4", "v6"}}

----------------------------------------------------------------------------
(* Properties *)

(* What the attribute at i asks for on its own, given those before it. *)
Judgement(u, i) ==
    LET a == u.attrs[i]
        repeated == \E j \in 1..(i - 1) : u.attrs[j].kind = a.kind
    IN  CASE a.kind \in Multiprotocol ->
                IF repeated \/ ~flags_ok(a) \/ ~value_ok(a) THEN Fatal ELSE Valid
          [] a.kind \notin Multiprotocol /\ (repeated \/ Unwanted(a.kind)) -> AttributeDiscard
          [] a.kind \notin Known /\ ~repeated ->
                IF "optional" \in a.flags THEN Valid ELSE Fatal
          [] OTHER -> IF flags_ok(a) /\ value_ok(a) THEN Valid ELSE severity_of(a.kind)

(* What the first attribute that is cut off asks for. *)
CutJudgement(u) ==
    {IF u.attrs[i].cut = "value" /\ u.attrs[i].kind \in Multiprotocol
     THEN Fatal ELSE TreatAsWithdraw :
        i \in {j \in DOMAIN u.attrs : j \notin Whole(u) /\ 1..(j - 1) \subseteq Whole(u)}}

MissingFrom(u) ==
    LET kinds == {u.attrs[i].kind : i \in Whole(u)}
        wanted == (IF update_prefixes(u) = {} THEN {}
                   ELSE {1, 2} \cup IF n.internal THEN {5} ELSE {})
                  \cup IF u.tail = "none" THEN {} ELSE {3}
    IN  wanted \ kinds # {}

Strongest(u) ==
    LET worst == Max({Valid} \cup {Judgement(u, i) : i \in Whole(u)} \cup CutJudgement(u)
                     \cup IF MissingFrom(u) THEN {TreatAsWithdraw} ELSE {})
    IN  IF BadFrame(u) \/ (worst = TreatAsWithdraw /\ update_prefixes(u) = {}) THEN Fatal
        ELSE worst

(* validate_update() answers an UPDATE by its worst defect, whichever      *)
(* comes first: as the comment above it says, it goes on after recoverable *)
(* errors so that a later fatal one still wins, and no error hides the     *)
(* lack of a mandatory attribute.                                          *)
WorstDefectWins == pc = "done" => action = Strongest(message)

(* The receiver finds nothing wrong with what update() and end_of_rib()    *)
(* send: no flag, length, ASN width, missing or unwanted attribute, for    *)
(* any two configurations that agree on a session.                         *)
OwnUpdatesAreValid == own /\ pc = "done" => action = Valid

(* The log line of receive() names what a recovered UPDATE lost: if its    *)
(* routes are treated as withdrawn, update_prefixes(), which parses the    *)
(* message a second time, finds some.                                      *)
RecoveryNamesRoutes ==
    pc = "done" /\ action # Fatal =>
        /\ (update_prefixes(message) # {}) = reachable
        /\ action = TreatAsWithdraw => update_prefixes(message) # {}
=============================================================================
