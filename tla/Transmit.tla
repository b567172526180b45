------------------------------ MODULE Transmit ------------------------------
(***************************************************************************)
(* The Established half of a BGP session in src/src/bgp.rs: transmit(),    *)
(* its Plan, and the ROUTE-REFRESH requests receive() hands it through     *)
(* Refresh.  transmit() follows the latest export snapshot of a watch      *)
(* channel, whose value here is the prefix set of the peer's ACL.          *)
(*                                                                         *)
(* receive() and transmit() are two futures of one task: receive() runs    *)
(* only where transmit() awaits.  The kernel worker is another thread and  *)
(* publishes at any time.  Timers (the 100 ms between replans, the 1 s     *)
(* between refreshes, the KEEPALIVE interval) run out at any later time.   *)
(***************************************************************************)
EXTENDS Naturals, FiniteSets

CONSTANTS
    V4, V6,     \* the IPv4 and the IPv6 prefixes
    MaxBatch    \* wire::MAX_UPDATE_PREFIXES

ASSUME TransmitAssumption ==
    /\ V4 \cap V6 = {}
    /\ MaxBatch \in Nat \ {0}

VARIABLES
    exports,     \* the channel's latest value for this peer
    fresh,       \* exports.has_changed(): not yet marked seen
    pc,          \* where transmit() is; "closed" without a session
    n,           \* negotiated address families
    hold,        \* the negotiated hold time is not zero
    advertised,  \* prefixes written to the peer and not withdrawn
    target,      \* the snapshot being transmitted
    replay,      \* prefixes to send again for a refresh
    withdrawals, additions,     \* the Plan
    sending,     \* the UPDATE being written
    eor,         \* families that get an end-of-RIB marker next
    unmarked,    \* of these, the ones whose marker is not written yet
    pending,     \* Refresh.pending
    permit,      \* the stored permit of Refresh.ready
    armed,       \* the select waits for the refresh cooldown
    recent,      \* less than 100 ms since last_replan
    cooling,     \* before next_refresh
    keepaliveDue,   \* next_keepalive has come
    peer,        \* the peer's routes from this session once it read all bytes
    unrefreshed  \* history: peer's routes not sent again since the refresh
                 \* that is being answered was taken

planVars == <<advertised, target, replay, withdrawals, additions, sending>>
eorVars == <<eor, unmarked>>
refreshVars == <<pending, permit>>
timerVars == <<recent, cooling, keepaliveDue>>
vars == <<exports, fresh, pc, n, hold, planVars, eorVars, refreshVars, armed,
          timerVars, peer, unrefreshed>>

Prefixes == V4 \cup V6
Families == {"v4", "v6"}
Of(f) == IF f = "v6" THEN V6 ELSE V4
OfAll(F) == UNION {Of(f) : f \in F}
Enabled == OfAll(n)

Updates == [withdraw : BOOLEAN, prefixes : SUBSET Prefixes]
NoUpdate == [withdraw |-> FALSE, prefixes |-> {}]

(* Places where transmit() awaits and receive() may run. *)
Awaits == {"keepalive", "update", "yield", "marker", "select"}
Places == Awaits \cup {"closed", "replan", "refresh", "alive", "plan"}

TypeOK ==
    /\ exports \in SUBSET Prefixes
    /\ fresh \in BOOLEAN
    /\ pc \in Places
    /\ n \in SUBSET Families
    /\ hold \in BOOLEAN
    /\ advertised \in SUBSET Prefixes
    /\ target \in SUBSET Prefixes
    /\ replay \in SUBSET Prefixes
    /\ withdrawals \in SUBSET Prefixes
    /\ additions \in SUBSET Prefixes
    /\ sending \in Updates
    /\ eor \in SUBSET n
    /\ unmarked \in SUBSET eor
    /\ pending \in SUBSET n
    /\ permit \in BOOLEAN
    /\ armed \in BOOLEAN
    /\ recent \in BOOLEAN
    /\ cooling \in BOOLEAN
    /\ keepaliveDue \in BOOLEAN
    /\ peer \in SUBSET Prefixes
    /\ unrefreshed \in SUBSET Prefixes

Init ==
    /\ exports \in SUBSET Prefixes
    /\ fresh = TRUE
    /\ pc = "closed"
    /\ n = {} /\ hold = FALSE
    /\ advertised = {} /\ target = {} /\ replay = {}
    /\ withdrawals = {} /\ additions = {} /\ sending = NoUpdate
    /\ eor = {} /\ unmarked = {}
    /\ pending = {} /\ permit = FALSE /\ armed = FALSE
    /\ recent = FALSE /\ cooling = FALSE /\ keepaliveDue = FALSE
    /\ peer = {} /\ unrefreshed = {}

----------------------------------------------------------------------------
(* Plan::new(): the difference between what was written and what is wanted. *)
Plan(sent, desired, families, again) ==
    /\ withdrawals' = {p \in sent : p \notin desired \/ p \notin OfAll(families)}
    /\ additions' = {p \in desired : p \in OfAll(families)
                                     /\ (p \in again \/ p \notin sent)}

(* Plan::next(): withdrawals first, IPv4 first, up to MaxBatch prefixes of *)
(* one family.  Within a family the order is that of a hash set.           *)
Head(queue) ==
    LET front == IF queue \cap V4 # {} THEN queue \cap V4 ELSE queue
    IN {S \in SUBSET front : IF Cardinality(front) <= MaxBatch
                             THEN S = front ELSE Cardinality(S) = MaxBatch}

(* The session's end: transmit()'s locals are gone, the peer drops its     *)
(* routes.                                                                 *)
Close ==
    /\ pc' = "closed"
    /\ n' = {} /\ hold' = FALSE
    /\ advertised' = {} /\ target' = {} /\ replay' = {}
    /\ withdrawals' = {} /\ additions' = {} /\ sending' = NoUpdate
    /\ eor' = {} /\ unmarked' = {}
    /\ pending' = {} /\ permit' = FALSE /\ armed' = FALSE
    /\ recent' = FALSE /\ cooling' = FALSE /\ keepaliveDue' = FALSE
    /\ peer' = {} /\ unrefreshed' = {}
    /\ UNCHANGED <<exports, fresh>>

(* session() reached Established with the given families: transmit() up to *)
(* its loop.                                                               *)
Establish(families) ==
    /\ pc = "closed"
    /\ families # {}
    /\ pc' = "replan"
    /\ n' = families /\ hold' \in BOOLEAN
    /\ advertised' = {} /\ target' = exports /\ replay' = {}
    /\ fresh' = FALSE
    /\ Plan({}, exports, families, {})
    /\ sending' = NoUpdate
    /\ eor' = families /\ unmarked' = {}
    /\ pending' = {} /\ permit' = FALSE /\ armed' = FALSE
    /\ recent' = TRUE /\ cooling' = FALSE /\ keepaliveDue' = FALSE
    /\ peer' = {} /\ unrefreshed' = {}
    /\ UNCHANGED exports

(* Mutant of Retarget: the difference is taken to the superseded target. *)
RetargetFromQueued ==
    /\ target' = exports
    /\ fresh' = FALSE
    /\ replay' = replay \cap exports
    /\ Plan(target, exports, n, replay')
    /\ recent' = TRUE
    /\ UNCHANGED <<exports, advertised, sending>>

(* Mutant of Retarget: the new plan does not go on with the replay. *)
RetargetDroppingReplay ==
    /\ target' = exports
    /\ fresh' = FALSE
    /\ replay' = replay \cap exports
    /\ Plan(advertised, exports, n, {})
    /\ recent' = TRUE
    /\ UNCHANGED <<exports, advertised, sending>>

(* Mutant of Retarget: the snapshot is marked seen but not taken over. *)
RetargetSeenOnly ==
    /\ fresh' = FALSE
    /\ recent' = TRUE
    /\ UNCHANGED <<exports, planVars>>

(* Mutant of Retarget: the plan for the superseded target is carried out. *)
RetargetKeepingPlan ==
    /\ target' = exports
    /\ fresh' = FALSE
    /\ replay' = replay \cap exports
    /\ recent' = TRUE
    /\ UNCHANGED <<exports, advertised, withdrawals, additions, sending>>

(* Take the latest snapshot and replan against what was written. *)
Retarget ==
    /\ target' = exports
    /\ fresh' = FALSE
    /\ replay' = replay \cap exports
    /\ Plan(advertised, exports, n, replay')
    /\ recent' = TRUE
    /\ UNCHANGED <<exports, advertised, sending>>

Replan ==
    /\ pc = "replan"
    /\ pc' = "refresh"
    /\ IF fresh /\ ~recent
       THEN Retarget
       ELSE UNCHANGED <<exports, fresh, planVars, recent>>
    /\ UNCHANGED <<n, hold, eorVars, refreshVars, armed, cooling, keepaliveDue, peer,
                   unrefreshed>>

(* Answer the refresh requests collected so far, outside the cooldown and  *)
(* once the previous answer is complete.                                   *)
TakeRefresh ==
    /\ pc = "refresh"
    /\ pc' = "alive"
    /\ IF eor = {} /\ ~cooling /\ pending # {}
       THEN /\ pending' = {}
            /\ replay' = target \cap OfAll(pending)
            /\ Plan(advertised, target, n, replay')
            /\ eor' = pending \cap n
            /\ cooling' = TRUE
            /\ unrefreshed' = peer \cap OfAll(pending)
       ELSE UNCHANGED <<pending, replay, withdrawals, additions, eor, cooling,
                        unrefreshed>>
    /\ UNCHANGED <<exports, fresh, n, hold, advertised, target, sending, unmarked,
                   permit, armed, recent, keepaliveDue, peer>>

CheckKeepalive ==
    /\ pc = "alive"
    /\ pc' = IF hold /\ keepaliveDue THEN "keepalive" ELSE "plan"
    /\ UNCHANGED <<exports, fresh, n, hold, planVars, eorVars, refreshVars, armed,
                   timerVars, peer, unrefreshed>>

SendKeepalive ==
    /\ pc = "keepalive"
    /\ pc' = "plan"
    /\ keepaliveDue' = FALSE
    /\ UNCHANGED <<exports, fresh, n, hold, planVars, eorVars, refreshVars, armed,
                   recent, cooling, peer, unrefreshed>>

(* Start writing the next UPDATE of the plan. *)
NextUpdate(S) ==
    /\ pc = "plan"
    /\ withdrawals \cup additions # {}
    /\ LET withdraw == withdrawals # {}
       IN /\ S \in Head(IF withdraw THEN withdrawals ELSE additions)
          /\ sending' = [withdraw |-> withdraw, prefixes |-> S]
          /\ withdrawals' = withdrawals \ S
          /\ additions' = IF withdraw THEN additions ELSE additions \ S
    /\ pc' = "update"
    /\ UNCHANGED <<exports, fresh, n, hold, advertised, target, replay, eorVars,
                   refreshVars, armed, timerVars, peer, unrefreshed>>

(* The UPDATE is written: the peer will apply it, and it is booked. *)
SendUpdate ==
    /\ pc = "update"
    /\ pc' = "yield"
    /\ replay' = replay \ sending.prefixes
    /\ IF sending.withdraw
       THEN /\ advertised' = advertised \ sending.prefixes
            /\ peer' = peer \ sending.prefixes
       ELSE /\ advertised' = advertised \cup sending.prefixes
            /\ peer' = peer \cup sending.prefixes
    /\ unrefreshed' = unrefreshed \ sending.prefixes
    /\ sending' = NoUpdate
    /\ UNCHANGED <<exports, fresh, n, hold, target, withdrawals, additions, eorVars,
                   refreshVars, armed, timerVars>>

Yield ==
    /\ pc = "yield"
    /\ pc' = "replan"
    /\ UNCHANGED <<exports, fresh, n, hold, planVars, eorVars, refreshVars, armed,
                   timerVars, peer, unrefreshed>>

(* Mutant of PlanDone: markers are written once the withdrawals are out. *)
PlanDoneEarly ==
    /\ pc = "plan"
    /\ withdrawals = {}
    /\ IF eor # {}
       THEN /\ pc' = "marker"
            /\ unmarked' = eor
            /\ UNCHANGED armed
       ELSE /\ pc' = "select"
            /\ armed' = (pending # {})
            /\ UNCHANGED unmarked
    /\ UNCHANGED <<exports, fresh, n, hold, planVars, eor, refreshVars, timerVars,
                   peer, unrefreshed>>

(* Mutant of PlanDone: the select does not wait for the cooldown. *)
PlanDoneUnarmed ==
    /\ pc = "plan"
    /\ withdrawals \cup additions = {}
    /\ IF eor # {}
       THEN /\ pc' = "marker"
            /\ unmarked' = eor
       ELSE /\ pc' = "select"
            /\ UNCHANGED unmarked
    /\ UNCHANGED <<exports, fresh, n, hold, planVars, eor, refreshVars, armed,
                   timerVars, peer, unrefreshed>>

(* The plan is done: write the end-of-RIB markers, or wait. *)
PlanDone ==
    /\ pc = "plan"
    /\ withdrawals \cup additions = {}
    /\ IF eor # {}
       THEN /\ pc' = "marker"
            /\ unmarked' = eor
            /\ UNCHANGED armed
       ELSE /\ pc' = "select"
            /\ armed' = (pending # {})
            /\ UNCHANGED unmarked
    /\ UNCHANGED <<exports, fresh, n, hold, planVars, eor, refreshVars, timerVars,
                   peer, unrefreshed>>

(* IPv4's marker is written before IPv6's; after the last one eor is       *)
(* cleared and transmit() waits.                                           *)
SendMarker(f) ==
    /\ pc = "marker"
    /\ f \in unmarked
    /\ f = "v6" => "v4" \notin unmarked
    /\ unmarked' = unmarked \ {f}
    /\ IF unmarked' = {}
       THEN /\ pc' = "select"
            /\ eor' = {}
            /\ armed' = (pending # {})
            /\ unrefreshed' = {}
       ELSE UNCHANGED <<pc, eor, armed, unrefreshed>>
    /\ UNCHANGED <<exports, fresh, n, hold, planVars, refreshVars, timerVars, peer>>

(* The branches of the select. *)
WakeExports ==
    /\ pc = "select"
    /\ fresh
    /\ Retarget
    /\ pc' = "replan"
    /\ armed' = FALSE
    /\ UNCHANGED <<n, hold, eorVars, refreshVars, cooling, keepaliveDue, peer,
                   unrefreshed>>

WakeNotified ==
    /\ pc = "select"
    /\ permit
    /\ permit' = FALSE
    /\ pc' = "replan"
    /\ armed' = FALSE
    /\ UNCHANGED <<exports, fresh, n, hold, planVars, eorVars, pending, timerVars,
                   peer, unrefreshed>>

WakeTimer ==
    /\ pc = "select"
    /\ \/ armed /\ ~cooling
       \/ hold /\ keepaliveDue
    /\ pc' = "replan"
    /\ armed' = FALSE
    /\ UNCHANGED <<exports, fresh, n, hold, planVars, eorVars, refreshVars, timerVars,
                   peer, unrefreshed>>

----------------------------------------------------------------------------
(* The rest of the session and its environment. *)

(* Mutant of ReceiveRefresh: the family need not be negotiated. *)
ReceiveRefreshUngated(f) ==
    /\ pc \in Awaits
    /\ pending' = pending \cup {f}
    /\ permit' = TRUE
    /\ UNCHANGED <<exports, fresh, pc, n, hold, planVars, eorVars, armed, timerVars,
                   peer, unrefreshed>>

(* receive() got a basic ROUTE-REFRESH; other families are ignored. *)
ReceiveRefresh(f) ==
    /\ pc \in Awaits
    /\ f \in n
    /\ pending' = pending \cup {f}
    /\ permit' = TRUE
    /\ UNCHANGED <<exports, fresh, pc, n, hold, planVars, eorVars, armed, timerVars,
                   peer, unrefreshed>>

(* A failed or late write, anything that makes receive() return (a         *)
(* NOTIFICATION, a malformed message, the hold timer), or the end of the   *)
(* kernel worker that owns the channel.                                    *)
EndSession ==
    /\ pc \in Awaits \cup {"replan"}
    /\ Close

(* The kernel worker or its watchdog replaces the channel's value. *)
PublishExports(S) ==
    /\ exports' = S
    /\ fresh' = TRUE
    /\ UNCHANGED <<pc, n, hold, planVars, eorVars, refreshVars, armed, timerVars,
                   peer, unrefreshed>>

ReplanTimer ==
    /\ recent
    /\ recent' = FALSE
    /\ UNCHANGED <<exports, fresh, pc, n, hold, planVars, eorVars, refreshVars, armed,
                   cooling, keepaliveDue, peer, unrefreshed>>

RefreshTimer ==
    /\ cooling
    /\ cooling' = FALSE
    /\ UNCHANGED <<exports, fresh, pc, n, hold, planVars, eorVars, refreshVars, armed,
                   recent, keepaliveDue, peer, unrefreshed>>

KeepaliveTimer ==
    /\ hold /\ pc # "closed" /\ ~keepaliveDue
    /\ keepaliveDue' = TRUE
    /\ UNCHANGED <<exports, fresh, pc, n, hold, planVars, eorVars, refreshVars, armed,
                   recent, cooling, peer, unrefreshed>>

----------------------------------------------------------------------------
Sender ==
    \/ Replan \/ TakeRefresh \/ CheckKeepalive \/ SendKeepalive
    \/ \E S \in SUBSET Prefixes : NextUpdate(S)
    \/ SendUpdate \/ Yield \/ PlanDone
    \/ \E f \in Families : SendMarker(f)
    \/ WakeExports \/ WakeNotified \/ WakeTimer

Timers == ReplanTimer \/ RefreshTimer \/ KeepaliveTimer

Next ==
    \/ Sender
    \/ Timers
    \/ \E F \in SUBSET Families : Establish(F)
    \/ \E f \in Families : ReceiveRefresh(f)
    \/ \E S \in SUBSET Prefixes : PublishExports(S)
    \/ EndSession

Spec == Init /\ [][Next]_vars

----------------------------------------------------------------------------
(* Properties *)

Unsent(withdraw) == IF sending.withdraw = withdraw THEN sending.prefixes ELSE {}

(* "Replan against what was actually written": carrying out the rest of    *)
(* the plan, the UPDATE being written included, takes the advertised set   *)
(* exactly to the negotiated part of the target, through any sequence of   *)
(* snapshot changes, refreshes and partial transmissions.                  *)
PlanReachesTarget ==
    LET w == withdrawals \cup Unsent(TRUE)
        a == additions \cup Unsent(FALSE)
    IN /\ w \subseteq advertised
       /\ w \cap a = {}
       /\ (advertised \ w) \cup a = target \cap Enabled

(* Every prefix still to be sent again for a refresh is in the rest of     *)
(* the plan, so an unfinished refresh survives replanning.                 *)
ReplayIsPlanned == replay \subseteq additions \cup Unsent(FALSE)

(* An end-of-RIB marker is written only when the peer holds exactly the    *)
(* target's routes of that family, and none of them is still owed to the   *)
(* refresh the marker answers.                                             *)
MarkerMeansSynchronized ==
    [][\A f \in Families :
         (f \in unmarked \ unmarked' /\ pc' # "closed") =>
            /\ peer \cap Of(f) = target \cap Of(f)
            /\ replay \cap Of(f) = {}]_vars

(* The test snapshot_change_preserves_unfinished_refresh, for any change:  *)
(* when the marker that answers a refresh is written, every route of that  *)
(* family the peer holds was sent again since the refresh was taken.       *)
RefreshIsComplete ==
    [][\A f \in Families :
         (f \in unmarked \ unmarked' /\ pc' # "closed") =>
            unrefreshed \cap Of(f) = {}]_vars

(* The session keeps the promise of module Feed: a route reaches the peer  *)
(* only from the snapshot being followed and is withdrawn only when that   *)
(* snapshot lacks it, so no snapshot change or refresh interrupts a route  *)
(* that stays exported.                                                    *)
Promise == INSTANCE Feed WITH
    scope <- Enabled, wanted <- target \cap Enabled, held <- peer

KeepsPromise == Promise!Spec

----------------------------------------------------------------------------
(* Liveness *)

(* The session's task is polled, a write completes or fails, timers run    *)
(* out.                                                                    *)
Fairness ==
    /\ WF_vars(Sender)
    /\ WF_vars(ReplanTimer) /\ WF_vars(RefreshTimer) /\ WF_vars(KeepaliveTimer)

LiveSpec == Spec /\ Fairness

ExportsSettle == <>[][UNCHANGED exports]_vars

(* "without losing requests during cooldown": every refresh request of a   *)
(* session that lasts is taken, and an end-of-RIB marker owed is written,  *)
(* once snapshots stop changing.                                           *)
RefreshAnswered ==
    ExportsSettle =>
        \A f \in Families :
            /\ f \in pending ~> f \in eor \/ pc = "closed"
            /\ f \in eor ~> f \notin eor

(* The promise of Feed with its fairness: no stream of snapshots and       *)
(* refreshes keeps the session from taking a newer snapshot, nor the peer  *)
(* from getting closer to the one that is followed.  When snapshots stop   *)
(* changing and the session lasts, the peer therefore ends with the        *)
(* negotiated part of the latest one.                                      *)
FulfilsPromise == Promise!LiveSpec
=============================================================================
