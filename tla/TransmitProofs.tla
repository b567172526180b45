--------------------------- MODULE TransmitProofs ---------------------------
(***************************************************************************)
(* Proofs about transmit(), for every set of prefixes and batch size.      *)
(***************************************************************************)
EXTENDS Transmit, TLAPS

----------------------------------------------------------------------------
(* Facts about the operators *)

LEMMA OfType == \A F \in SUBSET Families : OfAll(F) \subseteq Prefixes
  BY DEF OfAll, Of, Prefixes

LEMMA OfMonotonic ==
  ASSUME NEW F, NEW G, F \subseteq G
  PROVE  OfAll(F) \subseteq OfAll(G)
  BY DEF OfAll

LEMMA OfMember ==
  ASSUME NEW F, NEW f \in F
  PROVE  Of(f) \subseteq OfAll(F)
  BY DEF OfAll

LEMMA HeadSubset == \A q : \A S \in Head(q) : S \subseteq q
  BY DEF Head

(* What Plan::new() computes: the withdrawals are the sent prefixes that   *)
(* are not wanted, the additions bring the rest to what is wanted.         *)
LEMMA PlanExact ==
  ASSUME NEW sent, NEW desired, NEW families, NEW again,
         Plan(sent, desired, families, again)
  PROVE  /\ withdrawals' = sent \ (desired \cap OfAll(families))
         /\ withdrawals' \cap additions' = {}
         /\ additions' \subseteq desired \cap OfAll(families)
         /\ (sent \ withdrawals') \cup additions' = desired \cap OfAll(families)
         /\ again \cap desired \cap OfAll(families) \subseteq additions'
  BY DEF Plan

----------------------------------------------------------------------------
(* Type correctness *)

LEMMA TypeInit == Init => TypeOK
<1>1. NoUpdate \in Updates /\ "closed" \in Places
  BY DEF NoUpdate, Updates, Places
<1>2. QED
  BY <1>1, Zenon DEF Init, TypeOK

LEMMA CloseType ==
  ASSUME TypeOK, Close
  PROVE  TypeOK'
  BY Zenon DEF TypeOK, Close, Places, Updates, NoUpdate

LEMMA RetargetType ==
  ASSUME TypeOK, Retarget
  PROVE  /\ exports' \in SUBSET Prefixes /\ fresh' \in BOOLEAN
         /\ advertised' \in SUBSET Prefixes /\ target' \in SUBSET Prefixes
         /\ replay' \in SUBSET Prefixes /\ withdrawals' \in SUBSET Prefixes
         /\ additions' \in SUBSET Prefixes /\ sending' \in Updates
         /\ recent' \in BOOLEAN
  BY Zenon DEF TypeOK, Retarget, Plan

LEMMA TypeNext == TypeOK /\ [Next]_vars => TypeOK'
<1> SUFFICES ASSUME TypeOK, [Next]_vars
             PROVE  TypeOK'
  OBVIOUS
<1> USE DEF TypeOK, planVars, eorVars, refreshVars, timerVars
<1>1. CASE Replan
  BY <1>1, RetargetType DEF Replan, Places
<1>2. CASE TakeRefresh
  BY <1>2, Zenon DEF TakeRefresh, Plan, Places
<1>3. CASE CheckKeepalive \/ SendKeepalive \/ Yield
  BY <1>3, Zenon DEF CheckKeepalive, SendKeepalive, Yield, Places, Awaits
<1>4. ASSUME NEW S \in SUBSET Prefixes, NextUpdate(S)
      PROVE  TypeOK'
  BY <1>4 DEF NextUpdate, Places, Awaits, Updates
<1>5. CASE SendUpdate
  BY <1>5 DEF SendUpdate, Places, Awaits, Updates, NoUpdate
<1>6. CASE PlanDone
  BY <1>6, Zenon DEF PlanDone, Places, Awaits
<1>7. ASSUME NEW f \in Families, SendMarker(f)
      PROVE  TypeOK'
  BY <1>7, Zenon DEF SendMarker, Places, Awaits
<1>8. CASE WakeExports
  BY <1>8, RetargetType, Zenon DEF WakeExports, Places
<1>9. CASE WakeNotified \/ WakeTimer
  BY <1>9, Zenon DEF WakeNotified, WakeTimer, Places
<1>10. CASE Timers
  BY <1>10, Zenon DEF Timers, ReplanTimer, RefreshTimer, KeepaliveTimer
<1>11. ASSUME NEW F \in SUBSET Families, Establish(F)
       PROVE  TypeOK'
  BY <1>11, Zenon DEF Establish, Plan, Places, Updates, NoUpdate
<1>12. ASSUME NEW f \in Families, ReceiveRefresh(f)
       PROVE  TypeOK'
  BY <1>12 DEF ReceiveRefresh
<1>13. ASSUME NEW S \in SUBSET Prefixes, PublishExports(S)
       PROVE  TypeOK'
  BY <1>13 DEF PublishExports
<1>14. CASE EndSession
  BY <1>14, CloseType DEF EndSession
<1>15. CASE UNCHANGED vars
  BY <1>15 DEF vars
<1> QED
  BY <1>1, <1>2, <1>3, <1>4, <1>5, <1>6, <1>7, <1>8, <1>9, <1>10, <1>11,
     <1>12, <1>13, <1>14, <1>15, Zenon DEF Next, Sender

(* Every variable of the session keeps its type; refresh requests and      *)
(* end-of-RIB markers concern negotiated families only.                    *)
THEOREM TypeCorrect == Spec => []TypeOK
  BY TypeInit, TypeNext, PTL DEF Spec

----------------------------------------------------------------------------
(* The plan *)

(* The inductive invariant: the two plan properties, with what keeps them: *)
(* an UPDATE is in flight only while it is written and is no longer in the *)
(* plan, markers are written only when the plan is done, nothing is left   *)
(* without a session, and the peer has what was booked.                    *)
PlanInv ==
    /\ TypeOK
    /\ PlanReachesTarget
    /\ ReplayIsPlanned
    /\ sending.prefixes \cap withdrawals = {}
    /\ pc # "update" => sending = NoUpdate
    /\ pc = "marker" => withdrawals = {} /\ additions = {}
    /\ unmarked # {} => pc = "marker"
    /\ pc = "closed" => n = {} /\ advertised = {}
    /\ peer = advertised

LEMMA PlanInit == Init => PlanInv
<1> SUFFICES ASSUME Init PROVE PlanInv
  OBVIOUS
<1>1. TypeOK
  BY TypeInit
<1>2. PlanReachesTarget /\ ReplayIsPlanned
  BY DEF Init, PlanReachesTarget, ReplayIsPlanned, Unsent, NoUpdate
<1>3. QED
  BY <1>1, <1>2 DEF Init, PlanInv, NoUpdate

(* Replanning, with no UPDATE in flight. *)
LEMMA ReplanKeeps ==
  ASSUME PlanInv, Retarget, sending = NoUpdate, UNCHANGED n
  PROVE  PlanReachesTarget' /\ ReplayIsPlanned'
<1> USE DEF NoUpdate, Unsent
<1>1. replay \subseteq Enabled
  BY DEF PlanInv, PlanReachesTarget, ReplayIsPlanned
<1>2. replay' \subseteq exports \cap OfAll(n) /\ replay' = replay \cap exports
  BY <1>1 DEF Retarget, Enabled
<1>3. Plan(advertised, exports, n, replay')
  BY DEF Retarget
<1> HIDE DEF Plan
<1>4. /\ withdrawals' = advertised \ (exports \cap OfAll(n))
      /\ withdrawals' \cap additions' = {}
      /\ (advertised \ withdrawals') \cup additions' = exports \cap OfAll(n)
      /\ replay' \cap exports \cap OfAll(n) \subseteq additions'
  BY <1>3, PlanExact
<1>5. sending' = NoUpdate /\ advertised' = advertised /\ target' = exports /\ n' = n
  BY DEF Retarget
<1>6. Unsent(TRUE)' = {} /\ Unsent(FALSE)' = {}
  BY <1>5
<1>7. PlanReachesTarget'
  BY <1>4, <1>5, <1>6 DEF PlanReachesTarget, Enabled
<1>8. ReplayIsPlanned'
  BY <1>2, <1>4, <1>6 DEF ReplayIsPlanned
<1> QED
  BY <1>7, <1>8

LEMMA PlanNext == PlanInv /\ [Next]_vars => PlanInv'
<1> SUFFICES ASSUME PlanInv, [Next]_vars
             PROVE  PlanInv'
  OBVIOUS
<1>0. TypeOK'
  BY TypeNext DEF PlanInv
<1> USE DEF planVars, eorVars, refreshVars, timerVars
<1>1. CASE Replan
  <2>1. CASE fresh /\ ~recent
    <3>1. Retarget /\ sending = NoUpdate /\ UNCHANGED <<n, peer, unmarked>>
      BY <1>1, <2>1 DEF Replan, PlanInv
    <3>2. PlanReachesTarget' /\ ReplayIsPlanned'
      BY <3>1, ReplanKeeps
    <3>3. unmarked = {} /\ pc' = "refresh" /\ sending' = NoUpdate
          /\ UNCHANGED <<advertised, peer, unmarked>>
      BY <1>1, <3>1 DEF Replan, Retarget, PlanInv
    <3> QED
      BY <1>0, <3>2, <3>3 DEF PlanInv, NoUpdate
  <2>2. CASE ~(fresh /\ ~recent)
    BY <1>0, <1>1, <2>2
    DEF Replan, PlanInv, PlanReachesTarget, ReplayIsPlanned, Unsent, Enabled
  <2> QED
    BY <2>1, <2>2
<1>2. CASE TakeRefresh
  <2>1. CASE eor = {} /\ ~cooling /\ pending # {}
    <3>1. sending = NoUpdate /\ unmarked = {} /\ peer = advertised
      BY <1>2 DEF TakeRefresh, PlanInv
    <3>2. /\ Plan(advertised, target, n, replay')
          /\ replay' = target \cap OfAll(pending)
          /\ pc' = "alive"
          /\ UNCHANGED <<n, advertised, target, sending, unmarked, peer>>
      BY <1>2, <2>1 DEF TakeRefresh
    <3>3. OfAll(pending) \subseteq OfAll(n)
      BY OfMonotonic DEF PlanInv, TypeOK
    <3>4. /\ withdrawals' = advertised \ (target \cap OfAll(n))
          /\ withdrawals' \cap additions' = {}
          /\ (advertised \ withdrawals') \cup additions' = target \cap OfAll(n)
          /\ replay' \cap target \cap OfAll(n) \subseteq additions'
      BY <3>2, PlanExact
    <3>5. Unsent(TRUE)' = {} /\ Unsent(FALSE)' = {}
      BY <3>1, <3>2 DEF Unsent, NoUpdate
    <3>6. PlanReachesTarget'
      BY <3>2, <3>4, <3>5, Zenon DEF PlanReachesTarget, Enabled
    <3>7. ReplayIsPlanned'
      BY <3>2, <3>3, <3>4, <3>5, Zenon DEF ReplayIsPlanned
    <3> QED
      BY <1>0, <3>1, <3>2, <3>6, <3>7 DEF PlanInv, NoUpdate
  <2>2. CASE ~(eor = {} /\ ~cooling /\ pending # {})
    BY <1>0, <1>2, <2>2
    DEF TakeRefresh, PlanInv, PlanReachesTarget, ReplayIsPlanned, Unsent, Enabled
  <2> QED
    BY <2>1, <2>2
<1>3. CASE CheckKeepalive \/ SendKeepalive \/ Yield
  BY <1>0, <1>3
  DEF CheckKeepalive, SendKeepalive, Yield, PlanInv, PlanReachesTarget,
      ReplayIsPlanned, Unsent, Enabled
<1>4. ASSUME NEW S \in SUBSET Prefixes, NextUpdate(S)
      PROVE  PlanInv'
  <2>1. /\ pc' = "update" /\ pc = "plan" /\ sending = NoUpdate
        /\ UNCHANGED <<n, advertised, target, replay, unmarked, peer>>
    BY <1>4 DEF NextUpdate, PlanInv
  <2>2. CASE withdrawals # {}
    <3>1. /\ S \subseteq withdrawals
          /\ sending' = [withdraw |-> TRUE, prefixes |-> S]
          /\ withdrawals' = withdrawals \ S
          /\ additions' = additions
      BY <1>4, <2>2, HeadSubset, Zenon DEF NextUpdate
    <3> QED
      BY <1>0, <2>1, <3>1
      DEF PlanInv, PlanReachesTarget, ReplayIsPlanned, Unsent, Enabled, NoUpdate
  <2>3. CASE withdrawals = {}
    <3>1. /\ S \subseteq additions
          /\ sending' = [withdraw |-> FALSE, prefixes |-> S]
          /\ withdrawals' = {}
          /\ additions' = additions \ S
      BY <1>4, <2>3, HeadSubset, Zenon DEF NextUpdate
    <3> QED
      BY <1>0, <2>1, <2>3, <3>1
      DEF PlanInv, PlanReachesTarget, ReplayIsPlanned, Unsent, Enabled, NoUpdate
  <2> QED
    BY <2>2, <2>3
<1>5. CASE SendUpdate
  <2>1. /\ pc' = "yield" /\ pc = "update" /\ sending' = NoUpdate
        /\ replay' = replay \ sending.prefixes
        /\ UNCHANGED <<n, target, withdrawals, additions, unmarked>>
    BY <1>5 DEF SendUpdate
  <2>2. sending.withdraw \in BOOLEAN
    BY DEF PlanInv, TypeOK, Updates
  <2>3. CASE sending.withdraw
    <3>1. advertised' = advertised \ sending.prefixes /\ peer' = advertised'
      BY <1>5, <2>3 DEF SendUpdate, PlanInv
    <3> QED
      BY <1>0, <2>1, <2>2, <2>3, <3>1
      DEF PlanInv, PlanReachesTarget, ReplayIsPlanned, Unsent, Enabled, NoUpdate
  <2>4. CASE ~sending.withdraw
    <3>1. advertised' = advertised \cup sending.prefixes /\ peer' = advertised'
      BY <1>5, <2>4 DEF SendUpdate, PlanInv
    <3> QED
      BY <1>0, <2>1, <2>2, <2>4, <3>1
      DEF PlanInv, PlanReachesTarget, ReplayIsPlanned, Unsent, Enabled, NoUpdate
  <2> QED
    BY <2>3, <2>4
<1>6. CASE PlanDone
  BY <1>0, <1>6
  DEF PlanDone, PlanInv, PlanReachesTarget, ReplayIsPlanned, Unsent, Enabled
<1>7. ASSUME NEW f \in Families, SendMarker(f)
      PROVE  PlanInv'
  BY <1>0, <1>7
  DEF SendMarker, PlanInv, PlanReachesTarget, ReplayIsPlanned, Unsent, Enabled
<1>8. CASE WakeExports
  <2>1. Retarget /\ sending = NoUpdate /\ UNCHANGED n
    BY <1>8 DEF WakeExports, PlanInv
  <2>2. PlanReachesTarget' /\ ReplayIsPlanned'
    BY <2>1, ReplanKeeps
  <2>3. unmarked = {} /\ pc' = "replan" /\ sending' = NoUpdate
        /\ UNCHANGED <<advertised, peer, unmarked>>
    BY <1>8, <2>1 DEF WakeExports, Retarget, PlanInv
  <2> QED
    BY <1>0, <2>2, <2>3 DEF PlanInv, NoUpdate
<1>9. CASE WakeNotified \/ WakeTimer
  BY <1>0, <1>9
  DEF WakeNotified, WakeTimer, PlanInv, PlanReachesTarget, ReplayIsPlanned,
      Unsent, Enabled
<1>10. CASE Timers
  BY <1>0, <1>10
  DEF Timers, ReplanTimer, RefreshTimer, KeepaliveTimer, PlanInv,
      PlanReachesTarget, ReplayIsPlanned, Unsent, Enabled
<1>11. ASSUME NEW F \in SUBSET Families, Establish(F)
       PROVE  PlanInv'
  <2>1. /\ Plan({}, exports, F, {})
        /\ pc' = "replan" /\ n' = F /\ target' = exports
        /\ advertised' = {} /\ replay' = {} /\ sending' = NoUpdate
        /\ unmarked' = {} /\ peer' = {}
    BY <1>11 DEF Establish
  <2>2. /\ withdrawals' = {}
        /\ additions' = exports \cap OfAll(F)
    BY <2>1, PlanExact
  <2> QED
    BY <1>0, <2>1, <2>2
    DEF PlanInv, PlanReachesTarget, ReplayIsPlanned, Unsent, Enabled, NoUpdate
<1>12. ASSUME NEW f \in Families, ReceiveRefresh(f)
       PROVE  PlanInv'
  BY <1>0, <1>12
  DEF ReceiveRefresh, PlanInv, PlanReachesTarget, ReplayIsPlanned, Unsent, Enabled
<1>13. ASSUME NEW S \in SUBSET Prefixes, PublishExports(S)
       PROVE  PlanInv'
  BY <1>0, <1>13
  DEF PublishExports, PlanInv, PlanReachesTarget, ReplayIsPlanned, Unsent, Enabled
<1>14. CASE EndSession
  BY <1>0, <1>14
  DEF EndSession, Close, PlanInv, PlanReachesTarget, ReplayIsPlanned, Unsent,
      Enabled, NoUpdate
<1>15. CASE UNCHANGED vars
  BY <1>0, <1>15
  DEF vars, PlanInv, PlanReachesTarget, ReplayIsPlanned, Unsent, Enabled
<1> QED
  BY <1>1, <1>2, <1>3, <1>4, <1>5, <1>6, <1>7, <1>8, <1>9, <1>10, <1>11,
     <1>12, <1>13, <1>14, <1>15 DEF Next, Sender

LEMMA PlanInvariant == Spec => []PlanInv
  BY PlanInit, PlanNext, PTL DEF Spec

(* transmit()'s plan always leads from what was written to the negotiated  *)
(* part of the snapshot it transmits.                                      *)
THEOREM PlanCorrect == Spec => []PlanReachesTarget
<1>1. PlanInv => PlanReachesTarget
  BY DEF PlanInv
<1> QED
  BY <1>1, PlanInvariant, PTL

(* Replanning never loses a prefix that a refresh still has to replay.     *)
THEOREM ReplayKept == Spec => []ReplayIsPlanned
<1>1. PlanInv => ReplayIsPlanned
  BY DEF PlanInv
<1> QED
  BY <1>1, PlanInvariant, PTL

(* An end-of-RIB marker of transmit() tells the truth: the peer then has   *)
(* the target's routes of the family, with the refresh replayed.           *)
THEOREM MarkerTruthful == Spec => MarkerMeansSynchronized
<1>1. PlanInv /\ [Next]_vars =>
        [\A f \in Families :
           (f \in unmarked \ unmarked' /\ pc' # "closed") =>
              /\ peer \cap Of(f) = target \cap Of(f)
              /\ replay \cap Of(f) = {}]_vars
  <2> SUFFICES ASSUME PlanInv, NEW f \in Families, f \in unmarked
               PROVE  /\ peer \cap Of(f) = target \cap Of(f)
                      /\ replay \cap Of(f) = {}
    OBVIOUS
  <2>1. pc = "marker" /\ sending = NoUpdate
    BY DEF PlanInv
  <2>2. advertised = target \cap Enabled /\ replay = {} /\ peer = advertised
    BY <2>1 DEF PlanInv, PlanReachesTarget, ReplayIsPlanned, Unsent, NoUpdate
  <2>3. f \in n
    BY DEF PlanInv, TypeOK
  <2>4. Of(f) \subseteq Enabled
    BY <2>3, OfMember DEF Enabled
  <2> QED
    BY <2>2, <2>4
<1> QED
  BY <1>1, PlanInvariant, PTL DEF Spec, MarkerMeansSynchronized

----------------------------------------------------------------------------
(* The refinement of Feed *)

(* What the session does to the peer's view: in every step but a few,      *)
(* nothing.                                                                *)
LEMMA StepKeepsPromise ==
  ASSUME PlanInv, [Next]_vars
  PROVE  [Promise!Next]_(Promise!feedVars)
<1> USE DEF planVars, eorVars, refreshVars, timerVars
<1> DEFINE wanted == target \cap Enabled
           Silent == UNCHANGED <<exports, n, target, peer>>
<1>1. TypeOK
  BY DEF PlanInv
<1>2. Silent => UNCHANGED Promise!feedVars
  BY DEF Promise!feedVars, Enabled
<1>3. Retarget /\ UNCHANGED <<n, peer>> => Promise!Take
  BY DEF Retarget, Promise!Take, Enabled
<1>4. CASE Replan
  BY <1>2, <1>3, <1>4 DEF Replan, Promise!Next
<1>5. CASE TakeRefresh \/ CheckKeepalive \/ SendKeepalive \/ Yield \/ PlanDone
  BY <1>2, <1>5 DEF TakeRefresh, CheckKeepalive, SendKeepalive, Yield, PlanDone
<1>6. ASSUME NEW S \in SUBSET Prefixes, NextUpdate(S)
      PROVE  UNCHANGED Promise!feedVars
  BY <1>2, <1>6 DEF NextUpdate
<1>7. CASE SendUpdate
  <2> DEFINE S == sending.prefixes
  <2>1. S \in SUBSET Prefixes /\ sending.withdraw \in BOOLEAN
    BY <1>1 DEF TypeOK, Updates
  <2>2. UNCHANGED <<exports, n, target>>
    BY <1>7 DEF SendUpdate
  <2>3. CASE sending.withdraw
    <3>1. S \cap wanted = {}
      BY <2>3 DEF PlanInv, PlanReachesTarget, Unsent
    <3>2. peer' = peer \ S
      BY <1>7, <2>3 DEF SendUpdate
    <3>3. Promise!Withdraw(S)
      BY <2>2, <3>1, <3>2 DEF Promise!Withdraw, Enabled
    <3> QED
      BY <2>1, <3>3 DEF Promise!Next, Promise!Synchronize
  <2>4. CASE ~sending.withdraw
    <3>1. S \subseteq wanted
      BY <2>4 DEF PlanInv, PlanReachesTarget, Unsent
    <3>2. peer' = peer \cup S
      BY <1>7, <2>4 DEF SendUpdate
    <3>3. Promise!Announce(S)
      BY <2>2, <3>1, <3>2 DEF Promise!Announce, Enabled
    <3> QED
      BY <2>1, <3>3 DEF Promise!Next, Promise!Synchronize
  <2> QED
    BY <2>1, <2>3, <2>4
<1>8. ASSUME NEW f \in Families, SendMarker(f)
      PROVE  UNCHANGED Promise!feedVars
  BY <1>2, <1>8 DEF SendMarker
<1>9. CASE WakeExports
  BY <1>3, <1>9 DEF WakeExports, Promise!Next
<1>10. CASE WakeNotified \/ WakeTimer
  BY <1>2, <1>10 DEF WakeNotified, WakeTimer
<1>11. CASE Timers
  BY <1>2, <1>11 DEF Timers, ReplanTimer, RefreshTimer, KeepaliveTimer
<1>12. ASSUME NEW F \in SUBSET Families, Establish(F)
       PROVE  Promise!Open
  <2>1. n = {} /\ peer = {}
    BY <1>12 DEF Establish, PlanInv
  <2>2. Enabled = {}
    BY <2>1 DEF Enabled, OfAll
  <2>3. OfAll(F) \in SUBSET Prefixes
    BY OfType
  <2>4. Enabled' = OfAll(F) /\ target' = exports /\ peer' = {} /\ exports' = exports
    BY <1>12 DEF Establish, Enabled
  <2> QED
    BY <2>1, <2>2, <2>3, <2>4 DEF Promise!Open
<1>13. ASSUME NEW f \in Families, ReceiveRefresh(f)
       PROVE  UNCHANGED Promise!feedVars
  BY <1>2, <1>13 DEF ReceiveRefresh
<1>14. ASSUME NEW S \in SUBSET Prefixes, PublishExports(S)
       PROVE  Promise!Publish
  BY <1>14 DEF PublishExports, Promise!Publish, Enabled
<1>15. CASE EndSession
  <2>1. n' = {} /\ target' = {} /\ peer' = {} /\ exports' = exports
    BY <1>15 DEF EndSession, Close
  <2>2. Enabled' = {}
    BY <2>1 DEF Enabled, OfAll
  <2> QED
    BY <2>1, <2>2 DEF Promise!Close, Promise!Next
<1>16. CASE UNCHANGED vars
  BY <1>2, <1>16 DEF vars
<1> QED
  BY <1>4, <1>5, <1>6, <1>7, <1>8, <1>9, <1>10, <1>11, <1>12, <1>13, <1>14,
     <1>15, <1>16 DEF Next, Sender, Promise!Next

(* transmit() implements Feed: snapshot changes and refreshes never        *)
(* interrupt a route that stays exported, nor announce a superseded one.   *)
THEOREM PromiseKept == Spec => KeepsPromise
<1>1. Init => Promise!Init
  <2>1. Init => Enabled = {}
    BY DEF Init, Enabled, OfAll
  <2> QED
    BY <2>1 DEF Init, Promise!Init
<1>2. PlanInv /\ [Next]_vars => [Promise!Next]_(Promise!feedVars)
  BY StepKeepsPromise
<1> QED
  BY <1>1, <1>2, PlanInvariant, PTL DEF Spec, KeepsPromise, Promise!Spec
=============================================================================
