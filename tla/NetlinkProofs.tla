--------------------------- MODULE NetlinkProofs ---------------------------
(***************************************************************************)
(* Proofs about the kernel route worker, for every set of prefixes, number *)
(* of dumps, queue size and interval.                                      *)
(***************************************************************************)
EXTENDS Netlink, TLAPS

----------------------------------------------------------------------------
(* Type correctness *)

(* Values that actions assign have their types. *)
LEMMA TypeFacts ==
  /\ 1 \in Dumps /\ EmptyTables \in [Dumps -> SUBSET Prefix]
  /\ 0 \in 0..QueueMax /\ 0 \in 0..DrainBatch /\ DrainBatch \in 0..DrainBatch
  /\ 0 \in 0..DumpTimeout
  /\ 0 \in 0..ReconcileInterval /\ ReconcileInterval \in 0..ReconcileInterval
  /\ 0 \in 0..WatchdogPeriod /\ WatchdogPeriod \in 0..WatchdogPeriod
  /\ 0 \in 0..SinceCap /\ SinceCap \in Nat /\ RefreshInterval \in Nat
  /\ 0 \in 0..Len(Backoff) /\ Len(Backoff) \in Nat
<1> USE NetlinkAssumption
<1>1. 1 \in Dumps /\ EmptyTables \in [Dumps -> SUBSET Prefix]
  BY DEF EmptyTables, Dumps
<1>2. 0 \in 0..SinceCap /\ SinceCap \in Nat
  BY DEF SinceCap
<1>3. 0 \in 0..Len(Backoff) /\ Len(Backoff) \in Nat
  OBVIOUS
<1> QED
  BY <1>1, <1>2, <1>3

LEMMA FilterType ==
  ASSUME NEW S \in SUBSET Prefix
  PROVE  Filter(S) \in [Acls -> SUBSET Prefix]
  BY NetlinkAssumption, Zenon DEF Filter

LEMMA TypeInit == Init => TypeOK
<1> SUFFICES ASSUME Init PROVE TypeOK
  BY Zenon
<1>1. /\ kernel \in [Dumps -> SUBSET Prefix] /\ unsent \in BOOLEAN
      /\ queue \in 0..QueueMax /\ overrun \in BOOLEAN
      /\ walk \in SUBSET Prefix /\ rows \in SUBSET Prefix /\ pc \in Places
  BY TypeFacts, Zenon DEF Init, Places
<1>2. /\ evChanged \in BOOLEAN /\ evLost \in BOOLEAN /\ left \in 0..DrainBatch
      /\ table \in Dumps /\ result \in SUBSET Prefix /\ changed \in BOOLEAN
      /\ elapsed \in 0..DumpTimeout
  BY TypeFacts, Zenon DEF Init
<1>3. /\ dirty \in BOOLEAN /\ due \in Nat /\ periodic \in 0..ReconcileInterval
      /\ retries \in 0..Len(Backoff) /\ since \in 0..SinceCap \cup {None}
  BY TypeFacts, Zenon DEF Init
<1>4. /\ withdrawn \in BOOLEAN /\ tx \in [Acls -> SUBSET Prefix] \cup {NoExports}
      /\ park \in 0..WatchdogPeriod /\ stop \in BOOLEAN
      /\ held \in [Dumps -> SUBSET Prefix] /\ seen \in [Dumps -> SUBSET Prefix]
      /\ tried \in BOOLEAN /\ age \in 0..SinceCap
  BY TypeFacts, Zenon DEF Init
<1> QED
  BY <1>1, <1>2, <1>3, <1>4, Zenon DEF TypeOK

LEMMA EnqueueType ==
  ASSUME TypeOK, Enqueue
  PROVE  queue' \in 0..QueueMax /\ overrun' \in BOOLEAN
<1>1. queue \in 0..QueueMax /\ QueueMax \in Nat
  BY NetlinkAssumption, Zenon DEF TypeOK
<1>2. queue' \in 0..QueueMax
  BY <1>1 DEF Enqueue
<1>3. overrun' \in BOOLEAN
  BY Zenon DEF TypeOK, Enqueue
<1> QED
  BY <1>2, <1>3, Zenon

LEMMA FailType ==
  ASSUME TypeOK, FailSnapshot
  PROVE  TypeOK'
<1>1. due' \in Nat /\ retries' \in 0..Len(Backoff) /\ pc' \in Places
  BY NetlinkAssumption DEF FailSnapshot, TypeOK, Least, Places, Attempt
<1> QED
  BY <1>1, TypeFacts, Zenon
  DEF FailSnapshot, ForgetAttempt, EndDrain, TypeOK, kernelVars, freshVars

LEMMA TypeNext == TypeOK /\ [Next]_vars => TypeOK'
<1> SUFFICES ASSUME TypeOK, [Next]_vars
             PROVE  TypeOK'
  BY Zenon
<1> USE TypeFacts DEF TypeOK, kernelVars, dumpVars, drainVars, snapVars,
                      loopVars, freshVars, histVars
<1>1. CASE LoopHead
  <2>1. pc' \in Places
    BY <1>1, Zenon DEF LoopHead, Places
  <2>2. evChanged' \in BOOLEAN /\ evLost' \in BOOLEAN /\ left' \in 0..DrainBatch
    BY <1>1, Zenon DEF LoopHead, StartDrain
  <2> QED
    BY <1>1, <2>1, <2>2, Zenon DEF LoopHead
<1>2. CASE RecvOverrun
  BY <1>2, ZenonT(60) DEF RecvOverrun
<1>3. CASE RecvEvent
  BY <1>3, NetlinkAssumption DEF RecvEvent
<1>4. CASE RecvUnreadable
  BY <1>4, NetlinkAssumption DEF RecvUnreadable
<1>5. CASE RecvInterrupted
  BY <1>5, NetlinkAssumption DEF RecvInterrupted
<1>6. CASE SnapshotHead
  BY <1>6, FailType, Zenon DEF SnapshotHead, StartDrain, Places, Attempt, Dumping
<1>7. CASE SnapshotDrained
  BY <1>7, FailType, Zenon DEF SnapshotDrained, EndDrain, Places, Attempt, Dumping
<1>8. CASE RecvPause
  BY <1>8 DEF RecvPause, Places, Attempt, Dumping
<1>9. CASE SnapshotFault
  BY <1>9, FailType, Zenon DEF SnapshotFault
<1>10. CASE SnapshotEnd
  BY <1>10, FailType, ZenonT(60) DEF SnapshotEnd, EndDrain, Places, Attempt
<1>11. CASE FilterDone
  BY <1>11, ZenonT(60) DEF FilterDone, StartDrain, Places, Attempt
<1>12. CASE DiscardSnapshot
  BY <1>12, Zenon DEF DiscardSnapshot, ForgetAttempt, EndDrain, Places, Attempt
<1>13. CASE Poll
  BY <1>13 DEF Poll, Places, Attempt
<1>14. CASE JoinWatchdog
  BY <1>14 DEF JoinWatchdog, Places, Attempt
<1>15. CASE KernelNotify
  <2>1. Enqueue
    BY <1>15, Zenon DEF KernelNotify
  <2> QED
    BY <1>15, <2>1, EnqueueType, ZenonT(60) DEF KernelNotify
<1>16. CASE KernelOther
  <2>1. Enqueue
    BY <1>16, Zenon DEF KernelOther
  <2> QED
    BY <1>16, <2>1, EnqueueType, SMTT(30) DEF KernelOther
<1>17. CASE RequestStop
  BY <1>17, SMTT(30) DEF RequestStop
<1>18. CASE WatchdogWake
  BY <1>18, ZenonT(60) DEF WatchdogWake, Expire
<1>19. CASE UNCHANGED vars
  BY <1>19 DEF vars
<1>20. ASSUME NEW S \in SUBSET Prefix, RecvRows(S)
      PROVE  TypeOK'
  <2>1. CASE FailSnapshot
    BY <2>1, FailType, Zenon
  <2>2. CASE ~FailSnapshot
    <3>1. rows' \in SUBSET Prefix /\ result' \in SUBSET Prefix
      BY <1>20, <2>2, Zenon DEF RecvRows
    <3> QED
      BY <1>20, <2>2, <3>1, SMTT(30) DEF RecvRows
  <2> QED
    BY <2>1, <2>2, Zenon
<1>21. ASSUME NEW p \in Prefix, KernelVisit(p)
      PROVE  TypeOK'
  BY <1>21 DEF KernelVisit
<1>22. ASSUME NEW i \in Dumps, NEW p \in Prefix, KernelChange(i, p)
      PROVE  TypeOK'
  BY <1>22 DEF KernelChange
<1>23. CASE RecvDone
  <2>1. pc' \in Places /\ table' \in Dumps
    BY <1>23, NetlinkAssumption
    DEF RecvDone, Request, Places, Attempt, Dumping, Dumps
  <2>2. /\ evChanged' \in BOOLEAN /\ evLost' \in BOOLEAN /\ left' \in 0..DrainBatch
        /\ walk' \in SUBSET Prefix /\ rows' \in SUBSET Prefix
    BY <1>23, Zenon DEF RecvDone, Request, StartDrain
  <2> QED
    BY <1>23, <2>1, <2>2 DEF RecvDone
<1>24. CASE Decide
  <2>1. since' \in 0..SinceCap \cup {None} /\ dirty' \in BOOLEAN
    BY <1>24, Zenon DEF Decide, Invalidate
  <2>2. /\ pc' \in Places /\ table' \in Dumps
        /\ walk' \in SUBSET Prefix /\ rows' \in SUBSET Prefix
        /\ result' \in SUBSET Prefix /\ changed' \in BOOLEAN
        /\ elapsed' \in 0..DumpTimeout
    BY <1>24, Zenon DEF Decide, BeginSnapshot, Request, Places, Attempt, Dumping
  <2>3. /\ held' \in [Dumps -> SUBSET Prefix] /\ seen' \in [Dumps -> SUBSET Prefix]
        /\ tried' \in BOOLEAN /\ age' \in 0..SinceCap
    BY <1>24, Zenon DEF Decide, BeginSnapshot
  <2> QED
    BY <1>24, <2>1, <2>2, <2>3, Zenon DEF Decide, EndDrain
<1>25. CASE PublishSnapshot
  BY <1>25, FilterType, Zenon DEF PublishSnapshot, Publish, ForgetAttempt, EndDrain, Places
<1>26. CASE Tick
  <2>1. since' \in 0..SinceCap \cup {None} /\ age' \in 0..SinceCap
    BY <1>26, NetlinkAssumption DEF Tick, Least
  <2>2. /\ due' \in Nat /\ periodic' \in 0..ReconcileInterval
        /\ park' \in 0..WatchdogPeriod /\ elapsed' \in 0..DumpTimeout
    BY <1>26, NetlinkAssumption DEF Tick, Less, Least
  <2> QED
    BY <1>26, <2>1, <2>2, SMTT(30) DEF Tick
<1> QED
  BY <1>1, <1>2, <1>3, <1>4, <1>5, <1>6, <1>7, <1>8, <1>9, <1>10, <1>11, <1>12, <1>13,
     <1>14, <1>15, <1>16, <1>17, <1>18, <1>19, <1>20, <1>21, <1>22, <1>23, <1>24,
     <1>25, <1>26, Zenon
  DEF Next, Worker, Drain, Kernel

LEMMA TimerTypes ==
  ASSUME TypeOK
  PROVE  /\ since \in Nat \cup {None} /\ None \notin Nat /\ SinceCap \in Nat
         /\ park \in 0..WatchdogPeriod /\ due \in Nat
<1>1. since \in 0..SinceCap \cup {None} /\ park \in 0..WatchdogPeriod /\ due \in Nat
  BY Zenon DEF TypeOK
<1> QED
  BY <1>1, NetlinkAssumption, TypeFacts

(* Type correctness of the worker's, the watchdog's and the kernel's state. *)
THEOREM TypeCorrect == Spec => []TypeOK
  BY TypeInit, TypeNext, PTL DEF Spec

----------------------------------------------------------------------------
(* run()'s control state *)

(* drain()'s Events live only while it runs, an attempt is made only of a  *)
(* dirty export and counts as one, and the deadline runs while dirty.      *)
ControlInv ==
  /\ pc \notin Drains => ~evChanged /\ ~evLost
  /\ pc \in Attempt => dirty /\ tried
  /\ DirtyHasDeadline

LEMMA ControlInit == Init => ControlInv
  BY NetlinkAssumption DEF Init, ControlInv, DirtyHasDeadline, Drains, Attempt, Dumping

LEMMA FailControl ==
  ASSUME ControlInv, FailSnapshot
  PROVE  ControlInv'
  BY Zenon DEF FailSnapshot, ForgetAttempt, EndDrain, ControlInv, DirtyHasDeadline,
         Drains, Attempt, Dumping, freshVars

LEMMA ControlNext == TypeOK /\ ControlInv /\ [Next]_vars => ControlInv'
<1> SUFFICES ASSUME TypeOK, ControlInv, [Next]_vars
             PROVE  ControlInv'
  BY Zenon
<1>0. 0 # None
  BY NetlinkAssumption
<1> USE DEF ControlInv, DirtyHasDeadline, Drains, Attempt, Dumping, drainVars,
            loopVars, freshVars, histVars
<1>1. CASE LoopHead
  BY <1>1, Zenon DEF LoopHead, StartDrain
<1>2. CASE Drain
  BY <1>2 DEF Drain, RecvOverrun, RecvEvent, RecvUnreadable, RecvInterrupted
<1>3. CASE Decide
  <2>1. (dirty' <=> since' # None) /\ ~evChanged' /\ ~evLost'
    <3> DEFINE noticed == evChanged \/ evLost \/ periodic = 0
    <3>1. /\ dirty' <=> dirty \/ noticed
          /\ since' = IF noticed THEN IF since = None THEN 0 ELSE since ELSE since
      BY <1>3, Zenon DEF Decide, Invalidate
    <3>2. ~evChanged' /\ ~evLost'
      BY <1>3, Zenon DEF Decide, EndDrain
    <3> QED
      BY <1>0, <3>1, <3>2, Zenon
  <2>2. pc' \in Attempt => dirty' /\ tried'
    BY <1>3, Zenon DEF Decide, BeginSnapshot
  <2> QED
    BY <2>1, <2>2, Zenon
<1>4. CASE SnapshotHead
  BY <1>4, FailControl, Zenon DEF SnapshotHead, StartDrain
<1>5. CASE SnapshotDrained
  BY <1>5, FailControl, Zenon DEF SnapshotDrained, EndDrain
<1>6. CASE RecvDone
  BY <1>6, Zenon DEF RecvDone, StartDrain
<1>7. CASE RecvPause
  BY <1>7, Zenon DEF RecvPause
<1>8. CASE SnapshotFault
  BY <1>8, FailControl, Zenon DEF SnapshotFault
<1>9. ASSUME NEW S \in SUBSET Prefix, RecvRows(S)
      PROVE  ControlInv'
  BY <1>9, FailControl, Zenon DEF RecvRows
<1>10. CASE SnapshotEnd
  BY <1>10, FailControl, Zenon DEF SnapshotEnd, EndDrain
<1>11. CASE FilterDone
  BY <1>11, Zenon DEF FilterDone, StartDrain
<1>12. CASE DiscardSnapshot
  BY <1>12, Zenon DEF DiscardSnapshot, EndDrain
<1>13. CASE PublishSnapshot
  <2>1. /\ dirty' <=> changed \/ evChanged
        /\ since' = IF changed \/ evChanged THEN 0 ELSE None
    BY <1>13, Zenon DEF PublishSnapshot, Publish
  <2>2. pc' = "poll" /\ ~evChanged' /\ ~evLost'
    BY <1>13, Zenon DEF PublishSnapshot, EndDrain
  <2> QED
    BY <1>0, <2>1, <2>2, Zenon
<1>14. CASE Poll \/ JoinWatchdog
  BY <1>14 DEF Poll, JoinWatchdog
<1>15. CASE Kernel
  BY <1>15 DEF Kernel, KernelChange, KernelNotify, KernelOther, KernelVisit
<1>16. CASE WatchdogWake
  BY <1>16, Zenon DEF WatchdogWake, Expire
<1>17. CASE RequestStop
  BY <1>17, Zenon DEF RequestStop
<1>18. CASE Tick
  <2>1. since \in Nat \cup {None} /\ None \notin Nat /\ SinceCap \in Nat
    BY TimerTypes, Zenon
  <2>2. since' # None <=> since # None
    BY <1>18, <2>1 DEF Tick, Least
  <2> QED
    BY <1>18, <2>2, Zenon DEF Tick
<1>19. CASE UNCHANGED vars
  BY <1>19, Zenon DEF vars
<1> QED
  BY <1>1, <1>2, <1>3, <1>4, <1>5, <1>6, <1>7, <1>8, <1>9, <1>10, <1>11,
     <1>12, <1>13, <1>14, <1>15, <1>16, <1>17, <1>18, <1>19, Zenon
  DEF Next, Worker

LEMMA ControlCorrect == Spec => [](TypeOK /\ ControlInv)
<1>1. Init => TypeOK /\ ControlInv
  BY TypeInit, ControlInit, Zenon
<1>2. TypeOK /\ ControlInv /\ [Next]_vars => (TypeOK /\ ControlInv)'
  BY TypeNext, ControlNext, Zenon
<1> QED
  BY <1>1, <1>2, PTL DEF Spec

(* run()'s dirty flag and Freshness.dirty_since agree at every step of     *)
(* every thread.                                                           *)
THEOREM DeadlineRuns == Spec => []DirtyHasDeadline
<1>1. ControlInv => DirtyHasDeadline
  BY Zenon DEF ControlInv
<1> QED
  BY <1>1, ControlCorrect, PTL

----------------------------------------------------------------------------
(* What an attempt has collected *)

(* The staging set and the rows under way account for every prefix that    *)
(* the tables dumped so far have held throughout, and hold nothing that    *)
(* was in no table; once the dumps are over nothing is under way.          *)
Cover ==
  pc \in Attempt =>
    /\ \A j \in Dumps : j < table => held[j] \subseteq result
    /\ held[table] \subseteq result \cup rows \cup walk
    /\ \A p \in result \cup rows : \E i \in Dumps : p \in seen[i]
    /\ \A i \in Dumps : held[i] \subseteq kernel[i] /\ kernel[i] \subseteq seen[i]
    /\ pc \notin Dumping => table = NumDumps /\ walk = {} /\ rows = {}

(* An attempt during which no change was noticed, with no notification     *)
(* outstanding, saw tables that did not change.                            *)
Exact == pc \in Attempt /\ ~changed /\ ~Pending => held = kernel /\ seen = kernel

LEMMA FailLeaves ==
  ASSUME FailSnapshot
  PROVE  pc' \notin Attempt
  BY Zenon DEF FailSnapshot, Attempt, Dumping

LEMMA CoverNext == TypeOK /\ Cover /\ [Next]_vars => Cover'
<1> SUFFICES ASSUME TypeOK, Cover, [Next]_vars, pc' \in Attempt
             PROVE  Cover'
  BY Zenon DEF Cover
<1>1. ASSUME UNCHANGED <<kernel, walk, rows, pc, table, result, held, seen>>
      PROVE  Cover'
  BY <1>1, Zenon DEF Cover
<1>2. ASSUME UNCHANGED <<kernel, walk, rows, table, result, held, seen>>,
             pc \in Attempt, pc' \in Dumping \/ pc \notin Dumping
      PROVE  Cover'
  BY <1>2, Zenon DEF Cover
<1> USE DEF kernelVars, dumpVars, snapVars, histVars
<1>3. CASE LoopHead \/ Poll \/ JoinWatchdog
  BY <1>3, Zenon DEF LoopHead, Poll, JoinWatchdog, Attempt, Dumping
<1>4. CASE Drain
  BY <1>1, <1>4, Zenon DEF Drain, RecvOverrun, RecvEvent, RecvUnreadable, RecvInterrupted
<1>5. CASE Decide
  <2>1. /\ table' = 1 /\ walk' = Prefix /\ rows' = {} /\ result' = {} /\ pc' = "snap"
        /\ held' = kernel /\ seen' = kernel /\ kernel' = kernel
    BY <1>5, Zenon DEF Decide, BeginSnapshot, Request, Attempt, Dumping
  <2>2. kernel[1] \subseteq Prefix /\ \A j \in Dumps : ~(j < 1)
    BY TypeFacts DEF TypeOK, Dumps
  <2> QED
    BY <2>1, <2>2, Zenon DEF Cover, Dumping
<1>6. CASE SnapshotHead \/ SnapshotDrained \/ RecvPause
  BY <1>2, <1>6, FailLeaves, Zenon
  DEF SnapshotHead, SnapshotDrained, RecvPause, Attempt, Dumping
<1>7. CASE SnapshotEnd \/ FilterDone
  BY <1>2, <1>7, FailLeaves, Zenon DEF SnapshotEnd, FilterDone, Attempt, Dumping
<1>8. CASE SnapshotFault
  BY <1>8, FailLeaves, Zenon DEF SnapshotFault
<1>9. CASE DiscardSnapshot \/ PublishSnapshot
  BY <1>9, Zenon DEF DiscardSnapshot, PublishSnapshot, Attempt, Dumping
<1>10. CASE WatchdogWake \/ RequestStop \/ Tick
  BY <1>1, <1>10, Zenon DEF WatchdogWake, RequestStop, Tick
<1>11. CASE KernelNotify \/ KernelOther
  BY <1>1, <1>11, Zenon DEF KernelNotify, KernelOther
<1>12. ASSUME NEW S \in SUBSET Prefix, RecvRows(S)
       PROVE  Cover'
  <2>1. /\ S \subseteq rows /\ rows' = rows \ S /\ result' = result \cup S
        /\ UNCHANGED <<kernel, walk, pc, table, held, seen>> /\ pc = "recv"
    BY <1>12, FailLeaves, Zenon DEF RecvRows
  <2> QED
    BY <2>1, Zenon DEF Cover, Dumping
<1>13. CASE RecvDone
  <2>1. /\ walk = {} /\ rows = {} /\ pc = "recv" /\ rows' = {}
        /\ UNCHANGED <<kernel, result, held, seen>>
    BY <1>13, Zenon DEF RecvDone, Request
  <2>2. table \in Dumps /\ held \in [Dumps -> SUBSET Prefix] /\ NumDumps \in Nat
    BY NetlinkAssumption, Zenon DEF TypeOK
  <2>3. /\ \A j \in Dumps : j < table + 1 => held[j] \subseteq result
        /\ \A p \in result : \E i \in Dumps : p \in seen[i]
        /\ \A i \in Dumps : held[i] \subseteq kernel[i] /\ kernel[i] \subseteq seen[i]
    <3>1. pc \in Attempt
      BY <2>1, Zenon DEF Attempt, Dumping
    <3>2. held[table] \subseteq result
      BY <2>1, <3>1, Zenon DEF Cover
    <3>3. \A j \in Dumps : j < table + 1 => j < table \/ j = table
      BY <2>2 DEF Dumps
    <3> QED
      BY <2>1, <3>1, <3>2, <3>3, Zenon DEF Cover
  <2>4. CASE table < NumDumps
    <3>1. pc' = "snap" /\ table' = table + 1 /\ walk' = Prefix
      BY <1>13, <2>4, Zenon DEF RecvDone, Request
    <3>2. table + 1 \in Dumps
      BY <2>2, <2>4 DEF Dumps
    <3>3. held[table + 1] \subseteq Prefix
      BY <2>2, <3>2, Zenon
    <3> QED
      BY <2>1, <2>3, <3>1, <3>3, Zenon DEF Cover, Dumping
  <2>5. CASE ~(table < NumDumps)
    <3>1. table = NumDumps /\ table < table + 1
      BY <2>2, <2>5 DEF Dumps
    <3>2. table' = table /\ walk' = {}
      BY <1>13, <2>1, <2>5, Zenon DEF RecvDone
    <3>3. \A j \in Dumps : j < table => j < table + 1
      BY <2>2 DEF Dumps
    <3> QED
      BY <2>1, <2>2, <2>3, <3>1, <3>2, <3>3, Zenon DEF Cover
  <2> QED
    BY <2>4, <2>5, Zenon
<1>14. ASSUME NEW p \in Prefix, KernelVisit(p)
       PROVE  Cover'
  <2>1. /\ pc \in Dumping /\ walk' = walk \ {p} /\ rows' = rows \cup ({p} \cap kernel[table])
        /\ UNCHANGED <<kernel, pc, table, result, held, seen>> /\ table \in Dumps
    BY <1>14, Zenon DEF KernelVisit, TypeOK
  <2> QED
    BY <2>1, Zenon DEF Cover, Attempt
<1>15. ASSUME NEW i \in Dumps, NEW p \in Prefix, KernelChange(i, p)
       PROVE  Cover'
  <2>1. /\ UNCHANGED <<walk, rows, pc, table, result>> /\ pc \in Attempt
        /\ table \in Dumps
    BY <1>15, Zenon DEF KernelChange, TypeOK
  <2>2. \A j \in Dumps : held'[j] \subseteq held[j] /\ seen[j] \subseteq seen'[j]
    BY <1>15, <2>1, Zenon DEF KernelChange, TypeOK
  <2>3. \A j \in Dumps : held[j] \subseteq kernel[j] /\ kernel[j] \subseteq seen[j]
    BY <2>1, Zenon DEF Cover
  <2>4. \A j \in Dumps : held'[j] \subseteq kernel'[j] /\ kernel'[j] \subseteq seen'[j]
    BY <1>15, <2>1, <2>3, Zenon DEF KernelChange, TypeOK
  <2> QED
    BY <2>1, <2>2, <2>4, Zenon DEF Cover
<1>16. CASE UNCHANGED vars
  BY <1>1, <1>16, Zenon DEF vars
<1> QED
  BY <1>3, <1>4, <1>5, <1>6, <1>7, <1>8, <1>9, <1>10, <1>11, <1>12, <1>13,
     <1>14, <1>15, <1>16, Zenon
  DEF Next, Worker, Kernel

LEMMA ExactNext == TypeOK /\ ControlInv /\ Exact /\ [Next]_vars => Exact'
<1> SUFFICES ASSUME TypeOK, ControlInv, Exact, [Next]_vars,
                    pc' \in Attempt, ~changed', ~Pending'
             PROVE  held' = kernel' /\ seen' = kernel'
  BY Zenon DEF Exact
<1>1. ASSUME UNCHANGED <<kernel, held, seen>>, pc \in Attempt, ~changed, ~Pending
      PROVE  held' = kernel' /\ seen' = kernel'
  BY <1>1, Zenon DEF Exact
<1> USE DEF Pending, kernelVars, drainVars, snapVars, histVars
<1>2. CASE LoopHead \/ Poll \/ JoinWatchdog \/ DiscardSnapshot \/ PublishSnapshot
  BY <1>2, Zenon DEF LoopHead, Poll, JoinWatchdog, DiscardSnapshot, PublishSnapshot,
              Attempt, Dumping
<1>3. CASE SnapshotFault
  BY <1>3, FailLeaves, Zenon DEF SnapshotFault
<1>4. CASE Decide
  BY <1>4, Zenon DEF Decide, BeginSnapshot, Attempt, Dumping
<1>5. CASE Drain
  BY <1>1, <1>5, Zenon
  DEF Drain, RecvOverrun, RecvEvent, RecvUnreadable, RecvInterrupted
<1>6. CASE SnapshotHead
  BY <1>1, <1>6, FailLeaves, Zenon
  DEF SnapshotHead, StartDrain, ControlInv, Drains, Attempt, Dumping
<1>7. CASE SnapshotDrained \/ SnapshotEnd
  BY <1>1, <1>7, FailLeaves, Zenon DEF SnapshotDrained, SnapshotEnd, EndDrain, Attempt, Dumping
<1>8. CASE RecvDone \/ FilterDone
  BY <1>1, <1>8, Zenon DEF RecvDone, FilterDone, StartDrain, ControlInv, Drains, Attempt, Dumping
<1>9. CASE RecvPause
  BY <1>1, <1>9, Zenon DEF RecvPause, Attempt, Dumping
<1>10. ASSUME NEW S \in SUBSET Prefix, RecvRows(S)
       PROVE  held' = kernel' /\ seen' = kernel'
  BY <1>1, <1>10, FailLeaves, Zenon DEF RecvRows
<1>11. CASE WatchdogWake \/ RequestStop \/ Tick \/ UNCHANGED vars
  <2>1. /\ UNCHANGED <<kernelVars, drainVars, pc, changed, held, seen>>
    BY <1>11, Zenon DEF WatchdogWake, RequestStop, Tick, vars
  <2> QED
    BY <1>1, <2>1, Zenon
<1>12. CASE KernelNotify \/ KernelOther
  <2>1. Enqueue /\ unsent' = FALSE
    BY <1>12, Zenon DEF KernelNotify, KernelOther, TypeOK
  <2>2. queue' > 0 \/ overrun'
    BY <2>1 DEF Enqueue, TypeOK
  <2> QED
    BY <2>2, Zenon
<1>13. ASSUME NEW p \in Prefix, KernelVisit(p)
       PROVE  held' = kernel' /\ seen' = kernel'
  BY <1>1, <1>13, Zenon DEF KernelVisit
<1>14. ASSUME NEW i \in Dumps, NEW p \in Prefix, KernelChange(i, p)
       PROVE  held' = kernel' /\ seen' = kernel'
  BY <1>14, Zenon DEF KernelChange
<1> QED
  BY <1>2, <1>3, <1>4, <1>5, <1>6, <1>7, <1>8, <1>9, <1>10, <1>11, <1>12,
     <1>13, <1>14, Zenon
  DEF Next, Worker, Kernel

(* At publication the staging set holds all that the tables held           *)
(* throughout, and only what some table held.                              *)
LEMMA CoverAtEnd ==
  ASSUME TypeOK, Cover, pc = "after"
  PROVE  /\ UNION {held[i] : i \in Dumps} \subseteq result
         /\ result \subseteq UNION {seen[i] : i \in Dumps}
<1>1. pc \in Attempt /\ pc \notin Dumping
  BY Zenon DEF Attempt, Dumping
<1>2. \A i \in Dumps : held[i] \subseteq result
  <2>1. table = NumDumps /\ held[table] \subseteq result
    BY <1>1, Zenon DEF Cover
  <2>2. \A i \in Dumps : i < NumDumps \/ i = NumDumps
    BY NetlinkAssumption DEF Dumps
  <2> QED
    BY <1>1, <2>1, <2>2, Zenon DEF Cover
<1>3. \A p \in result : \E i \in Dumps : p \in seen[i]
  BY <1>1, Zenon DEF Cover
<1> QED
  BY <1>2, <1>3, Zenon

LEMMA CleanNext ==
  TypeOK /\ ControlInv /\ Cover /\ Exact /\ CleanIsCurrent /\ [Next]_vars
    => CleanIsCurrent'
<1> SUFFICES ASSUME TypeOK, ControlInv, Cover, Exact, CleanIsCurrent, [Next]_vars,
                    ~dirty', ~Pending'
             PROVE  tx' = Filter(Selected')
  BY Zenon DEF CleanIsCurrent, Filter
<1>1. ASSUME UNCHANGED <<kernel, tx>>, ~dirty, ~Pending
      PROVE  tx' = Filter(Selected')
  BY <1>1, Zenon DEF CleanIsCurrent, Selected
<1>2. pc \notin Attempt \/ dirty
  BY Zenon DEF ControlInv
<1> USE DEF Pending, kernelVars, drainVars, loopVars, freshVars
<1>3. CASE PublishSnapshot
  <2>1. /\ ~changed /\ ~Pending /\ pc = "after"
        /\ tx' = Filter(result) /\ kernel' = kernel
    BY <1>3, Zenon DEF PublishSnapshot, Publish
  <2>2. held = kernel /\ seen = kernel
    BY <2>1, Zenon DEF Exact, Attempt
  <2>3. result = Selected
    BY <2>1, <2>2, CoverAtEnd, Zenon DEF Selected
  <2> QED
    BY <2>1, <2>3, Zenon DEF Selected
<1>4. CASE LoopHead
  BY <1>1, <1>4, Zenon DEF LoopHead, StartDrain, ControlInv, Drains
<1>5. CASE Drain
  BY <1>1, <1>5, Zenon
  DEF Drain, RecvOverrun, RecvEvent, RecvUnreadable, RecvInterrupted
<1>6. CASE Decide
  <2>1. ~dirty /\ ~evChanged /\ ~evLost
    BY <1>6, Zenon DEF Decide
  <2>2. UNCHANGED <<kernelVars, tx>>
    BY <1>6, Zenon DEF Decide
  <2> QED
    BY <1>1, <2>1, <2>2, Zenon
<1>7. CASE SnapshotHead \/ SnapshotDrained \/ RecvDone \/ RecvPause \/ SnapshotFault
  <2>1. pc \in Attempt
    BY <1>7, Zenon DEF SnapshotHead, SnapshotDrained, RecvDone, RecvPause, SnapshotFault,
                Attempt, Dumping
  <2>2. dirty' = dirty
    BY <1>7, Zenon DEF SnapshotHead, SnapshotDrained, RecvDone, RecvPause, SnapshotFault,
                FailSnapshot
  <2> QED
    BY <1>2, <2>1, <2>2, Zenon
<1>8. CASE SnapshotEnd \/ FilterDone \/ DiscardSnapshot
  <2>1. pc \in Attempt /\ dirty' = dirty
    BY <1>8, Zenon DEF SnapshotEnd, FilterDone, DiscardSnapshot, FailSnapshot, Attempt
  <2> QED
    BY <1>2, <2>1, Zenon
<1>9. ASSUME NEW S \in SUBSET Prefix, RecvRows(S)
      PROVE  tx' = Filter(Selected')
  <2>1. pc \in Attempt /\ dirty' = dirty
    BY <1>9, Zenon DEF RecvRows, FailSnapshot, Attempt, Dumping
  <2> QED
    BY <1>2, <2>1, Zenon
<1>10. CASE Poll \/ JoinWatchdog \/ RequestStop \/ Tick \/ UNCHANGED vars
  <2>1. UNCHANGED <<kernelVars, drainVars, dirty, tx>>
    BY <1>10, Zenon DEF Poll, JoinWatchdog, RequestStop, Tick, vars
  <2> QED
    BY <1>1, <2>1, Zenon
<1>11. CASE WatchdogWake
  <2>1. dirty' = dirty /\ UNCHANGED <<kernelVars, drainVars>>
    BY <1>11, Zenon DEF WatchdogWake
  <2>2. tx' = tx
    BY <1>11, <2>1 DEF WatchdogWake, Expire, ControlInv, DirtyHasDeadline
  <2> QED
    BY <1>1, <2>1, <2>2, Zenon
<1>12. CASE KernelNotify \/ KernelOther
  <2>1. Enqueue /\ unsent' = FALSE
    BY <1>12, Zenon DEF KernelNotify, KernelOther, TypeOK
  <2>2. queue' > 0 \/ overrun'
    BY <2>1 DEF Enqueue, TypeOK
  <2> QED
    BY <2>2, Zenon
<1>13. ASSUME NEW p \in Prefix, KernelVisit(p)
       PROVE  tx' = Filter(Selected')
  BY <1>1, <1>13, Zenon DEF KernelVisit
<1>14. ASSUME NEW i \in Dumps, NEW p \in Prefix, KernelChange(i, p)
       PROVE  tx' = Filter(Selected')
  BY <1>14, Zenon DEF KernelChange
<1> QED
  BY <1>3, <1>4, <1>5, <1>6, <1>7, <1>8, <1>9, <1>10, <1>11, <1>12, <1>13, <1>14, Zenon
  DEF Next, Worker, Kernel

(* The inductive invariant behind the worker's data properties. *)
WorkerInv == TypeOK /\ ControlInv /\ Cover /\ Exact /\ CleanIsCurrent

LEMMA WorkerInvariant == Spec => []WorkerInv
<1>1. Init => WorkerInv
  <2>1. Init => pc \notin Attempt /\ dirty
    BY Zenon DEF Init, Attempt, Dumping
  <2> QED
    BY <2>1, TypeInit, ControlInit, Zenon DEF WorkerInv, Cover, Exact, CleanIsCurrent
<1>2. WorkerInv /\ [Next]_vars => WorkerInv'
  BY TypeNext, ControlNext, CoverNext, ExactNext, CleanNext, Zenon DEF WorkerInv
<1> QED
  BY <1>1, <1>2, PTL DEF Spec

(* The worker is never unknowingly wrong, for any number of tables,        *)
(* prefixes, queued notifications and any interleaving with the kernel.    *)
THEOREM CleanCorrect == Spec => []CleanIsCurrent
<1>1. WorkerInv => CleanIsCurrent
  BY Zenon DEF WorkerInv
<1> QED
  BY <1>1, WorkerInvariant, PTL

(* The one step that writes anything but the empty export is publish(). *)
LEMMA OnlyPublishWrites ==
  ASSUME TypeOK, [Next]_vars, tx' \notin {tx, NoExports}
  PROVE  PublishSnapshot
<1> USE DEF freshVars
<1>1. ~(\E S \in SUBSET Prefix : RecvRows(S))
  BY Zenon DEF RecvRows, FailSnapshot
<1>2. ~(LoopHead \/ Drain \/ Decide \/ Poll \/ JoinWatchdog)
  BY Zenon DEF LoopHead, Drain, RecvOverrun, RecvEvent, RecvUnreadable, RecvInterrupted,
         Decide, Poll, JoinWatchdog
<1>3. ~(SnapshotHead \/ SnapshotDrained \/ RecvDone \/ RecvPause \/ SnapshotFault)
  BY Zenon DEF SnapshotHead, SnapshotDrained, RecvDone, RecvPause, SnapshotFault, FailSnapshot
<1>4. ~(SnapshotEnd \/ FilterDone \/ DiscardSnapshot)
  BY Zenon DEF SnapshotEnd, FilterDone, DiscardSnapshot, FailSnapshot
<1>5. ~Kernel
  BY Zenon DEF Kernel, KernelChange, KernelNotify, KernelOther, KernelVisit
<1>6. ~(WatchdogWake \/ RequestStop \/ Tick \/ UNCHANGED vars)
  BY Zenon DEF WatchdogWake, Expire, RequestStop, Tick, vars
<1> QED
  BY <1>1, <1>2, <1>3, <1>4, <1>5, <1>6, Zenon DEF Next, Worker

(* A published export is a complete snapshot: nothing that stayed in a     *)
(* table is missing and nothing in it was absent throughout.               *)
THEOREM SnapshotsComplete == Spec => PublishesCompleteSnapshots
<1> DEFINE Complete ==
      tx' \notin {tx, NoExports} =>
        \A a \in Acls :
            /\ (UNION {held[i] : i \in Dumps}) \cap Permits[a] \subseteq tx'[a]
            /\ tx'[a] \subseteq (UNION {seen[i] : i \in Dumps}) \cap Permits[a]
<1>1. WorkerInv /\ [Next]_vars => [Complete]_vars
  <2> SUFFICES ASSUME WorkerInv, [Next]_vars, tx' \notin {tx, NoExports},
                      NEW a \in Acls
               PROVE  /\ (UNION {held[i] : i \in Dumps}) \cap Permits[a] \subseteq tx'[a]
                      /\ tx'[a] \subseteq (UNION {seen[i] : i \in Dumps}) \cap Permits[a]
    BY Zenon
  <2>1. pc = "after" /\ tx' = Filter(result)
    BY OnlyPublishWrites, Zenon DEF WorkerInv, PublishSnapshot, Publish
  <2>2. tx'[a] = result \cap Permits[a]
    BY <2>1, Zenon DEF Filter
  <2>3. /\ UNION {held[i] : i \in Dumps} \subseteq result
        /\ result \subseteq UNION {seen[i] : i \in Dumps}
    BY <2>1, CoverAtEnd, Zenon DEF WorkerInv
  <2> QED
    BY <2>2, <2>3, Zenon
<1> QED
  BY <1>1, WorkerInvariant, PTL DEF Spec, PublishesCompleteSnapshots

----------------------------------------------------------------------------
(* The stale deadline *)

(* The watchdog wakes before an expired deadline is one period old. *)
StaleInv ==
  /\ withdrawn => tx = NoExports
  /\ ~withdrawn /\ since # None => since + park < StaleTimeout + WatchdogPeriod

LEMMA StaleNext == TypeOK /\ StaleInv /\ [Next]_vars => StaleInv'
<1> SUFFICES ASSUME TypeOK, StaleInv, [Next]_vars
             PROVE  StaleInv'
  BY Zenon
<1>0. /\ StaleTimeout \in Nat \ {0} /\ WatchdogPeriod \in Nat \ {0} /\ None \notin Nat
      /\ park \in 0..WatchdogPeriod /\ since \in Nat \cup {None}
  BY NetlinkAssumption, TimerTypes, Zenon
<1>1. ASSUME UNCHANGED <<freshVars, park>>
      PROVE  StaleInv'
  BY <1>1, Zenon DEF StaleInv, freshVars
<1>2. CASE LoopHead \/ Drain \/ Poll \/ JoinWatchdog
  BY <1>1, <1>2, Zenon DEF LoopHead, Drain, RecvOverrun, RecvEvent, RecvUnreadable,
                    RecvInterrupted, Poll, JoinWatchdog
<1>3. CASE SnapshotHead \/ SnapshotDrained \/ RecvDone \/ RecvPause \/ SnapshotFault
  BY <1>1, <1>3, Zenon DEF SnapshotHead, SnapshotDrained, RecvDone, RecvPause,
                    SnapshotFault, FailSnapshot
<1>4. CASE SnapshotEnd \/ FilterDone \/ DiscardSnapshot
  BY <1>1, <1>4, Zenon DEF SnapshotEnd, FilterDone, DiscardSnapshot, FailSnapshot
<1>5. CASE \E S \in SUBSET Prefix : RecvRows(S)
  BY <1>1, <1>5, Zenon DEF RecvRows, FailSnapshot
<1>6. CASE Kernel \/ RequestStop \/ UNCHANGED vars
  BY <1>1, <1>6, Zenon DEF Kernel, KernelChange, KernelNotify, KernelOther, KernelVisit,
                    RequestStop, vars
<1>7. CASE Decide
  <2>1. (since' = 0 \/ since' = since) /\ UNCHANGED <<withdrawn, tx, park>>
    BY <1>7, Zenon DEF Decide, Invalidate
  <2>2. 0 + park < StaleTimeout + WatchdogPeriod
    BY <1>0
  <2> QED
    BY <2>1, <2>2, Zenon DEF StaleInv
<1>8. CASE PublishSnapshot
  <2>1. (since' = 0 \/ since' = None) /\ ~withdrawn' /\ park' = park
    BY <1>8, Zenon DEF PublishSnapshot, Publish
  <2>2. 0 + park < StaleTimeout + WatchdogPeriod
    BY <1>0
  <2> QED
    BY <2>1, <2>2, Zenon DEF StaleInv
<1>9. CASE WatchdogWake
  <2>1. CASE ~withdrawn /\ since # None /\ since >= StaleTimeout
    BY <1>9, <2>1, Zenon DEF WatchdogWake, Expire, StaleInv
  <2>2. CASE ~(~withdrawn /\ since # None /\ since >= StaleTimeout)
    <3>1. UNCHANGED freshVars /\ park' = WatchdogPeriod
      BY <1>9, <2>2, Zenon DEF WatchdogWake, Expire
    <3> QED
      BY <1>0, <2>2, <3>1 DEF StaleInv, freshVars
  <2> QED
    BY <2>1, <2>2, Zenon
<1>10. CASE Tick
  <2>1. /\ park > 0 /\ park' = park - 1 /\ UNCHANGED <<withdrawn, tx>>
        /\ since' = IF since = None THEN None ELSE Least(since + 1, SinceCap)
    BY <1>10, Zenon DEF Tick
  <2>2. since # None => since' <= since + 1 /\ since' \in Nat
    BY <1>0, <2>1, TypeFacts DEF Least
  <2> QED
    BY <1>0, <2>1, <2>2 DEF StaleInv
<1> QED
  BY <1>2, <1>3, <1>4, <1>5, <1>6, <1>7, <1>8, <1>9, <1>10, Zenon DEF Next, Worker

(* The stale deadline counts from the moment the export was found out of   *)
(* date.                                                                   *)
AgeInv == age = IF dirty THEN since ELSE 0

LEMMA AgeNext == TypeOK /\ ControlInv /\ AgeInv /\ [Next]_vars => AgeInv'
<1> SUFFICES ASSUME TypeOK, ControlInv, AgeInv, [Next]_vars
             PROVE  AgeInv'
  BY Zenon
<1>1. ASSUME UNCHANGED <<dirty, since, age>>
      PROVE  AgeInv'
  BY <1>1, Zenon DEF AgeInv
<1>2. dirty <=> since # None
  BY Zenon DEF ControlInv, DirtyHasDeadline
<1> USE DEF loopVars, freshVars, histVars
<1>3. CASE LoopHead \/ Drain \/ Poll \/ JoinWatchdog
  BY <1>1, <1>3, Zenon DEF LoopHead, Drain, RecvOverrun, RecvEvent, RecvUnreadable,
                    RecvInterrupted, Poll, JoinWatchdog
<1>4. CASE SnapshotHead \/ SnapshotDrained \/ RecvDone \/ RecvPause \/ SnapshotFault
  BY <1>1, <1>4, Zenon DEF SnapshotHead, SnapshotDrained, RecvDone, RecvPause,
                    SnapshotFault, FailSnapshot
<1>5. CASE SnapshotEnd \/ FilterDone \/ DiscardSnapshot
  BY <1>1, <1>5, Zenon DEF SnapshotEnd, FilterDone, DiscardSnapshot, FailSnapshot
<1>6. CASE \E S \in SUBSET Prefix : RecvRows(S)
  BY <1>1, <1>6, Zenon DEF RecvRows, FailSnapshot
<1>7. CASE Kernel \/ RequestStop \/ WatchdogWake \/ UNCHANGED vars
  BY <1>1, <1>7, Zenon DEF Kernel, KernelChange, KernelNotify, KernelOther, KernelVisit,
                    RequestStop, WatchdogWake, Expire, vars
<1>8. CASE Decide
  <2>1. age' = age
    BY <1>8, Zenon DEF Decide, BeginSnapshot
  <2>2. CASE dirty
    <3>1. dirty' /\ since' = since
      BY <1>2, <1>8, <2>2, Zenon DEF Decide, Invalidate
    <3> QED
      BY <2>1, <2>2, <3>1, Zenon DEF AgeInv
  <2>3. CASE ~dirty
    <3>1. age = 0 /\ (dirty' => since' = 0)
      BY <1>2, <1>8, <2>3, Zenon DEF Decide, Invalidate, AgeInv
    <3> QED
      BY <2>1, <3>1, Zenon DEF AgeInv
  <2> QED
    BY <2>2, <2>3, Zenon
<1>9. CASE PublishSnapshot
  BY <1>9, Zenon DEF PublishSnapshot, Publish, AgeInv
<1>10. CASE Tick
  BY <1>2, <1>10, Zenon DEF Tick, AgeInv
<1> QED
  BY <1>3, <1>4, <1>5, <1>6, <1>7, <1>8, <1>9, <1>10, Zenon DEF Next, Worker

(* Exports outlive the moment they are found out of date by less than the  *)
(* stale timeout and one watchdog period, whatever fails or arrives.       *)
THEOREM StaleBounded == Spec => []StaleBound
<1>1. Init => StaleInv /\ AgeInv
  BY NetlinkAssumption DEF Init, StaleInv, AgeInv
<1>2. TypeOK /\ ControlInv /\ StaleInv /\ AgeInv => StaleBound
  <2> SUFFICES ASSUME TypeOK, ControlInv, StaleInv, AgeInv, tx # NoExports
               PROVE  age < StaleTimeout + WatchdogPeriod
    BY Zenon DEF StaleBound
  <2>1. CASE dirty
    <3>1. age = since /\ since # None
      BY <2>1, Zenon DEF AgeInv, ControlInv, DirtyHasDeadline
    <3>2. since + park < StaleTimeout + WatchdogPeriod
      BY <3>1, Zenon DEF StaleInv
    <3>3. since \in Nat /\ park \in Nat
      BY <3>1, TimerTypes, NetlinkAssumption
    <3> QED
      BY <3>1, <3>2, <3>3, NetlinkAssumption
  <2>2. CASE ~dirty
    BY <2>2, NetlinkAssumption DEF AgeInv
  <2> QED
    BY <2>1, <2>2, Zenon
<1> QED
  BY <1>1, <1>2, StaleNext, AgeNext, TypeCorrect, ControlCorrect, PTL DEF Spec

----------------------------------------------------------------------------
(* The refresh slot and the stale deadline *)

(* Until the next attempt, the slot opens within a refresh interval of the *)
(* invalidation.                                                           *)
SlotInv ==
  ~tried =>
    /\ due <= RefreshInterval
    /\ since # None /\ due > 0 => since + due <= RefreshInterval

LEMMA SlotNext == TypeOK /\ ControlInv /\ SlotInv /\ [Next]_vars => SlotInv'
<1> SUFFICES ASSUME TypeOK, ControlInv, SlotInv, [Next]_vars, ~tried'
             PROVE  SlotInv'
  BY Zenon DEF SlotInv
<1>0. /\ RefreshInterval \in Nat /\ None \notin Nat /\ due \in Nat
      /\ since \in Nat \cup {None}
  BY NetlinkAssumption, TimerTypes, Zenon
<1>1. ASSUME UNCHANGED <<due, since, tried>>
      PROVE  SlotInv'
  BY <1>1, Zenon DEF SlotInv
<1> USE DEF loopVars, freshVars, histVars
<1>2. pc \in Attempt => tried
  BY Zenon DEF ControlInv
<1>3. ASSUME FailSnapshot PROVE tried' = tried
  BY <1>3, Zenon DEF FailSnapshot
<1>4. CASE LoopHead \/ Drain \/ Poll \/ JoinWatchdog
  BY <1>1, <1>4, Zenon DEF LoopHead, Drain, RecvOverrun, RecvEvent, RecvUnreadable,
                    RecvInterrupted, Poll, JoinWatchdog
<1>5. CASE SnapshotHead \/ SnapshotDrained \/ RecvDone \/ RecvPause \/ SnapshotFault
  BY <1>2, <1>3, <1>5, Zenon DEF SnapshotHead, SnapshotDrained, RecvDone, RecvPause,
                          SnapshotFault, Attempt, Dumping
<1>6. CASE SnapshotEnd \/ FilterDone \/ DiscardSnapshot
  BY <1>2, <1>3, <1>6, Zenon DEF SnapshotEnd, FilterDone, DiscardSnapshot, Attempt
<1>7. CASE \E S \in SUBSET Prefix : RecvRows(S)
  BY <1>2, <1>3, <1>7, Zenon DEF RecvRows, Attempt, Dumping
<1>8. CASE Kernel \/ RequestStop \/ UNCHANGED vars
  BY <1>1, <1>8, Zenon DEF Kernel, KernelChange, KernelNotify, KernelOther, KernelVisit,
                    RequestStop, vars
<1>9. CASE WatchdogWake
  BY <1>1, <1>9, Zenon DEF WatchdogWake, Expire
<1>10. CASE Decide
  <2>1. /\ since' = since \/ since' = 0
        /\ due' = due /\ tried' = tried
    BY <1>10, Zenon DEF Decide, Invalidate, BeginSnapshot
  <2> QED
    BY <1>0, <2>1 DEF SlotInv
<1>11. CASE PublishSnapshot
  <2>1. (since' = 0 \/ since' = None) /\ due' = RefreshInterval
    BY <1>11, Zenon DEF PublishSnapshot, Publish
  <2> QED
    BY <1>0, <2>1 DEF SlotInv
<1>12. CASE Tick
  <2>1. /\ due' = Less(due) /\ tried' = tried
        /\ since' = IF since = None THEN None ELSE Least(since + 1, SinceCap)
    BY <1>12, Zenon DEF Tick
  <2>2. due > 0 => due' = due - 1
    BY <1>0, <2>1, Zenon DEF Less
  <2>3. due = 0 => due' = 0
    BY <1>0, <2>1 DEF Less
  <2>4. since # None => since' <= since + 1 /\ since' \in Nat
    BY <1>0, <2>1, TypeFacts DEF Least
  <2>5. CASE since = None
    BY <1>0, <2>1, <2>2, <2>3, <2>5 DEF SlotInv
  <2>6. CASE since # None
    BY <1>0, <2>1, <2>2, <2>3, <2>4, <2>6 DEF SlotInv
  <2> QED
    BY <2>5, <2>6, Zenon
<1> QED
  BY <1>4, <1>5, <1>6, <1>7, <1>8, <1>9, <1>10, <1>11, <1>12, Zenon DEF Next, Worker

(* When the refresh interval is shorter than the stale timeout, exports    *)
(* are withdrawn only after the worker was free to replace them.           *)
THEOREM WithdrawalIsEarned ==
  ASSUME RefreshInterval < StaleTimeout
  PROVE  Spec => WithdrawsOnlyAfterAttempt
<1>1. Init => SlotInv
  BY NetlinkAssumption DEF Init, SlotInv
<1>2. TypeOK /\ SlotInv /\ [Next]_vars
        => [withdrawn' /\ ~withdrawn => tried \/ due = 0]_vars
  <2> SUFFICES ASSUME TypeOK, SlotInv, [Next]_vars, withdrawn', ~withdrawn, ~tried
               PROVE  due = 0
    BY Zenon
  <2> USE DEF freshVars
  <2>1. ~(\E S \in SUBSET Prefix : RecvRows(S))
    BY Zenon DEF RecvRows, FailSnapshot
  <2>2. ~(LoopHead \/ Drain \/ Decide \/ Poll \/ JoinWatchdog)
    BY Zenon DEF LoopHead, Drain, RecvOverrun, RecvEvent, RecvUnreadable, RecvInterrupted,
           Decide, Poll, JoinWatchdog
  <2>3. ~(SnapshotHead \/ SnapshotDrained \/ RecvDone \/ RecvPause \/ SnapshotFault)
    BY Zenon DEF SnapshotHead, SnapshotDrained, RecvDone, RecvPause, SnapshotFault,
           FailSnapshot
  <2>4. ~(SnapshotEnd \/ FilterDone \/ DiscardSnapshot \/ PublishSnapshot)
    BY Zenon DEF SnapshotEnd, FilterDone, DiscardSnapshot, FailSnapshot, PublishSnapshot,
           Publish
  <2>5. ~(Kernel \/ RequestStop \/ Tick \/ UNCHANGED vars)
    BY Zenon DEF Kernel, KernelChange, KernelNotify, KernelOther, KernelVisit, RequestStop,
           Tick, vars
  <2>6. WatchdogWake
    BY <2>1, <2>2, <2>3, <2>4, <2>5, Zenon DEF Next, Worker
  <2>7. since # None /\ since >= StaleTimeout
    BY <2>6, Zenon DEF WatchdogWake, Expire
  <2>8. /\ RefreshInterval \in Nat /\ StaleTimeout \in Nat /\ due \in Nat
        /\ since \in Nat \cup {None}
    BY NetlinkAssumption, TimerTypes, Zenon
  <2> QED
    BY <2>7, <2>8 DEF SlotInv
<1> QED
  BY <1>1, <1>2, SlotNext, ControlCorrect, PTL DEF Spec, WithdrawsOnlyAfterAttempt
=============================================================================
