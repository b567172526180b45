------------------------------ MODULE Netlink ------------------------------
(***************************************************************************)
(* The kernel route worker of src/src/netlink.rs: run(), snapshot(),       *)
(* drain(), Freshness and the stale watchdog thread, with the part of      *)
(* Linux they talk to.  The worker turns lossy change notifications into   *)
(* full dumps of the selected tables and publishes the filtered result on  *)
(* a watch channel; the watchdog empties the channel when no dump          *)
(* replaces an invalidated export in time.                                 *)
(*                                                                         *)
(* Time is a set of timers that Tick moves (one tick is one unit of the    *)
(* configured intervals): remaining time for "due" and "periodic", age     *)
(* for "since" and "elapsed".                                              *)
(***************************************************************************)
EXTENDS Naturals, Sequences, FiniteSets

CONSTANTS
    Prefix,             \* eligible kernel prefixes
    Acls,               \* export ACLs that some peer references
    Permits,            \* [Acls -> SUBSET Prefix], what Acl::permits accepts
    NumDumps,           \* selected (family, table) pairs, dumped in order
    OfFamily,           \* [Dumps -> SUBSET Prefix], a dump is of one family
    MaxPrefixes,        \* kernel.max_prefixes
    QueueMax,           \* notifications the event socket buffer holds
    DrainBatch,         \* datagrams one drain() pass reads (128 in the code)
    RefreshInterval,    \* kernel.refresh_interval_ms
    ReconcileInterval,  \* kernel.reconcile_interval_secs
    StaleTimeout,       \* kernel.stale_timeout_secs
    DumpTimeout,        \* kernel.dump_timeout_secs
    Backoff,            \* retry delays, by consecutive failures
    WatchdogPeriod,     \* park time of the watchdog thread (100 ms)
    None                \* Option::None

Dumps == 1..NumDumps

ASSUME NetlinkAssumption ==
    /\ Permits \in [Acls -> SUBSET Prefix]
    /\ Acls # {}
    /\ OfFamily \in [Dumps -> SUBSET Prefix]
    /\ NumDumps \in Nat \ {0} /\ MaxPrefixes \in Nat \ {0}
    /\ QueueMax \in Nat \ {0} /\ DrainBatch \in Nat \ {0}
    /\ RefreshInterval \in Nat \ {0} /\ ReconcileInterval \in Nat \ {0}
    /\ StaleTimeout \in Nat \ {0} /\ DumpTimeout \in Nat \ {0}
    /\ DumpTimeout < StaleTimeout
    /\ WatchdogPeriod \in Nat \ {0}
    /\ Backoff \in Seq(Nat) /\ Len(Backoff) > 0
    /\ None \notin Nat

VARIABLES
    kernel,     \* [Dumps -> SUBSET Prefix]: the kernel's tables
    unsent,     \* a table changed and its notification is not yet queued
    queue,      \* notifications queued on the event socket
    overrun,    \* the event socket holds an ENOBUFS error
    walk,       \* prefixes the kernel's current dump has not visited
    rows,       \* dump rows queued on the request socket
    pc,         \* where the worker is
    evChanged,  \* Events.changed of the drain in progress
    evLost,     \* Events.lost of the drain in progress
    left,       \* datagrams that drain may still read
    table,      \* index of the dump in progress
    result,     \* snapshot()'s staging set
    changed,    \* snapshot()'s changed flag
    elapsed,    \* age of snapshot()'s started
    dirty, due, periodic, retries,  \* run()'s locals
    since,      \* Freshness.dirty_since, as an age
    withdrawn,  \* Freshness.withdrawn
    tx,         \* value of the watch channel
    park,       \* time until the watchdog thread wakes
    stop,       \* the supervisor's stop flag
    held, seen, \* history: prefixes of each table present all through, and
                \* at some time of, the attempt in progress
    tried,      \* history: an attempt was made since the last publication
    age         \* history: time since the export was found out of date

kernelVars == <<kernel, unsent, queue, overrun>>
dumpVars == <<walk, rows>>
drainVars == <<evChanged, evLost, left>>
snapVars == <<table, result, changed, elapsed>>
loopVars == <<dirty, due, periodic, retries>>
freshVars == <<since, withdrawn, tx>>
histVars == <<held, seen, tried, age>>
vars == <<kernelVars, dumpVars, pc, drainVars, snapVars, loopVars,
          freshVars, park, stop, histVars>>

Drains == {"top", "mid", "end", "after"}    \* drain() is running
Dumping == {"snap", "mid", "recv"}          \* a dump has been requested
Attempt == Dumping \cup {"end", "filter", "after"}
Places == Attempt \cup {"loop", "top", "poll", "join", "done"}

(* Exports::new(), the empty map: no ACL has an entry. *)
NoExports == [a \in {} |-> {}]

(* filter(): the permitted prefixes of every referenced ACL. *)
Filter(S) == [a \in Acls |-> S \cap Permits[a]]

Selected == UNION {kernel[i] : i \in Dumps}
EmptyTables == [i \in Dumps |-> {}]

SinceCap == StaleTimeout + WatchdogPeriod
Least(a, b) == IF a < b THEN a ELSE b
Less(a) == IF a > 0 THEN a - 1 ELSE 0

TypeOK ==
    /\ kernel \in [Dumps -> SUBSET Prefix]
    /\ unsent \in BOOLEAN
    /\ queue \in 0..QueueMax
    /\ overrun \in BOOLEAN
    /\ walk \in SUBSET Prefix
    /\ rows \in SUBSET Prefix
    /\ pc \in Places
    /\ evChanged \in BOOLEAN
    /\ evLost \in BOOLEAN
    /\ left \in 0..DrainBatch
    /\ table \in Dumps
    /\ result \in SUBSET Prefix
    /\ changed \in BOOLEAN
    /\ elapsed \in 0..DumpTimeout
    /\ dirty \in BOOLEAN
    /\ due \in Nat
    /\ periodic \in 0..ReconcileInterval
    /\ retries \in 0..Len(Backoff)
    /\ since \in 0..SinceCap \cup {None}
    /\ withdrawn \in BOOLEAN
    /\ tx \in [Acls -> SUBSET Prefix] \cup {NoExports}
    /\ park \in 0..WatchdogPeriod
    /\ stop \in BOOLEAN
    /\ held \in [Dumps -> SUBSET Prefix]
    /\ seen \in [Dumps -> SUBSET Prefix]
    /\ tried \in BOOLEAN
    /\ age \in 0..SinceCap

Init ==
    /\ kernel \in [Dumps -> SUBSET Prefix]
    /\ \A i \in Dumps : kernel[i] \subseteq OfFamily[i]
    /\ unsent = FALSE /\ queue = 0 /\ overrun = FALSE
    /\ walk = {} /\ rows = {}
    /\ pc = "loop"
    /\ evChanged = FALSE /\ evLost = FALSE /\ left = 0
    /\ table = 1 /\ result = {} /\ changed = FALSE /\ elapsed = 0
    /\ dirty = TRUE /\ due = 0 /\ periodic = 0 /\ retries = 0
    /\ since = 0 /\ withdrawn = FALSE /\ tx = NoExports
    /\ park = 0
    /\ stop = FALSE
    /\ held = EmptyTables /\ seen = EmptyTables /\ tried = FALSE
    /\ age = 0

----------------------------------------------------------------------------
(* The kernel: tables, notifications and dumps. *)

(* A route is added to or removed from a selected table.  Changes are     *)
(* serialised and each is announced after it was made, so a dump can see  *)
(* a change before its notification exists.                               *)
KernelChange(i, p) ==
    /\ ~unsent /\ p \in OfFamily[i]
    /\ kernel' = [kernel EXCEPT ![i] = IF p \in @ THEN @ \ {p} ELSE @ \cup {p}]
    /\ unsent' = TRUE
    /\ held' = [held EXCEPT ![i] = @ \ {p}]
    /\ seen' = IF pc \in Attempt THEN [seen EXCEPT ![i] = @ \cup {p}] ELSE seen
    /\ UNCHANGED <<queue, overrun, dumpVars, pc, drainVars, snapVars, loopVars,
                   freshVars, park, stop, tried, age>>

(* A notification reaches the event socket, or finds its buffer full and  *)
(* leaves an ENOBUFS error instead.                                       *)
Enqueue ==
    \/ /\ queue < QueueMax
       /\ queue' = queue + 1
       /\ UNCHANGED overrun
    \/ /\ queue = QueueMax
       /\ overrun' = TRUE
       /\ UNCHANGED queue

KernelNotify ==
    /\ unsent
    /\ unsent' = FALSE
    /\ Enqueue
    /\ UNCHANGED <<kernel, dumpVars, pc, drainVars, snapVars, loopVars,
                   freshVars, park, stop, histVars>>

(* A notification about a link, an address or a table that is not selected. *)
KernelOther ==
    /\ Enqueue
    /\ UNCHANGED <<kernel, unsent, dumpVars, pc, drainVars, snapVars, loopVars,
                   freshVars, park, stop, histVars>>

(* The kernel's dump visits a prefix and queues a row if it is there now. *)
KernelVisit(p) ==
    /\ pc \in Dumping
    /\ p \in walk
    /\ walk' = walk \ {p}
    /\ rows' = rows \cup ({p} \cap kernel[table])
    /\ UNCHANGED <<kernelVars, pc, drainVars, snapVars, loopVars, freshVars,
                   park, stop, histVars>>

----------------------------------------------------------------------------
(* drain(): one action per recv() on the event socket. *)

StartDrain ==
    /\ evChanged' = FALSE
    /\ evLost' = FALSE
    /\ left' = DrainBatch

EndDrain ==
    /\ evChanged' = FALSE
    /\ evLost' = FALSE
    /\ left' = 0

(* The loop ends when its pass is used up or recv() would block. *)
Drained == left = 0 \/ (queue = 0 /\ ~overrun)

(* recv() reports a pending socket error before it returns data. *)
RecvOverrun ==
    /\ pc \in Drains /\ left > 0
    /\ overrun
    /\ overrun' = FALSE
    /\ evLost' = TRUE
    /\ left' = 0
    /\ UNCHANGED <<kernel, unsent, queue, dumpVars, pc, evChanged, snapVars,
                   loopVars, freshVars, park, stop, histVars>>

(* Mutant of RecvEvent: the pass is not bounded. *)
RecvEventUnbounded ==
    /\ pc \in Drains
    /\ ~overrun /\ queue > 0
    /\ queue' = queue - 1
    /\ evChanged' = TRUE
    /\ left' = left - 1
    /\ UNCHANGED <<kernel, unsent, overrun, dumpVars, pc, evLost, snapVars,
                   loopVars, freshVars, park, stop, histVars>>

RecvEvent ==
    /\ pc \in Drains /\ left > 0
    /\ ~overrun /\ queue > 0
    /\ queue' = queue - 1
    /\ evChanged' = TRUE
    /\ left' = left - 1
    /\ UNCHANGED <<kernel, unsent, overrun, dumpVars, pc, evLost, snapVars,
                   loopVars, freshVars, park, stop, histVars>>

(* A malformed, ERROR or OVERRUN datagram is a loss; an empty one, and one *)
(* that recv() rejects as truncated or foreign, also ends the pass.       *)
RecvUnreadable ==
    /\ pc \in Drains /\ left > 0
    /\ ~overrun /\ queue > 0
    /\ queue' = queue - 1
    /\ evLost' = TRUE
    /\ left' \in {left - 1, 0}
    /\ UNCHANGED <<kernel, unsent, overrun, dumpVars, pc, evChanged, snapVars,
                   loopVars, freshVars, park, stop, histVars>>

RecvInterrupted ==
    /\ pc \in Drains /\ left > 0
    /\ left' = left - 1
    /\ UNCHANGED <<kernelVars, dumpVars, pc, evChanged, evLost, snapVars,
                   loopVars, freshVars, park, stop, histVars>>

----------------------------------------------------------------------------
(* Freshness: the operations done under its mutex. *)

(* Mutant of Invalidate: every invalidation restarts the deadline. *)
InvalidateRestarting == since' = 0

Invalidate == since' = IF since = None THEN 0 ELSE since

Expire ==
    IF ~withdrawn /\ since # None /\ since >= StaleTimeout
    THEN /\ tx' = NoExports
         /\ withdrawn' = TRUE
         /\ UNCHANGED since
    ELSE UNCHANGED freshVars

(* Mutant of Publish: a change seen during the dump starts no deadline. *)
PublishForgetting(more, exports) ==
    /\ tx' = exports
    /\ since' = None
    /\ withdrawn' = FALSE

(* Mutant of Publish: a completed refresh does not clear the old deadline. *)
PublishKeepingDeadline(more, exports) ==
    /\ tx' = exports
    /\ since' = since
    /\ withdrawn' = FALSE

(* Mutant of Publish: the deadline is cleared only by a quiet refresh. *)
PublishNotRestarting(more, exports) ==
    /\ tx' = exports
    /\ since' = IF more THEN since ELSE None
    /\ withdrawn' = FALSE

Publish(more, exports) ==
    /\ tx' = exports
    /\ since' = IF more THEN 0 ELSE None
    /\ withdrawn' = FALSE

----------------------------------------------------------------------------
(* snapshot() *)

(* The request for dump i on the attempt's socket: the kernel has visited *)
(* nothing yet.                                                           *)
Request(i) ==
    /\ table' = i
    /\ walk' = Prefix
    /\ rows' = {}

ForgetAttempt ==
    /\ table' = 1 /\ result' = {} /\ changed' = FALSE /\ elapsed' = 0
    /\ walk' = {} /\ rows' = {}
    /\ held' = EmptyTables /\ seen' = EmptyTables

BeginSnapshot ==
    /\ pc' = "snap"
    /\ Request(1)
    /\ result' = {} /\ changed' = FALSE /\ elapsed' = 0
    /\ held' = kernel /\ seen' = kernel /\ tried' = TRUE
    /\ UNCHANGED age

(* snapshot() returned an error: run() leaves when it is stopping, else   *)
(* schedules a retry.  dirty and the stale deadline stay as they are.     *)
FailSnapshot ==
    /\ ForgetAttempt
    /\ EndDrain
    /\ IF stop
       THEN /\ pc' = "join"
            /\ UNCHANGED <<due, retries>>
       ELSE /\ pc' = "poll"
            /\ retries' = Least(retries + 1, Len(Backoff))
            /\ due' = Backoff[retries']
    /\ UNCHANGED <<kernelVars, dirty, periodic, freshVars, park, stop, tried, age>>

(* The head of the receive loop: stop flag, deadline, then a drain. *)
SnapshotHead ==
    /\ pc = "snap"
    /\ IF stop \/ elapsed >= DumpTimeout
       THEN FailSnapshot
       ELSE /\ pc' = "mid"
            /\ StartDrain
            /\ UNCHANGED <<kernelVars, dumpVars, snapVars, loopVars, freshVars,
                           park, stop, histVars>>

SnapshotDrained ==
    /\ pc = "mid" /\ Drained
    /\ IF evLost
       THEN FailSnapshot
       ELSE /\ pc' = "recv"
            /\ changed' = (changed \/ evChanged)
            /\ EndDrain
            /\ UNCHANGED <<kernelVars, dumpVars, table, result, elapsed,
                           loopVars, freshVars, park, stop, histVars>>

(* Mutant of RecvRows: rows beyond the capacity are dropped. *)
RecvRowsTruncating(S) ==
    /\ pc = "recv"
    /\ S # {} /\ S \subseteq rows
    /\ rows' = rows \ S
    /\ result' = IF Cardinality(result \cup S) > MaxPrefixes
                 THEN result ELSE result \cup S
    /\ UNCHANGED <<kernelVars, walk, pc, drainVars, table, changed, elapsed,
                   loopVars, freshVars, park, stop, histVars>>

(* A datagram of dump rows. *)
RecvRows(S) ==
    /\ pc = "recv"
    /\ S # {} /\ S \subseteq rows
    /\ IF Cardinality(result \cup S) > MaxPrefixes
       THEN FailSnapshot
       ELSE /\ rows' = rows \ S
            /\ result' = result \cup S
            /\ UNCHANGED <<kernelVars, walk, pc, drainVars, table, changed,
                           elapsed, loopVars, freshVars, park, stop, histVars>>

(* NLMSG_DONE, or ENOENT for a table that does not exist: request the     *)
(* next dump, or drain once more at the end of the last one.              *)
RecvDone ==
    /\ pc = "recv"
    /\ walk = {} /\ rows = {}
    /\ IF table < NumDumps
       THEN /\ pc' = "snap"
            /\ Request(table + 1)
            /\ UNCHANGED drainVars
       ELSE /\ pc' = "end"
            /\ StartDrain
            /\ UNCHANGED <<table, dumpVars>>
    /\ UNCHANGED <<kernelVars, result, changed, elapsed, loopVars, freshVars,
                   park, stop, histVars>>

(* The request socket would block: poll both sockets and go round.  A     *)
(* pass that ends after 128 datagrams instead is a pass whose later rows   *)
(* were queued a little later.                                            *)
RecvPause ==
    /\ pc = "recv"
    /\ walk # {} /\ rows = {}
    /\ pc' = "snap"
    /\ UNCHANGED <<kernelVars, dumpVars, drainVars, snapVars, loopVars,
                   freshVars, park, stop, histVars>>

(* Any other way for snapshot() to fail: a socket or poll error, an       *)
(* interrupted or overrun dump, a malformed row, an error status.         *)
SnapshotFault ==
    /\ pc \in {"snap", "recv"}
    /\ FailSnapshot

SnapshotEnd ==
    /\ pc = "end" /\ Drained
    /\ IF evLost
       THEN FailSnapshot
       ELSE /\ pc' = "filter"
            /\ changed' = (changed \/ evChanged)
            /\ EndDrain
            /\ UNCHANGED <<kernelVars, dumpVars, table, result, elapsed,
                           loopVars, freshVars, park, stop, histVars>>

----------------------------------------------------------------------------
(* run() *)

LoopHead ==
    /\ pc = "loop"
    /\ IF stop
       THEN pc' = "join" /\ UNCHANGED drainVars
       ELSE pc' = "top" /\ StartDrain
    /\ UNCHANGED <<kernelVars, dumpVars, snapVars, loopVars, freshVars, park,
                   stop, histVars>>

(* After the drain: note the invalidation, then dump if one is due. *)
Decide ==
    /\ pc = "top" /\ Drained
    /\ LET noticed == evChanged \/ evLost \/ periodic = 0
       IN /\ dirty' = (dirty \/ noticed)
          /\ IF noticed THEN Invalidate ELSE UNCHANGED since
    /\ IF dirty' /\ due = 0
       THEN BeginSnapshot
       ELSE /\ pc' = "poll"
            /\ UNCHANGED <<dumpVars, snapVars, histVars>>
    /\ EndDrain
    /\ UNCHANGED <<kernelVars, due, periodic, retries, withdrawn, tx, park, stop>>

(* filter() ran: drain what arrived meanwhile. *)
FilterDone ==
    /\ pc = "filter"
    /\ pc' = "after"
    /\ StartDrain
    /\ UNCHANGED <<kernelVars, dumpVars, snapVars, loopVars, freshVars, park,
                   stop, histVars>>

(* Loss during ACL evaluation: drop the snapshot, wait a refresh interval. *)
DiscardSnapshot ==
    /\ pc = "after" /\ Drained
    /\ evLost
    /\ pc' = "loop"
    /\ due' = RefreshInterval
    /\ ForgetAttempt
    /\ EndDrain
    /\ UNCHANGED <<kernelVars, dirty, periodic, retries, freshVars, park, stop,
                   tried, age>>

(* Mutant of PublishSnapshot: changes noticed by the drain that follows    *)
(* ACL evaluation are dropped.                                            *)
PublishSnapshotEarly ==
    /\ pc = "after" /\ Drained
    /\ ~evLost
    /\ Publish(changed, Filter(result))
    /\ dirty' = changed
    /\ retries' = 0
    /\ periodic' = ReconcileInterval
    /\ due' = RefreshInterval
    /\ pc' = "poll"
    /\ tried' = FALSE /\ age' = 0
    /\ ForgetAttempt
    /\ EndDrain
    /\ UNCHANGED <<kernelVars, park, stop>>

PublishSnapshot ==
    /\ pc = "after" /\ Drained
    /\ ~evLost
    /\ LET more == changed \/ evChanged
       IN /\ Publish(more, Filter(result))
          /\ dirty' = more
    /\ retries' = 0
    /\ periodic' = ReconcileInterval
    /\ due' = RefreshInterval
    /\ pc' = "poll"
    /\ tried' = FALSE /\ age' = 0
    /\ ForgetAttempt
    /\ EndDrain
    /\ UNCHANGED <<kernelVars, park, stop>>

(* Mutant of Poll: the wait has no timeout. *)
PollBlocking ==
    /\ pc = "poll"
    /\ queue > 0 \/ overrun
    /\ pc' \in {"loop", "join"}
    /\ UNCHANGED <<kernelVars, dumpVars, drainVars, snapVars, loopVars,
                   freshVars, park, stop, histVars>>

(* poll(): activity on the event socket or 50 ms; an error ends run(). *)
Poll ==
    /\ pc = "poll"
    /\ pc' \in {"loop", "join"}
    /\ UNCHANGED <<kernelVars, dumpVars, drainVars, snapVars, loopVars,
                   freshVars, park, stop, histVars>>

(* Dropping the Watchdog sets its quit flag and joins the thread. *)
JoinWatchdog ==
    /\ pc = "join"
    /\ pc' = "done"
    /\ UNCHANGED <<kernelVars, dumpVars, drainVars, snapVars, loopVars,
                   freshVars, park, stop, histVars>>

----------------------------------------------------------------------------
(* The other actors: watchdog thread, supervisor, time. *)

WatchdogWake ==
    /\ pc # "done"
    /\ park = 0
    /\ Expire
    /\ park' = WatchdogPeriod
    /\ UNCHANGED <<kernelVars, dumpVars, pc, drainVars, snapVars, loopVars,
                   stop, histVars>>

RequestStop ==
    /\ ~stop
    /\ stop' = TRUE
    /\ UNCHANGED <<kernelVars, dumpVars, pc, drainVars, snapVars, loopVars,
                   freshVars, park, histVars>>

(* Time passes, but not past the watchdog's wake-up: the thread that is   *)
(* due to run does run.                                                   *)
Tick ==
    /\ park > 0
    /\ park' = park - 1
    /\ due' = Less(due)
    /\ periodic' = Less(periodic)
    /\ since' = IF since = None THEN None ELSE Least(since + 1, SinceCap)
    /\ elapsed' = IF pc \in Dumping THEN Least(elapsed + 1, DumpTimeout) ELSE 0
    /\ age' = IF dirty THEN Least(age + 1, SinceCap) ELSE 0
    /\ UNCHANGED <<kernelVars, dumpVars, pc, drainVars, table, result, changed,
                   dirty, retries, withdrawn, tx, stop, held, seen, tried>>

----------------------------------------------------------------------------
Drain == RecvOverrun \/ RecvEvent \/ RecvUnreadable \/ RecvInterrupted

Worker ==
    \/ LoopHead \/ Drain \/ Decide
    \/ SnapshotHead \/ SnapshotDrained \/ RecvDone \/ RecvPause \/ SnapshotFault
    \/ \E S \in SUBSET Prefix : RecvRows(S)
    \/ SnapshotEnd \/ FilterDone \/ DiscardSnapshot \/ PublishSnapshot
    \/ Poll \/ JoinWatchdog

Kernel ==
    \/ \E i \in Dumps, p \in Prefix : KernelChange(i, p)
    \/ KernelNotify
    \/ KernelOther
    \/ \E p \in Prefix : KernelVisit(p)

Next == Worker \/ Kernel \/ WatchdogWake \/ RequestStop \/ Tick

Spec == Init /\ [][Next]_vars

----------------------------------------------------------------------------
(* Properties *)

(* Something tells the worker that the published export may be out of date. *)
Pending == unsent \/ queue > 0 \/ overrun \/ evChanged \/ evLost

(* The worker is never unknowingly wrong: when no refresh is due, none of  *)
(* the notifications is outstanding and none was lost unnoticed, the       *)
(* channel holds the filtered contents of the kernel's tables, whatever    *)
(* the interleaving of route changes with the several dumps of a snapshot. *)
CleanIsCurrent == ~dirty /\ ~Pending => tx = Filter(Selected)

(* An export awaiting a refresh always has a stale deadline running, and   *)
(* an up-to-date one has none: run()'s dirty and Freshness.dirty_since,    *)
(* kept by two threads' code under a mutex, agree.                         *)
DirtyHasDeadline == dirty <=> since # None

(* run(): "Never let repeated failed dumps move the stale deadline         *)
(* forward".  Exports survive being found out of date by the stale timeout *)
(* and at most one watchdog period, however dumps fail and notifications   *)
(* arrive.                                                                 *)
StaleBound == tx # NoExports => age < StaleTimeout + WatchdogPeriod

(* Only complete snapshots are published: each export set contains every   *)
(* permitted prefix some selected table held all through the attempt and   *)
(* no prefix that none of them held at any time of it.                     *)
PublishesCompleteSnapshots ==
    [][tx' \notin {tx, NoExports} =>
        \A a \in Acls :
            /\ (UNION {held[i] : i \in Dumps}) \cap Permits[a] \subseteq tx'[a]
            /\ tx'[a] \subseteq (UNION {seen[i] : i \in Dumps}) \cap Permits[a]]_vars

(* README "If no complete replacement can be built, an independent         *)
(* watchdog clears exports": the watchdog does not clear them while the    *)
(* worker has not even tried to replace them and only waits for its next   *)
(* refresh slot.                                                           *)
WithdrawsOnlyAfterAttempt ==
    [][withdrawn' /\ ~withdrawn => tried \/ due = 0]_vars

----------------------------------------------------------------------------
(* Liveness *)

(* The worker thread and the watchdog thread are scheduled, the kernel     *)
(* delivers a notification it owes and goes on with a dump, time passes.   *)
Fairness ==
    /\ WF_vars(Worker)
    /\ WF_vars(KernelNotify)
    /\ WF_vars(\E p \in Prefix : KernelVisit(p))
    /\ WF_vars(WatchdogWake)
    /\ WF_vars(Tick)

LiveSpec == Spec /\ Fairness

(* What the environment may do to keep the worker from catching up: change *)
(* routes, make dumps or notifications fail, take longer over a dump than  *)
(* its deadline, stop the worker or hold it up between its waits.          *)
Disturbance ==
    \/ kernel' # kernel \/ stop' # stop
    \/ KernelOther \/ RecvUnreadable \/ SnapshotFault
    \/ pc' = "join"
    \/ Tick /\ (pc \notin Dumping \cup {"poll"} \/ elapsed' = DumpTimeout)

(* Concurrent changes converge through subsequent refreshes: once the      *)
(* environment is calm, the export becomes and stays the filtered tables.  *)
Converges ==
    <>[][~Disturbance]_vars => <>[](tx = Filter(Selected)) \/ <>(pc = "join")

(* A stop request ends the worker and its watchdog from wherever it is,    *)
(* the middle of a dump included.                                          *)
StopHonoured == stop ~> pc = "done"
=============================================================================
