# A TLA+ model of ubgp

ubgp is a small BGP speaker that only advertises: it mirrors the prefixes of
selected Linux routing tables, filters them through export ACLs and sends them
to its neighbors. Nothing it receives is installed. This directory models the
parts of the program where threads, tasks, timers and messages interleave, and
the configuration and message formats that decide what they may do.

## The system and its parts

| part | source | model |
|---|---|---|
| kernel route worker: `run`, `snapshot`, `drain`, `poll`, `filter`, `Freshness`, watchdog thread | `src/src/netlink.rs` | `Netlink` |
| netlink parsing: `messages`, `route`, `dump_status` | `src/src/netlink.rs` | `Netlink`, as outcomes |
| route transmission: `Plan`, `Refresh`, `desired`, `transmit` | `src/src/bgp.rs` | `Transmit` |
| reception, timers, deadlines: `receive`, `send`, `report` | `src/src/bgp.rs` | `Session` (in time), `Transmit` (refreshes), `Peer` (message order) |
| session setup: `connect`, `handshake`, `choose`, `session`, `peer_loop` | `src/src/bgp.rs` | `Peer`, `Session` |
| listener and per-peer channel of `bgp::run` | `src/src/bgp.rs` | `Peer`, `Supervisor` |
| peer status records | `src/src/management.rs` | `Peer` (the state field) |
| OPEN messages: `open`, `parse_open` | `src/src/wire.rs` | `Open` |
| UPDATE messages: `update`, `end_of_rib`, `validate_update`, `update_prefixes`, lengths of `read_frame` | `src/src/wire.rs` | `Encode`, `Codec` |
| configuration, ACLs | `src/src/config.rs` | `Config` |
| supervisor `main::run` | `src/src/main.rs` | `Supervisor` |
| management console | `src/src/management.rs` | `Console` |
| command line, daemon, logging, TCP-MD5, addresses, packaging | `cli.rs`, `daemon.rs`, `tcp_md5.rs`, `transport.rs` | not modelled |

The data path runs from left to right. The worker thread turns lossy kernel
notifications into complete dumps and puts the filtered result on a `watch`
channel. Each Established session follows that channel with `transmit` and
shares a task with `receive`. `peer_loop` sets sessions up, and the supervisor
starts and stops everything.

`Open` extends `Config`; `Session` and `Encode` extend `Open`, and `Codec`
extends `Encode`, so that sessions and messages are checked for configurations
that `validate` accepts and for what `parse_open` negotiates. `MCNetlink` takes
its ACL from `Acl::permits` and has `validate` accept its intervals.
`Feed` is the abstract specification of what a session promises its neighbor.

## Netlink

State: the kernel's tables, an event socket with room for `QueueMax`
notifications and an overrun flag, a dump in progress (`walk`: not yet visited,
`rows`: queued), the worker's program counter and locals, `Freshness`
(`since` is the age of `dirty_since`), the channel's value `tx`, and the
watchdog's park time.

* `KernelChange`, `KernelNotify`, `KernelOther`, `KernelVisit` are the kernel
  (external): a change is made first and announced later, a dump visits
  prefixes one by one while the tables change, a full socket turns
  notifications into ENOBUFS.
* `RecvOverrun`, `RecvEvent`, `RecvUnreadable`, `RecvInterrupted` are single
  receives of `drain`; a pass ends after `DrainBatch` datagrams.
* `SnapshotHead` ... `SnapshotEnd` are the steps of `snapshot`, with a drain
  before each receive round and one at the end. `SnapshotFault` is every error
  that is not decided by modelled state.
* `LoopHead`, `Decide`, `FilterDone`, `DiscardSnapshot`, `PublishSnapshot`,
  `Poll`, `JoinWatchdog` are the steps of `run`; `WatchdogWake` is the thread.
* `Tick` moves all timers. It does not pass the watchdog's wake-up, so the
  watchdog thread is at most one period late.

`held`, `seen`, `tried` and `age` are history variables for the properties.

| property | meaning |
|---|---|
| `CleanIsCurrent` | nothing pending and not dirty: the channel holds exactly the filtered tables |
| `PublishesCompleteSnapshots` | an export has everything present all through the attempt and nothing that never was |
| `DirtyHasDeadline` | the stale deadline runs exactly while a refresh is due |
| `StaleBound` | exports outlive being found out of date by the stale timeout and one watchdog period at most |
| `WithdrawsOnlyAfterAttempt` | the watchdog does not withdraw while the worker only waits for its slot |
| `Converges`, `StopHonoured` | liveness |

## Transmit

One action per step of `transmit` between two awaits; `receive` can run only at
an await (`Awaits`), the kernel worker at any time. `pending` and `permit` are
the two halves of `Refresh`, `armed` is the select's precondition, which the
code evaluates once when the select starts. `peer` is what the neighbor holds
when it has read all bytes, `unrefreshed` is history. `n` and `hold` are chosen
when a session starts: without a hold time no KEEPALIVE wakes the select, and a
refresh in its cooldown depends on `armed` alone. Queues of a plan are
sets: within a family the code's order is that of a hash set.

| property | meaning |
|---|---|
| `PlanReachesTarget` | the rest of the plan leads exactly from what was written to the target |
| `ReplayIsPlanned` | an unfinished refresh survives replanning |
| `MarkerMeansSynchronized` | end-of-RIB means the peer holds the target's routes and nothing is owed |
| `RefreshIsComplete` | (violated, see Findings) a refresh covers every route the peer holds |
| `KeepsPromise` | refinement: `transmit` implements `Feed!Spec`, so a route wanted before and after a snapshot change is never interrupted |
| `RefreshAnswered` | liveness: no refresh request is lost |
| `FulfilsPromise` | refinement with fairness: `transmit` implements `Feed!LiveSpec`, so the peer converges |

The refinement maps `scope` to the prefixes of the negotiated families,
`wanted` to the part of `target` in it and `held` to `peer`.

## Peer

Two speakers that both run this code, over connections with two ends and an
ordered inbox each. `Accept` is the listener with its bounded channel; `Connect`
to `Deadline` are `choose` and its two handshake tasks; `Confirm`, `Receive`,
`SessionFail`, `RejectIncoming` are `session` inside `peer_loop`;
`Backoff...` and `Accept...` are the backoff, where an incoming stream is
served without `choose` (`late`). A close may destroy bytes in flight
(`Reset`). Failures and timeouts may happen at any time.

| property | meaning |
|---|---|
| `EstablishedIsMutual` | the other end of an Established session is committed to the same connection, or gave it up |
| `NothingUnexpected` | no message is an error in the state of the speaker that reads it |
| `EveryStreamOwned` | no superseded or rejected connection stays open |
| `Establishes` | liveness: the speakers agree on one connection |

## Session

One connection between two speakers of this code, in seconds. A frame is two
halves, so that a write given up by the deadline of `send` can leave one half
behind; `BufferCap` halves fit in a direction. `Write`, `WriteDeadline`,
`SendKeepalive`, `SendUpdate` are `send` and `transmit`, `Read` with `Handle` is
`read_frame` in `handshake`, `session` and `receive`, `Expire` the timeouts,
`Lose` an I/O error, `Report` the NOTIFICATION. `Stall` holds data back, `GoMute`
leaves a speaker only ROUTE-REFRESH messages (both external). `Tick` waits for
everything that is due. A timeout is due only while what it limits is `Blocked`:
`timeout` and `timeout_at` try the read or write before they look at the time
(tokio's order of polling, external to this code). A mute neighbor may send
ROUTE-REFRESH messages as fast as they are read, so time also passes while one of
them is waiting (`Flooded`), and with it the hold time. `silence` is counted up to
the hold time, which keeps the model finite. `verdict` is what `parse_open` says
of the other's OPEN.

| property | meaning |
|---|---|
| `TypeOK` | with the types: no timer, KEEPALIVE or write deadline exceeds what its state allows, one second for the NOTIFICATION of `report` |
| `NegotiationAgrees` | both ends derive the same session, a next hop for each family, and opposite collision preferences |
| `HoldExpiryNeedsStall` | the hold timer ends a session with a working neighbor only if data was held back for two thirds of it |
| `OnlyFloodOutlivesHold` | past the hold time without a KEEPALIVE or UPDATE, time passes in a session only while a whole ROUTE-REFRESH is waiting to be read |
| `TornFrameEndsSession` | after half a frame comes nothing but the end |
| `CloseIsMutual` | liveness: no end stays open alone |

## Supervisor

`Start` to `Replace` are `main::run`, with one action per branch of the select
and per step of the shutdown; `todo` holds the steps left, because the branches
stop and join different workers. `DropListener` and `DropSession` are the
runtime dropping the children of an ended BGP task: the `JoinSet` aborts them
without waiting. `learned` is the configuration whose routes a neighbor holds.

| property | meaning |
|---|---|
| `WorkersEnded` | no worker outlives its generation, on any path out of the select |
| `TermHonoured`, `ReloadTakesEffect` | liveness: SIGTERM ends the program; a SIGHUP is never lost |
| `FailsOnlyOnFault` | (violated, see Findings) the program fails only if something failed |

## Encode and Codec

`Push` and `Batched` are `Plan::next`; `update_attrs` and `update_octets` are the
attributes and the length that `update` produces. `Codec` hands this message,
an end-of-RIB marker, or one of another implementation to `validate_update`, one
action per branch of its attribute loop. Values are classes ("good", "bad", the
ASN width of a path), lengths are numbers.

| property | meaning |
|---|---|
| `UpdateNeverPanics` | no assertion or `expect` of `update` and `frame` fails |
| `WorstDefectWins` | an UPDATE is answered by its worst defect, in whatever order defects come |
| `OwnUpdatesAreValid` | the receiver finds nothing wrong with what the encoder sends |
| `RecoveryNamesRoutes` | `update_prefixes` finds routes exactly where `validate_update` did |

## Console

`Accept` and `Join` are the loop of `run`, `Written`, `WriteFail`, `LineEnd` and
`Command` the dialogue of `console`, and `SkipByte`, `Overflow`, `Telnet`,
`Data`, `EndLine` what `line` does with a byte, by its class.

| property | meaning |
|---|---|
| `TypeOK` | both input limits hold |
| `ClientsBounded` | no more clients than the limit, joined or not |
| `LineEndsOnce` | CR LF is one line end, also across calls of `line` |
| `IdleClientsMakeRoom` | liveness: idle clients do not keep others out |

## Runs and bounds

| run | instance | states |
|---|---|---|
| `netlink` | an IPv4 and an IPv6 table, one prefix each, one of them denied, capacity 1, shortest timers | 1,938,512 |
| `netlink_live` | 1 table, refresh 2, stale 3, reconcile 2, fair | 307,456 |
| `netlink_slow_refresh` | refresh 3, stale 2: violation | |
| `transmit` | one prefix per family, batches of one, every negotiation, fair | 248,158 |
| `transmit_refresh` | 2 IPv4 prefixes: violation | |
| `peer` | 3 connections (symmetric), channel of 2 | 376,912 |
| `peer_live` | 2 connections, channel of 1; both directions connect, or only the less preferred one; fair | 87,621 |
| `session` | 33 pairs of configurations, room for a frame and a half, fair | 336,512 |
| `supervisor` | 3 configurations, 2 addresses, fair | 155,576 |
| `supervisor_reload` | one configuration: violation | |
| `codec` | 24 pairs of a configuration and an OPEN with full batches; UPDATEs with up to two odd attributes | 763,440 |
| `console` | 2 loopback clients and another, 1 place, commands of 2 bytes, 6 bytes read | 2,456 |

The denied prefix of `netlink` is dumped first and can use up the capacity that
the permitted one needs. A socket with room for one notification overruns at
once, and a drain of one datagram leaves notifications behind. Batches of one
make every plan of two prefixes interruptible. Three connections let a live one
meet two that the other side has given up; a channel of two, as in the code, is
then full, and a channel of one with the first of them. The connections of
`peer` are interchangeable, hence the symmetry set; that run checks no liveness.
Sessions negotiate a hold time of 3 seconds, the shortest and the one with least
slack for a KEEPALIVE interval of one, or none; the proofs cover longer ones.
One speaker has a write timeout of two seconds, longer than `report` waits. The
batches of `codec` grow to the code's 200 prefixes, all host routes, which take
the most octets; `EncodingIsSafe` covers the other lengths, and
`WorstDefectDecides` UPDATEs with more attributes.
Bounds are `MaxVersion` (edits of the configuration) and the limits the code has
itself; timers saturate, and ages are capped where no guard distinguishes more
(`SinceCap`, `DumpTimeout`). Deadlock is checked except where the system may
stop: both ends closed, the program ended, a message judged.

## Fairness

* `Netlink`: weak fairness of the worker and the watchdog (OS threads), of the
  kernel delivering a notification and going on with a dump, and of time.
  `Converges` assumes that disturbances end: no more changes, faults, failed
  dumps, or dumps longer than their deadline.
* `Transmit`: weak fairness of the session's task, whose writes have deadlines,
  and of its timers. `RefreshAnswered` assumes that snapshots stop changing;
  `FulfilsPromise` assumes nothing more.
* `Peer`: weak fairness of every task and timer. `Establishes` assumes that
  faults end and that timers keep their proportions: messages are faster than
  the 500 ms window, and the window is shorter than the deadlines and backoffs,
  which take seconds (`Disturbance`). The random part of the backoff
  is what makes two backoffs end one after the other.
* `Session`: weak fairness of each speaker's steps, and strong fairness of time,
  which stops only while something is due.
* `Supervisor`: weak fairness of `run`, the runtime and the kernel worker (the
  `StopHonoured` of `Netlink`), and strong fairness of the SIGTERM branch:
  tokio's select chooses among ready branches at random.
* `Console`: weak fairness of the listener, the joins, and of every write and
  line, which end by their timeouts at the latest.

## Proofs

Every invariant and every action property of a passing run is also proved, for
all values of the constants that satisfy the module's `ASSUME`; one theorem,
`WithdrawalIsEarned`, has a further hypothesis. The proofs of a component are in
a module of their own.

What is assumed of the constants, besides their types: positive limits and
intervals, a backoff, and `DumpTimeout < StaleTimeout`, as `validate` enforces
(`Netlink`); at least one prefix per UPDATE, and families that share none
(`Transmit`); exactly two
speakers, settings of the types of `config.rs` (`typed`) that `validate`
accepts, and room for one frame in a direction (`Session`); two speakers with
different ranks, a channel with room, and connections that are not the marker
values of a task (`Peer`); `None` is no configuration (`Supervisor`); positive
limits and finitely many clients (`Console`); prefix lengths of the family
(`Encode`), and messages that are records of the fields the validator looks at
(`Codec`).

`NetlinkProofs`:

* `TypeCorrect`, then `DeadlineRuns` from `ControlInv`: drain results exist only
  during a drain, and an attempt is made only of a dirty export.
* `CleanCorrect` rests on `WorkerInv`. `CleanIsCurrent` says nothing about an
  attempt in progress, so it is strengthened by `Cover` (between the dumps, what
  was collected, queued and not yet visited covers what was held all through
  and stays within what was seen) and `Exact` (as long as no notification is
  outstanding and none was noticed, `held` and `seen` are both the current
  tables). At publication the two meet.
* `SnapshotsComplete` takes the published set from `Cover` at the end of the
  last dump and shows that no other action writes an export.
* `StaleBounded` needs `StaleInv`: the deadline's age plus the watchdog's park
  time stays below the bound; and `AgeInv`: the deadline counts from the moment
  the export was found out of date, so nothing pushes it back.
* `WithdrawalIsEarned` assumes `RefreshInterval < StaleTimeout` and uses
  `SlotInv`: until the next attempt, age and remaining wait add up to at most a
  refresh interval. Without the assumption it is false (see Findings).

`TransmitProofs`:

* `TypeCorrect`; `PlanCorrect` and `ReplayKept`, inductive together with which
  part of the plan is in the UPDATE being written; `MarkerTruthful`, from the
  plan being empty while markers are written and `peer = advertised`.
* `PromiseKept` shows the refinement `Spec => Feed!Spec`: `PlanInv` tells that an
  UPDATE being written announces only wanted routes and withdraws only others,
  so each step of `transmit` is a step of `Feed` or leaves its variables alone.

`PeerProofs` has one inductive invariant, `PeerInv`, for any number of
connections and any channel:

* `OwnInv` tells who holds a stream. `EveryStreamOwned` only says that an open
  end has an owner; to be preserved when `choose` drops its tasks it needs the
  converse too, that what a task, the pending candidate or the session holds is
  open and in the stage its role calls for (`Owns`), that `peer_loop` holds
  nothing where it is not supposed to (`Located`), and that no stream is twice
  in the channel.
* `FlowInv` tells what is in an inbox, from the stages of the two ends: the
  messages of a setup in the order of `Script`, as many as the other end has
  sent and this one has not read, and a NOTIFICATION only at the end.
* `TypeCorrect` and `StreamsOwned` are the first two parts; `MessagesExpected`
  and `SessionsMutual` follow from `FlowInv`: a KEEPALIVE that is read in
  OpenConfirm was sent by an end that had committed to the connection.

`SessionProofs`:

* `TypeCorrect` from `TypeInv`, which adds that a speaker past the handshake
  works with what `parse_open` made of the other's OPEN, and `WaitInv`, the
  bounds on the timers of each state.
* `SpeakersAgree` then is a theorem about `open` and `parse_open` alone: for any
  two valid configurations, the two results agree (`TypeAgrees`).
* `NoTornFrames` needs `FlowInv`: while both ends live, what is on its way from
  a speaker, written or still to be written, is a sequence of whole frames
  (`Carries`) in the order of the setup (`InOrder`).

`ClockProofs` builds on it:

* `SilenceEndsSession` (`OnlyFloodOutlivesHold`) from `ClockInv`: unless the
  speaker itself has gone mute, silence and the hold timer add up to the hold
  time. When the silence has reached it the timer has expired, and `receive`
  ends the session as soon as it finds nothing to read.
* `WorkingSessionsStayUp` from `PaceInv`: silence, less the time in which data
  was held back, plus the time to the neighbor's next KEEPALIVE is at most one
  interval when nothing is on its way. As an interval is at most a third of the
  hold time, two thirds must have been lost before the timer runs out.

`SupervisorProofs`: `NoWorkerOutlives` from `GenerationInv`: while a generation
ends, each worker that still runs has its join among the steps left, and
sockets are held by running tasks only.

`ConsoleProofs`: `TypeCorrect` and `OneCommandPerLine` from `LineInv` (after a CR
`line` is in its data state with `skip_lf` set, whatever call it is in);
`AtMostMaxClients` from the cardinality of the clients served and not joined.

`CodecProofs`:

* `EncodingIsSafe` from `BatchInv` (the NLRI take at most 17 or 5 octets per
  prefix, and `validate` left the family a next hop) and arithmetic on the
  length of the message.
* `WorstDefectDecides` compares the loop of `validate_update` with a definition
  of the worst defect that looks at all attributes at once. `ReadInv` is the
  loop's invariant: for some `k`, the first `k` attributes are whole, `seen` and
  `mp_reach` are what they contribute, and the action is the worst that one of
  them asks for (`Progress`); the others are unread (`Unread`), or the next one
  is cut off and ended the loop (`CutOff`). It holds for messages of any length.
* `ParsersAgree` follows at the end of the loop, where the `k` attributes are
  exactly those that `update_prefixes` looks at.
* `OwnUpdatesAccepted`: the attributes of `update` suit the session and are of
  different kinds (`Orderly`), the mandatory ones are among them, so the worst
  defect of the message is none.

TLC finds the inductive invariants to hold on the instances of the passing runs
too. It cannot enumerate the sequences over which `FlowInv` of `SessionProofs`
quantifies; there it was given the one sequence of frames that can satisfy
`Carries`.

Only model-checked are the liveness properties: `Converges`, `StopHonoured`,
`RefreshAnswered`, `FulfilsPromise`, `Establishes`, `CloseIsMutual`,
`TermHonoured`, `ReloadTakesEffect` and `IdleClientsMakeRoom`. They rest on
fairness and thus on `ENABLED`, which the prover does not handle.

## Findings

* `netlink_slow_refresh`: `validate` accepts a refresh interval longer than the
  stale timeout. One ordinary route change then withdraws every export before a
  dump was tried, although the README promises withdrawal only when "no complete
  replacement can be built".
* `transmit_refresh`: when a prefix leaves the snapshot during a refresh and
  comes back before its withdrawal is written, it is dropped from the replay and
  is not sent again, and the end-of-RIB marker closes the refresh without it.
* `supervisor_reload`: a reload aborts the BGP task and waits for it, but not for
  the listeners in its `JoinSet`. If the runtime drops one of them only after
  the next generation has started, the new listener's address is in use and the
  daemon ends, although the README says of a valid reload that it "reconnects
  with the new policy". The README also says that "an unavailable bind address"
  causes startup failure; here the daemon itself holds the address. The model
  shows that the code permits this order, not how often a runtime takes it.

## Abstractions

Bytes and logging are left out; a prefix, a message or a value is an element of
a small set. `RecvEvent` stands for a datagram with at least one relevant
message. `publish` skips a send of an equal value, which does not change the
channel's value; `PublishExports` allows equal values, as the watchdog sends
them. In `Peer` and `Transmit` the hold timer, write deadlines and connect
timeouts are failures that may happen at any time; `Session` has them in time,
for one connection. `Session` takes received UPDATEs to be valid, which
`OwnUpdatesAreValid` shows of two such speakers.

## Not modelled

* Packed bytes: netlink messages (`messages`, `route`, `dump_status`), NLRI and
  AS_PATH segments appear by their outcome. What those loops compute for every
  input is beyond small instances and beyond the prover.
* `cli.rs`, `daemon.rs`, logging: they run once, before any task, and hold no
  protocol state.
* `tcp_md5.rs`, `transport.rs`, socket options and interface lookup: system
  calls; their errors are failures of `connect`, `handshake` or `bgp::run`.
* TOML syntax, and the settings named at the top of `Config`.
* What console commands print, and the age and error of a peer's status.
* `Netlink` and `Transmit` are not composed into one state space: they share
  only the channel, on which `Transmit` allows every sequence of values.
