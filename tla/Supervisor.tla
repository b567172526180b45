----------------------------- MODULE Supervisor -----------------------------
(***************************************************************************)
(* The supervisor of src/src/main.rs, run(): it starts a generation of the *)
(* three workers (kernel route worker, BGP task, management console), ends *)
(* it on a signal or when a worker ends, and starts the next one with the  *)
(* configuration a SIGHUP made it load.                                    *)
(*                                                                         *)
(* The BGP task owns its listeners and peer workers through a JoinSet.     *)
(* When the task ends, by itself or aborted, dropping the JoinSet aborts   *)
(* these children but waits for none of them: the runtime drops each one   *)
(* some time later, and only that closes its sockets.  The kernel worker   *)
(* is the thread of module Netlink, whose promise to end when told to stop *)
(* is assumed here.                                                        *)
(***************************************************************************)
EXTENDS Naturals, Sequences

CONSTANTS
    MaxVersion, \* bound: the configuration file is edited this often
    Addr,       \* local addresses a configuration may listen on
    Listen,     \* [0..MaxVersion -> SUBSET Addr]: listeners by configuration
    Managed,    \* the configurations that enable the console
    None        \* Option::None

Versions == 0..MaxVersion

ASSUME SupervisorAssumption ==
    /\ MaxVersion \in Nat
    /\ Listen \in [Versions -> SUBSET Addr]
    /\ Managed \subseteq Versions
    /\ None \notin Versions

VARIABLES
    file,       \* the configuration file: [version, valid]
    hup, term,  \* signals not yet received from their streams
    pc,         \* where run() is: "bind", "select", "ending" or "exited"
    config,     \* the generation's configuration
    todo,       \* what is left to do to end the generation
    outcome,    \* why it ends: "reload", "quit" or "error"
    replacement,    \* the configuration that follows it
    stop,       \* the generation's stop flag
    kernel, console, bgp,   \* the three workers, "running" or otherwise
    serving,    \* the console's listener is open
    unbound,    \* listeners the BGP task has still to bind
    listening,  \* listening sockets of the running BGP task
    lingering,  \* listening sockets of ended ones
    learned,    \* the configuration whose routes the neighbor holds
    orphan,     \* the neighbor's session belongs to an ended BGP task
    rejected,   \* history: last version a reload rejected
    faulted     \* history: a worker failed or an address was taken by others

fileVars == <<file, hup, term>>
loopVars == <<pc, config, todo, outcome, replacement, stop>>
workers == <<kernel, console, bgp>>
sockets == <<serving, unbound, listening, lingering>>
neighbor == <<learned, orphan>>
histVars == <<rejected, faulted>>
vars == <<fileVars, loopVars, workers, sockets, neighbor, histVars>>

(* main() loaded a valid configuration before it started the runtime. *)
Init ==
    /\ file = [version |-> 0, valid |-> TRUE]
    /\ hup = FALSE /\ term = FALSE
    /\ pc = "bind" /\ config = 0 /\ todo = <<>>
    /\ outcome = "none" /\ replacement = 0 /\ stop = FALSE
    /\ kernel = "none" /\ console = "none" /\ bgp = "none"
    /\ serving = FALSE /\ unbound = {} /\ listening = {} /\ lingering = {}
    /\ learned = None /\ orphan = FALSE
    /\ rejected = None /\ faulted = FALSE

----------------------------------------------------------------------------
(* run() *)

(* management::bind() and the start of the three workers. *)
Start ==
    /\ pc = "bind"
    /\ config \in Managed => ~serving
    /\ pc' = "select"
    /\ stop' = FALSE
    /\ kernel' = "running" /\ console' = "running" /\ bgp' = "running"
    /\ serving' = (serving \/ config \in Managed)
    /\ unbound' = Listen[config] /\ listening' = {}
    /\ UNCHANGED <<fileVars, config, todo, outcome, replacement, lingering,
                   neighbor, histVars>>

(* The console's address is taken: by another program, or by the console   *)
(* of an earlier generation.  run() returns the error.                     *)
StartFails ==
    /\ pc = "bind"
    /\ config \in Managed
    /\ pc' = "exited"
    /\ outcome' = "error"
    /\ faulted' = (faulted \/ ~serving)
    /\ UNCHANGED <<fileVars, config, todo, replacement, stop, workers, sockets,
                   neighbor, rejected>>

Ending(why, steps) ==
    /\ pc' = "ending"
    /\ outcome' = why
    /\ todo' = steps
    /\ UNCHANGED <<config, stop>>

(* Mutant of Shutdown: the kernel worker is joined without a stop request. *)
ShutdownUnstopped ==
    <<"abort console", "join console", "abort bgp", "join bgp", "join kernel">>

(* Mutant of Shutdown: the console is aborted and not waited for. *)
ShutdownHasty ==
    <<"stop", "abort console", "abort bgp", "join bgp", "join kernel">>

(* Mutant of Shutdown: the BGP task is left to end by itself. *)
ShutdownWithoutAbort ==
    <<"stop", "abort console", "join console", "join bgp", "join kernel">>

(* The end of a generation after a signal. *)
Shutdown ==
    <<"stop", "abort console", "join console", "abort bgp", "join bgp", "join kernel">>

(* The branches of the select.  A reload that fails to validate only logs. *)
OnHangup ==
    /\ pc = "select" /\ hup
    /\ hup' = FALSE
    /\ IF file.valid
       THEN /\ Ending("reload", Shutdown)
            /\ replacement' = file.version
            /\ UNCHANGED rejected
       ELSE /\ rejected' = file.version
            /\ UNCHANGED loopVars
    /\ UNCHANGED <<file, term, workers, sockets, neighbor, faulted>>

OnTerminate ==
    /\ pc = "select" /\ term
    /\ term' = FALSE
    /\ Ending("quit", Shutdown)
    /\ UNCHANGED <<file, hup, replacement, workers, sockets, neighbor, histVars>>

OnKernelEnd ==
    /\ pc = "select" /\ kernel # "running"
    /\ Ending("error", <<"abort console", "join console", "stop", "abort bgp",
                         "join bgp">>)
    /\ UNCHANGED <<fileVars, replacement, workers, sockets, neighbor, histVars>>

OnBgpEnd ==
    /\ pc = "select" /\ bgp = "ended"
    /\ Ending("error", <<"abort console", "join console", "stop", "join kernel">>)
    /\ UNCHANGED <<fileVars, replacement, workers, sockets, neighbor, histVars>>

OnConsoleEnd ==
    /\ pc = "select" /\ console = "ended"
    /\ Ending("error", <<"stop", "abort bgp", "join bgp", "join kernel">>)
    /\ UNCHANGED <<fileVars, replacement, workers, sockets, neighbor, histVars>>

(* The steps that end a generation, in their order. *)
Doing(step) ==
    /\ pc = "ending" /\ todo # <<>> /\ Head(todo) = step
    /\ todo' = Tail(todo)
    /\ UNCHANGED <<fileVars, pc, config, replacement, sockets, neighbor, histVars>>

RaiseStop ==
    /\ Doing("stop")
    /\ stop' = TRUE
    /\ UNCHANGED <<outcome, workers>>

Abort(task) == IF task = "running" THEN "aborted" ELSE task

AbortConsole ==
    /\ Doing("abort console")
    /\ console' = Abort(console)
    /\ UNCHANGED <<outcome, stop, kernel, bgp>>

AbortBgp ==
    /\ Doing("abort bgp")
    /\ bgp' = Abort(bgp)
    /\ UNCHANGED <<outcome, stop, kernel, console>>

JoinConsole ==
    /\ Doing("join console")
    /\ console = "ended"
    /\ UNCHANGED <<outcome, stop, workers>>

JoinBgp ==
    /\ Doing("join bgp")
    /\ bgp = "ended"
    /\ UNCHANGED <<outcome, stop, workers>>

(* A worker that failed while it was being stopped turns a reload or a     *)
(* termination into an error.                                              *)
JoinKernel ==
    /\ Doing("join kernel")
    /\ kernel # "running"
    /\ outcome' = IF kernel = "failed" THEN "error" ELSE outcome
    /\ UNCHANGED <<stop, workers>>

(* Everything is joined: the next generation, or the end of the program.   *)
Replace ==
    /\ pc = "ending" /\ todo = <<>>
    /\ IF outcome = "reload"
       THEN pc' = "bind" /\ config' = replacement /\ outcome' = "none"
       ELSE pc' = "exited" /\ UNCHANGED <<config, outcome>>
    /\ UNCHANGED <<fileVars, todo, replacement, stop, workers, sockets, neighbor, histVars>>

----------------------------------------------------------------------------
(* The workers *)

(* netlink::run() returns when stopped, or fails. *)
KernelStops ==
    /\ kernel = "running" /\ stop
    /\ kernel' = "stopped"
    /\ UNCHANGED <<fileVars, loopVars, console, bgp, sockets, neighbor, histVars>>

KernelFails ==
    /\ kernel = "running"
    /\ kernel' = "failed"
    /\ faulted' = TRUE
    /\ UNCHANGED <<fileVars, loopVars, console, bgp, sockets, neighbor, rejected>>

(* management::run() ends aborted, or with an accept error; its listener   *)
(* is a local of the task and closes with it.                              *)
ConsoleEnds ==
    /\ \/ console = "running" /\ config \in Managed
       \/ console = "aborted"
    /\ console' = "ended"
    /\ serving' = FALSE
    /\ faulted' = (faulted \/ console = "running")
    /\ UNCHANGED <<fileVars, loopVars, kernel, bgp, unbound, listening, lingering,
                   neighbor, rejected>>

(* The end of bgp::run(), however it comes about: the JoinSet is dropped,  *)
(* its tasks are only told to end.                                         *)
DropJoinSet ==
    /\ bgp' = "ended"
    /\ lingering' = lingering \cup listening
    /\ listening' = {} /\ unbound' = {}
    /\ orphan' = (learned # None)

(* bgp::run() binds a listener.  SO_REUSEADDR does not allow it while      *)
(* another socket listens on the address.                                  *)
BgpBind(a) ==
    /\ bgp = "running"
    /\ a \in unbound
    /\ IF a \in lingering
       THEN DropJoinSet
       ELSE /\ listening' = listening \cup {a}
            /\ unbound' = unbound \ {a}
            /\ UNCHANGED <<bgp, lingering, orphan>>
    /\ UNCHANGED <<fileVars, loopVars, kernel, console, serving, learned, histVars>>

(* bgp::run() returns an error of its own, or is dropped when aborted. *)
BgpEnds ==
    /\ bgp \in {"running", "aborted"}
    /\ DropJoinSet
    /\ faulted' = (faulted \/ bgp = "running")
    /\ UNCHANGED <<fileVars, loopVars, kernel, console, serving, learned, rejected>>

(* The runtime drops a child of an ended BGP task: a listener, ... *)
DropListener(a) ==
    /\ a \in lingering
    /\ lingering' = lingering \ {a}
    /\ UNCHANGED <<fileVars, loopVars, workers, serving, unbound, listening,
                   neighbor, histVars>>

(* ... or a peer worker with its session, whose routes the neighbor drops. *)
DropSession ==
    /\ orphan
    /\ learned' = None /\ orphan' = FALSE
    /\ UNCHANGED <<fileVars, loopVars, workers, sockets, histVars>>

(* The neighbor has one session with this router and learns the routes of  *)
(* the configuration that established it.                                  *)
Establish ==
    /\ bgp = "running" /\ learned = None
    /\ learned' = config
    /\ UNCHANGED <<fileVars, loopVars, workers, sockets, orphan, histVars>>

----------------------------------------------------------------------------
(* The operator *)

Edit(valid) ==
    /\ file.version < MaxVersion
    /\ file' = [version |-> file.version + 1, valid |-> valid]
    /\ UNCHANGED <<hup, term, loopVars, workers, sockets, neighbor, histVars>>

(* Signals that were not received yet coalesce. *)
Signal ==
    /\ pc # "exited"
    /\ \/ hup' = TRUE /\ UNCHANGED term
       \/ term' = TRUE /\ UNCHANGED hup
    /\ UNCHANGED <<file, loopVars, workers, sockets, neighbor, histVars>>

----------------------------------------------------------------------------
Run ==
    \/ Start \/ StartFails
    \/ OnHangup \/ OnTerminate \/ OnKernelEnd \/ OnBgpEnd \/ OnConsoleEnd
    \/ RaiseStop \/ AbortConsole \/ JoinConsole \/ AbortBgp \/ JoinBgp
    \/ JoinKernel \/ Replace

Runtime ==
    \/ \E a \in Addr : BgpBind(a) \/ DropListener(a)
    \/ BgpEnds \/ ConsoleEnds \/ DropSession

Next ==
    \/ Run
    \/ Runtime
    \/ KernelStops \/ KernelFails \/ Establish
    \/ \E valid \in BOOLEAN : Edit(valid)
    \/ Signal

Spec == Init /\ [][Next]_vars

----------------------------------------------------------------------------
(* Properties *)

(* No worker outlives its generation: when run() starts the next one or    *)
(* returns, the kernel thread, the BGP task and the console have ended and *)
(* the console's address is free, on every path out of the select, also    *)
(* when several workers end and several signals arrive at once.            *)
WorkersEnded ==
    pc \in {"bind", "exited"} =>
        /\ kernel # "running"
        /\ console \in {"none", "ended"} /\ bgp \in {"none", "ended"}
        /\ ~serving /\ listening = {}

(* README "A valid reload closes sessions, starts a fresh kernel snapshot  *)
(* and reconnects with the new policy": the program does not end with an   *)
(* error unless a worker failed or another program held its address.       *)
FailsOnlyOnFault == pc = "exited" /\ outcome = "error" => faulted

----------------------------------------------------------------------------
(* Liveness *)

(* The runtime polls its tasks, the kernel worker honours its stop flag,   *)
(* and the select chooses among its ready branches at random.              *)
Fairness ==
    /\ WF_vars(Run)
    /\ SF_vars(OnTerminate)
    /\ WF_vars(KernelStops)
    /\ WF_vars(console = "aborted" /\ ConsoleEnds)
    /\ WF_vars(bgp = "aborted" /\ BgpEnds)
    /\ WF_vars(DropSession)
    /\ \A a \in Addr : WF_vars(BgpBind(a)) /\ WF_vars(DropListener(a))

LiveSpec == Spec /\ Fairness

(* SIGTERM ends the program whatever it is doing: starting, reloading, or  *)
(* being signalled again.                                                  *)
TermHonoured == term ~> pc = "exited"

(* A SIGHUP that follows an edit is not lost, also when it arrives during  *)
(* a restart: that version or a later one is rejected, or no neighbor      *)
(* keeps routes of an earlier one, or the program ends.                    *)
ReloadTakesEffect ==
    \A v \in Versions :
        hup /\ file.version = v ~>
            \/ config >= v /\ (learned = None \/ learned >= v)
            \/ rejected # None /\ rejected >= v
            \/ pc = "exited"
=============================================================================
