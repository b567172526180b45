------------------------------ MODULE Console ------------------------------
(***************************************************************************)
(* The management console of src/src/management.rs: run(), which serves a  *)
(* limited number of clients, the dialogue of console() with each, and     *)
(* line(), which reads a command through the Telnet protocol.              *)
(*                                                                         *)
(* Bytes are classes: "iac" (255), "will" (WILL and DO, to be refused),    *)
(* "wont" (WONT and DONT), "sb", "se", "text" (printable), "erase", "cr",  *)
(* "lf", "nul".  What a command prints is left out; how long the timeouts  *)
(* are too, so that they may fire at any time.                             *)
(***************************************************************************)
EXTENDS Naturals, FiniteSets

CONSTANTS
    Clients,        \* those that may connect
    Loopback,       \* those of them on the loopback interface
    MaxClients,     \* 16 in the code
    MaxCommand,     \* bytes of a command (512)
    MaxWire         \* bytes read for one command (8192)

ASSUME ConsoleAssumption ==
    /\ MaxClients \in Nat \ {0} /\ MaxCommand \in Nat \ {0} /\ MaxWire \in Nat \ {0}
    /\ IsFiniteSet(Clients) /\ Loopback \subseteq Clients

VARIABLES
    conn,       \* where a client's connection is
    task,       \* the state of console() and line() for it
    last        \* the last byte that line() saw outside of Telnet options

vars == <<conn, task, last>>

Bytes == {"iac", "will", "wont", "sb", "se", "text", "erase", "cr", "lf", "nul"}

(* console() writes the greeting; line() has not been called. *)
NewTask == [pc |-> "greet", state |-> "data", verb |-> "wont", len |-> 0, wire |-> 0,
            skip_lf |-> FALSE]

TypeOK ==
    /\ conn \in [Clients -> {"away", "backlog", "served", "finished"}]
    /\ \A c \in Clients :
        /\ task[c].pc \in {"greet", "line", "answer", "reply", "bye"}
        /\ task[c].state \in {"data", "iac", "option", "sub", "subiac"}
        /\ task[c].verb \in {"will", "wont"} /\ task[c].skip_lf \in BOOLEAN
        /\ task[c].len \in 0..MaxCommand /\ task[c].wire \in 0..MaxWire
        /\ task[c].len <= task[c].wire
    /\ last \in [Clients -> Bytes]

Init ==
    /\ conn = [c \in Clients |-> "away"]
    /\ task = [c \in Clients |-> NewTask]
    /\ last = [c \in Clients |-> "nul"]

----------------------------------------------------------------------------
(* run() *)

(* The JoinSet holds a task until join_next() takes it. *)
clients == {c \in Clients : conn[c] \in {"served", "finished"}}

(* Mutant of refuses: one client too many. *)
refuses_late(c) == c \notin Loopback \/ Cardinality(clients) > MaxClients

refuses(c) == c \notin Loopback \/ Cardinality(clients) >= MaxClients

Accept(c) ==
    /\ conn[c] = "backlog"
    /\ conn' = [conn EXCEPT ![c] = IF refuses(c) THEN "away" ELSE "served"]
    /\ UNCHANGED <<task, last>>

(* Mutant of Join: nobody waits for the finished tasks. *)
JoinNever(c) == FALSE /\ UNCHANGED vars

Join(c) ==
    /\ conn[c] = "finished"
    /\ conn' = [conn EXCEPT ![c] = "away"]
    /\ UNCHANGED <<task, last>>

----------------------------------------------------------------------------
(* console() *)

At(c, pc) == conn[c] = "served" /\ task[c].pc = pc

(* The task returns and the stream is dropped. *)
Return(c) ==
    /\ conn' = [conn EXCEPT ![c] = "finished"]
    /\ task' = [task EXCEPT ![c] = NewTask]
    /\ last' = [last EXCEPT ![c] = "nul"]

Proceed(c, x) == task' = [task EXCEPT ![c] = x] /\ UNCHANGED conn

(* Mutant of CallLine: skip_lf does not outlive the call. *)
CallLineForgetting(x) == [NewTask EXCEPT !.pc = "line"]

(* line() is called: its locals are new, skip_lf is the caller's. *)
CallLine(x) == [NewTask EXCEPT !.pc = "line", !.skip_lf = x.skip_lf]

(* A write succeeded: the greeting or the end of a reply with its prompt,  *)
(* the refusal of an option inside line(), or the farewell.                *)
Written(c) ==
    \/ /\ At(c, "greet") \/ At(c, "reply")
       /\ Proceed(c, CallLine(task[c])) /\ UNCHANGED last
    \/ /\ At(c, "answer")
       /\ Proceed(c, [task[c] EXCEPT !.pc = "line"]) /\ UNCHANGED last
    \/ At(c, "bye") /\ Return(c)

(* A write failed or took five seconds. *)
WriteFail(c) ==
    /\ conn[c] = "served" /\ task[c].pc # "line"
    /\ Return(c)

(* The client left, or line() took 300 seconds. *)
LineEnd(c) == At(c, "line") /\ Return(c)

(* A command: "quit" says goodbye, any other, or none, is answered. *)
Command(c, skip) ==
    \E pc \in IF task[c].len = 0 THEN {"reply"} ELSE {"reply", "bye"} :
        Proceed(c, [task[c] EXCEPT !.pc = pc, !.skip_lf = skip])

----------------------------------------------------------------------------
(* line(), by byte b *)

Skipped(c, b) == task[c].skip_lf /\ b \in {"lf", "nul"}

SkipByte(c, b) ==
    /\ At(c, "line") /\ Skipped(c, b)
    /\ Proceed(c, [task[c] EXCEPT !.skip_lf = FALSE])
    /\ last' = [last EXCEPT ![c] = b]

Counted(c) == [task[c] EXCEPT !.skip_lf = FALSE, !.wire = @ + 1]

(* Mutant of TooMuch: only the bytes of the command are limited. *)
TooLong(c, b) == task[c].state = "data" /\ b = "text" /\ task[c].len = MaxCommand

(* One byte past a limit, and the client is dropped. *)
TooMuch(c, b) ==
    \/ task[c].wire = MaxWire
    \/ task[c].state = "data" /\ b = "text" /\ task[c].len = MaxCommand

Overflow(c, b) ==
    /\ At(c, "line") /\ ~Skipped(c, b) /\ TooMuch(c, b)
    /\ Return(c)

Takes(c, b) == At(c, "line") /\ ~Skipped(c, b) /\ ~TooMuch(c, b)

(* The bytes of a Telnet command. *)
Telnet(c, b) ==
    LET x == Counted(c)
    IN  /\ Takes(c, b) /\ x.state # "data"
        /\ Proceed(c,
             CASE x.state = "iac" /\ b \in {"will", "wont"} ->
                     [x EXCEPT !.verb = b, !.state = "option"]
               [] x.state = "iac" /\ b = "sb" -> [x EXCEPT !.state = "sub"]
               [] x.state = "option" /\ x.verb = "will" ->
                     [x EXCEPT !.state = "data", !.pc = "answer"]
               [] x.state = "sub" -> [x EXCEPT !.state = IF b = "iac" THEN "subiac" ELSE "sub"]
               [] x.state = "subiac" -> [x EXCEPT !.state = IF b = "se" THEN "data" ELSE "sub"]
               [] OTHER -> [x EXCEPT !.state = "data"])
        /\ UNCHANGED last

(* The bytes of a command. *)
Data(c, b) ==
    LET x == Counted(c)
    IN  /\ Takes(c, b) /\ x.state = "data" /\ b \notin {"cr", "lf"}
        /\ Proceed(c,
             CASE b = "iac" -> [x EXCEPT !.state = "iac"]
               [] b = "erase" -> [x EXCEPT !.len = IF @ = 0 THEN 0 ELSE @ - 1]
               [] b = "text" -> [x EXCEPT !.len = @ + 1]
               [] OTHER -> x)
        /\ last' = [last EXCEPT ![c] = b]

EndLine(c, b) ==
    /\ Takes(c, b) /\ task[c].state = "data" /\ b \in {"cr", "lf"}
    /\ Command(c, b = "cr")
    /\ last' = [last EXCEPT ![c] = b]

----------------------------------------------------------------------------
(* A client connects *)

Connect(c) ==
    /\ conn[c] = "away"
    /\ conn' = [conn EXCEPT ![c] = "backlog"]
    /\ UNCHANGED <<task, last>>

Typed(c) ==
    \E b \in Bytes :
        \/ SkipByte(c, b) \/ Overflow(c, b)
        \/ Telnet(c, b) \/ Data(c, b) \/ EndLine(c, b)

Next ==
    \E c \in Clients :
        \/ Accept(c) \/ Join(c)
        \/ Written(c) \/ WriteFail(c) \/ LineEnd(c)
        \/ Typed(c)
        \/ Connect(c)

Spec == Init /\ [][Next]_vars

----------------------------------------------------------------------------
(* Properties *)

(* No more consoles than the limit run at a time, counting those whose     *)
(* task ended and was not joined yet.                                      *)
ClientsBounded == Cardinality(clients) <= MaxClients

(* A line that ends in CR LF or CR NUL, as Telnet sends it, is one         *)
(* command: its second byte never ends another one, although line() has    *)
(* returned and a reply was written in between.                            *)
LineEndsOnce ==
    [][\A c \in Clients :
          EndLine(c, "lf") => last[c] # "cr"]_vars

----------------------------------------------------------------------------
(* Liveness *)

(* The listener, the joins and every task are polled; every write and      *)
(* every line ends, if only by its timeout.                                *)
LiveSpec ==
    /\ Spec
    /\ \A c \in Clients :
        /\ WF_vars(Accept(c)) /\ WF_vars(Join(c))
        /\ WF_vars(Written(c) \/ WriteFail(c)) /\ WF_vars(LineEnd(c))

(* Idle clients do not keep the console from one that keeps trying: once   *)
(* nobody types and the others no longer connect, it is served.            *)
IdleClientsMakeRoom ==
    \A c \in Loopback :
        /\ <>[][/\ \A d \in Clients : ~Typed(d)
                /\ \A d \in Clients \ {c} : ~Connect(d)]_vars
        /\ []<>(conn[c] = "backlog")
        => <>(conn[c] = "served")
=============================================================================
