---------------------------- MODULE ConsoleProofs ----------------------------
(***************************************************************************)
(* Proofs about module Console: for any number of clients and any limits,  *)
(* the state of line() keeps its type and its limits, a line that ends in  *)
(* CR LF is one command, and run() serves no more clients than it may.     *)
(***************************************************************************)
EXTENDS Console, FiniteSetTheorems, TLAPS

(* What console() and line() keep for a client. *)
Tasks == [pc : {"greet", "line", "answer", "reply", "bye"},
          state : {"data", "iac", "option", "sub", "subiac"},
          verb : {"will", "wont"}, len : 0..MaxCommand, wire : 0..MaxWire,
          skip_lf : BOOLEAN]

(* A client's task x after byte b: a command is no longer than what was    *)
(* read for it, and after a CR the next LF or NUL is skipped.              *)
Sound(x, b) ==
    /\ x \in Tasks /\ b \in Bytes
    /\ x.len <= x.wire
    /\ b = "cr" => x.skip_lf /\ x.state = "data"

LineInv ==
    /\ conn \in [Clients -> {"away", "backlog", "served", "finished"}]
    /\ task \in [Clients -> Tasks]
    /\ last \in [Clients -> Bytes]
    /\ \A c \in Clients : Sound(task[c], last[c])

LEMMA NewTaskSound == Sound(NewTask, "nul")
  BY ConsoleAssumption DEF Sound, NewTask, Tasks, Bytes

LEMMA LineInit == Init => LineInv
  BY NewTaskSound DEF Init, LineInv, Sound

(* A step of one client keeps the invariant when it leaves that client's   *)
(* task sound.                                                             *)
LEMMA ClientStep ==
  ASSUME LineInv, NEW c \in Clients, NEW x, NEW b, Sound(x, b),
         conn' \in [Clients -> {"away", "backlog", "served", "finished"}],
         task' = [task EXCEPT ![c] = x],
         last' = [last EXCEPT ![c] = b]
  PROVE  LineInv'
<1>1. task' \in [Clients -> Tasks] /\ last' \in [Clients -> Bytes]
  BY DEF LineInv, Sound
<1>2. ASSUME NEW d \in Clients
      PROVE  Sound(task'[d], last'[d])
  BY DEF LineInv
<1> QED
  BY <1>1, <1>2 DEF LineInv

LEMMA ReturnKeeps ==
  ASSUME LineInv, NEW c \in Clients, Return(c)
  PROVE  LineInv'
<1>1. conn' \in [Clients -> {"away", "backlog", "served", "finished"}]
  BY DEF Return, LineInv
<1> QED
  BY <1>1, ClientStep, NewTaskSound, Zenon DEF Return

(* Proceeding with a sound task, whether or not a byte was read. *)
LEMMA ProceedKeeps ==
  ASSUME LineInv, NEW c \in Clients, NEW x, Proceed(c, x),
         \/ UNCHANGED last /\ Sound(x, last[c])
         \/ \E b \in Bytes : last' = [last EXCEPT ![c] = b] /\ Sound(x, b)
  PROVE  LineInv'
<1>1. conn' \in [Clients -> {"away", "backlog", "served", "finished"}]
  BY DEF Proceed, LineInv
<1>2. PICK b \in Bytes : last' = [last EXCEPT ![c] = b] /\ Sound(x, b)
  BY DEF LineInv
<1> QED
  BY <1>1, <1>2, ClientStep, Zenon DEF Proceed

(* The effect of a byte on line()'s state, but for the end of a line. *)
LEMMA CountedSound ==
  ASSUME LineInv, NEW c \in Clients, NEW b \in Bytes, Takes(c, b)
  PROVE  /\ Counted(c) \in Tasks
         /\ Counted(c).len < Counted(c).wire
         /\ Counted(c).len = task[c].len /\ Counted(c).state = task[c].state
         /\ Counted(c).verb = task[c].verb
         /\ task[c].state = "data" /\ b = "text" => Counted(c).len < MaxCommand
<1>1. /\ task[c] \in Tasks /\ task[c].len <= task[c].wire
      /\ task[c].wire # MaxWire
      /\ task[c].state = "data" /\ b = "text" => task[c].len # MaxCommand
  BY DEF LineInv, Sound, Takes, TooMuch
<1>2. /\ task[c].wire \in 0..MaxWire /\ task[c].len \in 0..MaxCommand
      /\ MaxWire \in Nat /\ MaxCommand \in Nat
  BY <1>1, ConsoleAssumption DEF Tasks
<1>3. /\ task[c].wire + 1 \in 0..MaxWire /\ task[c].len < task[c].wire + 1
      /\ task[c].state = "data" /\ b = "text" => task[c].len < MaxCommand
  BY <1>1, <1>2
<1>4. /\ Counted(c) = [task[c] EXCEPT !.skip_lf = FALSE, !.wire = task[c].wire + 1]
  BY DEF Counted
<1> QED
  BY <1>1, <1>3, <1>4, Zenon DEF Tasks

LEMMA TelnetKeeps ==
  ASSUME LineInv, NEW c \in Clients, NEW b \in Bytes, Telnet(c, b)
  PROVE  LineInv'
<1> DEFINE x == Counted(c)
<1>1. Takes(c, b) /\ x.state # "data" /\ UNCHANGED last
  BY DEF Telnet
<1>2. x \in Tasks /\ x.len < x.wire /\ x.state = task[c].state
  BY <1>1, CountedSound
<1>3. last[c] # "cr" /\ last[c] \in Bytes
  BY <1>1, <1>2 DEF LineInv, Sound
<1>4. PICK y \in Tasks : Proceed(c, y) /\ y.len = x.len /\ y.wire = x.wire
  <2> HIDE DEF x
  <2> DEFINE y == CASE x.state = "iac" /\ b \in {"will", "wont"} ->
                     [x EXCEPT !.verb = b, !.state = "option"]
               [] x.state = "iac" /\ b = "sb" -> [x EXCEPT !.state = "sub"]
               [] x.state = "option" /\ x.verb = "will" ->
                     [x EXCEPT !.state = "data", !.pc = "answer"]
               [] x.state = "sub" -> [x EXCEPT !.state = IF b = "iac" THEN "subiac" ELSE "sub"]
               [] x.state = "subiac" -> [x EXCEPT !.state = IF b = "se" THEN "data" ELSE "sub"]
               [] OTHER -> [x EXCEPT !.state = "data"]
  <2>1. Proceed(c, y)
    BY DEF Telnet, x
  <2>2. y \in Tasks /\ y.len = x.len /\ y.wire = x.wire
    BY <1>2, Zenon DEF Tasks
  <2> QED
    BY <2>1, <2>2, Zenon
<1>5. Sound(y, last[c])
  BY <1>2, <1>3, <1>4 DEF Sound, Tasks
<1> QED
  BY <1>1, <1>4, <1>5, ProceedKeeps

LEMMA DataKeeps ==
  ASSUME LineInv, NEW c \in Clients, NEW b \in Bytes, Data(c, b)
  PROVE  LineInv'
<1> DEFINE x == Counted(c)
<1>1. /\ Takes(c, b) /\ x.state = "data" /\ b \notin {"cr", "lf"}
      /\ last' = [last EXCEPT ![c] = b]
  BY DEF Data
<1>2. /\ x \in Tasks /\ x.len < x.wire
      /\ b = "text" => x.len < MaxCommand
  BY <1>1, CountedSound
<1>3. PICK y \in Tasks : Proceed(c, y) /\ y.len <= y.wire
  <2> HIDE DEF x
  <2> DEFINE y == CASE b = "iac" -> [x EXCEPT !.state = "iac"]
               [] b = "erase" -> [x EXCEPT !.len = IF @ = 0 THEN 0 ELSE @ - 1]
               [] b = "text" -> [x EXCEPT !.len = @ + 1]
               [] OTHER -> x
  <2>1. Proceed(c, y)
    BY DEF Data, x
  <2>2. y \in Tasks /\ y.len <= y.wire
    BY <1>2, ConsoleAssumption DEF Tasks
  <2> QED
    BY <2>1, <2>2, Zenon
<1>4. Sound(y, b)
  BY <1>1, <1>3 DEF Sound
<1> QED
  BY <1>1, <1>3, <1>4, ProceedKeeps, Zenon

LEMMA EndLineKeeps ==
  ASSUME LineInv, NEW c \in Clients, NEW b \in Bytes, EndLine(c, b)
  PROVE  LineInv'
<1>1. PICK pc \in {"reply", "bye"} :
          Proceed(c, [task[c] EXCEPT !.pc = pc, !.skip_lf = (b = "cr")])
  BY Zenon DEF EndLine, Command
<1>2. /\ task[c] \in Tasks /\ task[c].len <= task[c].wire /\ task[c].state = "data"
      /\ last' = [last EXCEPT ![c] = b]
  BY DEF EndLine, LineInv, Sound
<1>3. Sound([task[c] EXCEPT !.pc = pc, !.skip_lf = (b = "cr")], b)
  BY <1>2, Zenon DEF Sound, Tasks
<1> QED
  BY <1>1, <1>2, <1>3, ProceedKeeps, Zenon

LEMMA WrittenKeeps ==
  ASSUME LineInv, NEW c \in Clients, Written(c)
  PROVE  LineInv'
<1>1. Sound(task[c], last[c])
  BY DEF LineInv
<1>2. Sound(CallLine(task[c]), last[c])
  <2> DEFINE x == CallLine(task[c])
  <2>1. NewTask \in Tasks /\ task[c].skip_lf \in BOOLEAN
    BY <1>1, NewTaskSound DEF Sound, Tasks
  <2>2. x \in Tasks /\ x.skip_lf = task[c].skip_lf
    BY <2>1, Zenon DEF CallLine, Tasks
  <2>3. x.state = "data" /\ x.len = 0 /\ x.wire = 0
    BY DEF CallLine, NewTask
  <2> QED
    BY <1>1, <2>2, <2>3 DEF Sound
<1>3. Sound([task[c] EXCEPT !.pc = "line"], last[c])
  BY <1>1 DEF Sound, Tasks
<1>4. CASE Proceed(c, CallLine(task[c])) /\ UNCHANGED last
  BY <1>2, <1>4, ProceedKeeps
<1>5. CASE Proceed(c, [task[c] EXCEPT !.pc = "line"]) /\ UNCHANGED last
  BY <1>3, <1>5, ProceedKeeps
<1>6. CASE Return(c)
  BY <1>6, ReturnKeeps
<1> QED
  BY <1>4, <1>5, <1>6 DEF Written

LEMMA LineNext == LineInv /\ [Next]_vars => LineInv'
<1> SUFFICES ASSUME LineInv, [Next]_vars
             PROVE  LineInv'
  OBVIOUS
<1>1. ASSUME NEW c \in Clients, Accept(c) \/ Join(c) \/ Connect(c)
      PROVE  LineInv'
  BY <1>1 DEF Accept, Join, Connect, LineInv
<1>2. ASSUME NEW c \in Clients, Written(c)
      PROVE  LineInv'
  BY <1>2, WrittenKeeps
<1>3. ASSUME NEW c \in Clients, WriteFail(c) \/ LineEnd(c)
      PROVE  LineInv'
  BY <1>3, ReturnKeeps DEF WriteFail, LineEnd
<1>4. ASSUME NEW c \in Clients, NEW b \in Bytes, SkipByte(c, b)
      PROVE  LineInv'
  <2>1. Sound([task[c] EXCEPT !.skip_lf = FALSE], b)
    BY <1>4, Zenon DEF LineInv, SkipByte, Skipped, Sound, Tasks
  <2> QED
    BY <1>4, <2>1, ProceedKeeps, Zenon DEF SkipByte
<1>5. ASSUME NEW c \in Clients, NEW b \in Bytes, Overflow(c, b)
      PROVE  LineInv'
  BY <1>5, ReturnKeeps DEF Overflow
<1>6. CASE UNCHANGED vars
  BY <1>6 DEF vars, LineInv
<1> QED
  BY <1>1, <1>2, <1>3, <1>4, <1>5, <1>6, TelnetKeeps, DataKeeps, EndLineKeeps
  DEF Next, Typed

LEMMA LineInvariant == Spec => []LineInv
  BY LineInit, LineNext, PTL DEF Spec

(* Every client's connection and the locals of console() and line() keep   *)
(* their types and limits: no command is longer than its buffer or than    *)
(* the bytes read for it.                                                  *)
THEOREM TypeCorrect == Spec => []TypeOK
<1>1. LineInv => TypeOK
  BY DEF LineInv, Sound, Tasks, TypeOK
<1> QED
  BY LineInvariant, <1>1, PTL

(* A Telnet line end is one command's end: the LF that follows a CR is     *)
(* skipped by line(), also when it arrives in a later call.                *)
THEOREM OneCommandPerLine == Spec => LineEndsOnce
<1>1. LineInv /\ [Next]_vars => [\A c \in Clients : EndLine(c, "lf") => last[c] # "cr"]_vars
  BY DEF LineInv, Sound, EndLine, Takes, Skipped
<1> QED
  BY LineInvariant, <1>1, PTL DEF Spec, LineEndsOnce

----------------------------------------------------------------------------
(* The limit on clients *)

(* run() adds a client only below the limit; every other step keeps the    *)
(* set of unfinished tasks or takes one away.                              *)
LEMMA ClientsStep ==
  ASSUME LineInv, [Next]_vars
  PROVE  \/ clients' \subseteq clients
         \/ /\ Cardinality(clients) < MaxClients
            /\ \E c \in Clients : clients' = clients \cup {c}
<1> USE DEF clients
<1>1. ASSUME NEW c \in Clients, Accept(c)
      PROVE  \/ clients' \subseteq clients
             \/ /\ Cardinality(clients) < MaxClients
                /\ \E d \in Clients : clients' = clients \cup {d}
  <2>1. CASE refuses(c)
    BY <1>1, <2>1 DEF Accept, LineInv
  <2>2. CASE ~refuses(c)
    <3>1. ~(Cardinality(clients) >= MaxClients)
      BY <2>2 DEF refuses
    <3>2. Cardinality(clients) \in Nat /\ MaxClients \in Nat
      <4>1. IsFiniteSet(clients)
        BY ConsoleAssumption, FS_Subset
      <4> QED
        BY <4>1, ConsoleAssumption, FS_CardinalityType
    <3>3. conn' = [conn EXCEPT ![c] = "served"]
      BY <1>1, <2>2 DEF Accept
    <3>4. clients' = clients \cup {c}
      BY <3>3 DEF LineInv
    <3> HIDE DEF clients
    <3> QED
      BY <3>1, <3>2, <3>4
  <2> QED
    BY <2>1, <2>2
<1>2. ASSUME NEW c \in Clients, Join(c) \/ Connect(c)
      PROVE  clients' \subseteq clients
  BY <1>2 DEF Join, Connect, LineInv
<1>3. ASSUME NEW c \in Clients, Return(c), conn[c] = "served"
      PROVE  clients' \subseteq clients
  BY <1>3 DEF Return, LineInv
<1>4. CASE UNCHANGED conn
  BY <1>4
<1>5. ASSUME NEW c \in Clients, Written(c) \/ WriteFail(c) \/ LineEnd(c) \/ Typed(c)
      PROVE  clients' \subseteq clients
  <2>1. (Return(c) /\ conn[c] = "served") \/ UNCHANGED conn
    BY <1>5, Zenon
    DEF Written, WriteFail, LineEnd, Typed, SkipByte, Overflow, Telnet, Data, EndLine,
        Command, Proceed, At
  <2> QED
    BY <1>3, <1>4, <2>1
<1> HIDE DEF clients
<1> QED
  BY <1>1, <1>2, <1>4, <1>5 DEF Next, vars

LEMMA ClientsNext == LineInv /\ ClientsBounded /\ [Next]_vars => ClientsBounded'
<1> SUFFICES ASSUME LineInv, ClientsBounded, [Next]_vars
             PROVE  ClientsBounded'
  OBVIOUS
<1>1. IsFiniteSet(clients)
  BY ConsoleAssumption, FS_Subset DEF clients
<1>2. CASE clients' \subseteq clients
  <2>1. Cardinality(clients') <= Cardinality(clients)
    BY <1>1, <1>2, FS_Subset
  <2>2. Cardinality(clients') \in Nat /\ Cardinality(clients) \in Nat /\ MaxClients \in Nat
    BY <1>1, <1>2, FS_Subset, FS_CardinalityType, ConsoleAssumption
  <2> QED
    BY <2>1, <2>2 DEF ClientsBounded
<1>3. ASSUME NEW c \in Clients, Cardinality(clients) < MaxClients,
             clients' = clients \cup {c}
      PROVE  ClientsBounded'
  <2>1. Cardinality(clients') \in {Cardinality(clients), Cardinality(clients) + 1}
    BY <1>1, <1>3, FS_AddElement
  <2>2. Cardinality(clients) \in Nat /\ MaxClients \in Nat
    BY <1>1, FS_CardinalityType, ConsoleAssumption
  <2> QED
    BY <1>3, <2>1, <2>2 DEF ClientsBounded
<1> QED
  BY <1>2, <1>3, ClientsStep

(* run() never serves more clients than its limit, whatever the order in   *)
(* which clients connect and their tasks end and are joined.               *)
THEOREM AtMostMaxClients == Spec => []ClientsBounded
<1>1. Init => ClientsBounded
  <2> SUFFICES ASSUME Init PROVE ClientsBounded
    OBVIOUS
  <2>1. clients = {}
    BY DEF Init, clients
  <2> QED
    BY <2>1, FS_EmptySet, ConsoleAssumption DEF ClientsBounded
<1> QED
  BY <1>1, ClientsNext, LineInvariant, PTL DEF Spec
=============================================================================
