-------------------------- MODULE SupervisorProofs --------------------------
(***************************************************************************)
(* Proofs about module Supervisor: for any number of reloads, listeners    *)
(* and configurations, run() starts or leaves a generation only when every *)
(* worker of the one before has ended.                                     *)
(***************************************************************************)
EXTENDS Supervisor, TLAPS

(* The steps that end a generation. *)
Steps == {"stop", "abort console", "join console", "abort bgp", "join bgp", "join kernel"}

(* A step that is still to be done. *)
Remains(step, steps) == \E i \in 1..Len(steps) : steps[i] = step

(* The inductive invariant: sockets are held by running tasks only, and    *)
(* while a generation ends, a worker that has not ended is still to be     *)
(* joined.                                                                 *)
GenerationInv ==
    /\ pc \in {"bind", "select", "ending", "exited"}
    /\ kernel \in {"none", "running", "stopped", "failed"}
    /\ console \in {"none", "running", "aborted", "ended"}
    /\ bgp \in {"none", "running", "aborted", "ended"}
    /\ serving \in BOOLEAN
    /\ serving => console \in {"running", "aborted"}
    /\ listening # {} => bgp \in {"running", "aborted"}
    /\ todo \in Seq(Steps)
    /\ pc \in {"select", "ending"} => console # "none" /\ bgp # "none"
    /\ pc = "ending" =>
        /\ kernel = "running" => Remains("join kernel", todo)
        /\ console # "ended" => Remains("join console", todo)
        /\ bgp # "ended" => Remains("join bgp", todo)
    /\ WorkersEnded

(* Doing one step leaves every other step to be done. *)
LEMMA RemainsAfter ==
  ASSUME NEW steps \in Seq(Steps), steps # <<>>,
         NEW step, Remains(step, steps), Head(steps) # step
  PROVE  Remains(step, Tail(steps))
<1>1. PICK i \in 1..Len(steps) : steps[i] = step
  BY DEF Remains
<1>2. i # 1
  BY <1>1
<1>3. i - 1 \in 1..Len(Tail(steps)) /\ Tail(steps)[i - 1] = steps[i]
  BY <1>2
<1> QED
  BY <1>1, <1>3 DEF Remains

(* Each branch of the select has the steps its invariant needs. *)
LEMMA BranchesJoin ==
  /\ Remains("join console", Shutdown)
  /\ Remains("join bgp", Shutdown)
  /\ Remains("join kernel", Shutdown)
  /\ Shutdown \in Seq(Steps)
<1>1. Shutdown \in Seq(Steps) /\ Len(Shutdown) = 6
  BY DEF Shutdown, Steps
<1>2. Shutdown[3] = "join console" /\ Shutdown[5] = "join bgp" /\ Shutdown[6] = "join kernel"
  BY DEF Shutdown, Steps
<1>3. 3 \in 1..Len(Shutdown) /\ 5 \in 1..Len(Shutdown) /\ 6 \in 1..Len(Shutdown)
  BY <1>1
<1> QED
  BY <1>1, <1>2, <1>3 DEF Remains

LEMMA GenerationInit == Init => GenerationInv
<1> SUFFICES ASSUME Init PROVE GenerationInv
  OBVIOUS
<1>1. todo \in Seq(Steps)
  BY DEF Init
<1> QED
  BY <1>1 DEF Init, GenerationInv, WorkersEnded

(* The steps that end a generation. *)
LEMMA EndingKeeps ==
  ASSUME GenerationInv,
         RaiseStop \/ AbortConsole \/ JoinConsole \/ AbortBgp \/ JoinBgp \/ JoinKernel
  PROVE  GenerationInv'
<1>1. PICK step \in Steps : Doing(step)
  BY DEF RaiseStop, AbortConsole, JoinConsole, AbortBgp, JoinBgp, JoinKernel, Steps
<1>2. /\ pc = "ending" /\ pc' = "ending" /\ todo # <<>> /\ todo' = Tail(todo)
      /\ todo' \in Seq(Steps)
      /\ UNCHANGED <<serving, listening>>
  <2>1. /\ pc = "ending" /\ pc' = "ending" /\ todo # <<>> /\ todo' = Tail(todo)
        /\ UNCHANGED <<serving, listening>>
    BY <1>1, Zenon DEF Doing, sockets
  <2>2. todo \in Seq(Steps)
    BY DEF GenerationInv
  <2> QED
    BY <2>1, <2>2
<1>3. ASSUME NEW other, other # Head(todo), Remains(other, todo)
      PROVE  Remains(other, todo')
  BY <1>2, <1>3, RemainsAfter DEF GenerationInv
<1>4. CASE RaiseStop
  BY <1>2, <1>3, <1>4 DEF RaiseStop, Doing, workers, GenerationInv, WorkersEnded
<1>5. CASE AbortConsole
  BY <1>2, <1>3, <1>5 DEF AbortConsole, Abort, Doing, GenerationInv, WorkersEnded
<1>6. CASE JoinConsole
  BY <1>2, <1>3, <1>6 DEF JoinConsole, Doing, workers, GenerationInv, WorkersEnded
<1>7. CASE AbortBgp
  BY <1>2, <1>3, <1>7 DEF AbortBgp, Abort, Doing, GenerationInv, WorkersEnded
<1>8. CASE JoinBgp
  BY <1>2, <1>3, <1>8 DEF JoinBgp, Doing, workers, GenerationInv, WorkersEnded
<1>9. CASE JoinKernel
  BY <1>2, <1>3, <1>9 DEF JoinKernel, Doing, workers, GenerationInv, WorkersEnded
<1> QED
  BY <1>4, <1>5, <1>6, <1>7, <1>8, <1>9

(* The branches of the select that end a generation. *)
LEMMA BranchKeeps ==
  ASSUME GenerationInv,
         OnHangup \/ OnTerminate \/ OnKernelEnd \/ OnBgpEnd \/ OnConsoleEnd
  PROVE  GenerationInv'
<1> USE DEF workers, sockets
<1>1. CASE OnHangup
  BY <1>1, BranchesJoin DEF OnHangup, Ending, loopVars, GenerationInv, WorkersEnded
<1>2. CASE OnTerminate
  BY <1>2, BranchesJoin DEF OnTerminate, Ending, GenerationInv, WorkersEnded
<1>3. CASE OnKernelEnd
  <2> DEFINE steps == <<"abort console", "join console", "stop", "abort bgp", "join bgp">>
  <2>1. steps \in Seq(Steps) /\ Len(steps) = 5
    BY DEF Steps
  <2>2. steps[2] = "join console" /\ steps[5] = "join bgp"
    OBVIOUS
  <2>3. /\ pc = "select" /\ kernel # "running" /\ pc' = "ending" /\ todo' = steps
        /\ UNCHANGED <<kernel, console, bgp, serving, listening>>
    BY <1>3, Zenon DEF OnKernelEnd, Ending
  <2> HIDE DEF steps
  <2>4. 2 \in 1..Len(steps) /\ 5 \in 1..Len(steps)
    BY <2>1
  <2>5. Remains("join console", steps) /\ Remains("join bgp", steps)
    BY <2>2, <2>4 DEF Remains
  <2> QED
    BY <2>1, <2>3, <2>5 DEF GenerationInv, WorkersEnded
<1>4. CASE OnBgpEnd
  <2> DEFINE steps == <<"abort console", "join console", "stop", "join kernel">>
  <2>1. steps \in Seq(Steps) /\ Len(steps) = 4
    BY DEF Steps
  <2>2. steps[2] = "join console" /\ steps[4] = "join kernel"
    OBVIOUS
  <2>3. /\ pc = "select" /\ bgp = "ended" /\ pc' = "ending" /\ todo' = steps
        /\ UNCHANGED <<kernel, console, bgp, serving, listening>>
    BY <1>4, Zenon DEF OnBgpEnd, Ending
  <2> HIDE DEF steps
  <2>4. 2 \in 1..Len(steps) /\ 4 \in 1..Len(steps)
    BY <2>1
  <2>5. Remains("join console", steps) /\ Remains("join kernel", steps)
    BY <2>2, <2>4 DEF Remains
  <2> QED
    BY <2>1, <2>3, <2>5 DEF GenerationInv, WorkersEnded
<1>5. CASE OnConsoleEnd
  <2> DEFINE steps == <<"stop", "abort bgp", "join bgp", "join kernel">>
  <2>1. steps \in Seq(Steps) /\ Len(steps) = 4
    BY DEF Steps
  <2>2. steps[3] = "join bgp" /\ steps[4] = "join kernel"
    OBVIOUS
  <2>3. /\ pc = "select" /\ console = "ended" /\ pc' = "ending" /\ todo' = steps
        /\ UNCHANGED <<kernel, console, bgp, serving, listening>>
    BY <1>5, Zenon DEF OnConsoleEnd, Ending
  <2> HIDE DEF steps
  <2>4. 3 \in 1..Len(steps) /\ 4 \in 1..Len(steps)
    BY <2>1
  <2>5. Remains("join bgp", steps) /\ Remains("join kernel", steps)
    BY <2>2, <2>4 DEF Remains
  <2> QED
    BY <2>1, <2>3, <2>5 DEF GenerationInv, WorkersEnded
<1> QED
  BY <1>1, <1>2, <1>3, <1>4, <1>5

LEMMA GenerationNext == GenerationInv /\ [Next]_vars => GenerationInv'
<1> SUFFICES ASSUME GenerationInv, [Next]_vars
             PROVE  GenerationInv'
  OBVIOUS
<1> USE DEF loopVars, workers, sockets
<1>1. CASE Start
  BY <1>1 DEF Start, GenerationInv, WorkersEnded
<1>2. CASE StartFails
  BY <1>2 DEF StartFails, GenerationInv, WorkersEnded
<1>3. CASE OnHangup \/ OnTerminate \/ OnKernelEnd \/ OnBgpEnd \/ OnConsoleEnd
  BY <1>3, BranchKeeps
<1>4. CASE RaiseStop \/ AbortConsole \/ JoinConsole \/ AbortBgp \/ JoinBgp \/ JoinKernel
  BY <1>4, EndingKeeps
<1>5. CASE Replace
  <2>1. \A step : ~Remains(step, <<>>)
    BY DEF Remains
  <2> QED
    BY <1>5, <2>1 DEF Replace, GenerationInv, WorkersEnded
<1>6. CASE KernelStops \/ KernelFails
  <2>1. /\ kernel = "running" /\ kernel' \in {"stopped", "failed"}
        /\ UNCHANGED <<pc, todo, console, bgp, serving, listening>>
    BY <1>6, Zenon DEF KernelStops, KernelFails
  <2> QED
    BY <2>1 DEF GenerationInv, WorkersEnded
<1>7. CASE ConsoleEnds
  BY <1>7 DEF ConsoleEnds, GenerationInv, WorkersEnded
<1>8. ASSUME NEW a \in Addr, BgpBind(a)
      PROVE  GenerationInv'
  BY <1>8 DEF BgpBind, DropJoinSet, GenerationInv, WorkersEnded
<1>9. CASE BgpEnds
  BY <1>9 DEF BgpEnds, DropJoinSet, GenerationInv, WorkersEnded
<1>10. ASSUME NEW a \in Addr, DropListener(a)
       PROVE  GenerationInv'
  BY <1>10 DEF DropListener, GenerationInv, WorkersEnded
<1>11. CASE DropSession \/ Establish
  <2>1. UNCHANGED <<pc, todo, kernel, console, bgp, serving, listening>>
    BY <1>11, Zenon DEF DropSession, Establish
  <2> QED
    BY <2>1 DEF GenerationInv, WorkersEnded
<1>12. ASSUME NEW valid \in BOOLEAN, Edit(valid)
       PROVE  GenerationInv'
  BY <1>12 DEF Edit, GenerationInv, WorkersEnded
<1>13. CASE Signal
  BY <1>13 DEF Signal, GenerationInv, WorkersEnded
<1>14. CASE UNCHANGED vars
  BY <1>14 DEF vars, GenerationInv, WorkersEnded
<1> QED
  BY <1>1, <1>2, <1>3, <1>4, <1>5, <1>6, <1>7, <1>8, <1>9, <1>10, <1>11,
     <1>12, <1>13, <1>14 DEF Next, Run, Runtime

(* No worker of run() outlives its generation, whichever branches of the   *)
(* select end it and whatever the workers and the operator do meanwhile.   *)
THEOREM NoWorkerOutlives == Spec => []WorkersEnded
<1>1. GenerationInv => WorkersEnded
  BY DEF GenerationInv
<1> QED
  BY GenerationInit, GenerationNext, <1>1, PTL DEF Spec
=============================================================================
