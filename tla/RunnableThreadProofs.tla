------------------------ MODULE RunnableThreadProofs ------------------------
(***************************************************************************)
(* Proofs about RunnableThread, for any number of threads that call        *)
(* start().                                                                *)
(***************************************************************************)
EXTENDS RunnableThread, TLAPS

(* Only the Stopper is inside stop() or join().                            *)
Alone ==
    \A c \in Controllers : c # Stopper => pc[c] \in {"idle", "start", "assign"}

(* A launch in progress holds mutex_; its worker is there, thread_ is not. *)
Launching ==
    \A c \in Controllers :
        pc[c] = "assign" => mutex_ = c /\ thread_ = "null" /\ worker \in Alive

(* Without one, a null thread_ means that no worker runs.                  *)
NoWorker ==
    mutex_ = Free /\ thread_ = "null" => ~running_ /\ worker \in {"none", "ended"}

(* What holds in each place of stop() and join().                          *)
InStop ==
    /\ pc[Stopper] \in {"clear", "join", "wait", "reset", "joining"} => thread_ # "null"
    /\ pc[Stopper] \in {"join", "wait", "reset"} => ~running_
    /\ pc[Stopper] = "reset" => thread_ = "joined"

JoinedEnded == thread_ = "joined" => worker = "ended"

IInv ==
    /\ TypeOK /\ NoFault /\ RunningIsAlive
    /\ Alone /\ Launching /\ NoWorker /\ InStop /\ JoinedEnded

(* The initial state satisfies the invariant.                              *)
LEMMA Initially == Init => IInv
<1> SUFFICES ASSUME Init PROVE IInv
  OBVIOUS
<1> USE ControllersAssumption DEF ControllersAssumption
<1>1. /\ running_ = FALSE /\ thread_ = "null" /\ mutex_ = Free
      /\ worker = "none" /\ fault = "none" /\ ~running_
  BY DEF Init
<1>2. pc = [c \in Controllers |-> "idle"] /\ \A c \in Controllers : pc[c] = "idle"
  BY DEF Init
<1>3. TypeOK BY <1>1, <1>2 DEF TypeOK
<1> QED
  BY <1>1, <1>2, <1>3 DEF IInv, NoFault, RunningIsAlive, Alone, Launching, NoWorker,
     InStop, JoinedEnded

(* A step to another place of the program by controller c.                 *)
LEMMA GoTo ==
  ASSUME NEW c \in Controllers, NEW from, NEW to, TypeOK, Go(c, from, to)
  PROVE  /\ pc[c] = from /\ pc'[c] = to
         /\ \A d \in Controllers : d # c => pc'[d] = pc[d]
BY DEF Go, TypeOK

LEMMA StepInv == IInv /\ [Next]_vars => IInv'
<1> SUFFICES ASSUME IInv, [Next]_vars PROVE IInv'
  OBVIOUS
<1> USE ControllersAssumption DEF ControllersAssumption, IInv, Alive
<1>1. ASSUME NEW c \in Controllers, Call(c) PROVE IInv'
  <2>1. Go(c, "idle", "start") /\ UNCHANGED <<running_, thread_, mutex_, worker, fault>>
    BY <1>1 DEF Call
  <2>2. /\ pc[c] = "idle" /\ pc'[c] = "start"
        /\ \A d \in Controllers : d # c => pc'[d] = pc[d]
    BY <2>1, GoTo
  <2>3. TypeOK' BY <2>1, <2>2 DEF TypeOK, Go
  <2> QED
    BY <2>1, <2>2, <2>3 DEF NoFault, RunningIsAlive, Alone, Launching, NoWorker, InStop, JoinedEnded
<1>2. ASSUME NEW c \in Controllers, StartReturns(c) PROVE IInv'
  <2>1. Go(c, "start", "idle") /\ UNCHANGED <<running_, thread_, mutex_, worker, fault>>
    BY <1>2 DEF StartReturns
  <2>2. /\ pc[c] = "start" /\ pc'[c] = "idle"
        /\ \A d \in Controllers : d # c => pc'[d] = pc[d]
    BY <2>1, GoTo
  <2>3. TypeOK' BY <2>1, <2>2 DEF TypeOK, Go
  <2> QED
    BY <2>1, <2>2, <2>3 DEF NoFault, RunningIsAlive, Alone, Launching, NoWorker, InStop, JoinedEnded
<1>3. ASSUME NEW c \in Controllers, Launch(c) PROVE IInv'
  <2>1. /\ Go(c, "start", "assign") /\ mutex_ = Free /\ thread_ = "null" /\ mutex_' = c
        /\ running_' = TRUE /\ worker' = "check" /\ UNCHANGED <<thread_, fault>>
    BY <1>3 DEF Launch
  <2>2. /\ pc[c] = "start" /\ pc'[c] = "assign"
        /\ \A d \in Controllers : d # c => pc'[d] = pc[d]
    BY <2>1, GoTo
  <2>3. TypeOK' BY <2>1, <2>2 DEF TypeOK, Go
  <2>4. \A d \in Controllers : pc[d] # "assign" BY <2>1 DEF Launching
  <2> QED
    BY <2>1, <2>2, <2>3, <2>4
    DEF NoFault, RunningIsAlive, Alone, Launching, NoWorker, InStop, JoinedEnded
<1>4. ASSUME NEW c \in Controllers, Assign(c) PROVE IInv'
  <2>1. /\ Go(c, "assign", "idle") /\ thread_' = "joinable" /\ mutex_' = Free
        /\ UNCHANGED <<running_, worker>>
    BY <1>4 DEF Assign
  <2>2. /\ pc[c] = "assign" /\ pc'[c] = "idle"
        /\ \A d \in Controllers : d # c => pc'[d] = pc[d]
    BY <2>1, GoTo
  <2>3. mutex_ = c /\ thread_ = "null" /\ \A d \in Controllers : d # c => pc[d] # "assign"
    BY <2>2 DEF Launching
  <2>4. fault' = fault BY <1>4, <2>3 DEF Assign
  <2>5. TypeOK' BY <2>1, <2>2, <2>4 DEF TypeOK, Go
  <2> QED
    BY <2>1, <2>2, <2>3, <2>4, <2>5
    DEF NoFault, RunningIsAlive, Alone, Launching, NoWorker, InStop, JoinedEnded
<1>5. CASE stop
  <2>1. /\ Go(Stopper, "idle", "clear") /\ thread_ # "null"
        /\ UNCHANGED <<running_, thread_, mutex_, worker, fault>>
    BY <1>5 DEF stop
  <2>2. /\ pc[Stopper] = "idle" /\ pc'[Stopper] = "clear"
        /\ \A d \in Controllers : d # Stopper => pc'[d] = pc[d]
    BY <2>1, GoTo
  <2>3. TypeOK' BY <2>1, <2>2 DEF TypeOK, Go
  <2> QED
    BY <2>1, <2>2, <2>3 DEF NoFault, RunningIsAlive, Alone, Launching, NoWorker, InStop, JoinedEnded
<1>6. CASE join
  <2>1. /\ Go(Stopper, "idle", "joining") /\ thread_ = "joinable"
        /\ UNCHANGED <<running_, thread_, mutex_, worker, fault>>
    BY <1>6 DEF join
  <2>2. /\ pc[Stopper] = "idle" /\ pc'[Stopper] = "joining"
        /\ \A d \in Controllers : d # Stopper => pc'[d] = pc[d]
    BY <2>1, GoTo
  <2>3. TypeOK' BY <2>1, <2>2 DEF TypeOK, Go
  <2> QED
    BY <2>1, <2>2, <2>3 DEF NoFault, RunningIsAlive, Alone, Launching, NoWorker, InStop, JoinedEnded
<1>7. CASE StopClear
  <2>1. pc[Stopper] = "clear" BY <1>7 DEF StopClear, Go
  <2>2. thread_ # "null" BY <2>1 DEF InStop
  <2>3. /\ Go(Stopper, "clear", "join") /\ mutex_ = Free /\ running_' = FALSE /\ ~running_'
        /\ UNCHANGED <<thread_, mutex_, worker, fault>>
    BY <1>7, <2>2 DEF StopClear
  <2>4. /\ pc'[Stopper] = "join"
        /\ \A d \in Controllers : d # Stopper => pc'[d] = pc[d]
    BY <2>3, GoTo
  <2>5. TypeOK' BY <2>1, <2>3, <2>4 DEF TypeOK, Go
  <2> QED
    BY <2>1, <2>2, <2>3, <2>4, <2>5
    DEF NoFault, RunningIsAlive, Alone, Launching, NoWorker, InStop, JoinedEnded
<1>8. CASE StopJoin
  <2>1. pc[Stopper] = "join" /\ thread_ # "null" BY <1>8 DEF StopJoin, Go, InStop
  <2>2. fault' = fault /\ UNCHANGED <<running_, thread_, mutex_, worker>>
    BY <1>8, <2>1 DEF StopJoin
  <2>3. /\ pc'[Stopper] = (IF thread_ = "joinable" THEN "wait" ELSE "reset")
        /\ \A d \in Controllers : d # Stopper => pc'[d] = pc[d]
    BY <1>8, GoTo DEF StopJoin
  <2>4. TypeOK' BY <1>8, <2>1, <2>2, <2>3 DEF TypeOK, Go, StopJoin
  <2>5. thread_ \in {"joinable", "joined"} BY <2>1 DEF TypeOK
  <2> QED
    BY <2>1, <2>2, <2>3, <2>4, <2>5
    DEF NoFault, RunningIsAlive, Alone, Launching, NoWorker, InStop, JoinedEnded
<1>9. ASSUME NEW from, NEW to, Joined(from, to),
             \/ from = "wait" /\ to = "reset"
             \/ from = "joining" /\ to = "idle"
      PROVE  IInv'
  <2>1. /\ Go(Stopper, from, to) /\ worker = "ended" /\ thread_' = "joined"
        /\ UNCHANGED <<running_, mutex_, worker, fault>>
    BY <1>9 DEF Joined
  <2>2. /\ pc[Stopper] = from /\ pc'[Stopper] = to
        /\ \A d \in Controllers : d # Stopper => pc'[d] = pc[d]
    BY <2>1, GoTo
  <2>3. TypeOK' BY <1>9, <2>1, <2>2 DEF TypeOK, Go
  <2>4. \A d \in Controllers : pc[d] # "assign" BY <2>1 DEF Launching
  <2> QED
    BY <1>9, <2>1, <2>2, <2>3, <2>4
    DEF NoFault, RunningIsAlive, Alone, Launching, NoWorker, InStop, JoinedEnded
<1>10. CASE StopReset
  <2>1. Go(Stopper, "reset", "idle") /\ mutex_ = Free /\ thread_' = "null"
        /\ UNCHANGED <<running_, mutex_, worker>>
    BY <1>10 DEF StopReset
  <2>2. /\ pc[Stopper] = "reset" /\ pc'[Stopper] = "idle"
        /\ \A d \in Controllers : d # Stopper => pc'[d] = pc[d]
    BY <2>1, GoTo
  <2>3. thread_ = "joined" /\ ~running_ /\ worker = "ended"
    BY <2>2 DEF InStop, JoinedEnded
  <2>4. fault' = fault BY <1>10, <2>3 DEF StopReset
  <2>5. TypeOK' BY <2>1, <2>2, <2>4 DEF TypeOK, Go
  <2>6. \A d \in Controllers : pc[d] # "assign" BY <2>3 DEF Launching
  <2> QED
    BY <2>1, <2>2, <2>3, <2>4, <2>5, <2>6
    DEF NoFault, RunningIsAlive, Alone, Launching, NoWorker, InStop, JoinedEnded
<1>11. CASE Loop
  <2>1. worker = "check" /\ worker' \in {"fn", "cleanup"}
        /\ UNCHANGED <<running_, thread_, mutex_, pc, fault>>
    BY <1>11 DEF Loop
  <2> QED
    BY <2>1 DEF TypeOK, NoFault, RunningIsAlive, Alone, Launching, NoWorker, InStop, JoinedEnded
<1>12. CASE SelfStop
  <2>1. running_' = FALSE /\ ~running_' /\ worker = "fn"
        /\ UNCHANGED <<thread_, mutex_, pc, worker, fault>>
    BY <1>12 DEF SelfStop
  <2> QED
    BY <2>1 DEF TypeOK, NoFault, RunningIsAlive, Alone, Launching, NoWorker, InStop, JoinedEnded
<1>13. CASE FnReturns
  <2>1. worker = "fn" /\ worker' \in {"check", "cleanup"}
        /\ UNCHANGED <<running_, thread_, mutex_, pc, fault>>
    BY <1>13 DEF FnReturns
  <2> QED
    BY <2>1 DEF TypeOK, NoFault, RunningIsAlive, Alone, Launching, NoWorker, InStop, JoinedEnded
<1>14. CASE Cleanup
  <2>1. worker = "cleanup" /\ mutex_ = Free /\ worker' = "ended"
        /\ UNCHANGED <<thread_, mutex_, pc, fault>>
    BY <1>14 DEF Cleanup
  <2>2. thread_ # "null" BY <2>1 DEF NoWorker
  <2>3. running_' = FALSE /\ ~running_' BY <1>14, <2>2 DEF Cleanup
  <2>4. \A d \in Controllers : pc[d] # "assign" BY <2>2 DEF Launching
  <2> QED
    BY <2>1, <2>2, <2>3, <2>4
    DEF TypeOK, NoFault, RunningIsAlive, Alone, Launching, NoWorker, InStop, JoinedEnded
<1>15. CASE UNCHANGED vars
  BY <1>15 DEF vars, TypeOK, NoFault, RunningIsAlive, Alone, Launching, NoWorker, InStop, JoinedEnded
<1> QED
  BY <1>1, <1>2, <1>3, <1>4, <1>5, <1>6, <1>7, <1>8, <1>9, <1>10, <1>11, <1>12, <1>13,
     <1>14, <1>15
  DEF Next, Starting, Stopping, Working

(* The inductive invariant holds.                                          *)
THEOREM Invariance == Spec => []IInv
BY Initially, StepInv, PTL DEF Spec

(* Every variable stays in its type, whatever the number of starters.      *)
THEOREM TypeCorrect == Spec => []TypeOK
<1>1. IInv => TypeOK BY DEF IInv
<1> QED BY <1>1, Invariance, PTL

(* thread_ is never read while null nor destroyed while joinable.          *)
THEOREM NeverFaults == Spec => []NoFault
<1>1. IInv => NoFault BY DEF IInv
<1> QED BY <1>1, Invariance, PTL

(* isRunning() is true only while the worker is there.                     *)
THEOREM RunningIsAliveHolds == Spec => []RunningIsAlive
<1>1. IInv => RunningIsAlive BY DEF IInv
<1> QED BY <1>1, Invariance, PTL

(* A stop() that returns leaves a finished, restartable object.            *)
THEOREM StopStopsHolds == Spec => StopStops
<1>1. ASSUME IInv, [Next]_vars, pc[Stopper] = "reset", pc'[Stopper] = "idle"
      PROVE  worker = "ended" /\ ~running_' /\ thread_' = "null"
  <2> USE ControllersAssumption DEF ControllersAssumption
  <2>1. thread_ = "joined" /\ ~running_ /\ worker = "ended"
    BY <1>1 DEF IInv, InStop, JoinedEnded
  <2>2. StopReset
    <3>1. \A c \in Controllers : Call(c) \/ StartReturns(c) \/ Launch(c) \/ Assign(c) => c # Stopper
      BY <1>1 DEF Call, StartReturns, Launch, Assign, Go
    <3>2. TypeOK BY <1>1 DEF IInv
    <3>3. ~Starting BY <1>1, <3>1, <3>2, GoTo DEF Starting, Call, StartReturns, Launch, Assign
    <3>4. ~(stop \/ join \/ StopClear \/ StopJoin \/ Joined("wait", "reset") \/ Joined("joining", "idle"))
      BY <1>1 DEF stop, join, StopClear, StopJoin, Joined, Go
    <3>5. ~Working BY <1>1 DEF Working, Loop, SelfStop, FnReturns, Cleanup
    <3>6. ~UNCHANGED vars BY <1>1 DEF vars
    <3> QED BY <1>1, <3>3, <3>4, <3>5, <3>6 DEF Next, Stopping
  <2> QED BY <2>1, <2>2 DEF StopReset
<1>2. IInv /\ [Next]_vars
        => [pc[Stopper] = "reset" /\ pc'[Stopper] = "idle"
              => worker = "ended" /\ ~running_' /\ thread_' = "null"]_vars
  BY <1>1
<1> QED BY <1>2, Invariance, PTL DEF Spec, StopStops
=============================================================================
