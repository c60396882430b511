--------------------------- MODULE RunnableThread ---------------------------
(***************************************************************************)
(* RunnableThread.cpp: a thread object that is started and stopped any     *)
(* number of times, FnIndefiniteThread's loop, and the callers around it.  *)
(*                                                                         *)
(* stop() reads thread_ without mutex_ before and while it joins, start()  *)
(* holds mutex_ while the new thread already runs, and the wrapper around  *)
(* runnable() takes mutex_ to clean up.  What the C++ library or the       *)
(* processor turns into the end of the process is a fault.                 *)
(*                                                                         *)
(* Assumptions: one thread, Stopper, calls stop() and join(), and calls    *)
(* stop() only when a start() has assigned thread_ since its last stop();  *)
(* fn_ calls stop() on its own thread only once start() has assigned it.   *)
(* Without them stop() reads through a null thread_ (line 13).  Launching  *)
(* a thread succeeds: were std::thread to throw (line 34), running_ would  *)
(* stay true without a worker.                                             *)
(***************************************************************************)
EXTENDS Naturals

CONSTANTS
    Controllers,  \* threads that call start()
    Stopper,      \* the one of them that calls stop() and join()
    Free          \* nobody holds mutex_

ASSUME ControllersAssumption == Stopper \in Controllers /\ Free \notin Controllers

VARIABLES
    running_,
    thread_,   \* "null", "joinable" or "joined"
    mutex_,    \* who holds it between steps
    pc,        \* where each controller is
    worker,    \* where the last thread launched is
    fault

vars == <<running_, thread_, mutex_, pc, worker, fault>>

Init ==
    /\ running_ = FALSE /\ thread_ = "null" /\ mutex_ = Free
    /\ pc = [c \in Controllers |-> "idle"]
    /\ worker = "none" /\ fault = "none"

Go(c, from, to) == pc[c] = from /\ pc' = [pc EXCEPT ![c] = to]

-----------------------------------------------------------------------------
Call(c) ==
    /\ Go(c, "idle", "start")
    /\ UNCHANGED <<running_, thread_, mutex_, worker, fault>>

(* start() returns at once.                                                *)
StartReturns(c) ==
    /\ mutex_ = Free /\ (running_ \/ thread_ # "null")
    /\ Go(c, "start", "idle")
    /\ UNCHANGED <<running_, thread_, mutex_, worker, fault>>

(* Mutant: only running_ is looked at.                                     *)
LaunchWhenNotRunning(c) ==
    /\ mutex_ = Free /\ ~running_
    /\ Go(c, "start", "assign")
    /\ running_' = TRUE /\ worker' = "check" /\ mutex_' = c
    /\ UNCHANGED <<thread_, fault>>

(* The constructor of std::thread launches the worker before thread_ is    *)
(* assigned, under mutex_.                                                 *)
Launch(c) ==
    /\ mutex_ = Free /\ ~running_ /\ thread_ = "null"
    /\ Go(c, "start", "assign")
    /\ running_' = TRUE /\ worker' = "check" /\ mutex_' = c
    /\ UNCHANGED <<thread_, fault>>

(* Mutant: mutex_ is not given back.                                       *)
AssignKeepingLock(c) ==
    /\ Go(c, "assign", "idle")
    /\ fault' = IF thread_ = "joinable" THEN "terminate" ELSE fault
    /\ thread_' = "joinable"
    /\ UNCHANGED <<running_, worker, mutex_>>

(* To assign over, or to reset, a std::thread that is joinable terminates. *)
Assign(c) ==
    /\ Go(c, "assign", "idle")
    /\ fault' = IF thread_ = "joinable" THEN "terminate" ELSE fault
    /\ thread_' = "joinable" /\ mutex_' = Free
    /\ UNCHANGED <<running_, worker>>

(* stop() by another thread than the worker.                               *)
stop ==
    /\ thread_ # "null" /\ Go(Stopper, "idle", "clear")
    /\ UNCHANGED <<running_, thread_, mutex_, worker, fault>>

(* Mutant: running_ is not cleared.                                        *)
StopClearNothing ==
    /\ mutex_ = Free
    /\ Go(Stopper, "clear", IF thread_ = "null" THEN "idle" ELSE "join")
    /\ UNCHANGED <<running_, thread_, mutex_, worker, fault>>

StopClear ==
    /\ mutex_ = Free /\ running_' = FALSE
    /\ Go(Stopper, "clear", IF thread_ = "null" THEN "idle" ELSE "join")
    /\ UNCHANGED <<thread_, mutex_, worker, fault>>

(* if (thread_->joinable()) thread_->join(), without mutex_.               *)
StopJoin ==
    /\ Go(Stopper, "join", IF thread_ = "joinable" THEN "wait" ELSE "reset")
    /\ fault' = IF thread_ = "null" THEN "null" ELSE fault
    /\ UNCHANGED <<running_, thread_, mutex_, worker>>

Joined(from, to) ==
    /\ worker = "ended" /\ Go(Stopper, from, to)
    /\ thread_' = "joined"
    /\ UNCHANGED <<running_, mutex_, worker, fault>>

(* Mutant: thread_ is not reset.                                           *)
StopWithoutReset ==
    /\ mutex_ = Free /\ Go(Stopper, "reset", "idle")
    /\ UNCHANGED <<running_, thread_, mutex_, worker, fault>>

StopReset ==
    /\ mutex_ = Free /\ Go(Stopper, "reset", "idle")
    /\ fault' = IF thread_ = "joinable" THEN "terminate" ELSE fault
    /\ thread_' = "null"
    /\ UNCHANGED <<running_, mutex_, worker>>

(* join(): only when running_ && thread_ && thread_->joinable().           *)
join ==
    /\ running_ /\ thread_ = "joinable" /\ Go(Stopper, "idle", "joining")
    /\ UNCHANGED <<running_, thread_, mutex_, worker, fault>>

-----------------------------------------------------------------------------
(* The worker: runnableWrapper around runnable().                          *)

Loop ==
    /\ worker = "check" /\ worker' = IF running_ THEN "fn" ELSE "cleanup"
    /\ UNCHANGED <<running_, thread_, mutex_, pc, fault>>

(* stop() called by fn_ on its own thread.                                 *)
SelfStop ==
    /\ worker = "fn" /\ running_ /\ thread_ # "null" /\ running_' = FALSE
    /\ UNCHANGED <<thread_, mutex_, pc, worker, fault>>

(* fn_ returns; the runnable() of another class may return for good.       *)
FnReturns ==
    /\ worker = "fn" /\ worker' \in {"check", "cleanup"}
    /\ UNCHANGED <<running_, thread_, mutex_, pc, fault>>

(* Mutant: running_ is left to stop().                                     *)
CleanupOnlyEnds ==
    /\ worker = "cleanup" /\ mutex_ = Free /\ worker' = "ended"
    /\ UNCHANGED <<running_, thread_, mutex_, pc, fault>>

Cleanup ==
    /\ worker = "cleanup" /\ mutex_ = Free /\ worker' = "ended"
    /\ running_' = IF thread_ = "null" THEN running_ ELSE FALSE
    /\ UNCHANGED <<thread_, mutex_, pc, fault>>

-----------------------------------------------------------------------------
Starting == \E c \in Controllers : Call(c) \/ StartReturns(c) \/ Launch(c) \/ Assign(c)
Stopping ==
    \/ StopClear \/ StopJoin \/ Joined("wait", "reset") \/ StopReset
    \/ Joined("joining", "idle")
Working == Loop \/ SelfStop \/ FnReturns \/ Cleanup

Next == fault = "none" /\ (Starting \/ stop \/ join \/ Stopping \/ Working)

Spec == Init /\ [][Next]_vars

(* Threads run, and fn_ returns.                                           *)
FairSpec ==
    /\ Spec
    /\ \A c \in Controllers :
         WF_vars((StartReturns(c) \/ Launch(c) \/ Assign(c)) /\ fault = "none")
    /\ WF_vars(Stopping /\ fault = "none")
    /\ WF_vars((Loop \/ FnReturns \/ Cleanup) /\ fault = "none")
-----------------------------------------------------------------------------
Alive == {"check", "fn", "cleanup"}

(* Every variable stays in its type; mutex_ is held between steps only by  *)
(* a start() that is launching.                                            *)
TypeOK ==
    /\ running_ \in BOOLEAN /\ thread_ \in {"null", "joinable", "joined"}
    /\ mutex_ \in {c \in Controllers : pc[c] = "assign"} \cup {Free}
    /\ pc \in [Controllers -> {"idle", "start", "assign", "clear", "join", "wait",
                             "reset", "joining"}]
    /\ worker \in {"none", "ended"} \cup Alive
    /\ fault \in {"none", "null", "terminate"}

(* However starts, the stop and the end of the thread interleave, thread_  *)
(* is never read while null and never destroyed while joinable.            *)
NoFault == fault = "none"

(* isRunning() is true only from the launch of a thread to its cleanup,    *)
(* also when the thread ended by itself.                                   *)
RunningIsAlive == running_ => worker \in Alive

(* When stop() returns the thread has ended, isRunning() is false and the  *)
(* object can be started again, whatever start() calls came in between.    *)
StopStops ==
    [][pc[Stopper] = "reset" /\ pc'[Stopper] = "idle"
         => worker = "ended" /\ ~running_' /\ thread_' = "null"]_vars

(* stop() returns: the join does not wait for a thread that waits for it.  *)
StopReturns == pc[Stopper] = "clear" ~> pc[Stopper] = "idle"
=============================================================================
