----------------------------- MODULE LiveClient -----------------------------
(***************************************************************************)
(* LiveClient.cpp: the application's view of a live session, on top of     *)
(* LiveConnection, which appears here by what LiveConnection.tla shows of  *)
(* it: getNewData returns a new frame of the current run whole, and loses  *)
(* the first frame it meets after a (re)connection to the resynchronise    *)
(* branch.                                                                 *)
(*                                                                         *)
(* Every call that changes state holds the recursive sessionInfoMutex_, so *)
(* one call runs at a time; the simulator changes the shared memory        *)
(* between its steps.  The simulator (external) rewrites the session text  *)
(* in place and then increments session.count.                             *)
(***************************************************************************)
EXTENDS Integers

CONSTANTS
    Layouts,     \* the values of DataHeader::bufLen
    MaxRuns,     \* bound: simulator runs
    MaxCount,    \* bound: DataHeader::session.count in one run
    None         \* no data, no message

ASSUME ClientAssumption ==
    /\ Layouts \subseteq Nat \ {0} /\ Layouts # {}
    /\ MaxRuns \in Nat /\ MaxCount \in Nat \ {0}
    /\ None \notin [len : Layouts, run : Nat]
    /\ None \notin [run : Nat, upd : Nat, whole : BOOLEAN, decodes : BOOLEAN]

VARIABLES
    \* the simulator and the shared memory
    on, status, run,
    bufLen, count,   \* DataHeader::bufLen, session.count
    txt,             \* the session text: of which run and update, whole? and
                     \* does it decode once it is (every value without a default there)?
    upd,             \* how far an update of it is: "idle", "text", "done"
    \* LiveConnection
    gIsInitialized,
    fresh,           \* a tickCount later than gLastTickCount is there
    sync,            \* the run of gLastTickCount, 0 for INT_MAX
    recent,          \* less than kCommTimeout since gLastValidTime
    \* LiveClient
    data_,           \* None, or its length and the run of the frame in it
    nData_,
    sessionInfo_,    \* first: count when read; msg: the message
    sessionInfoStr_, \* has been set, to a text that is not empty
    sessionInfoChangedFlag_,
    \* the call that holds sessionInfoMutex_
    pc, caller, ready, newCount,
    noticed          \* history: after SimStop a poll found the connection gone
                     \* and no frame has come since

simVars  == <<on, status, run, bufLen, count, txt, upd>>
connVars == <<gIsInitialized, fresh, sync, recent>>
info     == <<sessionInfo_, sessionInfoStr_, sessionInfoChangedFlag_>>
buffer   == <<data_, nData_>>
callVars == <<pc, caller, ready, newCount>>
vars     == <<simVars, connVars, info, buffer, callVars, noticed>>

Text == [run : 0 .. MaxRuns, upd : 0 .. MaxCount, whole : BOOLEAN, decodes : BOOLEAN]

Init ==
    /\ on = FALSE /\ status = FALSE /\ run = 0
    /\ bufLen \in Layouts /\ count = 0 /\ upd = "idle"
    /\ txt = [run |-> 0, upd |-> 0, whole |-> TRUE, decodes |-> TRUE]
    /\ gIsInitialized = FALSE /\ fresh = FALSE /\ sync = 0 /\ recent = FALSE
    /\ data_ = None /\ nData_ = 0
    /\ sessionInfo_ = [first |-> 0, msg |-> None]
    /\ sessionInfoStr_ = FALSE /\ sessionInfoChangedFlag_ = FALSE
    /\ pc = "idle" /\ caller = "frame" /\ ready = FALSE /\ newCount = 0
    /\ noticed = TRUE

-----------------------------------------------------------------------------
(* The simulator (external).                                               *)

SimStart ==
    /\ ~on /\ run < MaxRuns
    /\ noticed
    /\ on' = TRUE /\ status' = TRUE /\ run' = run + 1
    /\ bufLen' \in Layouts /\ count' = 1 /\ upd' = "idle"
    /\ \E d \in BOOLEAN : txt' = [run |-> run + 1, upd |-> 1, whole |-> TRUE, decodes |-> d]
    /\ fresh' = FALSE /\ noticed' = FALSE
    /\ UNCHANGED <<gIsInitialized, sync, recent, info, buffer, callVars>>

SimPublish ==
    /\ on /\ ~fresh /\ fresh' = TRUE
    /\ UNCHANGED <<simVars, gIsInitialized, sync, recent, info, buffer, callVars, noticed>>

UpdateText ==
    /\ on /\ upd = "idle" /\ count < MaxCount
    /\ upd' = "text"
    /\ \E d \in BOOLEAN : txt' = [run |-> run, upd |-> count + 1, whole |-> FALSE, decodes |-> d]
    /\ UNCHANGED <<on, status, run, bufLen, count, connVars, info, buffer, callVars, noticed>>

FinishText ==
    /\ on /\ upd = "text"
    /\ upd' = "done" /\ txt' = [txt EXCEPT !.whole = TRUE]
    /\ UNCHANGED <<on, status, run, bufLen, count, connVars, info, buffer, callVars, noticed>>

UpdateCount ==
    /\ on /\ upd = "done"
    /\ upd' = "idle" /\ count' = count + 1
    /\ UNCHANGED <<on, status, run, bufLen, txt, connVars, info, buffer, callVars, noticed>>

SimStop ==
    /\ on /\ on' = FALSE /\ status' \in {status, FALSE}
    /\ UNCHANGED <<run, bufLen, count, txt, upd, connVars, info, buffer, callVars, noticed>>

(* kCommTimeout (30 s) passes without a frame accepted; of the steps of a  *)
(* call only the wait can take that long.                                  *)
Timeout ==
    /\ recent /\ recent' = FALSE /\ pc \in {"idle", "wait"}
    /\ UNCHANGED <<simVars, gIsInitialized, fresh, sync, info, buffer, callVars, noticed>>

-----------------------------------------------------------------------------
(* LiveConnection, as LiveClient calls it.                                 *)

connIsConnected == gIsInitialized /\ status /\ recent

(* Mutant: INT_MAX replaced by the -1 that stands for "none" elsewhere.     *)
ResetTickToMinusOne == sync' = -1

(* gLastTickCount = INT_MAX                                                *)
ResetTick == sync' = 0

(* The frame is copied into data_ (when there is one) however long data_   *)
(* is.                                                                     *)
NewFrame ==
    /\ status /\ fresh /\ gIsInitialized /\ sync # 0
    /\ fresh' = FALSE /\ sync' = run /\ recent' = TRUE
    /\ data_' = IF data_ = None THEN None ELSE [data_ EXCEPT !.run = run]
    /\ noticed' = FALSE /\ UNCHANGED gIsInitialized

NoFrame ==
    /\ gIsInitialized' = (gIsInitialized \/ on)
    /\ \/ /\ ~(status /\ gIsInitialized')
          /\ ResetTick /\ UNCHANGED fresh
       \/ /\ status /\ gIsInitialized' /\ (~gIsInitialized \/ sync # run)
          /\ sync' = run /\ fresh' = FALSE
       \/ /\ status /\ gIsInitialized /\ sync = run /\ ~fresh
          /\ UNCHANGED <<sync, fresh>>
    /\ UNCHANGED <<recent, data_, noticed>>

-----------------------------------------------------------------------------
(* LiveClient.                                                             *)

isConnected == data_ # None /\ connIsConnected

(* Mutant: the reset keeps the message of the session that ended.          *)
ResetKeepingMessage ==
    /\ sessionInfo_' = [sessionInfo_ EXCEPT !.first = -1]
    /\ sessionInfoChangedFlag_' = FALSE /\ UNCHANGED sessionInfoStr_

resetSession ==
    /\ sessionInfo_' = [first |-> -1, msg |-> None]
    /\ sessionInfoChangedFlag_' = FALSE
    /\ UNCHANGED sessionInfoStr_

Return == pc' = "idle" /\ caller' = "frame" /\ ready' = FALSE /\ newCount' = 0

(* waitForData: conn.waitForDataReady(timeoutMillis, data_), which tries,  *)
(* waits, and tries again.                                                 *)
waitForData ==
    /\ pc = "idle"
    /\ \/ NewFrame /\ pc' = "woke" /\ ready' = TRUE
       \/ NoFrame /\ pc' = (IF gIsInitialized' THEN "wait" ELSE "woke") /\ ready' = FALSE
    /\ UNCHANGED <<simVars, info, nData_, caller, newCount>>

WakeUp ==
    /\ pc = "wait" /\ pc' = "woke"
    /\ \/ NewFrame /\ ready' = TRUE
       \/ NoFrame /\ ready' = FALSE
    /\ UNCHANGED <<simVars, info, nData_, caller, newCount>>

Reallocate ==
    /\ pc = "woke" /\ ready /\ (data_ = None \/ nData_ # bufLen)
    /\ data_' = [len |-> bufLen, run |-> 0] /\ nData_' = bufLen
    /\ resetSession /\ pc' = "refill"
    /\ UNCHANGED <<simVars, connVars, caller, ready, newCount, noticed>>

Refill ==
    /\ pc = "refill"
    /\ \/ NewFrame /\ pc' = "update" /\ UNCHANGED <<caller, ready, newCount>>
       \/ NoFrame /\ Return
    /\ UNCHANGED <<simVars, info, nData_>>

FrameReady ==
    /\ pc = "woke" /\ ready /\ data_ # None /\ nData_ = bufLen
    /\ pc' = "update"
    /\ UNCHANGED <<simVars, connVars, info, buffer, caller, ready, newCount, noticed>>

(* Mutant: the end of a session leaves the buffer.                         *)
NoFrameReadyKeepingBuffer ==
    /\ pc = "woke" /\ ~ready
    /\ \/ isConnected /\ UNCHANGED <<info, noticed>>
       \/ ~isConnected /\ resetSession /\ noticed' = ~on
    /\ Return
    /\ UNCHANGED <<simVars, connVars, buffer>>

(* No frame; else session ended.                                           *)
NoFrameReady ==
    /\ pc = "woke" /\ ~ready
    /\ \/ isConnected /\ UNCHANGED <<data_, info, noticed>>
       \/ ~isConnected /\ data_' = None /\ resetSession /\ noticed' = ~on
    /\ Return
    /\ UNCHANGED <<simVars, connVars, nData_>>

(* getSessionInfo and getSessionInfoStr: the update a frame makes, made by *)
(* another caller.                                                         *)
getSessionInfo ==
    /\ pc = "idle" /\ pc' = "update" /\ caller' = "info"
    /\ UNCHANGED <<simVars, connVars, info, buffer, ready, newCount, noticed>>

(* The end of updateSessionInfo, returning changed: onNewClientData sets   *)
(* or clears the flag, getSessionInfo does not.                            *)
Updated(changed, i) ==
    /\ sessionInfoChangedFlag_' = IF caller = "frame" THEN changed ELSE sessionInfoChangedFlag_
    /\ sessionInfo_' = i /\ Return

(* Mutant: the text is read once per connection.                           *)
CheckCountOnce ==
    /\ pc = "update"
    /\ IF isConnected /\ (~sessionInfoStr_ \/ sessionInfo_.msg = None)
         THEN pc' = "parse" /\ newCount' = count
              /\ UNCHANGED <<sessionInfo_, sessionInfoChangedFlag_, caller, ready>>
         ELSE Updated(FALSE, sessionInfo_)
    /\ UNCHANGED <<simVars, connVars, buffer, sessionInfoStr_, noticed>>

(* updateSessionInfo up to the text.                                       *)
CheckCount ==
    /\ pc = "update"
    /\ IF isConnected /\ (~sessionInfoStr_ \/ sessionInfo_.first # count)
         THEN pc' = "parse" /\ newCount' = count
              /\ UNCHANGED <<sessionInfo_, sessionInfoChangedFlag_, caller, ready>>
         ELSE Updated(FALSE, sessionInfo_)
    /\ UNCHANGED <<simVars, connVars, buffer, sessionInfoStr_, noticed>>

(* make_shared<SessionInfoMessage>(), before anything is decoded into it.  *)
EmptyMessage == [run |-> run, upd |-> 0, whole |-> TRUE, decodes |-> TRUE]

(* A text read while it is rewritten either parses or throws, and a whole  *)
(* one that lacks a value without a default throws, out of the call and    *)
(* past onNewClientData: first is assigned by then, and a message created  *)
(* unless it was YAML::Load that threw.  An empty text throws too.         *)
Parse ==
    /\ pc = "parse"
    /\ \/ /\ txt.whole => txt.decodes
          /\ Updated(TRUE, [first |-> newCount, msg |-> txt])
          /\ sessionInfoStr_' = TRUE
       \/ /\ ~(txt.whole /\ txt.decodes)
          /\ \E msg \in IF sessionInfo_.msg = None THEN {None, EmptyMessage} ELSE {sessionInfo_.msg} :
               sessionInfo_' = [first |-> newCount, msg |-> msg]
          /\ sessionInfoStr_' \in BOOLEAN
          /\ Return /\ UNCHANGED sessionInfoChangedFlag_
    /\ UNCHANGED <<simVars, connVars, buffer, noticed>>

-----------------------------------------------------------------------------
Simulator ==
    \/ SimStart \/ SimPublish \/ UpdateText \/ FinishText \/ UpdateCount
    \/ SimStop \/ Timeout

InCall ==
    \/ WakeUp \/ Reallocate \/ Refill \/ FrameReady \/ NoFrameReady
    \/ CheckCount \/ Parse

Next == Simulator \/ waitForData \/ getSessionInfo \/ InCall

Spec == Init /\ [][Next]_vars

(* The application polls, a call goes on, and a running simulator keeps    *)
(* publishing (60 Hz, LiveClient.h).  getSessionInfo is called between     *)
(* polls, so a poll is not always possible but always again (SF).          *)
FairSpec ==
    /\ Spec /\ WF_vars(InCall) /\ SF_vars(waitForData)
    /\ WF_vars(SimPublish) /\ WF_vars(FinishText) /\ WF_vars(UpdateCount)
-----------------------------------------------------------------------------
Info == [first : -1 .. MaxCount, msg : Text \cup {None}]

SimTypeOK ==
    /\ on \in BOOLEAN /\ status \in BOOLEAN /\ run \in 0 .. MaxRuns
    /\ bufLen \in Layouts /\ count \in 0 .. MaxCount
    /\ txt \in Text /\ upd \in {"idle", "text", "done"}

ConnTypeOK ==
    /\ gIsInitialized \in BOOLEAN /\ fresh \in BOOLEAN
    /\ sync \in 0 .. MaxRuns /\ recent \in BOOLEAN

Buffer == [len : Layouts, run : 0 .. MaxRuns]

DataTypeOK ==
    /\ data_ \in Buffer \cup {None} /\ nData_ \in Layouts \cup {0}
    /\ sessionInfo_ \in Info
    /\ sessionInfoStr_ \in BOOLEAN /\ sessionInfoChangedFlag_ \in BOOLEAN

CallTypeOK ==
    /\ pc \in {"idle", "wait", "woke", "refill", "update", "parse"}
    /\ caller \in {"frame", "info"} /\ ready \in BOOLEAN
    /\ newCount \in 0 .. MaxCount /\ noticed \in BOOLEAN

(* Every variable stays in its type.                                       *)
TypeOK == SimTypeOK /\ ConnTypeOK /\ DataTypeOK /\ CallTypeOK

(* When waitForData is about to return true, data_ holds a frame of the    *)
(* current run and is as long as the simulator says.  And at any time that *)
(* isConnected() lets a getter read data_, by the headers of the current   *)
(* run, it is of that run's length and no frame of an earlier run is in    *)
(* it: only a buffer whose refill failed has none at all (run 0).          *)
FrameOfRun ==
    /\ pc = "update" /\ caller = "frame" /\ on
         => data_ # None /\ data_.run = run /\ data_.len = bufLen
    /\ isConnected => data_.run \in {0, run} /\ data_.len = bufLen

(* While the client is connected, the message it holds is not left over    *)
(* from an earlier session.                                                *)
SessionOfRun ==
    isConnected /\ sessionInfo_.msg # None => sessionInfo_.msg.run = run

(* While the connection stays up, the last update of the session text     *)
(* reaches the message if it can be decoded at all, though texts are read  *)
(* while they are rewritten and a failed read is not tried again before    *)
(* the count changes: neither a half-written text nor one that does not    *)
(* decode keeps a later one from being read.                               *)
SessionCurrent ==
    <>[](on /\ connIsConnected) =>
        <>[](isConnected /\ (txt.decodes => sessionInfo_.msg = txt))
=============================================================================
