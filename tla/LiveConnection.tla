--------------------------- MODULE LiveConnection ---------------------------
(***************************************************************************)
(* The shared-memory reader of the SDK (LiveConnection.cpp) against the    *)
(* simulator that writes the shared memory (external).                     *)
(*                                                                         *)
(* The simulator rotates over NumBuf frame buffers: it fills a buffer and  *)
(* then stores the buffer's tickCount.  The reader takes no lock: it picks *)
(* the buffer with the greatest tickCount, copies it, and accepts the copy *)
(* when the tickCount it read before the copy is still there after it.     *)
(* Every read of shared memory is a step of its own; the copy is two       *)
(* steps, one per half, which is enough to tell a torn frame from a whole  *)
(* one.  A half of a frame is represented by the number of the frame it    *)
(* belongs to: frames are numbered 1, 2, ... over all simulator runs.      *)
(***************************************************************************)
EXTENDS Integers

CONSTANTS
    NumBuf,       \* DataHeader::numBuf: frame buffers in the shared memory
    IntMax,       \* INT_MAX: gLastTickCount before the first comparison
    CommTimeout,  \* kCommTimeout, in units of the clock
    MaxLag,       \* bound: frames published during one getNewData
    MaxFrames     \* bound on the frames published in a behaviour

ASSUME ConnectionAssumption ==
    /\ NumBuf \in Nat \ {0}
    /\ IntMax \in Nat \ {0}
    /\ CommTimeout \in Nat \ {0}
    /\ MaxLag \in Nat
    /\ MaxFrames \in Nat

VARIABLES
    \* the simulator and the memory it shares
    sim,             \* "off", "starting" (mapping exists) or "on" (event too)
    status,          \* DataHeader::status is Connected
    n,               \* frames published so far, over all runs
    base,            \* frames published before the current run
    wbuf,            \* the buffer the simulator writes next
    wpc,             \* how far it is in that buffer: "idle", "lo", "hi"
    tick,            \* DataHeader::varBuf[b].tickCount
    lo, hi,          \* the frame each half of buffer b belongs to
    \* the globals of LiveConnection.cpp
    handles,         \* which of the mapping, the view and the event are open
    gIsInitialized,
    gLastTickCount,
    age,             \* time since gLastValidTime, up to CommTimeout
    \* the call in progress
    rpc,             \* control point of getNewData / waitForDataReady
    want,            \* data # nullptr
    more,            \* waitForDataReady: a second getNewData follows the wait
    latest, i, count, curTickCount,  \* the locals of getNewData
    data,            \* the caller's buffer
    callN,           \* history: n when the scan of this call began
    mark,            \* history: the buffer that then held frame callN
    \* history
    got,             \* the last frame getNewData returned true for, with data
    floor,           \* frames that must never be delivered from now on: <= floor
    late             \* a delivery had the simulator come round (~InTime)

simVars  == <<sim, status, n, base, wbuf, wpc, tick, lo, hi>>
connVars == <<handles, gIsInitialized, gLastTickCount, age>>
locals   == <<latest, i, count, curTickCount, callN, mark>>
callVars == <<rpc, want, more, locals, data>>
history  == <<got, floor, late>>
vars     == <<simVars, connVars, callVars, history>>

Bufs       == 0 .. NumBuf - 1
NoFrame    == [lo |-> 0, hi |-> 0]
AllHandles == {"map", "view", "event"}
Scanning   == {"scan", "newer", "older", "resync", "take",
               "read", "copyLo", "copyHi", "recheck"}

After(b) == IF b = NumBuf - 1 THEN 0 ELSE b + 1
Before(b) == IF b = 0 THEN NumBuf - 1 ELSE b - 1

Init ==
    /\ sim = "off" /\ status = FALSE
    /\ n = 0 /\ base = 0
    /\ wbuf \in Bufs /\ wpc = "idle"
    /\ tick = [b \in Bufs |-> 0]
    /\ lo = [b \in Bufs |-> 0] /\ hi = lo
    /\ handles = {} /\ gIsInitialized = FALSE
    /\ gLastTickCount = IntMax /\ age = CommTimeout
    /\ rpc = "idle" /\ want = FALSE /\ more = FALSE
    /\ latest = 0 /\ i = 0 /\ count = 0 /\ curTickCount = 0
    /\ callN = 0 /\ mark = 0 /\ data = NoFrame /\ got = NoFrame /\ floor = 0
    /\ late = FALSE

-----------------------------------------------------------------------------
(* The simulator (external).                                               *)

(* A new run resets the tickCounts; the old frames stay in memory.  It goes *)
(* on where the old one stopped, which is anywhere (Init).                 *)
(* Assumption NoRestartMidCall: a simulator does not stop and start again  *)
(* within one getNewData.                                                  *)
SimStart ==
    /\ sim = "off" /\ rpc \notin Scanning
    /\ sim' = "starting" /\ status' = FALSE /\ base' = n
    /\ wpc' = "idle" /\ tick' = [b \in Bufs |-> 0]
    /\ UNCHANGED <<n, wbuf, lo, hi, connVars, callVars, history>>

SimReady ==
    /\ sim = "starting"
    /\ sim' = "on" /\ status' = TRUE
    /\ UNCHANGED <<n, base, wbuf, wpc, tick, lo, hi, connVars, callVars, history>>

SimWriteLo ==
    /\ sim = "on" /\ wpc = "idle" /\ n < MaxFrames
    /\ lo' = [lo EXCEPT ![wbuf] = n + 1] /\ wpc' = "lo"
    /\ UNCHANGED <<sim, status, n, base, wbuf, tick, hi, connVars, callVars, history>>

SimWriteHi ==
    /\ sim = "on" /\ wpc = "lo"
    /\ hi' = [hi EXCEPT ![wbuf] = n + 1] /\ wpc' = "hi"
    /\ UNCHANGED <<sim, status, n, base, wbuf, tick, lo, connVars, callVars, history>>

SimPublish ==
    /\ sim = "on" /\ wpc = "hi"
    /\ n + 1 - base < IntMax
    /\ rpc \in Scanning => n < callN + MaxLag
    /\ tick' = [tick EXCEPT ![wbuf] = n + 1 - base]
    /\ n' = n + 1 /\ wbuf' = After(wbuf) /\ wpc' = "idle"
    /\ UNCHANGED <<sim, status, base, lo, hi, connVars, callVars, history>>

(* It ends in the middle of anything; only an orderly exit clears status.  *)
SimStop ==
    /\ sim # "off" /\ sim' = "off"
    /\ status' \in {status, FALSE}
    /\ UNCHANGED <<n, base, wbuf, wpc, tick, lo, hi, connVars, callVars, history>>

-----------------------------------------------------------------------------
(* LiveConnection.                                                         *)

(* The handles initialize() holds when it returns: each step needs the one *)
(* before it, and what was opened stays open when a later step fails.  The *)
(* mapping and the event exist while the simulator or this process holds   *)
(* them.                                                                   *)
initialize ==
    LET mapped == handles \cup {h \in {"map", "view"} :
                                  sim # "off" \/ "map" \in handles}
    IN  mapped \cup {h \in {"event"} : "view" \in mapped /\ sim = "on"}

(* Mutant: the reset forgets that 0 is a tick like any other.              *)
ResetTickToZero == gLastTickCount' = 0 /\ floor' = n

(* INT_MAX also means: whatever is published by now is not to be delivered *)
ResetTick == gLastTickCount' = IntMax /\ floor' = n

(* getNewData returns: its locals are gone.                                *)
DropLocals ==
    /\ latest' = 0 /\ i' = 0 /\ count' = 0 /\ curTickCount' = 0
    /\ callN' = 0 /\ mark' = 0

Finish ==
    rpc' = "idle" /\ want' = FALSE /\ more' = FALSE /\ data' = NoFrame /\ DropLocals

ReturnFalse ==
    \/ ~more /\ Finish
    \/ more /\ rpc' = "wait" /\ DropLocals /\ UNCHANGED <<want, more, data>>

(* getNewData(data) and waitForDataReady(timeOut, data) up to the point    *)
(* where the connection is initialized; m: there is a wait to come.        *)
Call(w, m) ==
    /\ rpc = "idle"
    /\ \/ /\ gIsInitialized
          /\ rpc' = "status" /\ want' = w /\ more' = m
          /\ UNCHANGED <<handles, gIsInitialized, gLastTickCount, floor>>
       \/ /\ ~gIsInitialized
          /\ handles' = initialize /\ ResetTick
          /\ gIsInitialized' = (handles' = AllHandles)
          /\ IF gIsInitialized' THEN rpc' = "status" /\ want' = w /\ more' = m
                                ELSE UNCHANGED <<rpc, want, more>>
    /\ UNCHANGED <<simVars, age, locals, data, got, late>>

getNewData       == \E w \in BOOLEAN : Call(w, FALSE)
waitForDataReady == \E w \in BOOLEAN : Call(w, TRUE)

(* WaitForSingleObject returns, signaled or timed out.                     *)
WakeUp ==
    /\ rpc = "wait"
    /\ rpc' = "status" /\ more' = FALSE
    /\ UNCHANGED <<simVars, connVars, want, locals, data, history>>

CheckStatus ==
    /\ rpc = "status"
    /\ \/ /\ ~status
          /\ ResetTick /\ ReturnFalse
       \/ /\ status
          /\ rpc' = "scan" /\ latest' = 0 /\ i' = 1
          /\ callN' = n /\ mark' = Before(wbuf)
          /\ UNCHANGED <<gLastTickCount, floor, want, more, count, curTickCount, data>>
    /\ UNCHANGED <<simVars, handles, gIsInitialized, age, got, late>>

(* Mutants: the scan looks for the smallest tickCount; it skips the last   *)
(* buffer.                                                                 *)
ScanForOldest ==
    /\ rpc = "scan"
    /\ \/ /\ i < NumBuf
          /\ latest' = IF tick[latest] > tick[i] THEN i ELSE latest
          /\ i' = i + 1 /\ rpc' = rpc
       \/ /\ i >= NumBuf
          /\ rpc' = "newer" /\ UNCHANGED <<latest, i>>
    /\ UNCHANGED <<simVars, connVars, want, more, count, curTickCount, callN, mark, data, history>>

ScanShort ==
    /\ rpc = "scan"
    /\ \/ /\ i < NumBuf - 1
          /\ latest' = IF tick[latest] < tick[i] THEN i ELSE latest
          /\ i' = i + 1 /\ rpc' = rpc
       \/ /\ i >= NumBuf - 1
          /\ rpc' = "newer" /\ UNCHANGED <<latest, i>>
    /\ UNCHANGED <<simVars, connVars, want, more, count, curTickCount, callN, mark, data, history>>

Scan ==
    /\ rpc = "scan"
    /\ \/ /\ i < NumBuf
          /\ latest' = IF tick[latest] < tick[i] THEN i ELSE latest
          /\ i' = i + 1 /\ rpc' = rpc
       \/ /\ i >= NumBuf
          /\ rpc' = "newer" /\ UNCHANGED <<latest, i>>
    /\ UNCHANGED <<simVars, connVars, want, more, count, curTickCount, callN, mark, data, history>>

(* Mutant: an equal tickCount counts as new.                               *)
TestNewerOrEqual ==
    /\ rpc = "newer"
    /\ rpc' = CASE gLastTickCount > tick[latest] -> "older"
                [] gLastTickCount <= tick[latest] /\ want -> "read"
                [] gLastTickCount <= tick[latest] /\ ~want -> "take"
    /\ UNCHANGED <<simVars, connVars, want, more, locals, data, history>>

(* if (gLastTickCount < tickCount of the latest)                           *)
TestNewer ==
    /\ rpc = "newer"
    /\ rpc' = CASE gLastTickCount >= tick[latest] -> "older"
                [] gLastTickCount < tick[latest] /\ want -> "read"
                [] gLastTickCount < tick[latest] /\ ~want -> "take"
    /\ UNCHANGED <<simVars, connVars, want, more, locals, data, history>>

(* Mutants: an older tickCount does not resynchronise; every poll counts   *)
(* as a sign of life.                                                      *)
NoResync ==
    /\ rpc = "older" /\ ReturnFalse
    /\ UNCHANGED <<simVars, connVars, history>>

TestOlderRefreshing ==
    /\ rpc = "older"
    /\ \/ /\ gLastTickCount > tick[latest] /\ rpc' = "resync"
          /\ UNCHANGED <<want, more, locals, data, age>>
       \/ gLastTickCount <= tick[latest] /\ ReturnFalse /\ age' = 0
    /\ UNCHANGED <<simVars, handles, gIsInitialized, gLastTickCount, history>>

(* else if (gLastTickCount > tickCount of the latest)                      *)
TestOlder ==
    /\ rpc = "older"
    /\ \/ /\ gLastTickCount > tick[latest] /\ rpc' = "resync"
          /\ UNCHANGED <<want, more, locals, data>>
       \/ gLastTickCount <= tick[latest] /\ ReturnFalse
    /\ UNCHANGED <<simVars, connVars, history>>

Resync ==
    /\ rpc = "resync" /\ gLastTickCount' = tick[latest] /\ ReturnFalse
    /\ UNCHANGED <<simVars, handles, gIsInitialized, age, history>>

(* No data asked for: the tick is consumed.                                *)
TakeTick ==
    /\ rpc = "take" /\ Finish
    /\ gLastTickCount' = tick[latest] /\ age' = 0
    /\ floor' = base + tick[latest]
    /\ UNCHANGED <<simVars, handles, gIsInitialized, got, late>>

ReadTick ==
    /\ rpc = "read" /\ rpc' = "copyLo" /\ curTickCount' = tick[latest]
    /\ UNCHANGED <<simVars, connVars, want, more, latest, i, count, callN, mark, data, history>>

CopyLo ==
    /\ rpc = "copyLo" /\ rpc' = "copyHi" /\ data' = [data EXCEPT !.lo = lo[latest]]
    /\ UNCHANGED <<simVars, connVars, want, more, locals, history>>

CopyHi ==
    /\ rpc = "copyHi" /\ rpc' = "recheck" /\ data' = [data EXCEPT !.hi = hi[latest]]
    /\ UNCHANGED <<simVars, connVars, want, more, locals, history>>

(* The simulator has not come round to the buffer the call copies.         *)
InTime == n <= callN + NumBuf - 2

Accept ==
    /\ rpc = "recheck" /\ curTickCount = tick[latest]
    /\ gLastTickCount' = curTickCount /\ age' = 0
    /\ got' = data /\ floor' = base + curTickCount /\ late' = (late \/ ~InTime)
    /\ Finish
    /\ UNCHANGED <<simVars, handles, gIsInitialized>>

(* The frame changed under the copy: a second attempt on the same buffer.  *)
Reject ==
    /\ rpc = "recheck" /\ curTickCount # tick[latest]
    /\ \/ /\ count = 0 /\ rpc' = "read" /\ count' = 1
          /\ UNCHANGED <<want, more, latest, i, curTickCount, data, callN, mark>>
       \/ count = 1 /\ ReturnFalse
    /\ UNCHANGED <<simVars, connVars, history>>

(* Mutant: cleanup() marks "no tick yet" with -1.                          *)
CleanupToMinusOne ==
    /\ rpc = "idle"
    /\ handles' = {} /\ gIsInitialized' = FALSE /\ gLastTickCount' = -1 /\ floor' = n
    /\ UNCHANGED <<simVars, age, callVars, got, late>>

cleanup ==
    /\ rpc = "idle"
    /\ handles' = {} /\ gIsInitialized' = FALSE /\ ResetTick
    /\ UNCHANGED <<simVars, age, callVars, got, late>>

isConnected == gIsInitialized /\ status /\ age < CommTimeout

Clock ==
    /\ age < CommTimeout /\ age' = age + 1
    /\ UNCHANGED <<simVars, handles, gIsInitialized, gLastTickCount, callVars, history>>

-----------------------------------------------------------------------------
Simulator ==
    SimStart \/ SimReady \/ SimWriteLo \/ SimWriteHi \/ SimPublish \/ SimStop

InCall ==
    \/ WakeUp \/ CheckStatus \/ Scan \/ TestNewer \/ TestOlder \/ Resync
    \/ TakeTick \/ ReadTick \/ CopyLo \/ CopyHi \/ Accept \/ Reject

Reader == getNewData \/ waitForDataReady \/ InCall \/ cleanup \/ Clock

Next == Simulator \/ Reader

Spec == Init /\ [][Next]_vars

(* The application polls with a data pointer, a call that began goes on,   *)
(* and time passes.  Nothing is assumed of the simulator.                  *)
FairSpec ==
    /\ Spec /\ WF_vars(InCall) /\ WF_vars(Clock)
    /\ WF_vars(Call(TRUE, TRUE))
-----------------------------------------------------------------------------
(* Every variable stays in its type.                                       *)
SimTypeOK ==
    /\ sim \in {"off", "starting", "on"} /\ status \in BOOLEAN
    /\ n \in Nat /\ base \in 0 .. n
    /\ wbuf \in Bufs /\ wpc \in {"idle", "lo", "hi"}
    /\ tick \in [Bufs -> Nat] /\ lo \in [Bufs -> Nat] /\ hi \in [Bufs -> Nat]

ConnTypeOK ==
    /\ handles \in SUBSET AllHandles /\ gIsInitialized \in BOOLEAN
    /\ gLastTickCount \in Nat /\ age \in 0 .. CommTimeout
    /\ got \in [lo : Nat, hi : Nat] /\ floor \in Nat /\ late \in BOOLEAN

CallTypeOK ==
    /\ rpc \in {"idle", "wait", "status"} \cup Scanning
    /\ want \in BOOLEAN /\ more \in BOOLEAN
    /\ latest \in Bufs /\ i \in 0 .. NumBuf /\ count \in 0 .. 1
    /\ curTickCount \in Nat /\ callN \in Nat /\ mark \in Bufs
    /\ data \in [lo : Nat, hi : Nat]

TypeOK == SimTypeOK /\ ConnTypeOK /\ CallTypeOK

(* The reader takes no lock, and the second look at tickCount catches      *)
(* every overwrite that is finished: a frame it returns true for is a      *)
(* mixture of two only while the simulator, having gone round the buffers  *)
(* during the call, is inside that very buffer.  (Accept is the return of  *)
(* true with data.)                                                        *)
NoTornFrame ==
    [][Accept /\ data.lo # data.hi => ~InTime /\ wpc # "idle" /\ wbuf = latest]_vars

(* A frame is delivered at most once and never after a later one, across   *)
(* simulator restarts, failed attempts, calls without data, cleanup() and  *)
(* initialize(); nothing published before a (re)connection is delivered.   *)
(* From the first delivery that was not in time on, nothing is said: a     *)
(* frame whose tickCount was not stored yet may come again.                *)
InOrder == [][Accept /\ ~late' => data.lo > floor]_vars

(* The scan runs while tickCounts change under it, and still the frame     *)
(* delivered is no older than the newest one when the scan began.          *)
Freshest == [][Accept => data.lo >= callN]_vars

(* The tick reported by getSessionTickCount after a delivery is the tick   *)
(* of the frame in the caller's buffer.                                    *)
TickOfFrame == [][Accept /\ InTime => base + gLastTickCount' = data.lo]_vars

(* While the connection lasts and the application polls, the reader        *)
(* catches up with the newest tick, whatever it held from an earlier run.  *)
CatchesUp ==
    (gIsInitialized /\ status)
        ~> (gLastTickCount = n - base \/ ~status \/ ~gIsInitialized)

(* A simulator that dies without clearing status, and stays dead, is       *)
(* noticed: isConnected turns false and stays false, whatever frames are   *)
(* left in the memory and however the application polls and cleans up.     *)
CrashNoticed == <>[](sim = "off") => <>[]~isConnected

(* The reader gives the application what TelemetryFeed promises.           *)
Feed == INSTANCE TelemetryFeed
FeedSpec == Feed!Spec
=============================================================================
