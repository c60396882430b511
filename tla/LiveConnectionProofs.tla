------------------------ MODULE LiveConnectionProofs ------------------------
(***************************************************************************)
(* Proofs about LiveConnection, for every number of buffers and every      *)
(* bound.                                                                  *)
(***************************************************************************)
EXTENDS LiveConnection, TLAPS

(* Who changes what: the simulator only its own state, the reader only     *)
(* the rest.                                                               *)
LEMMA SimulatorFrame ==
  Simulator => UNCHANGED connVars /\ UNCHANGED callVars /\ UNCHANGED history
BY DEF Simulator, SimStart, SimReady, SimWriteLo, SimWriteHi, SimPublish, SimStop

LEMMA ReaderFrame == Reader => UNCHANGED simVars
BY DEF Reader, InCall, getNewData, waitForDataReady, Call, WakeUp, CheckStatus, Scan,
       TestNewer, TestOlder, Resync, TakeTick, ReadTick, CopyLo, CopyHi, Accept,
       Reject, cleanup, Clock

LEMMA ZeroIsABuffer == 0 \in Bufs
BY ConnectionAssumption DEF ConnectionAssumption, Bufs

-----------------------------------------------------------------------------
LEMMA SimTypeStep == SimTypeOK /\ [Next]_vars => SimTypeOK'
<1> SUFFICES ASSUME SimTypeOK, [Next]_vars PROVE SimTypeOK'
  OBVIOUS
<1> USE ConnectionAssumption DEF ConnectionAssumption, SimTypeOK, Bufs
<1>1. CASE SimStart
  <2>1. tick' \in [Bufs -> Nat] BY <1>1 DEF SimStart
  <2>2. sim' = "starting" /\ status' = FALSE /\ wpc' = "idle" /\ base' \in 0 .. n
    BY <1>1 DEF SimStart
  <2>3. UNCHANGED <<n, wbuf, lo, hi>> BY <1>1 DEF SimStart
  <2> QED BY <2>1, <2>2, <2>3
<1>2. CASE SimReady BY <1>2 DEF SimReady
<1>3. CASE SimWriteLo BY <1>3 DEF SimWriteLo
<1>4. CASE SimWriteHi BY <1>4 DEF SimWriteHi
<1>5. CASE SimPublish
  <2>1. wbuf' \in Bufs BY <1>5 DEF SimPublish, After
  <2>2. n' \in Nat /\ base' \in 0 .. n' BY <1>5 DEF SimPublish
  <2>3. tick' \in [Bufs -> Nat] BY <1>5 DEF SimPublish
  <2> QED BY <1>5, <2>1, <2>2, <2>3 DEF SimPublish
<1>6. CASE SimStop BY <1>6 DEF SimStop
<1>7. CASE UNCHANGED simVars BY <1>7 DEF simVars
<1>8. UNCHANGED vars => UNCHANGED simVars BY DEF vars
<1> QED
  BY <1>1, <1>2, <1>3, <1>4, <1>5, <1>6, <1>7, <1>8, ReaderFrame DEF Next, Simulator

LEMMA ConnTypeStep == TypeOK /\ [Next]_vars => ConnTypeOK'
<1> SUFFICES ASSUME SimTypeOK, ConnTypeOK, CallTypeOK, [Next]_vars PROVE ConnTypeOK'
  BY DEF TypeOK
<1> USE ConnectionAssumption DEF ConnectionAssumption, ConnTypeOK
<1>1. CASE UNCHANGED connVars /\ UNCHANGED history BY <1>1 DEF connVars, history
<1>2. ASSUME NEW w \in BOOLEAN, NEW m \in BOOLEAN, Call(w, m) PROVE ConnTypeOK'
  <2>1. handles' \in SUBSET AllHandles /\ gIsInitialized' \in BOOLEAN
    BY <1>2 DEF Call, initialize, AllHandles
  <2> QED BY <1>2, <2>1 DEF Call, ResetTick, SimTypeOK
<1>3. CASE CheckStatus BY <1>3 DEF CheckStatus, ResetTick, SimTypeOK
<1>4. CASE Resync BY <1>4 DEF Resync, SimTypeOK, CallTypeOK, history
<1>5. CASE TakeTick BY <1>5 DEF TakeTick, SimTypeOK, CallTypeOK
<1>6. CASE Accept BY <1>6 DEF Accept, SimTypeOK, CallTypeOK
<1>7. CASE cleanup BY <1>7 DEF cleanup, ResetTick, SimTypeOK, AllHandles
<1>8. CASE Clock BY <1>8 DEF Clock, history
<1>9. CASE WakeUp \/ Scan \/ TestNewer \/ TestOlder \/ ReadTick \/ CopyLo \/ CopyHi \/ Reject
  BY <1>1, <1>9 DEF WakeUp, Scan, TestNewer, TestOlder, ReadTick, CopyLo, CopyHi, Reject,
     history
<1>10. CASE UNCHANGED vars BY <1>1, <1>10 DEF vars
<1> QED
  BY <1>1, <1>2, <1>3, <1>4, <1>5, <1>6, <1>7, <1>8, <1>9, <1>10, SimulatorFrame
     DEF Next, Reader, InCall, getNewData, waitForDataReady

LEMMA CallTypeStep == TypeOK /\ [Next]_vars => CallTypeOK'
<1> SUFFICES ASSUME SimTypeOK, ConnTypeOK, CallTypeOK, [Next]_vars PROVE CallTypeOK'
  BY DEF TypeOK
<1> USE ConnectionAssumption DEF ConnectionAssumption, CallTypeOK, Bufs, Scanning, NoFrame
<1>1. CASE UNCHANGED callVars BY <1>1 DEF callVars, locals
<1>2. ASSUME NEW w \in BOOLEAN, NEW m \in BOOLEAN, Call(w, m) PROVE CallTypeOK'
  <2>1. UNCHANGED locals /\ UNCHANGED data BY <1>2 DEF Call
  <2>2. UNCHANGED <<latest, i, count, curTickCount, callN, mark>> BY <2>1 DEF locals
  <2>3. rpc' \in {rpc, "status"} /\ want' \in BOOLEAN /\ more' \in BOOLEAN
    BY <1>2 DEF Call
  <2> QED BY <2>1, <2>2, <2>3
<1>3. ASSUME Finish PROVE CallTypeOK'
  <2>1. data' \in [lo : Nat, hi : Nat] BY <1>3 DEF Finish
  <2>2. latest' \in Bufs /\ mark' \in Bufs BY <1>3, ZeroIsABuffer DEF Finish, DropLocals
  <2>3. i' \in 0 .. NumBuf /\ count' \in 0 .. 1 /\ curTickCount' \in Nat /\ callN' \in Nat
    BY <1>3 DEF Finish, DropLocals
  <2>4. rpc' = "idle" /\ want' = FALSE /\ more' = FALSE BY <1>3 DEF Finish
  <2> QED BY <2>1, <2>2, <2>3, <2>4
<1>4. ReturnFalse => CallTypeOK' BY <1>3 DEF ReturnFalse, DropLocals
<1>5. CASE WakeUp BY <1>5 DEF WakeUp, locals
<1>6. CASE CheckStatus
  <2>1. CASE ReturnFalse BY <1>4, <2>1
  <2>2. CASE ~ReturnFalse
    <3>1. Before(wbuf) \in Bufs BY DEF Before, SimTypeOK
    <3>2. /\ rpc' = "scan" /\ latest' = 0 /\ i' = 1 /\ callN' = n /\ mark' = Before(wbuf)
          /\ UNCHANGED <<want, more, count, curTickCount, data>>
      BY <1>6, <2>2 DEF CheckStatus
    <3> QED BY <3>1, <3>2 DEF SimTypeOK
  <2> QED BY <2>1, <2>2
<1>7. CASE Scan BY <1>7 DEF Scan
<1>8. CASE TestNewer
  <2>1. rpc' \in {"older", "read", "take"}
    <3>1. gLastTickCount >= tick[latest] \/ gLastTickCount < tick[latest]
      BY DEF SimTypeOK, ConnTypeOK
    <3> QED BY <1>8, <3>1 DEF TestNewer
  <2>2. UNCHANGED <<want, more, latest, i, count, curTickCount, callN, mark, data>>
    BY <1>8 DEF TestNewer, locals
  <2> QED BY <2>1, <2>2
<1>9. CASE TestOlder BY <1>4, <1>9 DEF TestOlder, locals
<1>10. CASE Resync BY <1>4, <1>10 DEF Resync
<1>11. CASE TakeTick BY <1>3, <1>11 DEF TakeTick
<1>12. CASE ReadTick BY <1>12 DEF ReadTick, SimTypeOK
<1>13. CASE CopyLo BY <1>13 DEF CopyLo, SimTypeOK, locals
<1>14. CASE CopyHi BY <1>14 DEF CopyHi, SimTypeOK, locals
<1>15. CASE Accept BY <1>3, <1>15 DEF Accept
<1>16. CASE Reject BY <1>4, <1>16 DEF Reject
<1>17. CASE cleanup \/ Clock BY <1>1, <1>17 DEF cleanup, Clock
<1>18. CASE UNCHANGED vars BY <1>1, <1>18 DEF vars
<1> QED
  BY <1>1, <1>2, <1>5, <1>6, <1>7, <1>8, <1>9, <1>10, <1>11, <1>12, <1>13, <1>14,
     <1>15, <1>16, <1>17, <1>18, SimulatorFrame
     DEF Next, Reader, InCall, getNewData, waitForDataReady

LEMMA TypeInit == Init => TypeOK
<1> SUFFICES ASSUME Init PROVE TypeOK
  OBVIOUS
<1> USE ConnectionAssumption DEF ConnectionAssumption
<1>1. SimTypeOK
  <2>1. /\ sim = "off" /\ status \in BOOLEAN /\ n = 0 /\ base = 0 /\ wbuf \in Bufs
        /\ wpc = "idle"
    BY DEF Init
  <2>2. /\ tick \in [Bufs -> Nat] /\ lo \in [Bufs -> Nat] /\ hi \in [Bufs -> Nat]
    BY DEF Init
  <2> QED BY <2>1, <2>2 DEF SimTypeOK
<1>2. ConnTypeOK
  <2>1. /\ handles = {} /\ gIsInitialized \in BOOLEAN /\ gLastTickCount = IntMax
        /\ age = CommTimeout /\ floor = 0
    BY DEF Init
  <2>2. got \in [lo : Nat, hi : Nat] BY DEF Init, NoFrame
  <2>3. late \in BOOLEAN BY DEF Init
  <2> QED BY <2>1, <2>2, <2>3 DEF ConnTypeOK, AllHandles
<1>3. CallTypeOK
  <2>1. /\ rpc = "idle" /\ want \in BOOLEAN /\ more \in BOOLEAN /\ latest = 0 /\ i = 0
        /\ count = 0 /\ curTickCount = 0 /\ callN = 0 /\ mark = 0
    BY DEF Init
  <2>2. data \in [lo : Nat, hi : Nat] BY DEF Init, NoFrame
  <2> QED BY <2>1, <2>2, ZeroIsABuffer DEF CallTypeOK
<1> QED BY <1>1, <1>2, <1>3 DEF TypeOK

LEMMA TypeStep == TypeOK /\ [Next]_vars => TypeOK'
BY SimTypeStep, ConnTypeStep, CallTypeStep DEF TypeOK

(* Type correctness of the reader and of the simulator it reads from.      *)
THEOREM TypeCorrect == Spec => []TypeOK
BY TypeInit, TypeStep, PTL DEF Spec

-----------------------------------------------------------------------------
(* The inductive invariant.  The frame whose tickCount buffer b holds is   *)
(* fixed by the rotation: the buffers before wbuf were written in this     *)
(* round, the others one round earlier.                                    *)
Frame(b) ==
  IF b < wbuf THEN n - (wbuf - 1 - b) ELSE n - (wbuf - 1 - b) - NumBuf

Ring ==
  /\ n - base < IntMax
  /\ \A b \in Bufs : tick[b] = IF Frame(b) > base THEN Frame(b) - base ELSE 0

Halves ==
  /\ \A b \in Bufs : Frame(b) > base /\ (b # wbuf \/ wpc = "idle") =>
                        lo[b] = Frame(b) /\ hi[b] = Frame(b)
  /\ wpc # "idle" => lo[wbuf] = n + 1
  /\ wpc = "hi" => hi[wbuf] = n + 1

(* Where a call stands: what the scan has already secured.                 *)
CallInv ==
  rpc \in Scanning =>
    /\ base <= callN /\ callN <= n /\ n <= callN + MaxLag
    /\ floor <= callN
    /\ 1 <= i /\ (rpc # "scan" => i = NumBuf)
    /\ Frame(mark) >= callN
    /\ callN > base /\ mark < i => Frame(latest) >= callN

Reading == {"take", "read", "copyLo", "copyHi", "recheck"}

NewerInv == rpc \in Reading => gLastTickCount < tick[latest]

FloorInv == floor <= n /\ floor <= base + gLastTickCount

(* While the tick read before the copy still stands and the simulator is   *)
(* not inside the buffer, what was copied is the frame of the buffer.      *)
Settled == curTickCount = tick[latest] /\ (latest # wbuf \/ wpc = "idle")

SeenInv ==
  /\ rpc \in {"copyLo", "copyHi", "recheck"} => curTickCount <= tick[latest]
  /\ rpc \in {"copyHi", "recheck"} /\ Settled => data.lo = Frame(latest)
  /\ rpc = "recheck" /\ Settled => data.hi = Frame(latest)
  /\ rpc \in {"copyHi", "recheck"} => data.lo >= callN

Inv == TypeOK /\ Ring /\ Halves /\ CallInv /\ NewerInv /\ FloorInv /\ SeenInv

(* The numbers of the simulator's state, without the rest of the type.     *)
LEMMA SimNumbers ==
  SimTypeOK => /\ NumBuf \in Nat /\ NumBuf >= 1 /\ IntMax \in Nat /\ IntMax >= 1
               /\ n \in Nat /\ base \in Nat /\ base <= n
               /\ wbuf \in Nat /\ wbuf < NumBuf
BY ConnectionAssumption DEF ConnectionAssumption, SimTypeOK, Bufs

(* The buffers hold the last NumBuf frames, the oldest at wbuf.            *)
LEMMA FrameBounds ==
  SimTypeOK =>
    /\ \A b \in Bufs : Frame(b) \in Int /\ n - NumBuf < Frame(b) /\ Frame(b) <= n
    /\ Frame(wbuf) = n + 1 - NumBuf
    /\ Before(wbuf) \in Bufs /\ Frame(Before(wbuf)) = n
<1> SUFFICES ASSUME SimTypeOK PROVE
    /\ \A b \in Bufs : Frame(b) \in Int /\ n - NumBuf < Frame(b) /\ Frame(b) <= n
    /\ Frame(wbuf) = n + 1 - NumBuf
    /\ Before(wbuf) \in Bufs /\ Frame(Before(wbuf)) = n
  OBVIOUS
<1> QED BY SimNumbers DEF Frame, Before, Bufs

(* Publishing replaces the frame at wbuf and no other.                     *)
LEMMA FramePublish ==
  SimTypeOK /\ SimPublish =>
    \A b \in Bufs : Frame(b)' = IF b = wbuf THEN n + 1 ELSE Frame(b)
<1> SUFFICES ASSUME SimTypeOK, SimPublish, NEW b \in Bufs
             PROVE Frame(b)' = IF b = wbuf THEN n + 1 ELSE Frame(b)
  OBVIOUS
<1>1. n' = n + 1 /\ wbuf' = IF wbuf = NumBuf - 1 THEN 0 ELSE wbuf + 1
  BY DEF SimPublish, After
<1>2. b \in Nat /\ b < NumBuf BY SimNumbers DEF Bufs
<1> QED BY <1>1, <1>2, SimNumbers DEF Frame

LEMMA RingStep == SimTypeOK /\ Ring /\ [Next]_vars => Ring'
<1> SUFFICES ASSUME SimTypeOK, Ring, [Next]_vars PROVE Ring'
  OBVIOUS
<1>1. CASE SimStart
  <2>1. n' = n /\ base' = n /\ wbuf' = wbuf /\ tick' = [b \in Bufs |-> 0]
    BY <1>1 DEF SimStart
  <2>2. \A b \in Bufs : Frame(b)' = Frame(b) BY <2>1 DEF Frame
  <2> QED BY <2>1, <2>2, SimNumbers, FrameBounds DEF Ring
<1>2. CASE SimPublish
  <2>1. /\ n' = n + 1 /\ base' = base /\ n + 1 - base < IntMax
        /\ tick' = [tick EXCEPT ![wbuf] = n + 1 - base]
    BY <1>2 DEF SimPublish
  <2>2. tick \in [Bufs -> Nat] /\ wbuf \in Bufs BY DEF SimTypeOK
  <2> QED BY <1>2, <2>1, <2>2, SimNumbers, FramePublish DEF Ring
<1>3. CASE UNCHANGED <<n, base, wbuf, tick>> BY <1>3 DEF Ring, Frame
<1>4. UNCHANGED simVars => UNCHANGED <<n, base, wbuf, tick>> BY DEF simVars
<1>5. UNCHANGED vars => UNCHANGED simVars BY DEF vars
<1>6. CASE SimReady \/ SimWriteLo \/ SimWriteHi \/ SimStop
  BY <1>3, <1>6 DEF SimReady, SimWriteLo, SimWriteHi, SimStop
<1> QED
  BY <1>1, <1>2, <1>3, <1>4, <1>5, <1>6, ReaderFrame DEF Next, Simulator

LEMMA HalvesStep == SimTypeOK /\ Halves /\ [Next]_vars => Halves'
<1> SUFFICES ASSUME SimTypeOK, Halves, [Next]_vars PROVE Halves'
  OBVIOUS
<1>0. wbuf \in Bufs /\ lo \in [Bufs -> Nat] /\ hi \in [Bufs -> Nat]
  BY DEF SimTypeOK
<1>1. CASE SimStart
  <2>1. /\ n' = n /\ base' = n /\ wbuf' = wbuf /\ wpc' = "idle"
    BY <1>1 DEF SimStart
  <2>2. \A b \in Bufs : Frame(b)' = Frame(b) BY <2>1 DEF Frame
  <2> QED BY <2>1, <2>2, SimNumbers, FrameBounds DEF Halves
<1>2. CASE SimWriteLo
  <2>1. /\ UNCHANGED <<n, base, wbuf, hi>> /\ wpc = "idle" /\ wpc' = "lo"
        /\ lo' = [lo EXCEPT ![wbuf] = n + 1]
    BY <1>2 DEF SimWriteLo
  <2>2. \A b \in Bufs : Frame(b)' = Frame(b) BY <2>1 DEF Frame
  <2> QED BY <1>0, <2>1, <2>2 DEF Halves
<1>3. CASE SimWriteHi
  <2>1. /\ UNCHANGED <<n, base, wbuf, lo>> /\ wpc = "lo" /\ wpc' = "hi"
        /\ hi' = [hi EXCEPT ![wbuf] = n + 1]
    BY <1>3 DEF SimWriteHi
  <2>2. \A b \in Bufs : Frame(b)' = Frame(b) BY <2>1 DEF Frame
  <2> QED BY <1>0, <2>1, <2>2 DEF Halves
<1>4. CASE SimPublish
  <2>1. /\ UNCHANGED <<base, lo, hi>> /\ wpc = "hi" /\ wpc' = "idle" /\ n' = n + 1
    BY <1>4 DEF SimPublish
  <2> QED BY <1>0, <1>4, <2>1, FramePublish DEF Halves
<1>5. CASE UNCHANGED <<n, base, wbuf, wpc, lo, hi>> BY <1>5 DEF Halves, Frame
<1>6. UNCHANGED simVars => UNCHANGED <<n, base, wbuf, wpc, lo, hi>> BY DEF simVars
<1>7. UNCHANGED vars => UNCHANGED simVars BY DEF vars
<1>8. CASE SimReady \/ SimStop BY <1>5, <1>8 DEF SimReady, SimStop
<1> QED
  BY <1>1, <1>2, <1>3, <1>4, <1>5, <1>6, <1>7, <1>8, ReaderFrame DEF Next, Simulator
-----------------------------------------------------------------------------
(* A simulator step leaves the locals and history as they are, and can     *)
(* only raise the frames and tickCounts a call is looking at.              *)
LEMMA Rising ==
  TypeOK /\ Ring /\ Simulator /\ rpc \in Scanning =>
    /\ base' = base /\ n <= n'
    /\ \A b \in Bufs : Frame(b) <= Frame(b)' /\ tick[b] <= tick'[b]
<1> SUFFICES ASSUME SimTypeOK, Ring, Simulator, rpc \in Scanning
             PROVE  /\ base' = base /\ n <= n'
                    /\ \A b \in Bufs : Frame(b) <= Frame(b)' /\ tick[b] <= tick'[b]
  BY DEF TypeOK
<1>1. CASE SimPublish
  <2>1. /\ n' = n + 1 /\ base' = base /\ tick' = [tick EXCEPT ![wbuf] = n + 1 - base]
    BY <1>1 DEF SimPublish
  <2>2. tick \in [Bufs -> Nat] /\ wbuf \in Bufs BY DEF SimTypeOK
  <2> QED BY <1>1, <2>1, <2>2, SimNumbers, FrameBounds, FramePublish DEF Ring
<1>2. CASE UNCHANGED <<n, base, wbuf, tick>>
  <2>1. tick \in [Bufs -> Nat] BY DEF SimTypeOK
  <2> QED BY <1>2, <2>1, SimNumbers, FrameBounds DEF Frame
<1> QED
  BY <1>1, <1>2 DEF Simulator, SimStart, SimReady, SimWriteLo, SimWriteHi, SimStop

(* The numbers of the call in progress.                                    *)
LEMMA CallNumbers ==
  TypeOK => /\ latest \in Bufs /\ i \in Nat /\ i <= NumBuf /\ callN \in Nat
            /\ mark \in Bufs /\ floor \in Nat /\ gLastTickCount \in Nat
            /\ curTickCount \in Nat /\ tick \in [Bufs -> Nat] /\ MaxLag \in Nat
BY ConnectionAssumption
   DEF ConnectionAssumption, TypeOK, SimTypeOK, ConnTypeOK, CallTypeOK

(* Leaving getNewData, and entering it, leaves nothing to show.            *)
LEMMA Outside ==
  rpc' \notin Scanning => CallInv' /\ NewerInv'
BY DEF CallInv, NewerInv, Reading, Scanning

LEMMA ReturnOutside == Finish \/ ReturnFalse => rpc' \notin Scanning
BY DEF Finish, ReturnFalse, Scanning

(* A step that keeps the scan's result and moves on in the call.           *)
LEMMA KeepScan ==
  /\ Inv /\ rpc \in Scanning \ {"scan"} /\ rpc' \in Scanning \ {"scan"}
  /\ UNCHANGED simVars /\ UNCHANGED <<latest, i, callN, mark, floor>>
  => CallInv'
BY DEF Inv, CallInv, Frame, simVars

LEMMA CallStep == Inv /\ TypeOK' /\ [Next]_vars => CallInv'
<1> SUFFICES ASSUME Inv, [Next]_vars PROVE CallInv'
  OBVIOUS
<1>0. TypeOK /\ SimTypeOK /\ Ring /\ CallInv BY DEF Inv, TypeOK
<1>1. CASE Simulator
  <2>1. /\ UNCHANGED <<rpc, latest, i, callN, mark>> /\ floor' = floor
    BY <1>1, SimulatorFrame DEF callVars, locals, history
  <2>2. CASE rpc \in Scanning
    <3>0. n' \in Nat /\ wbuf' \in Int /\ NumBuf \in Int
      <4>1. SimTypeOK' BY <1>0, SimTypeStep
      <4> QED BY <1>0, <4>1, SimNumbers DEF SimTypeOK, Bufs
    <3>1. n' <= callN + MaxLag
      <4>1. CASE SimPublish BY <1>0, <2>2, <4>1, SimNumbers, CallNumbers DEF SimPublish
      <4>2. CASE n' = n BY <1>0, <2>2, <4>2 DEF CallInv
      <4> QED
        BY <1>1, <4>1, <4>2
           DEF Simulator, SimStart, SimReady, SimWriteLo, SimWriteHi, SimStop
    <3>2. /\ base' = base /\ n <= n'
          /\ Frame(mark) <= Frame(mark)' /\ Frame(latest) <= Frame(latest)'
      BY <1>0, <1>1, <2>1, <2>2, Rising, CallNumbers DEF Frame
    <3>3. /\ Frame(mark) \in Int /\ Frame(latest) \in Int
          /\ Frame(mark)' \in Int /\ Frame(latest)' \in Int
      <4>2. mark \in Int /\ latest \in Int BY <1>0, SimNumbers, CallNumbers DEF Bufs
      <4>3. n \in Int /\ wbuf \in Int BY <1>0, SimNumbers
      <4>4. mark' = mark /\ latest' = latest BY <2>1
      <4> QED BY <3>0, <4>2, <4>3, <4>4 DEF Frame
    <3>4. /\ base <= callN /\ callN <= n /\ floor <= callN /\ 1 <= i
          /\ (rpc # "scan" => i = NumBuf) /\ Frame(mark) >= callN
          /\ (callN > base /\ mark < i => Frame(latest) >= callN)
      BY <1>0, <2>2 DEF CallInv
    <3>5. callN <= n' /\ Frame(mark)' >= callN
      BY <1>0, <3>0, <3>2, <3>3, <3>4, SimNumbers, CallNumbers
    <3>6. callN > base /\ mark < i => Frame(latest)' >= callN
      BY <1>0, <3>2, <3>3, <3>4, CallNumbers
    <3> QED BY <2>1, <3>1, <3>2, <3>4, <3>5, <3>6 DEF CallInv
  <2>3. CASE rpc \notin Scanning BY <2>1, <2>3, Outside
  <2> QED BY <2>2, <2>3
<1>2. ASSUME NEW w \in BOOLEAN, NEW m \in BOOLEAN, Call(w, m) PROVE CallInv'
  <2>1. rpc' \in {"idle", "status"} BY <1>2 DEF Call
  <2> QED BY <2>1, Outside DEF Scanning
<1>3. CASE WakeUp BY <1>3, Outside DEF WakeUp, Scanning
<1>4. CASE CheckStatus
  <2>1. CASE ReturnFalse BY <2>1, ReturnOutside, Outside
  <2>2. CASE ~ReturnFalse
    <3>1. /\ UNCHANGED <<n, base, wbuf>> /\ rpc' = "scan" /\ latest' = 0 /\ i' = 1
          /\ callN' = n /\ mark' = Before(wbuf) /\ floor' = floor
      BY <1>4, <2>2 DEF CheckStatus, simVars
    <3>2. Frame(mark)' = n BY <1>0, <3>1, FrameBounds DEF Frame
    <3>3. mark' \in Bufs BY <1>0, <3>1, FrameBounds
    <3>4. mark' < i' => Frame(latest)' = n
      BY <1>0, <3>1, <3>2, <3>3 DEF Bufs, Frame
    <3>5. floor <= n BY DEF Inv, FloorInv
    <3> QED BY <1>0, <3>1, <3>2, <3>4, <3>5, SimNumbers, CallNumbers DEF CallInv
  <2> QED BY <2>1, <2>2
<1>5. CASE Scan
  <2>1. UNCHANGED simVars /\ UNCHANGED <<callN, mark, floor>> /\ rpc = "scan"
    BY <1>5 DEF Scan, history
  <2>2. UNCHANGED <<n, base, wbuf>> BY <2>1 DEF simVars
  <2>3. /\ base <= callN /\ callN <= n /\ n <= callN + MaxLag /\ floor <= callN
        /\ 1 <= i /\ Frame(mark) >= callN
        /\ callN > base /\ mark < i => Frame(latest) >= callN
    BY <1>0, <2>1 DEF CallInv, Scanning
  <2>4. CASE i < NumBuf
    <3>1. /\ latest' = IF tick[latest] < tick[i] THEN i ELSE latest
          /\ i' = i + 1 /\ rpc' = "scan"
      BY <1>5, <2>1, <2>4, <1>0, SimNumbers, CallNumbers DEF Scan
    <3>2. i \in Bufs BY <1>0, <2>4, SimNumbers, CallNumbers DEF Bufs
    <3>3. ASSUME callN > base, mark < i + 1 PROVE Frame(latest') >= callN
      <4>1. mark = i \/ mark < i BY <1>0, <3>3, CallNumbers, SimNumbers DEF Bufs
      <4>2. /\ tick[i] = IF Frame(i) > base THEN Frame(i) - base ELSE 0
            /\ tick[latest] = IF Frame(latest) > base THEN Frame(latest) - base ELSE 0
        BY <1>0, <3>2, CallNumbers DEF Ring
      <4>3. Frame(i) \in Int /\ Frame(latest) \in Int
        BY <1>0, <3>2, CallNumbers, FrameBounds
      <4>4. base \in Nat /\ callN \in Nat BY <1>0, SimNumbers, CallNumbers
      <4>5. CASE tick[latest] < tick[i]
        <5>1. latest' = i BY <3>1, <4>5
        <5>2. Frame(i) >= callN BY <2>3, <3>3, <4>1, <4>2, <4>3, <4>4, <4>5
        <5> QED BY <5>1, <5>2
      <4>6. CASE ~(tick[latest] < tick[i])
        <5>1. latest' = latest BY <3>1, <4>6
        <5>2. Frame(latest) >= callN BY <2>3, <3>3, <4>1, <4>2, <4>3, <4>4, <4>6
        <5> QED BY <5>1, <5>2
      <4> QED BY <4>5, <4>6
    <3>4. Frame(mark)' = Frame(mark) /\ Frame(latest)' = Frame(latest')
      BY <2>1, <2>2 DEF Frame
    <3> QED BY <1>0, <2>1, <2>2, <2>3, <3>1, <3>3, <3>4, CallNumbers DEF CallInv
  <2>5. CASE i >= NumBuf
    <3>1. UNCHANGED <<latest, i>> /\ rpc' = "newer" /\ i = NumBuf
      BY <1>5, <2>5, <1>0, SimNumbers, CallNumbers DEF Scan
    <3> QED BY <2>1, <2>2, <2>3, <3>1 DEF CallInv, Frame
  <2> QED BY <2>4, <2>5, <1>0, SimNumbers, CallNumbers
<1>6. CASE TestNewer
  <2>1. /\ rpc = "newer" /\ rpc' \in {"older", "read", "take"}
    <3>1. gLastTickCount >= tick[latest] \/ gLastTickCount < tick[latest]
      BY <1>0, CallNumbers
    <3>2. want \in BOOLEAN BY <1>0 DEF TypeOK, CallTypeOK
    <3> QED BY <1>6, <3>1, <3>2 DEF TestNewer
  <2>2. UNCHANGED simVars /\ UNCHANGED <<latest, i, callN, mark, floor>>
    BY <1>6 DEF TestNewer, locals, history
  <2> QED BY <2>1, <2>2, KeepScan DEF Scanning
<1>7. CASE TestOlder
  <2>1. CASE ReturnFalse BY <2>1, ReturnOutside, Outside
  <2>2. CASE ~ReturnFalse
    BY <1>7, <2>2, KeepScan DEF TestOlder, Scanning, locals, history
  <2> QED BY <2>1, <2>2
<1>8. CASE Resync BY <1>8, ReturnOutside, Outside DEF Resync
<1>9. CASE TakeTick BY <1>9, ReturnOutside, Outside DEF TakeTick
<1>10. CASE ReadTick BY <1>10, KeepScan DEF ReadTick, Scanning, history
<1>11. CASE CopyLo BY <1>11, KeepScan DEF CopyLo, Scanning, locals, history
<1>12. CASE CopyHi BY <1>12, KeepScan DEF CopyHi, Scanning, locals, history
<1>13. CASE Accept BY <1>13, ReturnOutside, Outside DEF Accept
<1>14. CASE Reject
  <2>1. CASE ReturnFalse BY <2>1, ReturnOutside, Outside
  <2>2. CASE ~ReturnFalse BY <1>14, <2>2, KeepScan DEF Reject, Scanning, history
  <2> QED BY <2>1, <2>2
<1>15. CASE cleanup BY <1>15, Outside DEF cleanup, callVars, Scanning
<1>16. CASE Clock BY <1>0, <1>16 DEF Clock, CallInv, Frame, simVars, callVars, locals, history
<1>17. CASE UNCHANGED vars
  BY <1>0, <1>17 DEF vars, CallInv, Frame, simVars, callVars, locals, history
<1> QED
  BY <1>1, <1>2, <1>3, <1>4, <1>5, <1>6, <1>7, <1>8, <1>9, <1>10, <1>11, <1>12,
     <1>13, <1>14, <1>15, <1>16, <1>17
     DEF Next, Reader, InCall, getNewData, waitForDataReady
LEMMA NewerStep == Inv /\ [Next]_vars => NewerInv'
<1> SUFFICES ASSUME Inv, [Next]_vars PROVE NewerInv'
  OBVIOUS
<1>0. TypeOK /\ SimTypeOK /\ Ring /\ NewerInv BY DEF Inv, TypeOK
<1>1. CASE Simulator
  <2>1. UNCHANGED <<rpc, latest, gLastTickCount>>
    BY <1>1, SimulatorFrame DEF callVars, locals, connVars
  <2>2. CASE rpc \in Reading
    <3>1. tick[latest] <= tick'[latest] /\ latest \in Bufs
      BY <1>0, <1>1, <2>2, Rising, CallNumbers DEF Reading, Scanning
    <3>2. tick[latest] \in Nat BY <1>0, CallNumbers
    <3>3. tick'[latest] \in Nat
      <4>1. SimTypeOK' BY <1>0, SimTypeStep
      <4> QED BY <3>1, <4>1 DEF SimTypeOK, Bufs
    <3> QED BY <1>0, <2>1, <2>2, <3>1, <3>2, <3>3, CallNumbers DEF NewerInv
  <2>3. CASE rpc \notin Reading BY <2>1, <2>3 DEF NewerInv
  <2> QED BY <2>2, <2>3
<1>2. CASE rpc' \notin Reading BY <1>2 DEF NewerInv
<1>3. CASE rpc \in Reading /\ UNCHANGED <<latest, gLastTickCount, tick>>
  BY <1>0, <1>3 DEF NewerInv
<1>4. ASSUME NEW w \in BOOLEAN, NEW m \in BOOLEAN, Call(w, m) PROVE NewerInv'
  <2>1. rpc' \in {"idle", "status"} BY <1>4 DEF Call
  <2> QED BY <1>2, <2>1 DEF Reading
<1>5. Finish \/ ReturnFalse => rpc' \notin Reading
  BY DEF Finish, ReturnFalse, Reading
<1>6. CASE TestNewer
  <2>1. UNCHANGED <<tick, latest, gLastTickCount>>
    BY <1>6 DEF TestNewer, simVars, locals, connVars
  <2>2. CASE gLastTickCount < tick[latest] BY <2>1, <2>2 DEF NewerInv
  <2>3. CASE ~(gLastTickCount < tick[latest])
    <3>1. gLastTickCount >= tick[latest] BY <1>0, <2>3, CallNumbers
    <3>2. rpc' = "older" BY <1>6, <2>3, <3>1 DEF TestNewer
    <3> QED BY <1>2, <3>2 DEF Reading
  <2> QED BY <2>2, <2>3
<1>7. CASE WakeUp \/ CheckStatus \/ Scan \/ TestOlder \/ Resync \/ TakeTick \/ Accept
  BY <1>2, <1>5, <1>7
     DEF WakeUp, CheckStatus, Scan, TestOlder, Resync, TakeTick, Accept, Reading
<1>8. CASE ReadTick \/ CopyLo \/ CopyHi
  BY <1>3, <1>8 DEF ReadTick, CopyLo, CopyHi, Reading, simVars, connVars, locals
<1>9. CASE Reject
  BY <1>2, <1>3, <1>5, <1>9 DEF Reject, Reading, simVars, connVars
<1>10. CASE cleanup BY <1>2, <1>10 DEF cleanup, callVars, Reading
<1>11. CASE Clock
  BY <1>0, <1>11 DEF Clock, NewerInv, simVars, callVars, locals
<1>12. CASE UNCHANGED vars
  BY <1>0, <1>12 DEF vars, NewerInv, simVars, callVars, locals, connVars
<1> QED
  BY <1>1, <1>4, <1>6, <1>7, <1>8, <1>9, <1>10, <1>11, <1>12
     DEF Next, Reader, InCall, getNewData, waitForDataReady

(* The tick at latest, in a call that is about to use it.                  *)
LEMMA LatestTick ==
  Inv /\ rpc \in Scanning \ {"scan"} =>
    /\ tick[latest] = IF Frame(latest) > base THEN Frame(latest) - base ELSE 0
    /\ Frame(latest) \in Int /\ Frame(latest) <= n
    /\ callN > base => Frame(latest) >= callN
    /\ base <= callN /\ callN <= n /\ floor <= callN /\ n <= callN + MaxLag
<1> SUFFICES ASSUME Inv, rpc \in Scanning \ {"scan"} PROVE
    /\ tick[latest] = IF Frame(latest) > base THEN Frame(latest) - base ELSE 0
    /\ Frame(latest) \in Int /\ Frame(latest) <= n
    /\ callN > base => Frame(latest) >= callN
    /\ base <= callN /\ callN <= n /\ floor <= callN /\ n <= callN + MaxLag
  OBVIOUS
<1>1. TypeOK /\ SimTypeOK /\ Ring /\ CallInv BY DEF Inv, TypeOK
<1>2. i = NumBuf /\ mark < i
  BY <1>1, CallNumbers, SimNumbers DEF CallInv, Bufs
<1> QED BY <1>1, <1>2, CallNumbers, FrameBounds DEF Ring, CallInv

LEMMA FloorStep == Inv /\ [Next]_vars => FloorInv'
<1> SUFFICES ASSUME Inv, [Next]_vars PROVE FloorInv'
  OBVIOUS
<1>0. TypeOK /\ SimTypeOK /\ Ring /\ NewerInv /\ FloorInv BY DEF Inv, TypeOK
<1> USE CallNumbers, SimNumbers, <1>0 DEF FloorInv
<1>1. CASE Simulator
  <2>1. UNCHANGED <<gLastTickCount, floor>>
    BY <1>1, SimulatorFrame DEF history, connVars
  <2>2. n' \in Nat /\ n <= n' /\ base' \in Nat /\ base <= base'
    <3>1. CASE SimStart BY <3>1 DEF SimStart
    <3>2. CASE SimPublish BY <3>2 DEF SimPublish
    <3>3. CASE UNCHANGED <<n, base>> BY <3>3
    <3> QED
      BY <1>1, <3>1, <3>2, <3>3
         DEF Simulator, SimReady, SimWriteLo, SimWriteHi, SimStop
  <2> QED BY <2>1, <2>2
<1>2. CASE UNCHANGED <<n, base, floor, gLastTickCount>> BY <1>2
<1>3. CASE ResetTick /\ UNCHANGED <<n, base>> BY <1>3 DEF ResetTick, Ring
<1>4. ASSUME NEW w \in BOOLEAN, NEW m \in BOOLEAN, Call(w, m) PROVE FloorInv'
  BY <1>2, <1>3, <1>4 DEF Call, simVars
<1>5. CASE CheckStatus BY <1>2, <1>3, <1>5 DEF CheckStatus, simVars
<1>6. CASE Resync
  <2>1. /\ UNCHANGED <<n, base, floor>> /\ gLastTickCount' = tick[latest]
        /\ rpc \in Scanning \ {"scan"}
    BY <1>6 DEF Resync, simVars, Scanning, history
  <2> QED BY <2>1, LatestTick
<1>7. CASE TakeTick
  <2>1. /\ UNCHANGED <<n, base>> /\ gLastTickCount' = tick[latest]
        /\ floor' = base + tick[latest] /\ rpc \in Scanning \ {"scan"}
    BY <1>7 DEF TakeTick, simVars, Scanning
  <2> QED BY <2>1, LatestTick
<1>8. CASE Accept
  <2>1. /\ UNCHANGED <<n, base>> /\ gLastTickCount' = tick[latest]
        /\ floor' = base + tick[latest] /\ rpc \in Scanning \ {"scan"}
    BY <1>8 DEF Accept, simVars, Scanning
  <2> QED BY <2>1, LatestTick
<1>9. CASE cleanup BY <1>3, <1>9 DEF cleanup, simVars
<1>10. CASE WakeUp \/ Scan \/ TestNewer \/ TestOlder \/ ReadTick \/ CopyLo \/ CopyHi \/ Reject \/ Clock
  <2>1. UNCHANGED simVars /\ UNCHANGED <<floor, gLastTickCount>>
    BY <1>10 DEF WakeUp, Scan, TestNewer, TestOlder, ReadTick, CopyLo, CopyHi, Reject,
                 Clock, history, connVars
  <2> QED BY <1>2, <2>1 DEF simVars
<1>11. CASE UNCHANGED vars BY <1>2, <1>11 DEF vars, simVars, history, connVars
<1> QED
  BY <1>1, <1>4, <1>5, <1>6, <1>7, <1>8, <1>9, <1>10, <1>11
     DEF Next, Reader, InCall, getNewData, waitForDataReady

LEMMA SeenStep == Inv /\ [Next]_vars => SeenInv'
<1> SUFFICES ASSUME Inv, [Next]_vars PROVE SeenInv'
  OBVIOUS
<1>0. TypeOK /\ SimTypeOK /\ Ring /\ Halves /\ SeenInv BY DEF Inv, TypeOK
<1> DEFINE Copying == {"copyLo", "copyHi", "recheck"}
<1>1. CASE Simulator
  <2>1. UNCHANGED <<rpc, latest, curTickCount, data, callN>>
    BY <1>1, SimulatorFrame DEF callVars, locals
  <2>2. CASE rpc \in Copying
    <3>1. /\ base' = base /\ latest \in Bufs /\ tick[latest] <= tick'[latest]
      BY <1>0, <1>1, <2>2, Rising, CallNumbers DEF Scanning
    <3>2. tick[latest] \in Nat /\ curTickCount \in Nat /\ n \in Nat /\ base \in Nat
      BY <1>0, CallNumbers, SimNumbers
    <3>3. tick'[latest] \in Nat
      <4>1. SimTypeOK' BY <1>0, SimTypeStep
      <4> QED BY <3>1, <4>1 DEF SimTypeOK, Bufs
    <3>4. curTickCount <= tick'[latest]
      BY <1>0, <2>2, <3>1, <3>2, <3>3 DEF SeenInv
    <3>5. ASSUME Settled' PROVE Settled /\ Frame(latest)' = Frame(latest)
      <4>1. curTickCount = tick[latest]
        BY <1>0, <2>1, <2>2, <3>1, <3>2, <3>3, <3>5 DEF SeenInv, Settled
      <4>2. CASE SimPublish
        <5>1. wbuf # latest
          <6>1. tick' = [tick EXCEPT ![wbuf] = n + 1 - base] BY <4>2 DEF SimPublish
          <6>2. Frame(wbuf) = n + 1 - NumBuf BY <1>0, FrameBounds
          <6>3. SUFFICES ASSUME wbuf = latest PROVE FALSE
            OBVIOUS
          <6>4. tick'[latest] = n + 1 - base
            BY <1>0, <3>1, <6>1, <6>3, CallNumbers
          <6>5. tick[latest] < n + 1 - base
            BY <1>0, <3>1, <3>2, <6>2, <6>3, SimNumbers DEF Ring
          <6>6. curTickCount = tick'[latest] BY <2>1, <3>5 DEF Settled
          <6> QED BY <3>2, <4>1, <6>4, <6>5, <6>6
        <5> QED BY <1>0, <2>1, <3>1, <4>1, <4>2, <5>1, FramePublish DEF Settled
      <4>3. CASE UNCHANGED <<n, wbuf, tick>> /\ (wpc' = "idle" => wpc = "idle")
        BY <2>1, <3>5, <4>1, <4>3 DEF Settled, Frame
      <4> QED
        BY <1>1, <2>2, <4>2, <4>3
           DEF Simulator, SimStart, SimReady, SimWriteLo, SimWriteHi, SimStop, Scanning
    <3> QED BY <1>0, <2>1, <3>4, <3>5 DEF SeenInv
  <2>3. CASE rpc \notin Copying BY <2>1, <2>3 DEF SeenInv
  <2> QED BY <2>2, <2>3
<1>2. CASE rpc' \notin Copying BY <1>2 DEF SeenInv
<1>3. CASE UNCHANGED simVars /\ UNCHANGED <<rpc, latest, curTickCount, data, callN>>
  BY <1>0, <1>3 DEF SeenInv, Settled, Frame, simVars
<1>4. ASSUME NEW w \in BOOLEAN, NEW m \in BOOLEAN, Call(w, m) PROVE SeenInv'
  <2>1. rpc' \in {"idle", "status"} BY <1>4 DEF Call
  <2> QED BY <1>2, <2>1
<1>5. Finish \/ ReturnFalse => rpc' \notin Copying BY DEF Finish, ReturnFalse
<1>6. CASE WakeUp \/ CheckStatus \/ Scan \/ TestOlder \/ Resync \/ TakeTick \/ Accept \/ Reject
  BY <1>2, <1>5, <1>6
     DEF WakeUp, CheckStatus, Scan, TestOlder, Resync, TakeTick, Accept, Reject
<1>7. CASE TestNewer
  <2>1. gLastTickCount >= tick[latest] \/ gLastTickCount < tick[latest]
    BY <1>0, CallNumbers
  <2>2. rpc' \in {"older", "read", "take"} \/ want \notin BOOLEAN
    BY <1>7, <2>1 DEF TestNewer
  <2> QED BY <1>0, <1>2, <2>2 DEF TypeOK, CallTypeOK
<1>8. CASE ReadTick
  <2>1. rpc' = "copyLo" /\ curTickCount' = tick[latest] /\ UNCHANGED <<tick, latest>>
    BY <1>8 DEF ReadTick, simVars
  <2>2. tick[latest] \in Nat BY <1>0, CallNumbers
  <2> QED BY <2>1, <2>2 DEF SeenInv
<1>9. CASE CopyLo
  <2>1. /\ rpc = "copyLo" /\ rpc' = "copyHi" /\ data' = [data EXCEPT !.lo = lo[latest]]
        /\ UNCHANGED simVars /\ UNCHANGED <<latest, curTickCount, callN>>
    BY <1>9 DEF CopyLo, locals
  <2>2. data'.lo = lo[latest]
    BY <1>0, <2>1 DEF TypeOK, CallTypeOK
  <2>3. Frame(latest) > base /\ Frame(latest) >= callN
    <3>1. gLastTickCount < tick[latest] BY <2>1 DEF Inv, NewerInv, Reading
    <3> QED BY <1>0, <2>1, <3>1, LatestTick, CallNumbers, SimNumbers DEF Scanning
  <2>4. latest \in Bufs /\ wbuf \in Bufs BY <1>0 DEF TypeOK, CallTypeOK, SimTypeOK
  <2>5. Settled => lo[latest] = Frame(latest)
    BY <1>0, <2>3, <2>4 DEF Halves, Settled
  <2>6. lo[latest] >= callN
    <3>1. lo[latest] \in {Frame(latest), n + 1}
      BY <1>0, <2>3, <2>4 DEF Halves
    <3>2. callN <= n BY <2>1, LatestTick DEF Scanning
    <3> QED BY <1>0, <2>3, <3>1, <3>2, CallNumbers, SimNumbers
  <2>7. Settled' = Settled /\ Frame(latest)' = Frame(latest) /\ tick' = tick
    BY <2>1 DEF Settled, Frame, simVars
  <2>8. curTickCount <= tick[latest] BY <1>0, <2>1 DEF SeenInv
  <2> QED BY <2>1, <2>2, <2>5, <2>6, <2>7, <2>8 DEF SeenInv
<1>10. CASE CopyHi
  <2>1. /\ rpc = "copyHi" /\ rpc' = "recheck" /\ data' = [data EXCEPT !.hi = hi[latest]]
        /\ UNCHANGED simVars /\ UNCHANGED <<latest, curTickCount, callN>>
    BY <1>10 DEF CopyHi, locals
  <2>2. data'.hi = hi[latest] /\ data'.lo = data.lo
    BY <1>0, <2>1 DEF TypeOK, CallTypeOK
  <2>3. Frame(latest) > base
    <3>1. gLastTickCount < tick[latest] BY <2>1 DEF Inv, NewerInv, Reading
    <3> QED BY <1>0, <2>1, <3>1, LatestTick, CallNumbers, SimNumbers DEF Scanning
  <2>4. latest \in Bufs BY <1>0 DEF TypeOK, CallTypeOK
  <2>5. Settled => hi[latest] = Frame(latest)
    BY <1>0, <2>3, <2>4 DEF Halves, Settled
  <2>7. Settled' = Settled /\ Frame(latest)' = Frame(latest) /\ tick' = tick
    BY <2>1 DEF Settled, Frame, simVars
  <2> QED BY <1>0, <2>1, <2>2, <2>5, <2>7 DEF SeenInv
<1>11. CASE cleanup BY <1>2, <1>11 DEF cleanup, callVars
<1>12. CASE Clock BY <1>3, <1>12 DEF Clock, callVars, locals
<1>13. CASE UNCHANGED vars BY <1>3, <1>13 DEF vars, callVars, locals
<1> QED
  BY <1>1, <1>4, <1>6, <1>7, <1>8, <1>9, <1>10, <1>11, <1>12, <1>13
     DEF Next, Reader, InCall, getNewData, waitForDataReady

LEMMA InitInv == Init => Inv
<1> SUFFICES ASSUME Init PROVE Inv
  OBVIOUS
<1>1. TypeOK BY TypeInit
<1>2. SimTypeOK BY <1>1 DEF TypeOK
<1>3. /\ n = 0 /\ base = 0 /\ wpc = "idle" /\ tick = [b \in Bufs |-> 0] /\ rpc = "idle"
      /\ gLastTickCount = IntMax /\ floor = 0
  BY DEF Init
<1>4. Ring /\ Halves BY <1>2, <1>3, SimNumbers, FrameBounds DEF Ring, Halves
<1>5. CallInv /\ NewerInv /\ SeenInv
  BY <1>3 DEF CallInv, NewerInv, SeenInv, Scanning, Reading
<1>6. FloorInv BY <1>2, <1>3, SimNumbers DEF FloorInv
<1> QED BY <1>1, <1>4, <1>5, <1>6 DEF Inv

(* The inductive invariant holds, for a simulator of any speed.            *)
THEOREM Invariance == Spec => []Inv
<1>1. Inv /\ [Next]_vars => Inv'
  BY TypeStep, RingStep, HalvesStep, CallStep, NewerStep, FloorStep,
     SeenStep DEF Inv, TypeOK
<1> QED BY InitInv, <1>1, PTL DEF Spec

-----------------------------------------------------------------------------
(* What an accepted frame is.                                              *)
LEMMA Accepted ==
  Inv /\ Accept =>
    /\ Frame(latest) > base /\ tick[latest] = Frame(latest) - base
    /\ Frame(latest) > floor /\ data.lo >= callN
    /\ latest # wbuf \/ wpc = "idle" => data.lo = Frame(latest) /\ data.hi = Frame(latest)
<1> SUFFICES ASSUME Inv, Accept
             PROVE  /\ Frame(latest) > base /\ tick[latest] = Frame(latest) - base
                    /\ Frame(latest) > floor /\ data.lo >= callN
                    /\ latest # wbuf \/ wpc = "idle" =>
                         data.lo = Frame(latest) /\ data.hi = Frame(latest)
  OBVIOUS
<1>1. rpc = "recheck" /\ curTickCount = tick[latest] BY DEF Accept
<1>2. TypeOK /\ SimTypeOK /\ SeenInv /\ FloorInv BY DEF Inv, TypeOK
<1>3. gLastTickCount < tick[latest] BY <1>1 DEF Inv, NewerInv, Reading
<1>4. Frame(latest) > base /\ tick[latest] = Frame(latest) - base /\ Frame(latest) \in Int
  BY <1>1, <1>2, <1>3, LatestTick, CallNumbers, SimNumbers DEF Scanning
<1>5. Frame(latest) > floor
  BY <1>2, <1>3, <1>4, CallNumbers, SimNumbers DEF FloorInv
<1> QED BY <1>1, <1>2, <1>4, <1>5 DEF SeenInv, Settled

(* A simulator that does not come round in one call never writes the       *)
(* buffer the call reads.                                                  *)
LEMMA NotOverwritten ==
  InTime /\ Inv /\ Accept => latest # wbuf
<1> SUFFICES ASSUME InTime, Inv, Accept, latest = wbuf PROVE FALSE
  OBVIOUS
<1>1. TypeOK /\ SimTypeOK /\ rpc \in Scanning \ {"scan"}
  BY DEF Inv, TypeOK, Accept, Scanning
<1>2. Frame(latest) = n + 1 - NumBuf BY <1>1, FrameBounds
<1>3. Frame(latest) > base BY Accepted
<1> QED BY <1>1, <1>2, <1>3, LatestTick, CallNumbers, SimNumbers DEF InTime

(* Only Accept delivers.                                                   *)
LEMMA GotFrame == [Next]_vars /\ ~Accept => got' = got /\ late' = late
<1> SUFFICES ASSUME [Next]_vars, ~Accept PROVE got' = got /\ late' = late
  OBVIOUS
<1>1. CASE Simulator BY <1>1, SimulatorFrame DEF history
<1>2. CASE UNCHANGED vars BY <1>2 DEF vars, history
<1>3. CASE Reader
  BY <1>3 DEF Reader, InCall, getNewData, waitForDataReady, Call, WakeUp, CheckStatus,
     Scan, TestNewer, TestOlder, Resync, TakeTick, ReadTick, CopyLo, CopyHi, Reject,
     cleanup, Clock, history
<1> QED BY <1>1, <1>2, <1>3 DEF Next

(* Every other step publishes one frame, or gives up some, or does neither.*)
LEMMA FloorMoves ==
  Inv /\ FloorInv' /\ [Next]_vars =>
    \/ n' = n + 1 /\ floor' = floor
    \/ n' = n /\ floor <= floor'
<1> SUFFICES ASSUME Inv, FloorInv', [Next]_vars
             PROVE  \/ n' = n + 1 /\ floor' = floor
                    \/ n' = n /\ floor <= floor'
  OBVIOUS
<1>1. TypeOK /\ SimTypeOK /\ FloorInv /\ floor \in Int BY CallNumbers DEF Inv, TypeOK
<1>2. CASE Simulator
  <2>1. floor' = floor BY <1>2, SimulatorFrame DEF history
  <2>2. n' = n + 1 \/ n' = n
    BY <1>2 DEF Simulator, SimStart, SimReady, SimWriteLo, SimWriteHi, SimPublish, SimStop
  <2> QED BY <1>1, <2>1, <2>2
<1>3. CASE UNCHANGED vars BY <1>1, <1>3 DEF vars, simVars, history
<1>4. CASE Reader
  <2>1. n' = n BY <1>4, ReaderFrame DEF simVars
  <2>2. CASE floor' = floor BY <1>1, <2>1, <2>2
  <2>3. CASE ResetTick BY <1>1, <2>1, <2>3 DEF ResetTick, FloorInv
  <2>4. CASE TakeTick
    <3>1. floor' = base + tick[latest] /\ rpc = "take" BY <2>4 DEF TakeTick
    <3>2. gLastTickCount < tick[latest] BY <3>1 DEF Inv, NewerInv, Reading
    <3> QED BY <1>1, <2>1, <3>1, <3>2, SimNumbers, CallNumbers DEF FloorInv
  <2>5. CASE Accept
    <3>1. floor' = base + tick[latest] /\ rpc = "recheck" BY <2>5 DEF Accept
    <3>2. gLastTickCount < tick[latest] BY <3>1 DEF Inv, NewerInv, Reading
    <3> QED BY <1>1, <2>1, <3>1, <3>2, SimNumbers, CallNumbers DEF FloorInv
  <2> QED
    BY <1>4, <2>2, <2>3, <2>4, <2>5
       DEF Reader, InCall, getNewData, waitForDataReady, Call, WakeUp, CheckStatus,
       Scan, TestNewer, TestOlder, Resync, ReadTick, CopyLo, CopyHi, Reject,
       cleanup, Clock, history
<1> QED BY <1>2, <1>3, <1>4 DEF Next

(* However fast the simulator is, a mixture of two frames is accepted only *)
(* while the simulator, having come round, is inside the buffer copied.    *)
THEOREM NoTornFrameHolds == Spec => NoTornFrame
<1>1. Inv /\ [Next]_vars =>
        [Accept /\ data.lo # data.hi => ~InTime /\ wpc # "idle" /\ wbuf = latest]_vars
  BY Accepted, NotOverwritten
<1> QED BY <1>1, Invariance, PTL DEF Spec, NoTornFrame

(* However fast the simulator is, the frame delivered is no older than the *)
(* newest one when the scan of the buffers began.                          *)
THEOREM FreshestHolds == Spec => Freshest
<1>1. Inv /\ [Next]_vars => [Accept => data.lo >= callN]_vars
  BY Accepted
<1> QED BY <1>1, Invariance, PTL DEF Spec, Freshest

(* Frames come in order and once, across restarts of the simulator and of  *)
(* the connection, as long as every delivery was in time.                  *)
THEOREM InOrderHolds == Spec => InOrder
<1>1. Inv /\ [Next]_vars => [Accept /\ ~late' => data.lo > floor]_vars
  <2> SUFFICES ASSUME Inv, Accept, ~late' PROVE data.lo > floor
    OBVIOUS
  <2>1. InTime BY DEF Accept
  <2> QED BY <2>1, Accepted, NotOverwritten
<1> QED BY <1>1, Invariance, PTL DEF Spec, InOrder

(* The tick reported after a delivery is the tick of the frame delivered.  *)
THEOREM TickOfFrameHolds == Spec => TickOfFrame
<1>1. Inv /\ [Next]_vars => [Accept /\ InTime => base + gLastTickCount' = data.lo]_vars
  <2> SUFFICES ASSUME Inv, Accept, InTime PROVE base + gLastTickCount' = data.lo
    OBVIOUS
  <2>1. gLastTickCount' = tick[latest] BY DEF Accept
  <2>2. data.lo = Frame(latest) /\ tick[latest] = Frame(latest) - base
    BY Accepted, NotOverwritten
  <2>3. TypeOK /\ SimTypeOK BY DEF Inv, TypeOK
  <2>4. Frame(latest) \in Int BY <2>3, FrameBounds, CallNumbers
  <2> QED BY <2>1, <2>2, <2>3, <2>4, SimNumbers
<1> QED BY <1>1, Invariance, PTL DEF Spec, TickOfFrame

-----------------------------------------------------------------------------
(* The reader implements TelemetryFeed: whole frames, in order, at most    *)
(* once, until it is overrun.                                              *)
THEOREM Implements == Spec => FeedSpec
<1>1. Init => Feed!Init BY DEF Init, Feed!Init, NoFrame
<1>2. Inv /\ Inv' /\ [Next]_vars => [Feed!Next]_(Feed!vars)
  <2> SUFFICES ASSUME Inv, Inv', [Next]_vars PROVE [Feed!Next]_(Feed!vars)
    OBVIOUS
  <2>1. TypeOK /\ SimTypeOK /\ FloorInv /\ FloorInv' BY DEF Inv, TypeOK
  <2>2. CASE Accept
    <3>1. /\ got' = data /\ floor' = base + tick[latest] /\ n' = n
          /\ late' = (late \/ ~InTime)
      BY <2>2 DEF Accept, simVars
    <3>2. tick[latest] = Frame(latest) - base /\ Frame(latest) > floor
      BY <2>2, Accepted
    <3>3. Frame(latest) \in floor + 1 .. n /\ base + tick[latest] = Frame(latest)
      BY <2>1, <3>2, FrameBounds, CallNumbers, SimNumbers
    <3>4. CASE late'
      <4>1. late' = TRUE BY <3>4, <3>1
      <4> QED BY <3>1, <3>3, <4>1 DEF Feed!Next, Feed!Overrun
    <3>5. CASE ~late'
      <4>1. InTime /\ late' = late
        <5>1. InTime /\ ~late BY <3>1, <3>5
        <5>2. late \in BOOLEAN /\ late' \in BOOLEAN BY DEF Inv, TypeOK, ConnTypeOK
        <5> QED BY <3>5, <5>1, <5>2
      <4>2. data.lo = Frame(latest) /\ data.hi = Frame(latest)
        BY <2>2, <4>1, Accepted, NotOverwritten
      <4>3. data = [lo |-> Frame(latest), hi |-> Frame(latest)]
        BY <2>1, <4>2 DEF TypeOK, CallTypeOK
      <4> QED BY <3>1, <3>3, <4>1, <4>3 DEF Feed!Next, Feed!Deliver
    <3> QED BY <3>4, <3>5
  <2>3. CASE ~Accept
    <3>1. got' = got /\ late' = late BY <2>3, GotFrame
    <3>2. \/ n' = n + 1 /\ floor' = floor
          \/ n' = n /\ floor' = floor
          \/ n' = n /\ floor' \in floor + 1 .. n
      <4>1. floor' \in Int /\ floor \in Int /\ n \in Int /\ (n' = n => floor' <= n)
        BY <2>1, SimNumbers, CallNumbers, ConnTypeStep DEF ConnTypeOK, FloorInv
      <4> QED BY <2>1, <4>1, FloorMoves
    <3> QED BY <3>1, <3>2 DEF Feed!Next, Feed!Publish, Feed!GiveUp, Feed!vars
  <2> QED BY <2>2, <2>3
<1> QED BY <1>1, <1>2, Invariance, PTL DEF Spec, FeedSpec, Feed!Spec
=============================================================================
