-------------------------- MODULE LiveClientProofs --------------------------
(***************************************************************************)
(* Proofs about LiveClient, for any buffer lengths and any number of runs  *)
(* and of updates of the session text.                                     *)
(***************************************************************************)
EXTENDS LiveClient, TLAPS

-----------------------------------------------------------------------------
(* The inductive invariant.                                                *)

(* How far a call is says who made it and whether it has a frame.          *)
CallInv ==
    /\ pc \in {"idle", "wait"} => ~ready
    /\ pc \in {"idle", "wait", "woke", "refill"} => caller = "frame"
    /\ pc = "refill" => ready
    /\ pc \in {"update", "parse"} /\ caller = "frame" => ready
    /\ pc = "parse" => newCount <= count

(* Once a poll has noticed that the simulator is gone nothing of its run   *)
(* is left, which is all that lets a later run begin safely.               *)
NoticedInv ==
    noticed =>
        /\ ~on /\ ~ready
        /\ data_ = None
        /\ sessionInfo_.msg = None /\ sessionInfo_.first <= 0
        /\ pc \notin {"refill", "parse"}

(* The buffer is as long as the run's frames; a call that was given a      *)
(* frame has one of this run.                                              *)
BufferInv ==
    /\ data_ # None =>
        /\ data_.len = bufLen /\ nData_ = bufLen
        /\ data_.run \in {0, run}
    /\ pc = "woke" /\ ready /\ data_ # None => data_.run = run
    /\ pc \in {"refill", "parse"} => data_ # None
    /\ pc = "update" /\ caller = "frame" => data_ # None /\ data_.run = run

(* The text runs one update ahead of the count while it is rewritten.      *)
TextInv ==
    /\ txt.run = run
    /\ txt.whole <=> upd # "text"
    /\ txt.upd = IF upd = "idle" THEN count ELSE count + 1
    /\ upd # "idle" => count < MaxCount
    /\ run > 0 => count >= 1

(* The message is of this run, and its count is not ahead of the           *)
(* simulator's.                                                            *)
MessageInv ==
    /\ sessionInfo_.msg # None => sessionInfo_.msg.run = run
    /\ sessionInfo_.first <= count

(* The count that updateSessionInfo compares is a sound key: when it is    *)
(* the simulator's and no update is under way, the message says the        *)
(* simulator's text, unless that text cannot be decoded, so that skipping  *)
(* the text loses nothing that could be read.                              *)
CountIsCurrent ==
    run > 0 /\ upd = "idle" /\ sessionInfo_.first = count /\ txt.decodes
        => sessionInfo_.msg = txt

Inv == TypeOK /\ CallInv /\ NoticedInv /\ BufferInv /\ TextInv /\ MessageInv /\ CountIsCurrent

-----------------------------------------------------------------------------
(* NewFrame and NoFrame, whichever call makes them.                        *)

LEMMA NoneIsNoRecord == None \notin Buffer /\ None \notin Text
BY ClientAssumption DEF ClientAssumption, Buffer, Text

LEMMA NewFrameResult ==
  ASSUME TypeOK, NewFrame
  PROVE  /\ ConnTypeOK'
         /\ noticed' = FALSE
         /\ data_ = None => data_' = None
         /\ data_ # None => data_' \in Buffer /\ data_'.len = data_.len /\ data_'.run = run
<1>1. ConnTypeOK' BY DEF TypeOK, NewFrame, ConnTypeOK, SimTypeOK
<1>2. data_ = None => data_' = None BY DEF NewFrame
<1>3. ASSUME data_ # None
      PROVE  data_' \in Buffer /\ data_'.len = data_.len /\ data_'.run = run
  <2>1. data_ \in Buffer BY <1>3 DEF TypeOK, DataTypeOK
  <2>2. data_' = [data_ EXCEPT !.run = run] BY <1>3 DEF NewFrame
  <2>3. run \in 0 .. MaxRuns BY DEF TypeOK, SimTypeOK
  <2> QED BY <2>1, <2>2, <2>3 DEF Buffer
<1> QED BY <1>1, <1>2, <1>3 DEF NewFrame

LEMMA NoFrameResult ==
  ASSUME TypeOK, NoFrame
  PROVE  ConnTypeOK' /\ UNCHANGED <<recent, data_, noticed>>
<1>1. gIsInitialized' \in BOOLEAN BY DEF TypeOK, ConnTypeOK, SimTypeOK, NoFrame
<1>2. sync' \in 0 .. MaxRuns
  BY ClientAssumption
     DEF TypeOK, ConnTypeOK, SimTypeOK, NoFrame, ResetTick, ClientAssumption
<1>3. fresh' \in BOOLEAN BY DEF TypeOK, ConnTypeOK, NoFrame
<1>4. UNCHANGED <<recent, data_, noticed>> BY DEF NoFrame
<1> QED BY <1>1, <1>2, <1>3, <1>4 DEF TypeOK, ConnTypeOK

LEMMA InfoRecord ==
  ASSUME NEW c \in -1 .. MaxCount, NEW m \in Text \cup {None}
  PROVE  [first |-> c, msg |-> m] \in Info
BY DEF Info

(* Only the simulator changes its own state.                               *)
LEMMA ClientFrame == waitForData \/ getSessionInfo \/ InCall => UNCHANGED simVars
BY DEF waitForData, getSessionInfo, InCall, WakeUp, Reallocate, Refill, FrameReady,
       NoFrameReady, CheckCount, Parse

LEMMA SimTypeStep == SimTypeOK /\ TextInv /\ [Next]_vars => SimTypeOK'
<1> SUFFICES ASSUME SimTypeOK, TextInv, [Next]_vars PROVE SimTypeOK'
  OBVIOUS
<1> USE DEF SimTypeOK
<1>1. MaxRuns \in Nat /\ MaxCount \in Nat \ {0} BY ClientAssumption DEF ClientAssumption
<1>2. CASE UNCHANGED simVars BY <1>2 DEF simVars
<1>3. CASE SimStart
  <2>1. PICK d \in BOOLEAN : txt' = [run |-> run + 1, upd |-> 1, whole |-> TRUE, decodes |-> d]
    BY <1>3 DEF SimStart
  <2>2. txt' \in Text BY <1>1, <1>3, <2>1 DEF SimStart, Text
  <2> QED BY <1>1, <1>3, <2>2 DEF SimStart
<1>4. CASE SimPublish BY <1>2, <1>4 DEF SimPublish
<1>5. CASE UpdateText
  <2>1. PICK d \in BOOLEAN :
          txt' = [run |-> run, upd |-> count + 1, whole |-> FALSE, decodes |-> d]
    BY <1>5 DEF UpdateText
  <2>2. count + 1 \in 0 .. MaxCount BY <1>1, <1>5 DEF UpdateText
  <2>3. txt' \in Text BY <2>1, <2>2 DEF Text
  <2> QED BY <1>5, <2>1, <2>3 DEF UpdateText
<1>6. CASE FinishText BY <1>6 DEF FinishText, Text
<1>7. CASE UpdateCount BY <1>1, <1>7 DEF UpdateCount, TextInv
<1>8. CASE SimStop BY <1>8 DEF SimStop
<1>9. CASE Timeout BY <1>2, <1>9 DEF Timeout
<1> QED
  BY <1>2, <1>3, <1>4, <1>5, <1>6, <1>7, <1>8, <1>9, ClientFrame DEF Next, Simulator, vars

LEMMA ConnTypeStep == TypeOK /\ [Next]_vars => ConnTypeOK'
<1> SUFFICES ASSUME TypeOK, [Next]_vars PROVE ConnTypeOK'
  OBVIOUS
<1> USE DEF TypeOK, ConnTypeOK
<1>1. CASE UNCHANGED connVars BY <1>1 DEF connVars
<1>2. CASE SimStart \/ SimPublish \/ Timeout BY <1>2 DEF SimStart, SimPublish, Timeout
<1>3. CASE waitForData BY <1>3, NewFrameResult, NoFrameResult DEF waitForData
<1>4. CASE WakeUp BY <1>4, NewFrameResult, NoFrameResult DEF WakeUp
<1>5. CASE Refill BY <1>5, NewFrameResult, NoFrameResult DEF Refill
<1>6. UpdateText \/ FinishText \/ UpdateCount \/ SimStop \/ getSessionInfo \/ Reallocate
        \/ FrameReady \/ NoFrameReady \/ CheckCount \/ Parse => UNCHANGED connVars
  BY DEF UpdateText, FinishText, UpdateCount, SimStop, getSessionInfo, Reallocate,
         FrameReady, NoFrameReady, CheckCount, Parse
<1> QED BY <1>1, <1>2, <1>3, <1>4, <1>5, <1>6 DEF Next, Simulator, InCall, vars

LEMMA DataTypeStep == TypeOK /\ [Next]_vars => DataTypeOK'
<1> SUFFICES ASSUME TypeOK, [Next]_vars PROVE DataTypeOK'
  OBVIOUS
<1> USE DEF TypeOK, DataTypeOK
<1>1. CASE UNCHANGED <<info, buffer>> BY <1>1 DEF info, buffer
<1>2. ASSUME NewFrame, UNCHANGED <<info, nData_>> PROVE DataTypeOK'
  BY <1>2, NewFrameResult DEF info
<1>3. ASSUME NoFrame, UNCHANGED <<info, nData_>> PROVE DataTypeOK'
  BY <1>3, NoFrameResult DEF info
<1>4. CASE waitForData BY <1>2, <1>3, <1>4 DEF waitForData
<1>5. CASE WakeUp BY <1>2, <1>3, <1>5 DEF WakeUp
<1>6. CASE Refill BY <1>2, <1>3, <1>6 DEF Refill
<1>7. ASSUME resetSession
      PROVE  /\ sessionInfo_' \in Info
             /\ sessionInfoChangedFlag_' \in BOOLEAN /\ sessionInfoStr_' \in BOOLEAN
  <2>1. -1 \in -1 .. MaxCount BY ClientAssumption DEF ClientAssumption
  <2>2. sessionInfo_' \in Info BY <1>7, <2>1, InfoRecord DEF resetSession
  <2> QED BY <1>7, <2>2 DEF resetSession
<1>8. CASE Reallocate
  <2>1. data_' \in Buffer /\ nData_' \in Layouts
    BY <1>8, ClientAssumption DEF Reallocate, Buffer, SimTypeOK, ClientAssumption
  <2> QED BY <1>7, <1>8, <2>1 DEF Reallocate
<1>9. CASE NoFrameReady BY <1>7, <1>9 DEF NoFrameReady, info
<1>10. CASE CheckCount BY <1>10 DEF CheckCount, Updated, CallTypeOK, buffer
<1>11. CASE Parse
  <2>1. EmptyMessage \in Text
    BY ClientAssumption DEF EmptyMessage, Text, SimTypeOK, ClientAssumption
  <2>2. newCount \in -1 .. MaxCount
    BY ClientAssumption DEF CallTypeOK, ClientAssumption
  <2>3. PICK m \in Text \cup {None} : sessionInfo_' = [first |-> newCount, msg |-> m]
    <3>1. sessionInfo_.msg \in Text \cup {None} BY DEF Info
    <3>2. txt \in Text BY DEF SimTypeOK
    <3> QED BY <1>11, <2>1, <3>1, <3>2 DEF Parse, Updated
  <2>5. sessionInfo_' \in Info BY <2>2, <2>3, InfoRecord
  <2>4. sessionInfoChangedFlag_' \in BOOLEAN BY <1>11 DEF Parse, Updated
  <2> QED BY <1>11, <2>4, <2>5 DEF Parse, buffer
<1>12. Simulator \/ getSessionInfo \/ FrameReady => UNCHANGED <<info, buffer>>
  BY DEF Simulator, SimStart, SimPublish, UpdateText, FinishText, UpdateCount, SimStop,
         Timeout, getSessionInfo, FrameReady
<1> QED
  BY <1>1, <1>4, <1>5, <1>6, <1>8, <1>9, <1>10, <1>11, <1>12 DEF Next, InCall, vars

LEMMA CallTypeStep == TypeOK /\ [Next]_vars => CallTypeOK'
<1> SUFFICES ASSUME TypeOK, [Next]_vars PROVE CallTypeOK'
  OBVIOUS
<1> USE DEF TypeOK, CallTypeOK
<1>1. 0 \in 0 .. MaxCount /\ count \in 0 .. MaxCount
  BY ClientAssumption DEF ClientAssumption, SimTypeOK
<1>2. CASE UNCHANGED <<callVars, noticed>> BY <1>2 DEF callVars
<1>3. CASE SimStart BY <1>3 DEF SimStart, callVars
<1>4. CASE waitForData BY <1>4, NewFrameResult, NoFrameResult DEF waitForData
<1>5. CASE WakeUp BY <1>5, NewFrameResult, NoFrameResult DEF WakeUp
<1>6. CASE Reallocate \/ FrameReady BY <1>6 DEF Reallocate, FrameReady
<1>7. CASE Refill BY <1>1, <1>7, NewFrameResult, NoFrameResult DEF Refill, Return
<1>8. CASE NoFrameReady BY <1>1, <1>8 DEF NoFrameReady, Return
<1>9. CASE getSessionInfo BY <1>9 DEF getSessionInfo
<1>10. CASE CheckCount BY <1>1, <1>10 DEF CheckCount, Updated, Return
<1>11. CASE Parse BY <1>1, <1>11 DEF Parse, Updated, Return
<1>12. SimPublish \/ UpdateText \/ FinishText \/ UpdateCount \/ SimStop \/ Timeout
         => UNCHANGED <<callVars, noticed>>
  BY DEF SimPublish, UpdateText, FinishText, UpdateCount, SimStop, Timeout
<1> QED
  BY <1>2, <1>3, <1>4, <1>5, <1>6, <1>7, <1>8, <1>9, <1>10, <1>11, <1>12
     DEF Next, Simulator, InCall, vars

LEMMA TypeStep == TypeOK /\ TextInv /\ [Next]_vars => TypeOK'
BY SimTypeStep, ConnTypeStep, DataTypeStep, CallTypeStep DEF TypeOK

-----------------------------------------------------------------------------
LEMMA CallStep == TypeOK /\ CallInv /\ NoticedInv /\ [Next]_vars => CallInv'
<1> SUFFICES ASSUME TypeOK, CallInv, NoticedInv, [Next]_vars PROVE CallInv'
  OBVIOUS
<1> USE DEF CallInv
<1>1. count \in Int /\ newCount \in Int
  BY ClientAssumption DEF TypeOK, SimTypeOK, CallTypeOK, ClientAssumption
<1>2. CASE UNCHANGED <<callVars, count>> BY <1>2 DEF callVars
<1>3. CASE UpdateCount BY <1>1, <1>3 DEF UpdateCount, callVars
<1>4. CASE SimStart
  <2>1. pc # "parse" => CallInv' BY <1>4 DEF SimStart, callVars
  <2>2. pc # "parse" BY <1>4 DEF SimStart, NoticedInv
  <2> QED BY <2>1, <2>2
<1>5. CASE waitForData BY <1>5 DEF waitForData
<1>6. CASE WakeUp BY <1>6 DEF WakeUp
<1>7. CASE Reallocate BY <1>7 DEF Reallocate
<1>8. CASE Refill BY <1>8 DEF Refill, Return
<1>9. CASE FrameReady BY <1>9 DEF FrameReady
<1>10. CASE NoFrameReady BY <1>10 DEF NoFrameReady, Return
<1>11. CASE getSessionInfo BY <1>11 DEF getSessionInfo
<1>12. CASE CheckCount
  <2>1. CASE pc' = "parse" /\ newCount' = count /\ UNCHANGED <<caller, ready>>
    BY <1>1, <1>12, <2>1 DEF CheckCount, simVars
  <2>2. CASE Return BY <2>2 DEF Return
  <2> QED BY <1>12, <2>1, <2>2 DEF CheckCount, Updated
<1>13. CASE Parse BY <1>13 DEF Parse, Updated, Return
<1>14. SimPublish \/ UpdateText \/ FinishText \/ SimStop \/ Timeout
         => UNCHANGED <<callVars, count>>
  BY DEF SimPublish, UpdateText, FinishText, SimStop, Timeout, simVars
<1> QED
  BY <1>2, <1>3, <1>4, <1>5, <1>6, <1>7, <1>8, <1>9, <1>10, <1>11, <1>12, <1>13, <1>14
     DEF Next, Simulator, InCall, vars, simVars

LEMMA NoticedStep == TypeOK /\ CallInv /\ NoticedInv /\ BufferInv /\ [Next]_vars => NoticedInv'
<1> SUFFICES ASSUME TypeOK, CallInv, NoticedInv, BufferInv, [Next]_vars, noticed'
             PROVE  NoticedInv'
  BY DEF NoticedInv
<1> USE DEF NoticedInv
<1>1. ASSUME noticed, UNCHANGED <<data_, sessionInfo_, pc, ready>>, on' = FALSE
      PROVE  NoticedInv'
  BY <1>1
<1>2. ~NewFrame BY DEF NewFrame
<1>3. NoFrame => UNCHANGED <<data_, noticed>> BY DEF NoFrame
<1>4. CASE SimStart BY <1>4 DEF SimStart
<1>5. CASE SimPublish \/ UpdateText \/ FinishText \/ UpdateCount \/ SimStop \/ Timeout
  BY <1>1, <1>5
     DEF SimPublish, UpdateText, FinishText, UpdateCount, SimStop, Timeout, simVars, info,
         buffer, callVars
<1>6. CASE waitForData BY <1>2, <1>3, <1>6 DEF waitForData, info, simVars
<1>7. CASE WakeUp BY <1>2, <1>3, <1>7 DEF WakeUp, info, simVars
<1>8. CASE Reallocate BY <1>8 DEF Reallocate
<1>9. CASE Refill BY <1>2, <1>3, <1>9 DEF Refill
<1>10. CASE FrameReady BY <1>10 DEF FrameReady
<1>11. CASE NoFrameReady
  <2>1. CASE isConnected /\ UNCHANGED <<data_, info, noticed>>
    BY <1>11, <2>1 DEF NoFrameReady, isConnected
  <2>2. CASE ~isConnected /\ data_' = None /\ resetSession /\ noticed' = ~on
    <3>1. sessionInfo_' = [first |-> -1, msg |-> None] BY <2>2 DEF resetSession
    <3>2. pc' = "idle" /\ ready' = FALSE /\ on' = on
      BY <1>11 DEF NoFrameReady, Return, simVars
    <3>3. ~on BY <2>2
    <3> QED BY <2>2, <3>1, <3>2, <3>3
  <2> QED BY <1>11, <2>1, <2>2 DEF NoFrameReady
<1>12. CASE getSessionInfo BY <1>12 DEF getSessionInfo, simVars, info, buffer
<1>13. CASE CheckCount
  BY <1>13 DEF CheckCount, isConnected, Updated, Return, simVars, buffer
<1>14. CASE Parse BY <1>14 DEF Parse
<1>15. CASE UNCHANGED vars BY <1>1, <1>15 DEF vars, simVars, info, buffer, callVars
<1> QED
  BY <1>4, <1>5, <1>6, <1>7, <1>8, <1>9, <1>10, <1>11, <1>12, <1>13, <1>14, <1>15
     DEF Next, Simulator, InCall

LEMMA BufferStep ==
  TypeOK /\ CallInv /\ NoticedInv /\ BufferInv /\ [Next]_vars => BufferInv'
<1> SUFFICES ASSUME TypeOK, CallInv, NoticedInv, BufferInv, [Next]_vars PROVE BufferInv'
  OBVIOUS
<1> USE DEF BufferInv
<1>1. ASSUME UNCHANGED <<data_, nData_, bufLen, run, pc, caller, ready>> PROVE BufferInv'
  BY <1>1
<1>2. ASSUME NewFrame
      PROVE  /\ data_ = None => data_' = None
             /\ data_ # None => data_' # None /\ data_'.len = data_.len /\ data_'.run = run
  BY <1>2, NewFrameResult, NoneIsNoRecord
<1>3. NoFrame => UNCHANGED data_ BY DEF NoFrame
<1>4. CASE SimStart
  <2>1. data_' = None /\ ~ready /\ pc \notin {"refill", "parse"} /\ ~ready'
    BY <1>4 DEF SimStart, NoticedInv, buffer, callVars
  <2>2. pc' = pc /\ caller' = caller BY <1>4 DEF SimStart, callVars
  <2> QED BY <2>1, <2>2 DEF CallInv
<1>5. CASE SimPublish \/ UpdateText \/ FinishText \/ UpdateCount \/ SimStop \/ Timeout
  BY <1>1, <1>5
     DEF SimPublish, UpdateText, FinishText, UpdateCount, SimStop, Timeout, simVars, buffer,
         callVars
<1>6. CASE waitForData BY <1>2, <1>3, <1>6 DEF waitForData, simVars
<1>7. CASE WakeUp BY <1>2, <1>3, <1>7 DEF WakeUp, simVars
<1>8. CASE Reallocate
  <2>1. data_' \in Buffer /\ data_'.len = bufLen /\ data_'.run = 0 /\ nData_' = bufLen
    BY <1>8, ClientAssumption DEF Reallocate, Buffer, TypeOK, SimTypeOK, ClientAssumption
  <2> QED BY <1>8, <2>1, NoneIsNoRecord DEF Reallocate, simVars
<1>9. CASE Refill BY <1>2, <1>3, <1>9 DEF Refill, Return, CallInv, simVars
<1>10. CASE FrameReady BY <1>10 DEF FrameReady, simVars, buffer
<1>11. CASE NoFrameReady BY <1>11 DEF NoFrameReady, Return, simVars
<1>12. CASE getSessionInfo BY <1>12 DEF getSessionInfo, simVars, buffer
<1>13. CASE CheckCount
  BY <1>13 DEF CheckCount, isConnected, Updated, Return, simVars, buffer
<1>14. CASE Parse BY <1>14 DEF Parse, Updated, Return, simVars, buffer
<1>15. CASE UNCHANGED vars BY <1>1, <1>15 DEF vars, simVars, buffer, callVars
<1> QED
  BY <1>4, <1>5, <1>6, <1>7, <1>8, <1>9, <1>10, <1>11, <1>12, <1>13, <1>14, <1>15
     DEF Next, Simulator, InCall

LEMMA TextStep == TypeOK /\ TextInv /\ [Next]_vars => TextInv'
<1> SUFFICES ASSUME SimTypeOK, TextInv, [Next]_vars PROVE TextInv'
  BY DEF TypeOK
<1> USE DEF TextInv
<1>1. count \in Nat /\ MaxCount \in Nat \ {0} /\ run \in Nat
  BY ClientAssumption DEF ClientAssumption, SimTypeOK
<1>2. CASE UNCHANGED <<run, count, txt, upd>> BY <1>2
<1>3. CASE SimStart
  <2>1. PICK d \in BOOLEAN : txt' = [run |-> run + 1, upd |-> 1, whole |-> TRUE, decodes |-> d]
    BY <1>3 DEF SimStart
  <2> QED BY <1>1, <1>3, <2>1 DEF SimStart
<1>4. CASE UpdateText
  <2>1. PICK d \in BOOLEAN :
          txt' = [run |-> run, upd |-> count + 1, whole |-> FALSE, decodes |-> d]
    BY <1>4 DEF UpdateText
  <2> QED BY <1>1, <1>4, <2>1 DEF UpdateText
<1>5. CASE FinishText
  <2>1. txt' = [run |-> txt.run, upd |-> txt.upd, whole |-> TRUE, decodes |-> txt.decodes]
        /\ upd' = "done"
    BY <1>5 DEF FinishText, SimTypeOK, Text
  <2> QED BY <1>1, <1>5, <2>1 DEF FinishText
<1>6. CASE UpdateCount BY <1>1, <1>6 DEF UpdateCount
<1>7. SimPublish \/ SimStop \/ Timeout => UNCHANGED <<run, count, txt, upd>>
  BY DEF SimPublish, SimStop, Timeout, simVars
<1> QED
  BY <1>2, <1>3, <1>4, <1>5, <1>6, <1>7, ClientFrame DEF Next, Simulator, vars, simVars

LEMMA MessageStep ==
  TypeOK /\ CallInv /\ NoticedInv /\ TextInv /\ MessageInv /\ [Next]_vars => MessageInv'
<1> SUFFICES ASSUME TypeOK, CallInv, NoticedInv, TextInv, MessageInv, [Next]_vars
             PROVE  MessageInv'
  OBVIOUS
<1> USE DEF MessageInv
<1>1. count \in Nat /\ newCount \in Nat /\ run \in Nat /\ MaxCount \in Nat
  BY ClientAssumption DEF ClientAssumption, TypeOK, SimTypeOK, CallTypeOK
<1>2. sessionInfo_.first \in Int BY DEF TypeOK, DataTypeOK, Info
<1>3. CASE UNCHANGED <<sessionInfo_, run, count>> BY <1>3
<1>4. CASE SimStart
  BY <1>2, <1>4 DEF SimStart, NoticedInv, info
<1>5. CASE UpdateCount BY <1>1, <1>2, <1>5 DEF UpdateCount, info
<1>6. ASSUME resetSession, UNCHANGED simVars PROVE MessageInv'
  <2>1. sessionInfo_' = [first |-> -1, msg |-> None] BY <1>6 DEF resetSession
  <2>2. count' = count BY <1>6 DEF simVars
  <2> QED BY <1>1, <2>1, <2>2
<1>7. CASE Reallocate BY <1>6, <1>7 DEF Reallocate
<1>8. CASE NoFrameReady BY <1>3, <1>6, <1>8 DEF NoFrameReady, simVars, info
<1>9. CASE CheckCount BY <1>3, <1>9 DEF CheckCount, Updated, simVars
<1>10. CASE Parse
  <2>1. newCount <= count BY <1>10 DEF Parse, CallInv
  <2>2. PICK m : /\ sessionInfo_' = [first |-> newCount, msg |-> m]
                 /\ m # None => m.run = run
    <3>1. txt.run = run /\ EmptyMessage.run = run BY DEF TextInv, EmptyMessage
    <3>2. CASE sessionInfo_' = [first |-> newCount, msg |-> txt] BY <3>1, <3>2
    <3>3. CASE \E m \in IF sessionInfo_.msg = None THEN {None, EmptyMessage}
                                                  ELSE {sessionInfo_.msg} :
                 sessionInfo_' = [first |-> newCount, msg |-> m]
      BY <3>1, <3>3
    <3> QED BY <1>10, <3>2, <3>3 DEF Parse, Updated
  <2> QED BY <1>10, <2>1, <2>2 DEF Parse, simVars
<1>11. SimPublish \/ UpdateText \/ FinishText \/ SimStop \/ Timeout \/ waitForData \/ WakeUp
         \/ Refill \/ FrameReady \/ getSessionInfo => UNCHANGED <<sessionInfo_, run, count>>
  BY DEF SimPublish, UpdateText, FinishText, SimStop, Timeout, waitForData, WakeUp, Refill,
         FrameReady, getSessionInfo, simVars, info
<1> QED
  BY <1>3, <1>4, <1>5, <1>7, <1>8, <1>9, <1>10, <1>11
     DEF Next, Simulator, InCall, vars, simVars, info

LEMMA CurrentStep ==
  /\ TypeOK /\ CallInv /\ NoticedInv /\ TextInv /\ MessageInv /\ CountIsCurrent
  /\ [Next]_vars
  => CountIsCurrent'
<1> SUFFICES ASSUME TypeOK, CallInv, NoticedInv, TextInv, MessageInv, CountIsCurrent,
                    [Next]_vars
             PROVE  CountIsCurrent'
  OBVIOUS
<1> USE DEF CountIsCurrent
<1>1. count \in Nat /\ newCount \in Nat /\ run \in Nat
  BY ClientAssumption DEF ClientAssumption, TypeOK, SimTypeOK, CallTypeOK
<1>2. sessionInfo_.first \in Int BY DEF TypeOK, DataTypeOK, Info
<1>3. CASE UNCHANGED <<sessionInfo_, run, count, txt, upd>> BY <1>3
<1>4. CASE SimStart BY <1>2, <1>4 DEF SimStart, NoticedInv, info
<1>5. CASE UpdateText \/ FinishText BY <1>5 DEF UpdateText, FinishText
<1>6. CASE UpdateCount BY <1>1, <1>2, <1>6 DEF UpdateCount, MessageInv, info
<1>7. ASSUME resetSession, UNCHANGED simVars PROVE CountIsCurrent'
  <2>1. sessionInfo_'.first = -1 BY <1>7 DEF resetSession
  <2>2. count' = count BY <1>7 DEF simVars
  <2> QED BY <1>1, <2>1, <2>2
<1>8. CASE Reallocate BY <1>7, <1>8 DEF Reallocate
<1>9. CASE NoFrameReady BY <1>3, <1>7, <1>9 DEF NoFrameReady, simVars, info
<1>10. CASE CheckCount BY <1>3, <1>10 DEF CheckCount, Updated, simVars
<1>11. CASE Parse
  <2>1. CASE sessionInfo_' = [first |-> newCount, msg |-> txt]
    BY <1>11, <2>1 DEF Parse, simVars
  <2>2. CASE ~(txt.whole /\ txt.decodes)
    BY <1>11, <2>2 DEF Parse, TextInv, simVars
  <2> QED BY <1>11, <2>1, <2>2 DEF Parse, Updated
<1>12. SimPublish \/ SimStop \/ Timeout \/ waitForData \/ WakeUp \/ Refill \/ FrameReady
         \/ getSessionInfo => UNCHANGED <<sessionInfo_, run, count, txt, upd>>
  BY DEF SimPublish, SimStop, Timeout, waitForData, WakeUp, Refill, FrameReady,
         getSessionInfo, simVars, info
<1> QED
  BY <1>3, <1>4, <1>5, <1>6, <1>8, <1>9, <1>10, <1>11, <1>12
     DEF Next, Simulator, InCall, vars, simVars, info

-----------------------------------------------------------------------------
LEMMA Initially == Init => Inv
<1> SUFFICES ASSUME Init PROVE Inv
  OBVIOUS
<1> USE ClientAssumption DEF ClientAssumption, Init
<1>0. /\ on \in BOOLEAN /\ status \in BOOLEAN
      /\ gIsInitialized \in BOOLEAN /\ fresh \in BOOLEAN /\ recent \in BOOLEAN
      /\ sessionInfoStr_ \in BOOLEAN /\ sessionInfoChangedFlag_ \in BOOLEAN
      /\ ready \in BOOLEAN /\ noticed \in BOOLEAN
  BY Zenon
<1>1. SimTypeOK
  <2>1. txt \in Text BY DEF Text
  <2>2. run \in 0 .. MaxRuns /\ count \in 0 .. MaxCount OBVIOUS
  <2>3. bufLen \in Layouts /\ upd \in {"idle", "text", "done"} BY Zenon
  <2> QED BY <1>0, <2>1, <2>2, <2>3, Zenon DEF SimTypeOK
<1>2. ConnTypeOK
  <2>1. sync \in 0 .. MaxRuns OBVIOUS
  <2> QED BY <1>0, <2>1, Zenon DEF ConnTypeOK
<1>3. DataTypeOK
  <2>1. 0 \in -1 .. MaxCount OBVIOUS
  <2>2. sessionInfo_ \in Info BY <2>1, InfoRecord
  <2>3. data_ \in Buffer \cup {None} /\ nData_ \in Layouts \cup {0} BY Zenon
  <2> QED BY <1>0, <2>2, <2>3, Zenon DEF DataTypeOK
<1>4. CallTypeOK
  <2>1. newCount \in 0 .. MaxCount OBVIOUS
  <2>2. pc = "idle" /\ caller = "frame" BY Zenon
  <2> QED BY <1>0, <2>1, <2>2 DEF CallTypeOK
<1>5. CallInv /\ NoticedInv /\ BufferInv BY DEF CallInv, NoticedInv, BufferInv
<1>6. TextInv /\ MessageInv BY DEF TextInv, MessageInv
<1>7. CountIsCurrent BY DEF CountIsCurrent
<1> QED BY <1>1, <1>2, <1>3, <1>4, <1>5, <1>6, <1>7 DEF Inv, TypeOK

(* The conjunction of the parts is inductive.                              *)
THEOREM Invariance == Spec => []Inv
<1>1. Inv /\ [Next]_vars => Inv'
  BY TypeStep, CallStep, NoticedStep, BufferStep, TextStep, MessageStep, CurrentStep DEF Inv
<1> QED BY Initially, <1>1, PTL DEF Spec

(* Every variable keeps its type, whatever the interleaving of simulator,  *)
(* poll and getSessionInfo.                                                *)
THEOREM TypeCorrect == Spec => []TypeOK
<1>1. Inv => TypeOK BY DEF Inv
<1> QED BY Invariance, <1>1, PTL

(* waitForData returns true only over a whole frame of this run, and what  *)
(* a getter reads between calls is of this run's length.                   *)
THEOREM FrameHolds == Spec => []FrameOfRun
<1>1. Inv => FrameOfRun BY DEF Inv, BufferInv, FrameOfRun, isConnected
<1> QED BY Invariance, <1>1, PTL

(* A connected client shows no session message of an earlier run.          *)
THEOREM SessionHolds == Spec => []SessionOfRun
<1>1. Inv => SessionOfRun BY DEF Inv, MessageInv, SessionOfRun
<1> QED BY Invariance, <1>1, PTL

(* updateSessionInfo, which reads the text only when its count differs     *)
(* from the one it kept, never keeps an older message under the current    *)
(* count when the text of that count can be decoded: what SessionCurrent   *)
(* owes to safety rather than to fairness.                                 *)
THEOREM CountHolds == Spec => []CountIsCurrent
<1>1. Inv => CountIsCurrent BY DEF Inv
<1> QED BY Invariance, <1>1, PTL
=============================================================================
