--------------------------- MODULE LapTimingProofs --------------------------
(***************************************************************************)
(* Proofs about LapTiming, for any number of cars, lists of drivers,       *)
(* sessions and frames.                                                    *)
(***************************************************************************)
EXTENDS LapTiming, TLAPS

LEMMA Bounds ==
  /\ MaxTime \in Nat /\ MaxSessions \in Nat /\ NumCars \in Nat \ {0}
  /\ DriverLists \subseteq Seq(Cars)
BY TimingAssumption DEF TimingAssumption

-----------------------------------------------------------------------------
(* Type correctness.                                                       *)

SimTypeOK ==
    /\ isConnected \in BOOLEAN /\ wasUpdated \in BOOLEAN
    /\ session \in 0 .. MaxSessions /\ connection \in 0 .. MaxSessions
    /\ time \in 0 .. MaxTime /\ drivers \in DriverLists \cup {<<>>}
    /\ pos \in [Cars -> Place]

LapTypeOK ==
    /\ gLastTime \in -1 .. MaxTime /\ gLastDistPct \in [Cars -> Place]
    /\ \A c \in Cars : /\ gLapStartTime[c] \in Crossing \cup {None}
                       /\ gLapTime[c] \in [start : Crossing, end : Crossing] \cup {None}

LineTypeOK ==
    \A c \in Cars :
      /\ line[c] \in Crossing \cup {None} /\ lineBefore[c] \in Crossing \cup {None}
      /\ sight[c] \in Sight \cup {None}

TableTypeOK ==
    \A c \in Cars : gDriverTableTable[c] = None \/ gDriverTableTable[c].carIdx \in Cars \ {0}

PhaseTypeOK == wasConnected \in BOOLEAN /\ pc \in {"wait", "monitor"}

LEMMA TypeParts ==
  TypeOK <=> SimTypeOK /\ LapTypeOK /\ LineTypeOK /\ TableTypeOK /\ PhaseTypeOK
BY DEF TypeOK, SimTypeOK, LapTypeOK, LineTypeOK, TableTypeOK, PhaseTypeOK

LEMMA SimTypeStep == SimTypeOK /\ [Next]_vars => SimTypeOK'
<1> SUFFICES ASSUME SimTypeOK, [Next]_vars PROVE SimTypeOK'
  OBVIOUS
<1> USE Bounds DEF SimTypeOK
<1>1. CASE UNCHANGED simVars BY <1>1 DEF simVars
<1>2. ASSUME pos' \in [Cars -> {Away, FirstTenth, LastTenth}] PROVE pos' \in [Cars -> Place]
  BY <1>2 DEF Place
<1>3. CASE Connect
  <2>1. time' \in 0 .. MaxTime BY <1>3 DEF Connect
  <2>2. session' \in 0 .. MaxSessions /\ connection' \in 0 .. MaxSessions
    BY <1>3 DEF Connect
  <2>3. isConnected' \in BOOLEAN /\ wasUpdated' \in BOOLEAN BY <1>3 DEF Connect
  <2> QED BY <1>2, <1>3, <2>1, <2>2, <2>3 DEF Connect
<1>4. CASE Disconnect
  <2>1. isConnected' \in BOOLEAN BY <1>4 DEF Disconnect
  <2> QED BY <1>4, <2>1 DEF Disconnect
<1>5. CASE NewSession BY <1>2, <1>5 DEF NewSession
<1>6. CASE UpdateDrivers
  <2>1. wasUpdated' \in BOOLEAN BY <1>6 DEF UpdateDrivers
  <2> QED BY <1>6, <2>1 DEF UpdateDrivers
<1>7. CASE Frame
  <2>1. pos' \in [Cars -> Place] BY <1>7 DEF Frame, Drive, Place
  <2>2. wasUpdated' \in BOOLEAN BY <1>7 DEF Frame
  <2> QED BY <1>7, <2>1, <2>2 DEF Frame, Drive
<1>8. NoFrame \/ monitorConnectionStatus => UNCHANGED simVars
  BY DEF NoFrame, monitorConnectionStatus
<1> QED BY <1>1, <1>3, <1>4, <1>5, <1>6, <1>7, <1>8 DEF Next, vars

LEMMA LapTypeStep == SimTypeOK /\ LapTypeOK /\ [Next]_vars => LapTypeOK'
<1> SUFFICES ASSUME SimTypeOK, LapTypeOK, [Next]_vars PROVE LapTypeOK'
  OBVIOUS
<1> USE Bounds
<1>1. CASE UNCHANGED laps BY <1>1 DEF laps, LapTypeOK
<1>2. CASE resetState
  BY <1>2 DEF resetState, LapTypeOK, Nobody, Place
<1>3. CASE Frame
  <2> DEFINE now == [session |-> session, from |-> gLastTime, to |-> time']
  <2>1. time' \in 0 .. MaxTime /\ pos' \in [Cars -> Place]
    BY <1>3 DEF Frame, Drive, SimTypeOK, Place
  <2>2. now \in Crossing BY <2>1 DEF Crossing, SimTypeOK, LapTypeOK
  <2>3. gLastTime' \in -1 .. MaxTime BY <1>3, <2>1 DEF Frame, processLapInfo
  <2>4. gLastDistPct' \in [Cars -> Place]
    BY <1>3, <2>1 DEF Frame, processLapInfo, LapTypeOK, Place
  <2>5. ASSUME NEW c \in Cars
        PROVE  /\ gLapStartTime'[c] \in Crossing \cup {None}
               /\ gLapTime'[c] \in [start : Crossing, end : Crossing] \cup {None}
    BY <1>3, <2>2 DEF Frame, processLapInfo, LapTypeOK, Nobody
  <2> QED BY <2>3, <2>4, <2>5 DEF LapTypeOK
<1>4. CASE monitorConnectionStatus BY <1>1, <1>2, <1>4 DEF monitorConnectionStatus
<1>5. Connect \/ Disconnect \/ NewSession \/ UpdateDrivers \/ NoFrame => UNCHANGED laps
  BY DEF Connect, Disconnect, NewSession, UpdateDrivers, NoFrame
<1> QED BY <1>1, <1>3, <1>4, <1>5 DEF Next, vars

LEMMA LineTypeStep == SimTypeOK /\ LineTypeOK /\ [Next]_vars => LineTypeOK'
<1> SUFFICES ASSUME SimTypeOK, LineTypeOK, [Next]_vars PROVE LineTypeOK'
  OBVIOUS
<1> USE DEF LineTypeOK
<1>1. CASE UNCHANGED history BY <1>1 DEF history
<1>2. CASE NothingSeen BY <1>2 DEF NothingSeen, Nobody
<1>3. CASE Frame
  <2> SUFFICES ASSUME NEW c \in Cars
               PROVE  /\ line'[c] \in Crossing \cup {None} /\ lineBefore'[c] \in Crossing \cup {None}
                      /\ sight'[c] \in Sight \cup {None}
    OBVIOUS
  <2>1. time' \in 0 .. MaxTime /\ pos'[c] \in Place
    BY <1>3, Bounds DEF Frame, Drive, SimTypeOK, Place
  <2>2. sight[c] # None => sight[c].at \in 0 .. MaxTime BY DEF Sight
  <2>3. sight[c] # None => [session |-> session, from |-> sight[c].at, to |-> time'] \in Crossing
    BY <2>1, <2>2, Bounds DEF Crossing, SimTypeOK
  <2>4. pos'[c] # Away => [place |-> pos'[c], at |-> time'] \in Sight BY <2>1 DEF Sight
  <2>5. line'[c] \in Crossing \cup {None} /\ lineBefore'[c] \in Crossing \cup {None}
    BY <1>3, <2>3 DEF Frame, Drive
  <2>6. sight'[c] \in Sight \cup {None} BY <1>3, <2>4 DEF Frame, Drive
  <2> QED BY <2>5, <2>6
<1>4. Connect \/ NewSession => NothingSeen
  BY DEF Connect, NewSession
<1>5. monitorConnectionStatus => NothingSeen \/ UNCHANGED history
  BY DEF monitorConnectionStatus
<1>6. Disconnect \/ UpdateDrivers \/ NoFrame => UNCHANGED history
  BY DEF Disconnect, UpdateDrivers, NoFrame
<1> QED BY <1>1, <1>2, <1>3, <1>4, <1>5, <1>6 DEF Next, vars

LEMMA TableTypeStep == SimTypeOK /\ TableTypeOK /\ [Next]_vars => TableTypeOK'
<1> SUFFICES ASSUME SimTypeOK, TableTypeOK, [Next]_vars PROVE TableTypeOK'
  OBVIOUS
<1> USE DEF TableTypeOK
<1>1. CASE UNCHANGED gDriverTableTable BY <1>1
<1>2. CASE resetState BY <1>2 DEF resetState, Nobody
<1>3. CASE gDriverTableTable' = updateDriverInfo
  <2> SUFFICES ASSUME NEW c \in Cars
               PROVE  gDriverTableTable'[c] = None \/ gDriverTableTable'[c].carIdx \in Cars \ {0}
    OBVIOUS
  <2>1. CASE c < Len(drivers) /\ drivers[c + 1] # 0
    <3>1. drivers \in Seq(Cars)
      <4>1. CASE drivers \in DriverLists BY <4>1, Bounds
      <4>2. CASE drivers = <<>> BY <4>2
      <4> QED BY <4>1, <4>2 DEF SimTypeOK
    <3>2. c + 1 \in 1 .. Len(drivers) BY <2>1, <3>1 DEF Cars
    <3>3. drivers[c + 1] \in Cars
      BY <3>1, <3>2, \A S : \A s \in Seq(S) : \A i \in 1 .. Len(s) : s[i] \in S
    <3>4. gDriverTableTable'[c] = [carIdx |-> drivers[c + 1], connection |-> connection]
      BY <1>3, <2>1 DEF updateDriverInfo
    <3> QED BY <2>1, <3>3, <3>4
  <2>2. CASE ~(c < Len(drivers) /\ drivers[c + 1] # 0)
    BY <1>3, <2>2 DEF updateDriverInfo
  <2> QED BY <2>1, <2>2
<1>4. CASE Frame BY <1>1, <1>3, <1>4 DEF Frame
<1>5. CASE monitorConnectionStatus BY <1>1, <1>2, <1>5 DEF monitorConnectionStatus
<1>6. Connect \/ Disconnect \/ NewSession \/ UpdateDrivers \/ NoFrame
        => UNCHANGED gDriverTableTable
  BY DEF Connect, Disconnect, NewSession, UpdateDrivers, NoFrame
<1> QED BY <1>1, <1>4, <1>5, <1>6 DEF Next, vars

LEMMA PhaseTypeStep == SimTypeOK /\ PhaseTypeOK /\ [Next]_vars => PhaseTypeOK'
BY DEF SimTypeOK, PhaseTypeOK, Next, Connect, Disconnect, NewSession, UpdateDrivers, Frame,
       NoFrame, monitorConnectionStatus, vars

LEMMA InitTypeOK == Init => TypeOK
<1> SUFFICES ASSUME Init PROVE TypeOK
  OBVIOUS
<1> USE Bounds DEF Init
<1>1. isConnected \in BOOLEAN /\ wasUpdated \in BOOLEAN /\ wasConnected \in BOOLEAN
  BY Zenon
<1>2. SimTypeOK BY <1>1 DEF SimTypeOK, Place
<1>3. Zero \in Crossing BY DEF Zero, Crossing
<1>4. LapTypeOK
  <2>1. gLastDistPct \in [Cars -> Place] BY DEF Place
  <2> QED BY <1>3, <2>1 DEF LapTypeOK
<1>5. LineTypeOK /\ TableTypeOK BY DEF LineTypeOK, TableTypeOK, Nobody
<1>6. PhaseTypeOK BY <1>1 DEF PhaseTypeOK
<1> QED BY <1>2, <1>4, <1>5, <1>6, TypeParts

(* Every variable keeps its type, for any number of cars, whatever they do *)
(* and whoever drives them.                                                *)
THEOREM TypeCorrect == Spec => []TypeOK
<1>1. TypeOK /\ [Next]_vars => TypeOK'
  BY TypeParts, SimTypeStep, LapTypeStep, LineTypeStep, TableTypeStep, PhaseTypeStep
     DEF TypeOK, SimTypeOK, LapTypeOK, LineTypeOK, TableTypeOK, PhaseTypeOK
<1> QED BY InitTypeOK, <1>1, PTL DEF Spec

-----------------------------------------------------------------------------
(* The table.                                                              *)

TableInv ==
    wasConnected =>
      \A c \in Cars : gDriverTableTable[c] # None => gDriverTableTable[c].connection = connection

LEMMA TableStep == PhaseTypeOK /\ TableInv /\ [Next]_vars => TableInv'
<1> SUFFICES ASSUME PhaseTypeOK, TableInv, [Next]_vars PROVE TableInv'
  OBVIOUS
<1> USE DEF TableInv
<1>1. CASE UNCHANGED <<gDriverTableTable, connection, wasConnected>> BY <1>1
<1>2. CASE Connect BY <1>2 DEF Connect
<1>3. CASE Frame
  <2>1. CASE gDriverTableTable' = updateDriverInfo
    BY <1>3, <2>1 DEF Frame, Drive, updateDriverInfo
  <2> QED BY <1>1, <1>3, <2>1 DEF Frame, Drive
<1>4. CASE monitorConnectionStatus
  <2>1. CASE resetState BY <2>1 DEF resetState, Nobody
  <2>2. CASE ~(isConnected /\ ~wasConnected) /\ UNCHANGED gDriverTableTable
    BY <1>4, <2>2 DEF monitorConnectionStatus, simVars
  <2> QED BY <1>4, <2>1, <2>2 DEF monitorConnectionStatus
<1>5. Disconnect \/ NewSession \/ UpdateDrivers \/ NoFrame
        => UNCHANGED <<gDriverTableTable, connection, wasConnected>>
  BY DEF Disconnect, NewSession, UpdateDrivers, NoFrame, simVars
<1> QED BY <1>1, <1>2, <1>3, <1>4, <1>5 DEF Next, vars, simVars

(* While the program is connected its table names no driver of an earlier  *)
(* connection, however the simulator comes and goes.                       *)
THEOREM TableHolds == Spec => []TableOfConnection
<1>1. Init => TableInv BY DEF Init, TableInv
<1>2. TypeOK => PhaseTypeOK BY TypeParts
<1>3. TableInv => TableOfConnection BY DEF TableInv, TableOfConnection
<1> QED BY <1>1, <1>2, <1>3, TypeCorrect, TableStep, PTL DEF Spec

-----------------------------------------------------------------------------
(* The laps.                                                               *)

(* Nothing has been seen, and the history agrees.                          *)
Unseen == \A c \in Cars : sight[c] = None /\ line[c] = None /\ lineBefore[c] = None

(* Nothing has been seen since the reset.                                  *)
Fresh ==
    /\ gLastTime = -1 /\ Unseen
    /\ \A c \in Cars : gLastDistPct[c] = Away /\ gLapStartTime[c] = None /\ gLapTime[c] = None

(* What the program knows of a car is what it has seen of it.              *)
Known(c) ==
    /\ gLastDistPct[c] = IF sight[c] = None THEN Away ELSE sight[c].place
    /\ sight[c] # None => sight[c].at <= time
    /\ Times(gLapStartTime[c], line[c])
    /\ gLapTime[c] = None <=> lineBefore[c] = None
    /\ gLapTime[c] # None =>
         /\ gLapStartTime[c] # None
         /\ Times(gLapTime[c].start, lineBefore[c]) /\ gLapTime[c].end = gLapStartTime[c]

(* The program has the last frame, and knows what it has seen.             *)
Tracked == gLastTime = time /\ \A c \in Cars : Known(c)

(* The simulator is at the first frame of a session, which the time of the *)
(* next frame will show: the program's last one is later than that too.    *)
SessionChanged == gLastTime > 1 /\ time = 0 /\ Unseen

LapInv == wasConnected => Fresh \/ Tracked \/ SessionChanged

LEMMA NothingSeenIsUnseen == NothingSeen => Unseen'
BY DEF NothingSeen, Unseen, Nobody

(* A frame leaves the program with the truth, whatever it knew before.     *)
LEMMA FrameTracks ==
  ASSUME TypeOK, LapInv, wasConnected, Frame
  PROVE  Tracked'
<1> DEFINE newSession == gLastTime > time'
           now == [session |-> session, from |-> gLastTime, to |-> time']
           last == [c \in Cars |-> IF newSession THEN Away ELSE gLastDistPct[c]]
           start == IF newSession THEN Nobody ELSE gLapStartTime
           lap == IF newSession THEN Nobody ELSE gLapTime
           over == {c \in Cars : Crossed(last[c], pos'[c])}
           crosses(c) == sight[c] # None /\ sight[c].place = LastTenth /\ pos'[c] = FirstTenth
           then(c) == [session |-> session, from |-> sight[c].at, to |-> time']
<1>1. /\ gLapTime' = [c \in Cars |-> IF c \in over /\ start[c] # None
                         THEN [start |-> start[c], end |-> now] ELSE lap[c]]
      /\ gLapStartTime' = [c \in Cars |-> IF c \in over THEN now ELSE start[c]]
      /\ gLastDistPct' = [c \in Cars |-> IF pos'[c] = Away THEN last[c] ELSE pos'[c]]
      /\ gLastTime' = time' /\ time' = time + 1 /\ session' = session
  BY DEF Frame, Drive, processLapInfo
<1>2. ASSUME NEW c \in Cars
      PROVE  /\ line'[c] = IF crosses(c) THEN then(c) ELSE line[c]
             /\ lineBefore'[c] = IF crosses(c) THEN line[c] ELSE lineBefore[c]
             /\ sight'[c] = IF pos'[c] = Away THEN sight[c] ELSE [place |-> pos'[c], at |-> time']
  BY DEF Frame, Drive
<1>3. gLastTime \in Int /\ time \in Nat /\ time' \in Nat /\ session \in Nat
  BY <1>1, Bounds DEF TypeOK
<1> DEFINE Crossings == [session : Nat, from : Int, to : Nat]
<1>4. /\ None \notin Crossings /\ None \notin [start : Crossings, end : Crossings]
      /\ None \notin [place : Int, at : Nat]
  BY TimingAssumption DEF TimingAssumption
<1> SUFFICES ASSUME NEW c \in Cars PROVE Known(c)'
  BY <1>1 DEF Tracked
<1>5. sight[c] # None => sight[c].place \in Place \ {Away} /\ sight[c].at \in Nat
  BY DEF TypeOK, Sight
<1>6. pos'[c] \in Place BY DEF Frame, Drive, Place
<1>7. now # None /\ (sight[c] # None => then(c) # None) BY <1>3, <1>4, <1>5
<1>8. pos'[c] # Away => [place |-> pos'[c], at |-> time'] # None
  BY <1>3, <1>4, <1>6 DEF Place, Away, FirstTenth, LastTenth
<1>9. /\ last[c] = IF sight[c] = None THEN Away ELSE sight[c].place
      /\ sight[c] # None => sight[c].at <= time /\ gLastTime = time
      /\ Times(start[c], line[c])
      /\ lap[c] = None <=> lineBefore[c] = None
      /\ lap[c] # None => /\ start[c] # None
                          /\ Times(lap[c].start, lineBefore[c]) /\ lap[c].end = start[c]
  <2>1. ASSUME Unseen, last[c] = Away, start[c] = None, lap[c] = None 
        PROVE  /\ last[c] = IF sight[c] = None THEN Away ELSE sight[c].place
               /\ sight[c] # None => sight[c].at <= time /\ gLastTime = time
               /\ Times(start[c], line[c])
               /\ lap[c] = None <=> lineBefore[c] = None
               /\ lap[c] # None => /\ start[c] # None
                                   /\ Times(lap[c].start, lineBefore[c]) /\ lap[c].end = start[c]
    BY <2>1 DEF Unseen, Times
  <2>2. CASE Fresh BY <1>3, <2>1, <2>2 DEF Fresh
  <2>3. CASE SessionChanged BY <1>1, <1>3, <2>1, <2>3 DEF SessionChanged, Nobody
  <2>4. CASE Tracked
    <3>1. ~newSession BY <1>1, <1>3, <2>4 DEF Tracked
    <3>2. last[c] = gLastDistPct[c] /\ start = gLapStartTime /\ lap = gLapTime BY <3>1
    <3>3. Known(c) /\ gLastTime = time BY <2>4 DEF Tracked
    <3> HIDE DEF last, start, lap
    <3> QED BY <3>2, <3>3 DEF Known
  <2> QED BY <2>2, <2>3, <2>4 DEF LapInv
<1>10. c \in over <=> crosses(c)
  <2> HIDE DEF last
  <2>1. c \in over <=> Crossed(last[c], pos'[c]) OBVIOUS
  <2>2. Away # LastTenth BY DEF Away, LastTenth
  <2> HIDE DEF over
  <2> QED BY <1>9, <2>1, <2>2 DEF Crossed
<1>11. gLapStartTime'[c] = IF crosses(c) THEN now ELSE start[c] BY <1>1, <1>10
<1>12. gLapTime'[c] = IF crosses(c) /\ start[c] # None THEN [start |-> start[c], end |-> now]
                      ELSE lap[c]
  BY <1>1, <1>10
<1>13. gLastDistPct'[c] = IF pos'[c] = Away THEN last[c] ELSE pos'[c] BY <1>1
<1>14. crosses(c) => Times(now, then(c)) BY <1>1, <1>3, <1>5, <1>7, <1>9 DEF Times
<1>15. start[c] = None <=> line[c] = None BY <1>9 DEF Times
<1> HIDE DEF last, start, lap, over, now, then, crosses
<1>16. /\ gLastDistPct'[c] = IF sight'[c] = None THEN Away ELSE sight'[c].place
       /\ sight'[c] # None => sight'[c].at <= time'
  <2>1. CASE pos'[c] = Away
    <3>1. sight'[c] = sight[c] /\ gLastDistPct'[c] = last[c] BY <1>2, <1>13, <2>1
    <3>2. sight[c] # None => sight[c].at <= time' BY <1>1, <1>3, <1>5, <1>9
    <3> QED BY <1>9, <3>1, <3>2
  <2>2. CASE pos'[c] # Away
    <3>1. sight'[c] = [place |-> pos'[c], at |-> time'] /\ gLastDistPct'[c] = pos'[c]
      BY <1>2, <1>13, <2>2
    <3>2. sight'[c] # None /\ sight'[c].place = pos'[c] /\ sight'[c].at = time'
      BY <1>8, <2>2, <3>1
    <3> QED BY <1>3, <3>1, <3>2
  <2> QED BY <2>1, <2>2
<1>17. Times(gLapStartTime'[c], line'[c]) BY <1>2, <1>9, <1>11, <1>14
<1>18. CASE crosses(c)
  <2>1. gLapStartTime'[c] = now /\ now # None BY <1>7, <1>11, <1>18
  <2>2. lineBefore'[c] = line[c] BY <1>2, <1>18
  <2>3. CASE start[c] = None
    <3>1. gLapTime'[c] = lap[c] /\ lap[c] = None BY <1>9, <1>12, <2>3
    <3> QED BY <1>15, <1>16, <1>17, <2>2, <2>3, <3>1 DEF Known, Times
  <2>4. CASE start[c] # None
    <3>1. gLapTime'[c] = [start |-> start[c], end |-> now] BY <1>12, <1>18, <2>4
    <3>2. start[c] \in Crossings /\ now \in Crossings
      BY <1>1, <1>3, <2>4, Bounds DEF start, now, TypeOK, Crossing, Nobody
    <3>3. gLapTime'[c] # None BY <1>4, <3>1, <3>2
    <3> QED BY <1>9, <1>15, <1>16, <1>17, <2>1, <2>2, <2>4, <3>1, <3>3 DEF Known, Times
  <2> QED BY <2>3, <2>4
<1>19. CASE ~crosses(c)
  <2>1. gLapStartTime'[c] = start[c] /\ gLapTime'[c] = lap[c] /\ lineBefore'[c] = lineBefore[c]
    BY <1>2, <1>11, <1>12, <1>19
  <2> QED BY <1>9, <1>16, <1>17, <2>1 DEF Known, Times
<1> QED BY <1>18, <1>19

LEMMA LapStep == TypeOK /\ LapInv /\ [Next]_vars => LapInv'
<1> SUFFICES ASSUME TypeOK, LapInv, [Next]_vars PROVE LapInv'
  OBVIOUS
<1>1. CASE UNCHANGED <<laps, time, wasConnected, history>>
  BY <1>1 DEF LapInv, Fresh, Tracked, SessionChanged, Known, Times, Unseen, laps, history
<1>2. CASE Connect BY <1>2 DEF Connect, LapInv
<1>3. CASE NewSession
  <2>1. gLastTime' = gLastTime /\ gLastDistPct' = gLastDistPct
          /\ gLapStartTime' = gLapStartTime /\ gLapTime' = gLapTime
          /\ wasConnected' = wasConnected /\ time' = 0 /\ Unseen'
    BY <1>3, NothingSeenIsUnseen DEF NewSession, laps
  <2>2. gLastTime \in -1 .. MaxTime /\ gLastTime # 0 /\ gLastTime # 1
    BY <1>3 DEF NewSession, TypeOK
  <2>3. gLastTime = -1 \/ gLastTime > 1 BY <2>2, Bounds
  <2>4. CASE gLastTime > 1 BY <2>1, <2>4 DEF LapInv, SessionChanged
  <2>5. CASE gLastTime = -1
    <3>1. wasConnected => Fresh
      BY <2>5, Bounds DEF LapInv, Tracked, SessionChanged, TypeOK
    <3> QED BY <2>1, <3>1 DEF LapInv, Fresh
  <2> QED BY <2>3, <2>4, <2>5
<1>4. CASE Frame
  <2>1. CASE wasConnected BY <1>4, <2>1, FrameTracks DEF LapInv
  <2>2. CASE ~wasConnected BY <1>4, <2>2 DEF Frame, LapInv
  <2> QED BY <2>1, <2>2
<1>5. CASE monitorConnectionStatus
  <2>1. CASE resetState /\ NothingSeen
    BY <2>1, NothingSeenIsUnseen DEF resetState, Nobody, LapInv, Fresh
  <2>2. CASE ~isConnected BY <1>5, <2>2 DEF monitorConnectionStatus, LapInv
  <2>3. CASE wasConnected /\ isConnected
    BY <1>1, <1>5, <2>3 DEF monitorConnectionStatus, simVars, TypeOK
  <2> QED BY <1>5, <2>1, <2>2, <2>3 DEF monitorConnectionStatus, TypeOK
<1>6. Disconnect \/ UpdateDrivers \/ NoFrame
        => UNCHANGED <<laps, time, wasConnected, history>>
  BY DEF Disconnect, UpdateDrivers, NoFrame, simVars
<1> QED BY <1>1, <1>2, <1>3, <1>4, <1>5, <1>6 DEF Next, vars, simVars

(* A car has a lap time exactly when the frames since the program saw the  *)
(* connection show two crossings of the line in this session, the one      *)
(* between its last two, for any number of cars that come and go anywhere  *)
(* on the track and sessions of any length.                                *)
THEOREM LapsHold == Spec => []LapsTrue
<1>1. Init => LapInv BY DEF Init, LapInv
<1>2. TypeOK /\ LapInv /\ [Next]_vars => LapInv' BY LapStep
<1>3. TypeOK /\ LapInv => LapsTrue
  <2> SUFFICES ASSUME TypeOK, LapInv, wasConnected, gLastTime = time, NEW c \in Cars
               PROVE  /\ Times(gLapStartTime[c], line[c])
                      /\ gLapTime[c] = None <=> lineBefore[c] = None
                      /\ gLapTime[c] # None =>
                           /\ Times(gLapTime[c].start, lineBefore[c])
                           /\ gLapTime[c].end = gLapStartTime[c]
    BY DEF LapsTrue
  <2>1. time \in Nat BY Bounds DEF TypeOK
  <2>2. Known(c) BY <2>1 DEF LapInv, Fresh, SessionChanged, Tracked
  <2> QED BY <2>2 DEF Known
<1> QED BY <1>1, <1>2, <1>3, TypeCorrect, PTL DEF Spec
=============================================================================
