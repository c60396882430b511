----------------------------- MODULE LapTiming ------------------------------
(***************************************************************************)
(* The lap timing program (lapTiming.cpp): run() waits for a frame, times  *)
(* the laps of all cars and keeps a table of drivers, then looks at the    *)
(* connection.                                                             *)
(*                                                                         *)
(* LiveClient appears by what it hands out: a frame, or none, and whether  *)
(* the session info changed with it.  A lap is divided in three: the first *)
(* tenth, the last tenth and what lies between.  The time of a crossing is *)
(* kept as the two frames it is interpolated between.                      *)
(*                                                                         *)
(* Assumptions: between two frames no car passes a whole tenth of a lap;   *)
(* the connection goes between two frames, not while one is processed, and *)
(* comes back only after the program saw it gone; the first frame of a new *)
(* session is at an earlier SessionTime than the last one seen.            *)
(***************************************************************************)
EXTENDS Integers, SequencesExt

CONSTANTS
    NumCars,      \* kMaxCars
    DriverLists,  \* driverInfo.drivers, by carIdx
    MaxTime,      \* bound: frames in a session
    MaxSessions,  \* bound: sessions
    None          \* -1 for times, zeros for an entry of the table

Cars == 0 .. NumCars - 1
FirstTenth == 0
LastTenth == 2
Away == -1      \* LapDistPct of a car that is not in the world

ASSUME TimingAssumption ==
    /\ NumCars \in Nat \ {0} /\ DriverLists \subseteq Seq(Cars)
    /\ MaxTime \in Nat /\ MaxSessions \in Nat
    /\ LET Crossings == [session : Nat, from : Int, to : Nat]
       IN  None \notin Crossings \cup [start : Crossings, end : Crossings]
    /\ None \notin [place : Int, at : Nat]

VARIABLES
    \* the simulator, as LiveClient shows it
    isConnected, session, time,
    pos,       \* each car's LapDistPct
    drivers, connection,
    wasUpdated,   \* the next frame comes with changed session info
    \* the program
    pc, wasConnected,
    gLastTime, gLastDistPct, gLapStartTime, gLapTime,
    gDriverTableTable,
    \* history: of each car, by the frames of this session that came after
    \* monitorConnectionStatus saw the connection
    sight,     \* where and when it was seen last
    line,      \* its last crossing: from its last sight before the line to
               \* the first after it
    lineBefore \* and the one before

simVars == <<isConnected, session, time, pos, drivers, connection, wasUpdated>>
laps == <<gLastTime, gLastDistPct, gLapStartTime, gLapTime>>
history == <<sight, line, lineBefore>>
vars == <<simVars, pc, wasConnected, laps, gDriverTableTable, history>>

Nobody == [c \in Cars |-> None]
NothingSeen == sight' = Nobody /\ line' = Nobody /\ lineBefore' = Nobody
Zero == [session |-> 0, from |-> 0, to |-> 0]

(* {-1} initialises the first element of each array, the others are 0.     *)
Init ==
    /\ isConnected = FALSE /\ session = 0 /\ time = 0
    /\ pos = [c \in Cars |-> Away] /\ drivers = <<>> /\ connection = 0
    /\ wasUpdated = FALSE
    /\ pc = "wait" /\ wasConnected = FALSE
    /\ gLastTime = -1
    /\ gLastDistPct = [c \in Cars |-> IF c = 0 THEN Away ELSE FirstTenth]
    /\ gLapStartTime = [c \in Cars |-> IF c = 0 THEN None ELSE Zero]
    /\ gLapTime = [c \in Cars |-> IF c = 0 THEN None ELSE [start |-> Zero, end |-> Zero]]
    /\ gDriverTableTable = Nobody
    /\ sight = Nobody /\ line = Nobody /\ lineBefore = Nobody

-----------------------------------------------------------------------------
(* The simulator (external).                                               *)

Connect ==
    /\ ~isConnected /\ ~wasConnected /\ session < MaxSessions
    /\ isConnected' = TRUE /\ session' = session + 1 /\ connection' = session + 1
    /\ time' \in 0 .. MaxTime - 1
    /\ pos' \in [Cars -> {Away, FirstTenth, LastTenth}]
    /\ drivers' \in DriverLists /\ wasUpdated' = TRUE
    /\ NothingSeen
    /\ UNCHANGED <<pc, wasConnected, laps, gDriverTableTable>>

Disconnect ==
    /\ isConnected /\ isConnected' = FALSE
    /\ UNCHANGED <<session, time, pos, drivers, connection, wasUpdated>>
    /\ UNCHANGED <<pc, wasConnected, laps, gDriverTableTable, history>>

NewSession ==
    /\ isConnected /\ session < MaxSessions /\ gLastTime # 0 /\ gLastTime # 1
    /\ session' = session + 1 /\ time' = 0
    /\ pos' \in [Cars -> {Away, FirstTenth, LastTenth}]
    /\ NothingSeen
    /\ UNCHANGED <<isConnected, drivers, connection, wasUpdated>>
    /\ UNCHANGED <<pc, wasConnected, laps, gDriverTableTable>>

UpdateDrivers ==
    /\ isConnected /\ drivers' \in DriverLists \ {drivers} /\ wasUpdated' = TRUE
    /\ UNCHANGED <<isConnected, session, time, pos, connection>>
    /\ UNCHANGED <<pc, wasConnected, laps, gDriverTableTable, history>>

(* A car stays, drives on, leaves the world or comes into it anywhere.     *)
Moves(p) ==
    CASE p = Away -> {Away, FirstTenth, 1, LastTenth}
      [] p = LastTenth -> {LastTenth, FirstTenth, Away}
      [] OTHER    -> {p, p + 1, Away}

(* What a frame shows that the last one did not.                           *)
Drive ==
    /\ isConnected /\ time < MaxTime /\ time' = time + 1
    /\ pos' \in {p \in [Cars -> {Away, FirstTenth, 1, LastTenth}] : \A c \in Cars : p[c] \in Moves(pos[c])}
    /\ LET over(c) == sight[c] # None /\ sight[c].place = LastTenth /\ pos'[c] = FirstTenth
       IN  /\ line' = [c \in Cars |-> IF over(c)
                         THEN [session |-> session, from |-> sight[c].at, to |-> time'] ELSE line[c]]
           /\ lineBefore' = [c \in Cars |-> IF over(c) THEN line[c] ELSE lineBefore[c]]
    /\ sight' = [c \in Cars |-> IF pos'[c] = Away THEN sight[c]
                                ELSE [place |-> pos'[c], at |-> time']]
    /\ UNCHANGED <<isConnected, session, drivers, connection>>

-----------------------------------------------------------------------------
(* The program.                                                            *)

(* Mutant: no carIdx is skipped.                                           *)
UpdateAllDrivers ==
    [i \in Cars |->
        IF i < Len(drivers) THEN [carIdx |-> drivers[i + 1], connection |-> connection]
        ELSE gDriverTableTable[i]]

(* updateDriverInfo: the i-th driver into the i-th entry, unless its       *)
(* carIdx is 0.                                                            *)
updateDriverInfo ==
    [i \in Cars |->
        IF i < Len(drivers) /\ drivers[i + 1] # 0
          THEN [carIdx |-> drivers[i + 1], connection |-> connection]
          ELSE gDriverTableTable[i]]

(* Mutant: a car in the first tenth has crossed whatever it did before.    *)
CrossedAnyhow(last, cur) == last # FirstTenth /\ cur = FirstTenth

(* gLastDistPct > 0.9 and curDistPct < 0.1, not -1                         *)
Crossed(last, cur) == last = LastTenth /\ cur = FirstTenth

(* processLapInfo at the frame of the next state.                          *)
processLapInfo ==
    LET newSession == gLastTime > time'
        last  == [c \in Cars |-> IF newSession THEN Away ELSE gLastDistPct[c]]
        start == IF newSession THEN Nobody ELSE gLapStartTime
        lap   == IF newSession THEN Nobody ELSE gLapTime
        over  == {c \in Cars : Crossed(last[c], pos'[c])}
        now   == [session |-> session, from |-> gLastTime, to |-> time']
    IN  /\ gLapTime' = [c \in Cars |-> IF c \in over /\ start[c] # None
                          THEN [start |-> start[c], end |-> now] ELSE lap[c]]
        /\ gLapStartTime' = [c \in Cars |-> IF c \in over THEN now ELSE start[c]]
        /\ gLastDistPct' = [c \in Cars |-> IF pos'[c] = Away THEN last[c] ELSE pos'[c]]
        /\ gLastTime' = time'

(* run() with a frame; the simulator moved on since the last one.          *)
Frame ==
    /\ pc = "wait" /\ Drive /\ processLapInfo
    /\ gDriverTableTable' = IF wasUpdated THEN updateDriverInfo ELSE gDriverTableTable
    /\ wasUpdated' = FALSE /\ pc' = "monitor"
    /\ UNCHANGED wasConnected

NoFrame ==
    /\ pc = "wait" /\ pc' = "monitor"
    /\ UNCHANGED <<simVars, wasConnected, laps, gDriverTableTable, history>>

(* Mutant: a new connection resets the lap times only.                     *)
ResetLaps ==
    /\ gLastTime' = -1 /\ gLastDistPct' = [c \in Cars |-> Away]
    /\ gLapStartTime' = Nobody /\ gLapTime' = Nobody
    /\ UNCHANGED gDriverTableTable

(* resetState(true)                                                        *)
resetState ==
    /\ gLastTime' = -1 /\ gLastDistPct' = [c \in Cars |-> Away]
    /\ gLapStartTime' = Nobody /\ gLapTime' = Nobody
    /\ gDriverTableTable' = Nobody

monitorConnectionStatus ==
    /\ pc = "monitor" /\ pc' = "wait" /\ wasConnected' = isConnected
    /\ \/ isConnected /\ ~wasConnected /\ resetState /\ NothingSeen
       \/ ~(isConnected /\ ~wasConnected) /\ UNCHANGED <<laps, gDriverTableTable, history>>
    /\ UNCHANGED simVars

-----------------------------------------------------------------------------
Next ==
    \/ Connect \/ Disconnect \/ NewSession \/ UpdateDrivers
    \/ Frame \/ NoFrame \/ monitorConnectionStatus

Spec == Init /\ [][Next]_vars
-----------------------------------------------------------------------------
Crossing == [session : 0 .. MaxSessions, from : -1 .. MaxTime, to : 0 .. MaxTime]
Place == {Away, FirstTenth, 1, LastTenth}
Sight == [place : Place \ {Away}, at : 0 .. MaxTime]

(* Every variable stays in its type.                                       *)
TypeOK ==
    /\ isConnected \in BOOLEAN /\ wasConnected \in BOOLEAN /\ wasUpdated \in BOOLEAN
    /\ session \in 0 .. MaxSessions /\ connection \in 0 .. MaxSessions
    /\ time \in 0 .. MaxTime /\ drivers \in DriverLists \cup {<<>>}
    /\ pos \in [Cars -> Place] /\ pc \in {"wait", "monitor"}
    /\ gLastTime \in -1 .. MaxTime /\ gLastDistPct \in [Cars -> Place]
    /\ \A c \in Cars :
         /\ {gLapStartTime[c], line[c], lineBefore[c]} \subseteq Crossing \cup {None}
         /\ sight[c] \in Sight \cup {None}
         /\ gLapTime[c] \in [start : Crossing, end : Crossing] \cup {None}
         /\ gDriverTableTable[c] = None \/ gDriverTableTable[c].carIdx \in Cars \ {0}

(* The time the program has of a crossing lies between the frames it       *)
(* happened between; and it has one exactly when there was a crossing.     *)
Times(start, crossing) ==
    IF crossing = None THEN start = None
    ELSE /\ start # None
         /\ start.session = crossing.session /\ start.to = crossing.to
         /\ crossing.from <= start.from /\ start.from < start.to

(* While connected, a car has a start time exactly when the frames since   *)
(* the program saw the connection show that it has crossed the line in     *)
(* this session, and a lap time exactly when they show two crossings: the  *)
(* one between its last two.  None of them is missed or counted twice, and *)
(* nothing is left of an earlier session or connection.  The time of a     *)
(* crossing is between the car's last sight before the line and its first  *)
(* after it; they are two frames in a row, and the time exact to a frame,  *)
(* unless the car was out of the world in between.                         *)
LapsTrue ==
    pc = "wait" /\ wasConnected /\ gLastTime = time =>
      \A c \in Cars :
        /\ Times(gLapStartTime[c], line[c])
        /\ gLapTime[c] = None <=> lineBefore[c] = None
        /\ gLapTime[c] # None =>
             Times(gLapTime[c].start, lineBefore[c]) /\ gLapTime[c].end = gLapStartTime[c]

(* While connected, the table names no driver of an earlier connection.    *)
TableOfConnection ==
    pc = "wait" /\ wasConnected =>
      \A c \in Cars : gDriverTableTable[c] # None => gDriverTableTable[c].connection = connection
=============================================================================
