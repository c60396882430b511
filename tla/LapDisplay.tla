----------------------------- MODULE LapDisplay -----------------------------
(***************************************************************************)
(* What the lap timing program prints (lapTiming.cpp, updateDisplay):      *)
(* run() of LapTiming.tla, with the screen that every frame writes after   *)
(* the laps are timed.  The columns of a line are left out but for the     *)
(* ones the program computes itself.                                       *)
(*                                                                         *)
(* A word of flags is the set of its bits that are 1.                      *)
(***************************************************************************)
EXTENDS LapTiming, FiniteSetsExt

CONSTANTS
    FlagWords,   \* the values of SessionFlags
    Heights      \* how many lines the console may have below the status

VARIABLES
    flags,       \* SessionFlags of the frame on the screen
    screen       \* None, or the flags, states and cars on it

(* FlagType: the bit of each flag.                                         *)
FlagBit ==
    [Checkered |-> 0, White |-> 1, Green |-> 2, Yellow |-> 3, Red |-> 4, Blue |-> 5,
     Debris |-> 6, Crossed |-> 7, YellowWaving |-> 8, OneLapToGreen |-> 9, GreenHeld |-> 10,
     TenToGo |-> 11, FiveToGo |-> 12, RandomWaving |-> 13, Caution |-> 14,
     CautionWaving |-> 15, Black |-> 16, Disqualify |-> 17, Serviceable |-> 18,
     Furled |-> 19, Repair |-> 20, StartHidden |-> 28, StartReady |-> 29,
     StartSet |-> 30, StartGo |-> 31]

FlagType == DOMAIN FlagBit

SessionState ==
    <<"Invalid", "GetInCar", "Warmup", "ParadeLap", "Racing", "Checkered", "CoolDown">>

PaceMode ==
    <<"SingleFileStart", "DoubleFileStart", "SingleFileRestart", "DoubleFileRestart:",
      "NotPacing">>

DisplayInit == Init /\ flags = {} /\ screen = None

-----------------------------------------------------------------------------
(* The comparison binds tighter than the &: flag & (bitmask > 0), and true *)
(* is 1, the word whose bit 0 is set.                                      *)
IsFlagSet(bitmask, flag) ==
    LET compared == IF bitmask # {} THEN {0} ELSE {}
    IN  {FlagBit[flag]} \cap compared # {}

printFlags(word) == {flag \in FlagType : IsFlagSet(word, flag)}

(* The lines of the cars that are in the world, as far as the console goes, *)
(* by the index of the car; each takes the entry of the table with that    *)
(* index.                                                                  *)
CarLines(world, maxLines) ==
    LET listed == SetToSortSeq(world, <)
    IN  [k \in 1 .. Min({Len(listed), maxLines}) |->
            [car |-> listed[k], driver |-> gDriverTableTable'[listed[k]],
             lapTime |-> gLapTime'[listed[k]]]]

(* What a frame leaves on the screen.                                      *)
updateDisplay ==
    /\ flags' \in FlagWords
    /\ \E world \in SUBSET {c \in Cars : pos'[c] # Away}, height \in Heights,
          state \in DOMAIN SessionState, mode \in DOMAIN PaceMode :
         screen' = [flags |-> printFlags(flags'), state |-> SessionState[state],
                    mode |-> PaceMode[mode],
                    cars |-> CarLines(world, Min({NumCars, height}))]

run == Frame /\ updateDisplay

DisplayNext ==
    \/ run
    \/ /\ Connect \/ Disconnect \/ NewSession \/ UpdateDrivers \/ NoFrame
          \/ monitorConnectionStatus
       /\ UNCHANGED <<flags, screen>>

DisplaySpec == DisplayInit /\ [][DisplayNext]_<<vars, flags, screen>>
-----------------------------------------------------------------------------
(* The flags on the screen are those that are set in SessionFlags, as      *)
(* IsFlagSet's comment promises for each.                                  *)
FlagsShown ==
    screen # None => screen.flags = {flag \in FlagType : FlagBit[flag] \in flags}
=============================================================================
