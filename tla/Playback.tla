------------------------------ MODULE Playback ------------------------------
(***************************************************************************)
(* What playing back a recording promises: a cursor over its samples.  The *)
(* sample handed out is the one the cursor was at, whole, for as long as   *)
(* the recording holds what its header counts and the cursor has not been  *)
(* put out of step by a look ahead that does not move it, or by reading    *)
(* something else from the same place.                                     *)
(*                                                                         *)
(* DiskClient.tla implements it with a position in a file and a buffer     *)
(* that know nothing of the cursor.                                        *)
(***************************************************************************)
EXTENDS Integers

CONSTANTS
    Count,    \* samples by the header
    Buffers   \* whatever can be handed out: samples, mixtures, nothing

VARIABLES
    open,
    start,    \* where the cursor begins, and no seek goes before
    held,     \* whole samples the recording holds
    cursor,   \* the sample that is next
    sample,   \* the sample handed out last
    inStep    \* no look ahead and no stray since the last seek

vars == <<open, start, held, cursor, sample, inStep>>

(* What is handed out from place i on.                                     *)
Sample(i, step) == IF step /\ i < held THEN {i} ELSE Buffers

Init ==
    /\ open \in BOOLEAN /\ inStep \in BOOLEAN
    /\ held \in 0 .. Count /\ start \in 0 .. Count /\ cursor = start
    /\ sample \in IF open /\ inStep THEN Sample(start - 1, TRUE) ELSE Buffers

Step ==
    /\ open /\ cursor < Count
    /\ sample' \in Sample(cursor, inStep) /\ cursor' = cursor + 1
    /\ UNCHANGED <<open, start, held, inStep>>

LookAhead ==
    /\ open /\ cursor < Count
    /\ sample' \in Sample(cursor, inStep) /\ inStep' = FALSE
    /\ UNCHANGED <<open, start, held, cursor>>

Seek(i) ==
    /\ open /\ inStep' = TRUE
    /\ \/ cursor' = i /\ UNCHANGED sample
       \/ cursor' = i + 1 /\ sample' \in Sample(i, TRUE)
    /\ UNCHANGED <<open, start, held>>

Stray ==
    /\ open /\ inStep' = FALSE
    /\ UNCHANGED <<open, start, held, cursor, sample>>

Close ==
    /\ open /\ open' = FALSE /\ cursor' = 0
    /\ UNCHANGED <<start, held, sample, inStep>>

Next == Step \/ LookAhead \/ (\E i \in start .. Count - 1 : Seek(i)) \/ Stray \/ Close

Spec == Init /\ [][Next]_vars
=============================================================================
