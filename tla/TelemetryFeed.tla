---------------------------- MODULE TelemetryFeed ----------------------------
(***************************************************************************)
(* What the application may rely on: telemetry frames are handed over      *)
(* whole, in the order they were published, each at most once.  Frames may *)
(* be missed; after a (re)connection everything published before it is.    *)
(* All this until the consumer has been overrun, by a producer that wrote  *)
(* where it was reading.                                                   *)
(***************************************************************************)
EXTENDS Integers

VARIABLES
    n,      \* frames published
    floor,  \* frames up to here are consumed, delivered or given up
    got,    \* the two halves of the last frame delivered
    late    \* a delivery was overrun

vars == <<n, floor, got, late>>

Init == n = 0 /\ floor = 0 /\ got = [lo |-> 0, hi |-> 0] /\ late = FALSE

Publish == n' = n + 1 /\ UNCHANGED <<floor, got, late>>

GiveUp == floor' \in floor + 1 .. n /\ UNCHANGED <<n, got, late>>

Deliver ==
    \E k \in floor + 1 .. n :
        floor' = k /\ got' = [lo |-> k, hi |-> k] /\ UNCHANGED <<n, late>>

(* Something published since the last delivery is used up, whatever comes. *)
Overrun == floor' \in floor + 1 .. n /\ late' = TRUE /\ n' = n

Next == Publish \/ GiveUp \/ Deliver \/ Overrun

Spec == Init /\ [][Next]_vars
=============================================================================
