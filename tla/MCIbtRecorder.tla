--------------------------- MODULE MCIbtRecorder ----------------------------
(* Two lengths of frame; a frame that begins a lap with the time going     *)
(* back, one that goes on in a lap, and one that begins a lap.             *)
EXTENDS IbtRecorder, TLC

F(lap, time) == [lap |-> lap, time |-> time]
MCFrames == {F(0, 1), F(1, 0), F(1, 1)}

Lengths == Permutations(Layouts)
=============================================================================
