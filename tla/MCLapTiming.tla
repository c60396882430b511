---------------------------- MODULE MCLapTiming -----------------------------
(* LapTiming for two cars, of which the second may have a driver.          *)
EXTENDS LapTiming

MCDriverLists == {<<0>>, <<0, 1>>}
=============================================================================
