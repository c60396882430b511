--------------------------- MODULE MCLiveConnection ---------------------------
(* The constants of LiveConnection for TLC are in the .cfg files.          *)
EXTENDS LiveConnection
=============================================================================
