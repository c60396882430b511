---------------------------- MODULE MCLiveClient ----------------------------
(* LiveClient over two buffer lengths, for model checking.                 *)
EXTENDS LiveClient

MCLayouts == {1, 2}
=============================================================================
