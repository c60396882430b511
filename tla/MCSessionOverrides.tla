------------------------- MODULE MCSessionOverrides -------------------------
(* SessionOverrides for model checking; its constants are given directly.  *)
EXTENDS SessionOverrides
=============================================================================
