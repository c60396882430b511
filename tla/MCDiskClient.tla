---------------------------- MODULE MCDiskClient ----------------------------
(* DiskClient for model checking; its constants are numbers.               *)
EXTENDS DiskClient
=============================================================================
