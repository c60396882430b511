-------------------------- MODULE MCRunnableThread --------------------------
(* RunnableThread with three controllers, for model checking.              *)
EXTENDS RunnableThread

CONSTANTS c1, c2, c3
MCControllers == {c1, c2, c3}
=============================================================================
