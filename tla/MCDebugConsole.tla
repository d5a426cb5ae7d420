--------------------------- MODULE MCDebugConsole ---------------------------
(***************************************************************************)
(* One mode that returns early and one that does not; two spurious wakeups *)
(* in all.  Everything else about the tool is finite already.              *)
(***************************************************************************)
EXTENDS DebugConsole
=============================================================================
