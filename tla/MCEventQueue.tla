---------------------------- MODULE MCEventQueue ----------------------------
(***************************************************************************)
(* Three events: one the flusher is posting, one behind it in the batch,   *)
(* and one the worker appends meanwhile.                                   *)
(***************************************************************************)
EXTENDS EventQueue

CONSTANTS e1, e2, e3

MCEvents == {e1, e2, e3}
=============================================================================
