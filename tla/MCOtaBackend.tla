---------------------------- MODULE MCOtaBackend ----------------------------
(***************************************************************************)
(* Two commands contend for the lock and for the slot; a third, whose      *)
(* signature does not verify, only for the lock.                           *)
(***************************************************************************)
EXTENDS OtaBackend

CONSTANTS c1, c2, c3

MCCommands == {c1, c2, c3}
MCSigned == {c1, c2}
=============================================================================
