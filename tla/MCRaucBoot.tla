----------------------------- MODULE MCRaucBoot -----------------------------
(***************************************************************************)
(* Instances of RaucBoot for TLC.  The counter starts at the value the     *)
(* scripts use; an install may deliver any kind of rootfs.                 *)
(***************************************************************************)
EXTENDS RaucBoot

MCBootAttempts == 3
MCImages == Image
=============================================================================
