------------------------------- MODULE MCGear -------------------------------
(* Three gears: the one in use, the one asked for, the one pressed. *)
EXTENDS Gear

CONSTANTS N, D, R

MCGears == {N, D, R}
=============================================================================
