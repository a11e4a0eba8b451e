---------------------------- MODULE MCMqttBridge ----------------------------
(* Two commands, so that one can be refused while the other's job runs or  *)
(* start over HTTP; two releases, so that one can be told from a repeated  *)
(* announcement of the other.                                              *)
EXTENDS MqttBridge

CONSTANTS c1, c2, r1, r2

MCCommands == {c1, c2}
MCReleases == {r1, r2}
=============================================================================
