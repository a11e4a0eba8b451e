------------------------ MODULE BluetoothAudioPlayer ------------------------
(***************************************************************************)
(* The head unit's remote control of a phone's music player               *)
(* (bluetooth_audio_player.cpp): which phone it belongs to, the D-Bus      *)
(* object of that phone's player once discovered, and the discovery timer. *)
(* The operators are the class's methods; BluetoothManager calls them.     *)
(*                                                                         *)
(* A player object lives below its phone's path, so it is named by the     *)
(* phone.  Track, status, position, art and volume are data shown on the   *)
(* music page: BluetoothTracks follows whose they are.                     *)
(***************************************************************************)

CONSTANTS Phone, None

ASSUME NoPhoneAssumption == None \notin Phone

VARIABLES
    devicePath,             \* the phone set by the manager, or None
    mediaPlayerPath,        \* the phone whose player object was found, or None
    mediaPlayerInterface,   \* the phone that commands are sent to, or None
    discoveryTimer          \* mediaPlayerDiscoveryTimer_ is running

playerVars == <<devicePath, mediaPlayerPath, mediaPlayerInterface,
                discoveryTimer>>

PlayerTypeOK ==
    /\ devicePath \in Phone \cup {None}
    /\ mediaPlayerPath \in Phone \cup {None}
    /\ mediaPlayerInterface \in Phone \cup {None}
    /\ discoveryTimer \in BOOLEAN

PlayerStart ==
    /\ devicePath = None
    /\ mediaPlayerPath = None
    /\ mediaPlayerInterface = None
    /\ discoveryTimer = FALSE

\* The same after a start of the head unit.
PlayerRestart ==
    /\ devicePath' = None
    /\ mediaPlayerPath' = None
    /\ mediaPlayerInterface' = None
    /\ discoveryTimer' = FALSE

\* Mutant: another phone takes over and the interface of the last one stays.
KeepInterface(p) ==
    /\ devicePath' = p
    /\ discoveryTimer' = (p # None)
    /\ UNCHANGED <<mediaPlayerPath, mediaPlayerInterface>>

(***************************************************************************)
(* The manager names another phone, or none.  The interface and the timer  *)
(* are dropped in both cases; the path that was found is forgotten only    *)
(* when there is no phone any more (resetState), not when another phone    *)
(* takes over.                                                             *)
(***************************************************************************)
SetConnectedDevice(p) ==
    \/ /\ devicePath = p
       /\ UNCHANGED playerVars
    \/ /\ devicePath # p
       /\ devicePath' = p
       /\ mediaPlayerInterface' = None
       /\ discoveryTimer' = (p # None)
       /\ mediaPlayerPath' = IF p = None THEN None ELSE mediaPlayerPath

\* A tick of the discovery timer that finds the phone's player among the
\* players BlueZ lists: the ticks that find nothing change nothing.
DiscoverMediaPlayer(players) ==
    /\ discoveryTimer
    /\ mediaPlayerPath = None
    /\ devicePath \in players
    /\ mediaPlayerPath' = devicePath
    /\ mediaPlayerInterface' = devicePath
    /\ discoveryTimer' = FALSE
    /\ UNCHANGED devicePath

\* The same tick when BlueZ stops after it answered: the new interface is
\* not valid, the path is cleared again, and the timer is already stopped.
DiscoverInvalid(players) ==
    /\ discoveryTimer
    /\ mediaPlayerPath = None
    /\ devicePath \in players
    /\ discoveryTimer' = FALSE
    /\ UNCHANGED <<devicePath, mediaPlayerPath, mediaPlayerInterface>>

\* The service watcher's slot.  When BlueZ is back the code schedules one
\* more discovery if it has a phone, which does what the timer's tick does.
BlueZServiceOwnerChanged(event) ==
    \/ /\ event = "stopped"
       /\ SetConnectedDevice(None)
    \/ /\ event = "started"
       /\ UNCHANGED playerVars
=============================================================================
