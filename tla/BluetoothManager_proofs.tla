----------------------- MODULE BluetoothManager_proofs -----------------------
(***************************************************************************)
(* What the music page controls, for any phones, any number of restarts of *)
(* BlueZ and any queue of its notices.  The two properties become          *)
(* inductive with one fact of the queue: while the notice that BlueZ has   *)
(* stopped is on its way, the agent is not registered (StopIsKnown), since *)
(* only a start of the head unit registers it, with an empty queue.  The   *)
(* switches at the end need an invariant of their own.                     *)
(***************************************************************************)
EXTENDS BluetoothManager, WellFoundedInduction, TLAPS

\* Tuples of variables: every proof sees through them.
USE DEF playerVars, managerVars, reconnectVars, phoneVars, bluezVars,
        adapterVars

StopUnderway == \E i \in 1..Len(ownerEvents) : ownerEvents[i] = "stopped"

StopIsKnown == StopUnderway => ~agentRegistered

IInv ==
    TypeOK /\ StopIsKnown /\ PlayerFollowsManager /\ ControlsMatchPhone

-----------------------------------------------------------------------------
\* The phone found by the check is one of those linked.
LEMMA FirstIsLinked ==
    ASSUME linked \subseteq Phone
    PROVE  FirstLinked \in Phone \cup {None}
<1>1. CASE linked = {}
  BY <1>1 DEF FirstLinked
<1>2. CASE linked # {}
  <2>1. linked \subseteq Nat
    BY PhonesAreOrdered
  <2>2. PICK x \in linked : \A y \in linked : <<y, x>> \notin OpToRel(<, Nat)
    BY <1>2, <2>1, NatLessThanWellFounded, WFMin, Zenon
  <2>3. \A y \in linked : x <= y
    <3> SUFFICES ASSUME NEW y \in linked, ~(x <= y) PROVE FALSE
      OBVIOUS
    <3>1. x \in Nat /\ y \in Nat /\ y < x
      BY <2>1
    <3>2. <<y, x>> \in OpToRel(<, Nat)
      BY <3>1, Zenon DEF OpToRel
    <3> QED
      BY <2>2, <3>2, Zenon
  <2>4. Min(linked) \in linked
    BY <2>3 DEF Min
  <2> QED
    BY <1>2, <2>4 DEF FirstLinked
<1> QED
  BY <1>1, <1>2

LEMMA Initially == Init => IInv
<1> SUFFICES ASSUME Init PROVE IInv
  OBVIOUS
<1>1. TypeOK
  <2>1. PlayerTypeOK
    BY DEF Init, PlayerStart, PlayerTypeOK
  <2>2. /\ ownerEvents \in Seq({"stopped", "started"})
        /\ Len(ownerEvents) <= MaxEvents /\ attempts \in 0..MaxAttempts
    BY BoundsAreNumbers DEF Init
  <2>3. /\ adapter \in {"off", "connectable", "discoverable"}
        /\ startShot \in BOOLEAN /\ powered \in BOOLEAN
        /\ available \in BOOLEAN /\ agentRegistered \in BOOLEAN
    BY DEF Init
  <2> QED
    BY <2>1, <2>2, <2>3 DEF Init, TypeOK
<1> QED
  BY <1>1 DEF IInv, Init, PlayerStart, StopIsKnown, StopUnderway,
              PlayerFollowsManager, ControlsMatchPhone

-----------------------------------------------------------------------------
(***************************************************************************)
(* What happens to the player and to the notices.                          *)
(***************************************************************************)
LEMMA Undisturbed ==
    ASSUME IInv, UNCHANGED <<playerVars, device, agentRegistered, ownerEvents>>
    PROVE  StopIsKnown' /\ PlayerFollowsManager' /\ ControlsMatchPhone'
BY DEF IInv, StopIsKnown, StopUnderway, PlayerFollowsManager,
       ControlsMatchPhone

\* The player takes what the manager names; a phone in place of another has
\* no controls yet, and they are looked for.
LEMMA PhoneSet ==
    ASSUME PlayerTypeOK, ControlsMatchPhone,
           NEW p \in Phone \cup {None}, SetConnectedDevice(p),
           StopUnderway => StopUnderway' \/ p = None
    PROVE  PlayerTypeOK' /\ devicePath' = p /\ ControlsMatchPhone'
<1>1. PlayerTypeOK' /\ devicePath' = p
  BY DEF SetConnectedDevice, PlayerTypeOK
<1>2. mediaPlayerInterface' # None =>
          mediaPlayerInterface' = devicePath' /\ mediaPlayerPath' = devicePath'
  BY DEF SetConnectedDevice, ControlsMatchPhone
<1>3. devicePath' # None =>
          \/ mediaPlayerInterface' = devicePath'
          \/ discoveryTimer' \/ StopUnderway'
  BY <1>1 DEF SetConnectedDevice, ControlsMatchPhone, StopUnderway
<1> QED
  BY <1>1, <1>2, <1>3 DEF ControlsMatchPhone, StopUnderway

LEMMA PhoneForgotten ==
    ASSUME IInv, ForgetDevice, UNCHANGED <<agentRegistered, ownerEvents>>
    PROVE  /\ PlayerTypeOK' /\ device' = None
           /\ StopIsKnown' /\ PlayerFollowsManager' /\ ControlsMatchPhone'
<1>1. StopUnderway => StopUnderway'
  BY DEF StopUnderway
<1>2. CASE device = None
  BY <1>2 DEF IInv, TypeOK, PlayerTypeOK, ForgetDevice, StopIsKnown,
              StopUnderway, PlayerFollowsManager, ControlsMatchPhone
<1>3. CASE device # None
  <2>1. PlayerTypeOK' /\ devicePath' = None /\ ControlsMatchPhone'
    BY <1>1, <1>3, PhoneSet DEF ForgetDevice, IInv, TypeOK
  <2> QED
    BY <2>1 DEF ForgetDevice, IInv, StopIsKnown, StopUnderway,
                PlayerFollowsManager
<1> QED
  BY <1>2, <1>3

\* The end of BlueZ: its notice is the last in the queue.
LEMMA StopNoticed ==
    ASSUME IInv, BlueZGone
    PROVE  /\ ownerEvents' \in Seq({"stopped", "started"})
           /\ Len(ownerEvents') <= MaxEvents
           /\ StopUnderway' /\ StopIsKnown' /\ ~agentRegistered'
<1>1. ownerEvents' = Append(ownerEvents, "stopped")
  BY DEF BlueZGone
<1>2. /\ ownerEvents \in Seq({"stopped", "started"})
      /\ Len(ownerEvents) < MaxEvents /\ MaxEvents \in Nat
  BY BoundsAreNumbers DEF BlueZGone, IInv, TypeOK
<1>3. /\ ownerEvents' \in Seq({"stopped", "started"})
      /\ Len(ownerEvents') <= MaxEvents
  BY <1>1, <1>2
<1>4. /\ Len(ownerEvents') \in 1..Len(ownerEvents')
      /\ ownerEvents'[Len(ownerEvents')] = "stopped"
  BY <1>1, <1>2
<1> QED
  BY <1>3, <1>4 DEF StopUnderway, StopIsKnown, BlueZGone

LEMMA Checked ==
    ASSUME IInv, NEW found \in Phone \cup {None}, CheckForNewConnections(found),
           StopUnderway => StopUnderway'
    PROVE  /\ PlayerTypeOK' /\ ControlsMatchPhone'
           /\ device' = found /\ devicePath' = found
           /\ autoReconnect' \in BOOLEAN /\ reconnectTimer' \in BOOLEAN
           /\ attempts' \in 0..MaxAttempts
           /\ UNCHANGED <<preferred, startShot>>
<1>1. SetConnectedDevice(found) /\ device' = found
  BY DEF CheckForNewConnections
<1>2. PlayerTypeOK' /\ devicePath' = found /\ ControlsMatchPhone'
  BY <1>1, PhoneSet DEF IInv, TypeOK
<1>3. UNCHANGED <<autoReconnect, preferred, startShot>>
  BY DEF CheckForNewConnections
<1>4. \/ UNCHANGED <<attempts, reconnectTimer>>
      \/ attempts' = 0 /\ reconnectTimer' = TRUE
  BY DEF CheckForNewConnections
<1>5. attempts' \in 0..MaxAttempts
  BY <1>4, BoundsAreNumbers DEF IInv, TypeOK
<1>6. reconnectTimer' \in BOOLEAN
  BY <1>4, Zenon DEF IInv, TypeOK
<1> QED
  BY <1>1, <1>2, <1>3, <1>5, <1>6 DEF IInv, TypeOK

-----------------------------------------------------------------------------
(***************************************************************************)
(* Each step keeps the invariant.                                          *)
(***************************************************************************)
LEMMA SurroundingsKeep ==
    ASSUME IInv, Surroundings
    PROVE  IInv'
<1> USE DEF IInv
<1>1. ASSUME NEW p \in Phone,
             PhoneConnects(p) \/ PhoneLeaves(p) \/ PlayerAppears(p)
      PROVE  IInv'
  <2>1. TypeOK'
    BY <1>1 DEF TypeOK, PlayerTypeOK, PhoneConnects, PhoneLeaves, PlayerAppears
  <2> QED
    BY <1>1, <2>1, Undisturbed DEF PhoneConnects, PhoneLeaves, PlayerAppears
<1>2. ASSUME NEW mode \in {"off", "connectable", "discoverable"},
             OtherProgramSwitches(mode)
      PROVE  IInv'
  <2>1. TypeOK'
    BY <1>2 DEF TypeOK, PlayerTypeOK, OtherProgramSwitches
  <2> QED
    BY <1>2, <2>1, Undisturbed DEF OtherProgramSwitches
<1>3. CASE BlueZStops
  <2>1. BlueZGone
    BY <1>3 DEF BlueZStops
  <2>2. TypeOK'
    <3>1. /\ bluez' = "down" /\ adapter' = "off"
          /\ linked' = {} /\ players' = {}
          /\ agentRegistered' = FALSE /\ unseen' = TRUE /\ modeEvent' = FALSE
      BY <2>1 DEF BlueZGone
    <3> QED
      <4>1. UNCHANGED <<playerVars, available, powered, broadcasting,
                        reconnectVars, device>>
        BY <1>3 DEF BlueZStops
      <4>2. /\ ownerEvents' \in Seq({"stopped", "started"})
            /\ Len(ownerEvents') <= MaxEvents
        BY <2>1, StopNoticed
      <4>3. PlayerTypeOK'
        BY <4>1 DEF TypeOK, PlayerTypeOK
      <4>4. available' \in BOOLEAN /\ powered' \in BOOLEAN /\ broadcasting' \in BOOLEAN
        BY <4>1, Zenon DEF TypeOK
      <4> QED
        BY <3>1, <4>1, <4>2, <4>3, <4>4 DEF TypeOK
  <2>3. PlayerFollowsManager' /\ ControlsMatchPhone'
    BY <1>3, <2>1, StopNoticed DEF BlueZStops, PlayerFollowsManager,
       ControlsMatchPhone, StopUnderway
  <2> QED
    BY <2>1, <2>2, <2>3, StopNoticed
<1>4. CASE BlueZStarts
  <2>1. /\ ownerEvents' = Append(ownerEvents, "started")
        /\ Len(ownerEvents) < MaxEvents /\ MaxEvents \in Nat
    BY <1>4, BoundsAreNumbers DEF BlueZStarts
  <2>2. /\ ownerEvents' \in Seq({"stopped", "started"})
        /\ Len(ownerEvents') <= MaxEvents
        /\ StopUnderway <=> StopUnderway'
    BY <2>1 DEF TypeOK, StopUnderway
  <2>3. TypeOK'
    BY <1>4, <2>2 DEF BlueZStarts, TypeOK, PlayerTypeOK
  <2>4. StopIsKnown' /\ PlayerFollowsManager' /\ ControlsMatchPhone'
    BY <1>4, <2>2 DEF BlueZStarts, StopIsKnown, PlayerFollowsManager,
       ControlsMatchPhone, StopUnderway
  <2> QED
    BY <2>3, <2>4
<1> QED
  BY <1>1, <1>2, <1>3, <1>4 DEF Surroundings

LEMMA Switched ==
    ASSUME TypeOK, NEW mode \in {"off", "connectable", "discoverable"},
           NEW ok \in BOOLEAN, Switch(mode, ok)
    PROVE  /\ adapter' \in {"off", "connectable", "discoverable"}
           /\ modeEvent' \in BOOLEAN /\ unseen' \in BOOLEAN
<1>1. adapter' \in {"off", "connectable", "discoverable"}
  BY DEF Switch, TypeOK
<1>2. modeEvent' \in BOOLEAN /\ unseen' \in BOOLEAN
  BY Zenon DEF Switch
<1> QED
  BY <1>1, <1>2

LEMMA SwitchesKeep ==
    ASSUME IInv,
           \/ StartBroadcasting \/ StopBroadcasting \/ HandlePairingFinished
           \/ DisconnectDevice \/ PowerOn \/ PowerOff \/ HandleHostModeChanged
    PROVE  IInv'
<1> USE DEF IInv
<1>1. CASE StartBroadcasting \/ PowerOn
  <2>1. TypeOK'
    <3>1. PICK mode \in {"off", "connectable", "discoverable"}, ok \in BOOLEAN :
              Switch(mode, ok)
      BY <1>1 DEF StartBroadcasting, PowerOn
    <3>2. /\ adapter' \in {"off", "connectable", "discoverable"}
          /\ modeEvent' \in BOOLEAN /\ unseen' \in BOOLEAN
      BY <3>1, Switched
    <3>3. powered' \in BOOLEAN /\ broadcasting' \in BOOLEAN
      BY <1>1 DEF StartBroadcasting, PowerOn, TypeOK
    <3> QED
      BY <1>1, <3>2, <3>3
         DEF TypeOK, PlayerTypeOK, StartBroadcasting, PowerOn
  <2> QED
    BY <1>1, <2>1, Undisturbed DEF StartBroadcasting, PowerOn
<1>2. CASE StopBroadcasting \/ HandlePairingFinished
  <2>1. StopBroadcasting
    BY <1>2 DEF HandlePairingFinished
  <2>2. TypeOK'
    <3>1. PICK mode \in {"off", "connectable", "discoverable"}, ok \in BOOLEAN :
              Switch(mode, ok)
      BY <2>1 DEF StopBroadcasting
    <3>2. /\ adapter' \in {"off", "connectable", "discoverable"}
          /\ modeEvent' \in BOOLEAN /\ unseen' \in BOOLEAN
      BY <3>1, Switched
    <3> QED
      <4>1. /\ broadcasting' = FALSE
            /\ UNCHANGED <<playerVars, available, powered, reconnectVars,
                           device, bluezVars, phoneVars>>
        BY <2>1 DEF StopBroadcasting
      <4>2. PlayerTypeOK'
        BY <4>1 DEF TypeOK, PlayerTypeOK
      <4> QED
        BY <3>2, <4>1, <4>2, Zenon DEF TypeOK
  <2> QED
    BY <2>1, <2>2, Undisturbed DEF StopBroadcasting
<1>3. CASE HandleHostModeChanged
  <2>1. TypeOK'
    <3>1. powered' \in BOOLEAN /\ broadcasting' \in BOOLEAN
      BY <1>3, Zenon DEF HandleHostModeChanged
    <3> QED
      <4>1. /\ modeEvent' = FALSE /\ unseen' = FALSE
            /\ UNCHANGED <<playerVars, available, reconnectVars, device,
                           bluezVars, adapter, phoneVars>>
        BY <1>3 DEF HandleHostModeChanged
      <4>2. PlayerTypeOK'
        BY <4>1 DEF TypeOK, PlayerTypeOK
      <4> QED
        BY <3>1, <4>1, <4>2, Zenon DEF TypeOK
  <2> QED
    BY <1>3, <2>1, Undisturbed DEF HandleHostModeChanged
<1>4. CASE DisconnectDevice \/ PowerOff
  <2>1. ForgetDevice /\ UNCHANGED <<agentRegistered, ownerEvents>>
    BY <1>4 DEF DisconnectDevice, PowerOff
  <2>2. /\ PlayerTypeOK' /\ device' = None
        /\ StopIsKnown' /\ PlayerFollowsManager' /\ ControlsMatchPhone'
    BY <2>1, PhoneForgotten
  <2>3. CASE DisconnectDevice
    <3>1. linked' \subseteq Phone /\ players' \subseteq linked'
      BY <2>3 DEF DisconnectDevice, TypeOK
    <3>2. TypeOK'
      BY <2>2, <2>3, <3>1 DEF TypeOK, DisconnectDevice
    <3> QED
      BY <2>2, <3>2
  <2>4. CASE PowerOff
    <3>1. linked' \subseteq Phone /\ players' \subseteq linked'
      BY <2>4 DEF PowerOff, TypeOK
    <3>2. PICK ok \in BOOLEAN : Switch("off", ok)
      BY <2>4 DEF PowerOff
    <3>3. /\ adapter' \in {"off", "connectable", "discoverable"}
          /\ modeEvent' \in BOOLEAN /\ unseen' \in BOOLEAN
      BY <3>2, Switched
    <3>4. TypeOK'
      BY <2>2, <2>4, <3>1, <3>3 DEF TypeOK, PowerOff
    <3> QED
      BY <2>2, <3>4
  <2> QED
    BY <1>4, <2>3, <2>4
<1> QED
  BY <1>1, <1>2, <1>3, <1>4

LEMMA ReconnectingKeeps ==
    ASSUME IInv,
           \/ ReconnectTick \/ StartShot
           \/ \E enabled \in BOOLEAN : SetAutoReconnect(enabled)
           \/ \E p \in Favourites : SetDeviceFavorite(p)
    PROVE  IInv'
<1> USE DEF IInv
<1>1. CASE ReconnectTick \/ StartShot
  <2>1. AttemptAutoReconnect
    BY <1>1 DEF ReconnectTick, StartShot
  <2>2. /\ attempts' \in 0..MaxAttempts
        /\ reconnectTimer' \in BOOLEAN
        /\ linked' \subseteq Phone /\ players \subseteq linked'
    <3>1. attempts' \in 0..MaxAttempts
      BY <2>1, BoundsAreNumbers DEF AttemptAutoReconnect, GiveUp, TypeOK
    <3>2. reconnectTimer' = FALSE \/ UNCHANGED reconnectTimer
      BY <2>1 DEF AttemptAutoReconnect, GiveUp
    <3>3. preferred = None \/ preferred \in Phone
      BY PhonesAreOrdered DEF TypeOK
    <3>4. \/ UNCHANGED linked
          \/ preferred # None /\ linked' \in {linked, linked \cup {preferred}}
      BY <2>1, Zenon DEF AttemptAutoReconnect
    <3> QED
      BY <3>1, <3>2, <3>3, <3>4 DEF TypeOK
  <2>3. TypeOK'
    <3>1. startShot' \in BOOLEAN
      BY <1>1 DEF ReconnectTick, StartShot, TypeOK
    <3> QED
      BY <1>1, <2>2, <3>1 DEF TypeOK, PlayerTypeOK, ReconnectTick, StartShot
  <2> QED
    BY <1>1, <2>3, Undisturbed DEF ReconnectTick, StartShot
<1>2. ASSUME NEW enabled \in BOOLEAN, SetAutoReconnect(enabled) PROVE IInv'
  <2>1. TypeOK'
    <3>1. attempts' \in 0..MaxAttempts /\ reconnectTimer' \in BOOLEAN
      <4>1. \/ reconnectTimer' = TRUE /\ UNCHANGED attempts
            \/ reconnectTimer' = FALSE /\ attempts' = 0
        BY <1>2 DEF SetAutoReconnect, GiveUp
      <4> QED
        <5>1. attempts' \in 0..MaxAttempts
          BY <4>1, BoundsAreNumbers DEF TypeOK
        <5>2. reconnectTimer' \in BOOLEAN
          BY <4>1, Zenon
        <5> QED
          BY <5>1, <5>2
    <3> QED
      BY <1>2, <3>1 DEF TypeOK, PlayerTypeOK, SetAutoReconnect
  <2> QED
    BY <1>2, <2>1, Undisturbed DEF SetAutoReconnect
<1>3. ASSUME NEW p \in Favourites, SetDeviceFavorite(p) PROVE IInv'
  <2>1. TypeOK'
    BY <1>3 DEF TypeOK, PlayerTypeOK, SetDeviceFavorite
  <2> QED
    BY <1>3, <2>1, Undisturbed DEF SetDeviceFavorite
<1> QED
  BY <1>1, <1>2, <1>3

LEMMA ChecksKeep ==
    ASSUME IInv, CheckConnectionStatus \/ CheckCutShort
    PROVE  IInv'
<1> USE DEF IInv
<1>1. CASE CheckConnectionStatus
  <2>1. /\ CheckForNewConnections(FirstLinked)
        /\ FirstLinked \in Phone \cup {None}
        /\ StopUnderway => StopUnderway'
    BY <1>1, FirstIsLinked DEF CheckConnectionStatus, StopUnderway, TypeOK
  <2>2. TypeOK'
    BY <1>1, <2>1, Checked DEF CheckConnectionStatus, TypeOK
  <2>3. StopIsKnown' /\ PlayerFollowsManager'
    BY <1>1, <2>1, Checked DEF CheckConnectionStatus, StopIsKnown,
       StopUnderway, PlayerFollowsManager
  <2> QED
    BY <2>1, <2>2, <2>3, Checked
<1>2. CASE CheckCutShort
  <2>1. BlueZGone /\ CheckForNewConnections(None) /\ None \in Phone \cup {None}
    BY <1>2 DEF CheckCutShort
  <2>2. StopUnderway => StopUnderway'
    BY <2>1, StopNoticed
  <2>3. TypeOK'
    BY <1>2, <2>1, <2>2, Checked, StopNoticed
       DEF CheckCutShort, BlueZGone, TypeOK
  <2>4. PlayerFollowsManager'
    BY <2>1, <2>2, Checked DEF PlayerFollowsManager
  <2> QED
    BY <2>1, <2>2, <2>3, <2>4, Checked, StopNoticed
<1> QED
  BY <1>1, <1>2

LEMMA PlayerStepsKeep ==
    ASSUME IInv, Discover \/ DiscoverCutShort \/ DeliverOwnerEvent
    PROVE  IInv'
<1> USE DEF IInv
<1>1. CASE Discover
  <2>1. DiscoverMediaPlayer(players)
    BY <1>1 DEF Discover
  <2>2. TypeOK'
    <3>1. devicePath \in Phone /\ discoveryTimer' = FALSE
      BY <2>1 DEF DiscoverMediaPlayer, TypeOK
    <3>2. PlayerTypeOK'
      BY <2>1, <3>1 DEF DiscoverMediaPlayer, TypeOK, PlayerTypeOK
    <3> QED
      BY <1>1, <3>2 DEF Discover, TypeOK
  <2>3. StopIsKnown' /\ PlayerFollowsManager' /\ ControlsMatchPhone'
    BY <1>1, <2>1 DEF Discover, DiscoverMediaPlayer, StopIsKnown, StopUnderway,
       PlayerFollowsManager, ControlsMatchPhone
  <2> QED
    BY <2>2, <2>3
<1>2. CASE DiscoverCutShort
  <2>1. DiscoverInvalid(players) /\ BlueZGone
    BY <1>2 DEF DiscoverCutShort
  <2>2. TypeOK'
    <3>1. /\ bluez' = "down" /\ adapter' = "off"
          /\ linked' = {} /\ players' = {}
          /\ agentRegistered' = FALSE /\ unseen' = TRUE /\ modeEvent' = FALSE
      BY <2>1 DEF BlueZGone
    <3>2. PlayerTypeOK'
      BY <2>1 DEF DiscoverInvalid, TypeOK, PlayerTypeOK
    <3>3. /\ ownerEvents' \in Seq({"stopped", "started"})
          /\ Len(ownerEvents') <= MaxEvents
      BY <2>1, StopNoticed
    <3>4. UNCHANGED <<available, powered, broadcasting, reconnectVars, device>>
      BY <1>2 DEF DiscoverCutShort
    <3> QED
      BY <3>1, <3>2, <3>3, <3>4, ZenonT(30) DEF TypeOK
  <2>3. PlayerFollowsManager' /\ ControlsMatchPhone'
    BY <1>2, <2>1, StopNoticed DEF DiscoverCutShort, DiscoverInvalid,
       PlayerFollowsManager, ControlsMatchPhone, StopUnderway
  <2> QED
    BY <2>1, <2>2, <2>3, StopNoticed
<1>3. CASE DeliverOwnerEvent
  <2>1. /\ ownerEvents # <<>> /\ ownerEvents' = Tail(ownerEvents)
        /\ BlueZServiceOwnerChanged(Head(ownerEvents))
    BY <1>3 DEF DeliverOwnerEvent
  <2>2. /\ Len(ownerEvents) \in Nat \ {0}
        /\ Len(ownerEvents') = Len(ownerEvents) - 1
        /\ \A i \in 1..Len(ownerEvents') : ownerEvents'[i] = ownerEvents[i + 1]
        /\ Head(ownerEvents) = ownerEvents[1]
        /\ ownerEvents' \in Seq({"stopped", "started"})
        /\ Len(ownerEvents') <= MaxEvents
    BY <2>1, BoundsAreNumbers DEF TypeOK
  <2>3. StopUnderway' => StopUnderway
    BY <2>2 DEF StopUnderway
  <2>4. StopIsKnown'
    BY <1>3, <2>3 DEF DeliverOwnerEvent, StopIsKnown
  <2>5. CASE Head(ownerEvents) = "stopped"
    <3>1. SetConnectedDevice(None) /\ StopUnderway
      BY <2>1, <2>2, <2>5 DEF BlueZServiceOwnerChanged, StopUnderway
    <3>2. PlayerTypeOK' /\ devicePath' = None /\ ControlsMatchPhone'
      BY <3>1, PhoneSet DEF TypeOK
    <3>3. TypeOK'
      BY <1>3, <2>2, <3>2 DEF DeliverOwnerEvent, TypeOK
    <3>4. PlayerFollowsManager'
      BY <1>3, <3>1, <3>2
         DEF DeliverOwnerEvent, PlayerFollowsManager, StopIsKnown
    <3> QED
      BY <2>4, <3>2, <3>3, <3>4
  <2>6. CASE Head(ownerEvents) # "stopped"
    <3>1. UNCHANGED playerVars
      BY <2>1, <2>6 DEF BlueZServiceOwnerChanged
    <3>2. StopUnderway => StopUnderway'
      <4> SUFFICES ASSUME NEW i \in 1..Len(ownerEvents),
                          ownerEvents[i] = "stopped"
                   PROVE  StopUnderway'
        BY DEF StopUnderway
      <4>1. i - 1 \in 1..Len(ownerEvents') /\ ownerEvents'[i - 1] = "stopped"
        BY <2>2, <2>6
      <4> QED
        BY <4>1 DEF StopUnderway
    <3>3. TypeOK'
      BY <1>3, <2>2, <3>1 DEF DeliverOwnerEvent, TypeOK, PlayerTypeOK
    <3>4. PlayerFollowsManager' /\ ControlsMatchPhone'
      BY <1>3, <3>1, <3>2 DEF DeliverOwnerEvent, PlayerFollowsManager,
         ControlsMatchPhone, StopUnderway
    <3> QED
      BY <2>4, <3>3, <3>4
  <2> QED
    BY <2>5, <2>6
<1> QED
  BY <1>1, <1>2, <1>3

LEMMA RestartKeeps ==
    ASSUME IInv, Restart
    PROVE  IInv'
<1>1. PlayerTypeOK' /\ ownerEvents' = <<>>
  BY DEF Restart, PlayerRestart, PlayerTypeOK
<1>2. /\ ownerEvents' \in Seq({"stopped", "started"})
      /\ Len(ownerEvents') <= MaxEvents /\ attempts' \in 0..MaxAttempts
  BY <1>1, BoundsAreNumbers DEF Restart
<1>3. /\ available' \in BOOLEAN /\ agentRegistered' \in BOOLEAN
      /\ powered' \in BOOLEAN /\ startShot' \in BOOLEAN
      /\ adapter' \in {"off", "connectable", "discoverable"}
  BY DEF Restart, AdapterOn, IInv, TypeOK
<1>4. TypeOK'
  BY <1>1, <1>2, <1>3 DEF Restart, IInv, TypeOK
<1> QED
  BY <1>1, <1>4 DEF IInv, Restart, PlayerRestart, StopIsKnown, StopUnderway,
                   PlayerFollowsManager, ControlsMatchPhone

LEMMA StepKeeps == IInv /\ [Next]_vars => IInv'
<1> SUFFICES ASSUME IInv, [Next]_vars PROVE IInv'
  OBVIOUS
<1>1. CASE UNCHANGED vars
  <2>1. TypeOK'
    BY <1>1 DEF IInv, TypeOK, PlayerTypeOK, vars
  <2> QED
    BY <1>1, <2>1, Undisturbed DEF IInv, vars
<1> QED
  BY <1>1, SurroundingsKeep, SwitchesKeep, ReconnectingKeeps, ChecksKeep,
     PlayerStepsKeep, RestartKeeps DEF Next, Handlers

-----------------------------------------------------------------------------
\* Every variable of the manager, the player and BlueZ stays in its range; the
\* attempts counted never exceed MAX_RECONNECT_ATTEMPTS.
THEOREM ManagerTyped == Spec => []TypeOK
<1>1. IInv => TypeOK
  BY DEF IInv
<1> QED
  BY <1>1, Initially, StepKeeps, PTL DEF Spec

\* The player has the manager's phone or none (setConnectedDevice), wherever
\* checks, restarts of BlueZ and their notices meet.
THEOREM FollowsTheManager == Spec => []PlayerFollowsManager
<1>1. IInv => PlayerFollowsManager
  BY DEF IInv
<1> QED
  BY <1>1, Initially, StepKeeps, PTL DEF Spec

\* The controls are those of the phone that is set, and while there are none
\* the player looks for them or the end of BlueZ is on its way.
THEOREM ControlsThePhone == Spec => []ControlsMatchPhone
<1>1. IInv => ControlsMatchPhone
  BY DEF IInv
<1> QED
  BY <1>1, Initially, StepKeeps, PTL DEF Spec

-----------------------------------------------------------------------------
(***************************************************************************)
(* The page's two switches and the adapter.                                *)
(***************************************************************************)
\* SwitchesMatchAdapter, and that a BlueZ that is down has no adapter that is
\* on: a head unit that starts then shows it as off.
SwitchInv ==
    /\ bluez = "down" => adapter = "off"
    /\ ~modeEvent /\ ~unseen =>
          /\ powered <=> adapter # "off"
          /\ broadcasting <=> adapter = "discoverable"

\* A call either happens, and is announced if it changes anything, or fails,
\* and is counted as unseen.
LEMMA SwitchAnnounced ==
    ASSUME NEW mode, NEW ok \in BOOLEAN, Switch(mode, ok)
    PROVE  /\ adapter' = adapter \/ (adapter' = mode /\ bluez = "up")
           /\ modeEvent \/ unseen => modeEvent' \/ unseen'
           /\ ~modeEvent' /\ ~unseen' => adapter' = adapter /\ adapter = mode
<1>1. /\ modeEvent' <=> modeEvent \/ (ok /\ mode # adapter)
      /\ unseen' <=> unseen \/ (~ok /\ mode # adapter)
  BY Zenon DEF Switch
<1> QED
  BY <1>1 DEF Switch

LEMMA SwitchStep ==
    ASSUME TypeOK, SwitchInv, [Next]_vars
    PROVE  SwitchInv'
<1> USE DEF TypeOK, SwitchInv
<1>1. CASE \E p \in Phone : PhoneConnects(p) \/ PhoneLeaves(p) \/ PlayerAppears(p)
  BY <1>1 DEF PhoneConnects, PhoneLeaves, PlayerAppears
<1>2. CASE BlueZStops \/ CheckCutShort \/ DiscoverCutShort
  BY <1>2 DEF BlueZStops, CheckCutShort, DiscoverCutShort, BlueZGone
<1>3. CASE BlueZStarts
  BY <1>3 DEF BlueZStarts
<1>4. CASE \E mode \in {"off", "connectable", "discoverable"} : OtherProgramSwitches(mode)
  BY <1>4 DEF OtherProgramSwitches
<1>5. CASE StartBroadcasting
  BY <1>5, SwitchAnnounced DEF StartBroadcasting
<1>6. CASE StopBroadcasting \/ HandlePairingFinished
  BY <1>6, SwitchAnnounced DEF StopBroadcasting, HandlePairingFinished
<1>7. CASE DisconnectDevice
  BY <1>7 DEF DisconnectDevice
<1>8. CASE PowerOn
  BY <1>8, SwitchAnnounced DEF PowerOn
<1>9. CASE PowerOff
  BY <1>9, SwitchAnnounced DEF PowerOff
<1>10. CASE HandleHostModeChanged
  BY <1>10 DEF HandleHostModeChanged
<1>11. CASE CheckConnectionStatus
  BY <1>11 DEF CheckConnectionStatus
<1>12. CASE ReconnectTick \/ StartShot
  BY <1>12 DEF ReconnectTick, StartShot
<1>13. CASE \E enabled \in BOOLEAN : SetAutoReconnect(enabled)
  BY <1>13 DEF SetAutoReconnect
<1>14. CASE \E p \in Favourites : SetDeviceFavorite(p)
  BY <1>14 DEF SetDeviceFavorite
<1>15. CASE Discover \/ DeliverOwnerEvent
  BY <1>15 DEF Discover, DeliverOwnerEvent
<1>16. CASE Restart
  BY <1>16 DEF Restart, AdapterOn
<1>17. CASE UNCHANGED vars
  BY <1>17 DEF vars
<1> QED
  BY <1>1, <1>2, <1>3, <1>4, <1>5, <1>6, <1>7, <1>8, <1>9, <1>10, <1>11, <1>12, <1>13, <1>14, <1>15, <1>16, <1>17
     DEF Next, Surroundings, Handlers

\* With no notice under way, and no call failed or BlueZ restarted since, the
\* page's switches show what the adapter does.
THEOREM SwitchesAreTrue == Spec => []SwitchesMatchAdapter
<1>1. Init => SwitchInv
  BY DEF Init, SwitchInv
<1>2. IInv /\ SwitchInv /\ [Next]_vars => SwitchInv'
  BY SwitchStep DEF IInv
<1>3. TypeOK /\ SwitchInv => SwitchesMatchAdapter
  BY DEF TypeOK, SwitchInv, SwitchesMatchAdapter
<1>4. IInv => TypeOK
  BY DEF IInv
<1> QED
  BY Initially, StepKeeps, <1>1, <1>2, <1>3, <1>4, PTL DEF Spec
=============================================================================
