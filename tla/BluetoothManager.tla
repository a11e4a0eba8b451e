-------------------------- MODULE BluetoothManager --------------------------
(***************************************************************************)
(* The head unit's Bluetooth manager (bluetooth_manager.cpp) with the      *)
(* player it drives, BlueZ behind D-Bus, and the phones.  Everything of    *)
(* the head unit runs in the GUI thread: one handler at a time, with D-Bus *)
(* calls that block it and BlueZ's signals queued for it.                  *)
(*                                                                         *)
(* Phones are numbers in the order in which BlueZ lists their paths.  The  *)
(* list of saved devices is left out: saving and removing is always        *)
(* possible and only decides whether a phone can be made the favourite, so *)
(* any phone of Favourites can.                                            *)
(***************************************************************************)
EXTENDS BluetoothAudioPlayer, Integers, Sequences, FiniteSetsExt

CONSTANTS
    Favourites,     \* the phones the driver may mark as favourite
    MaxAttempts,    \* MAX_RECONNECT_ATTEMPTS
    MaxEvents       \* bound: owner changes of BlueZ not yet delivered

ASSUME PhonesAreOrdered == Phone \subseteq Nat /\ Favourites \subseteq Phone
ASSUME BoundsAreNumbers == MaxAttempts \in Nat \ {0} /\ MaxEvents \in Nat \ {0}

VARIABLES
    \* the manager
    available, powered, broadcasting,
    autoReconnect, preferred,       \* both kept in the settings file
    reconnectTimer, attempts,
    startShot,          \* the single shot of loadSavedDevices is pending
    device,             \* connectedDeviceAddress_ and connectedDevicePath_
    agentRegistered,    \* BlueZ knows the agent of initializeAgent
    \* BlueZ and the phones
    bluez, adapter,
    linked,             \* the phones that are paired and connected
    players,            \* those whose music player BlueZ exports
    ownerEvents,        \* owner changes on their way to the service watcher
    modeEvent,          \* a host mode change is on its way to the manager
    unseen              \* history: since the last such notice a call of the
                        \* manager failed, or BlueZ stopped or started

managerVars == <<available, powered, broadcasting, autoReconnect, preferred,
                 reconnectTimer, attempts, startShot, device, agentRegistered>>
reconnectVars == <<autoReconnect, preferred, reconnectTimer, attempts, startShot>>
phoneVars == <<linked, players>>
bluezVars == <<bluez, ownerEvents, agentRegistered>>
adapterVars == <<adapter, modeEvent, unseen>>

vars == <<playerVars, managerVars, bluez, adapter, phoneVars, ownerEvents,
          modeEvent, unseen>>

TypeOK ==
    /\ PlayerTypeOK
    /\ available \in BOOLEAN /\ powered \in BOOLEAN /\ broadcasting \in BOOLEAN
    /\ autoReconnect \in BOOLEAN
    /\ preferred \in Favourites \cup {None}
    /\ reconnectTimer \in BOOLEAN
    /\ attempts \in 0..MaxAttempts
    /\ startShot \in BOOLEAN
    /\ device \in Phone \cup {None}
    /\ agentRegistered \in BOOLEAN
    /\ bluez \in {"up", "down"}
    /\ adapter \in {"off", "connectable", "discoverable"}
    /\ linked \subseteq Phone /\ players \subseteq linked
    /\ ownerEvents \in Seq({"stopped", "started"})
    /\ Len(ownerEvents) <= MaxEvents
    /\ modeEvent \in BOOLEAN /\ unseen \in BOOLEAN

Init ==
    /\ PlayerStart
    /\ bluez \in {"up", "down"}
    /\ adapter \in IF bluez = "up" THEN {"off", "connectable"} ELSE {"off"}
    /\ available = (bluez = "up")
    /\ agentRegistered = available
    /\ powered = (adapter # "off")
    /\ broadcasting = FALSE
    /\ autoReconnect \in BOOLEAN
    /\ preferred \in Favourites \cup {None}
    /\ startShot = (powered /\ autoReconnect /\ preferred # None)
    /\ reconnectTimer = FALSE /\ attempts = 0
    /\ device = None
    /\ linked = {} /\ players = {}
    /\ ownerEvents = <<>>
    /\ modeEvent = FALSE /\ unseen = FALSE

(***************************************************************************)
(* BlueZ and the phones.                                                   *)
(***************************************************************************)
AdapterOn == bluez = "up" /\ adapter # "off"

PhoneConnects(p) ==
    /\ AdapterOn
    /\ p \notin linked
    /\ linked' = linked \cup {p}
    /\ UNCHANGED <<playerVars, managerVars, bluez, adapter, players,
                   ownerEvents, modeEvent, unseen>>

PhoneLeaves(p) ==
    /\ p \in linked
    /\ linked' = linked \ {p}
    /\ players' = players \ {p}
    /\ UNCHANGED <<playerVars, managerVars, bluez, adapter, ownerEvents,
                   modeEvent, unseen>>

\* The phone's music app appears on the bus, or goes.
PlayerAppears(p) ==
    /\ p \in linked \ players
    /\ players' = players \cup {p}
    /\ UNCHANGED <<playerVars, managerVars, bluez, adapter, linked,
                   ownerEvents, modeEvent, unseen>>

\* bluetoothd stops: its objects are gone and nothing it knew of the adapter
\* is announced; the watcher of the player hears of it.
BlueZGone ==
    /\ bluez = "up"
    /\ Len(ownerEvents) < MaxEvents
    /\ bluez' = "down"
    /\ adapter' = "off"
    /\ linked' = {} /\ players' = {}
    /\ agentRegistered' = FALSE
    /\ ownerEvents' = Append(ownerEvents, "stopped")
    /\ unseen' = TRUE
    /\ modeEvent' = FALSE

BlueZStops ==
    /\ BlueZGone
    /\ UNCHANGED <<playerVars, available, powered, broadcasting, reconnectVars,
                   device>>

BlueZStarts ==
    /\ bluez = "down"
    /\ Len(ownerEvents) < MaxEvents
    /\ bluez' = "up"
    /\ adapter' \in {"off", "connectable"}
    /\ ownerEvents' = Append(ownerEvents, "started")
    /\ unseen' = TRUE
    /\ UNCHANGED <<playerVars, managerVars, phoneVars, modeEvent>>

\* Another program (bluetoothctl) switches the adapter.
OtherProgramSwitches(mode) ==
    /\ bluez = "up"
    /\ mode # adapter
    /\ adapter' = mode
    /\ modeEvent' = TRUE
    /\ linked' = IF mode = "off" THEN {} ELSE linked
    /\ players' = IF mode = "off" THEN {} ELSE players
    /\ UNCHANGED <<playerVars, managerVars, bluez, ownerEvents, unseen>>

(***************************************************************************)
(* The manager's switches.  "ok" is whether BlueZ carries out the call: it *)
(* cannot when it is down.                                                 *)
(***************************************************************************)
Switch(mode, ok) ==
    /\ ok => bluez = "up"
    /\ adapter' = IF ok THEN mode ELSE adapter
    /\ modeEvent' = (modeEvent \/ (ok /\ mode # adapter))
    /\ unseen' = (unseen \/ (~ok /\ mode # adapter))

\* Set Discoverable: without an answer the code returns, even when BlueZ
\* did what it was asked.
StartBroadcasting ==
    /\ available /\ powered /\ ~broadcasting
    /\ adapter # "off"
    /\ Switch("discoverable", TRUE)
    /\ broadcasting' \in BOOLEAN
    /\ UNCHANGED <<playerVars, available, powered, reconnectVars, device,
                   bluezVars, phoneVars>>

\* stopBroadcasting: the flag is cleared whether or not the call succeeds.
StopBroadcasting ==
    /\ broadcasting
    /\ broadcasting' = FALSE
    /\ \E ok \in BOOLEAN :
          /\ ok => powered /\ adapter # "off"
          /\ Switch(IF adapter = "off" THEN "off" ELSE "connectable", ok)
    /\ UNCHANGED <<playerVars, available, powered, reconnectVars, device,
                   bluezVars, phoneVars>>

\* handlePairingFinished: a paired phone is trusted and broadcasting stops.
HandlePairingFinished ==
    /\ AdapterOn
    /\ StopBroadcasting

\* Mutant: the phone is forgotten and the player is not told.
ForgetUntold ==
    /\ device' = None
    /\ UNCHANGED playerVars

\* The connected phone is asked to go; the answer is not waited for in the
\* state, which is cleared in any case.
ForgetDevice ==
    /\ device' = None
    /\ IF device = None THEN UNCHANGED playerVars ELSE SetConnectedDevice(None)

DisconnectDevice ==
    /\ device # None
    /\ ForgetDevice
    /\ \E ok \in BOOLEAN :
          /\ ok => bluez = "up"
          /\ linked' = IF ok THEN linked \ {device} ELSE linked
          /\ players' = IF ok THEN players \ {device} ELSE players
    /\ UNCHANGED <<available, powered, broadcasting, reconnectVars, bluezVars,
                   adapterVars>>

\* setBluetoothPowered(true): shown as on whatever the adapter did.
PowerOn ==
    /\ available /\ ~powered
    /\ powered' = TRUE
    /\ \E ok \in BOOLEAN : Switch("connectable", ok)
    /\ UNCHANGED <<playerVars, available, broadcasting, reconnectVars, device,
                   bluezVars, phoneVars>>

\* setBluetoothPowered(false): broadcasting and the phone are stopped first.
PowerOff ==
    /\ available /\ powered
    /\ powered' = FALSE /\ broadcasting' = FALSE
    /\ ForgetDevice
    /\ \E ok \in BOOLEAN :
          /\ Switch("off", ok)
          /\ linked' = IF ok THEN {} ELSE linked
          /\ players' = IF ok THEN {} ELSE players
    /\ UNCHANGED <<available, reconnectVars, bluezVars>>

\* Mutant: a host mode that is not discoverable leaves the switch as it was.
HandlePowerOnly ==
    /\ modeEvent
    /\ modeEvent' = FALSE /\ unseen' = FALSE
    /\ powered' = (adapter # "off")
    /\ broadcasting' = (broadcasting \/ adapter = "discoverable")
    /\ UNCHANGED <<playerVars, available, reconnectVars, device, bluezVars,
                   adapter, phoneVars>>

\* hostModeStateChanged is delivered, with the adapter's mode of now.
HandleHostModeChanged ==
    /\ modeEvent
    /\ modeEvent' = FALSE /\ unseen' = FALSE
    /\ powered' = (adapter # "off")
    /\ broadcasting' = (adapter = "discoverable")
    /\ UNCHANGED <<playerVars, available, reconnectVars, device, bluezVars,
                   adapter, phoneVars>>

(***************************************************************************)
(* The check every two seconds: it takes the first phone BlueZ lists as    *)
(* paired and connected.                                                   *)
(***************************************************************************)
FirstLinked == IF linked = {} THEN None ELSE Min(linked)

\* Mutant: a phone is adopted only when the last one was seen to leave.
AdoptWhenFree(found) ==
    \/ /\ found # None /\ device = None
       /\ device' = found
       /\ SetConnectedDevice(found)
       /\ UNCHANGED reconnectVars
    \/ /\ found = None /\ device # None
       /\ device' = None
       /\ SetConnectedDevice(None)
       /\ UNCHANGED reconnectVars

CheckForNewConnections(found) ==
    \/ /\ found # None /\ found # device
       /\ device' = found
       /\ SetConnectedDevice(found)
       /\ UNCHANGED reconnectVars
    \/ /\ found = None /\ device # None
       /\ device' = None
       /\ SetConnectedDevice(None)
       /\ IF autoReconnect /\ device = preferred
          THEN attempts' = 0 /\ reconnectTimer' = TRUE
          ELSE UNCHANGED <<attempts, reconnectTimer>>
       /\ UNCHANGED <<autoReconnect, preferred, startShot>>

\* A query that fails (BlueZ is down) leaves everything as it was.
CheckConnectionStatus ==
    /\ available
    /\ bluez = "up"
    /\ CheckForNewConnections(FirstLinked)
    /\ UNCHANGED <<available, powered, broadcasting, bluezVars, adapterVars,
                   phoneVars>>

\* BlueZ stops after it listed the objects and before it answered for the
\* phone: a phone that cannot be read counts as not connected.
CheckCutShort ==
    /\ available
    /\ BlueZGone
    /\ CheckForNewConnections(None)
    /\ UNCHANGED <<available, powered, broadcasting>>

(***************************************************************************)
(* Reconnecting to the preferred phone: every five seconds while the timer *)
(* runs, and once after the start.                                         *)
(***************************************************************************)
\* Mutant: the timer goes on when the attempts are spent.
CountAnew(left) == attempts' = left /\ UNCHANGED reconnectTimer

GiveUp(left) == reconnectTimer' = FALSE /\ attempts' = left

\* Mutant: the attempts are counted and never compared.
AttemptUnlimited ==
    /\ autoReconnect /\ preferred # None /\ device = None
    /\ attempts' = attempts + 1
    /\ UNCHANGED <<reconnectTimer, linked>>

AttemptAutoReconnect ==
    \/ /\ ~autoReconnect \/ preferred = None
       /\ GiveUp(attempts)
       /\ UNCHANGED linked
    \/ /\ autoReconnect /\ preferred # None
       /\ device # None \/ attempts >= MaxAttempts
       /\ GiveUp(0)
       /\ UNCHANGED linked
    \/ /\ autoReconnect /\ preferred # None
       /\ device = None /\ attempts < MaxAttempts
       /\ attempts' = attempts + 1
       /\ linked' \in {linked} \cup
                      {linked \cup {p} : p \in {q \in {preferred} : AdapterOn}}
       /\ UNCHANGED reconnectTimer

ReconnectTick ==
    /\ reconnectTimer
    /\ AttemptAutoReconnect
    /\ UNCHANGED <<playerVars, available, powered, broadcasting, autoReconnect,
                   preferred, startShot, device, bluezVars, adapterVars, players>>

StartShot ==
    /\ startShot
    /\ startShot' = FALSE
    /\ AttemptAutoReconnect
    /\ UNCHANGED <<playerVars, available, powered, broadcasting, autoReconnect,
                   preferred, device, bluezVars, adapterVars, players>>

SetAutoReconnect(enabled) ==
    /\ autoReconnect # enabled
    /\ autoReconnect' = enabled
    /\ IF enabled /\ device = None /\ preferred # None
       THEN reconnectTimer' = TRUE /\ UNCHANGED attempts
       ELSE GiveUp(0)
    /\ UNCHANGED <<playerVars, available, powered, broadcasting, preferred,
                   startShot, device, bluezVars, adapterVars, phoneVars>>

\* setDeviceFavorite of a saved phone makes it the preferred one.
SetDeviceFavorite(p) ==
    /\ preferred # p
    /\ preferred' = p
    /\ UNCHANGED <<playerVars, available, powered, broadcasting, autoReconnect,
                   reconnectTimer, attempts, startShot, device, bluezVars,
                   adapterVars, phoneVars>>

(***************************************************************************)
(* The player's own events.                                                *)
(***************************************************************************)
Discover ==
    /\ bluez = "up"
    /\ DiscoverMediaPlayer(players)
    /\ UNCHANGED <<managerVars, bluez, ownerEvents, adapterVars, phoneVars>>

DiscoverCutShort ==
    /\ DiscoverInvalid(players)
    /\ BlueZGone
    /\ UNCHANGED <<available, powered, broadcasting, reconnectVars, device>>

DeliverOwnerEvent ==
    /\ ownerEvents # <<>>
    /\ BlueZServiceOwnerChanged(Head(ownerEvents))
    /\ ownerEvents' = Tail(ownerEvents)
    /\ UNCHANGED <<managerVars, bluez, adapterVars, phoneVars>>

(***************************************************************************)
(* The head unit dies and is started again.  Only the settings survive; an *)
(* adapter is found only if BlueZ is up, and never looked for again.  One  *)
(* that is on is made connectable: a call that may fail, or be announced.  *)
(***************************************************************************)
Restart ==
    /\ PlayerRestart
    /\ available' = (bluez = "up")
    /\ agentRegistered' = available'
    /\ powered' = AdapterOn
    /\ \E ok \in BOOLEAN :
          /\ adapter' = IF AdapterOn /\ ok THEN "connectable" ELSE adapter
          /\ modeEvent' = (adapter' # adapter)
          /\ unseen' = (adapter' = "discoverable")
    /\ startShot' = (powered' /\ autoReconnect /\ preferred # None)
    /\ broadcasting' = FALSE
    /\ reconnectTimer' = FALSE /\ attempts' = 0
    /\ device' = None
    /\ ownerEvents' = <<>>
    /\ UNCHANGED <<autoReconnect, preferred, bluez, phoneVars>>

Surroundings ==
    \/ \E p \in Phone : PhoneConnects(p) \/ PhoneLeaves(p) \/ PlayerAppears(p)
    \/ BlueZStops \/ BlueZStarts
    \/ \E mode \in {"off", "connectable", "discoverable"} :
          OtherProgramSwitches(mode)

Handlers ==
    \/ StartBroadcasting \/ StopBroadcasting \/ HandlePairingFinished
    \/ DisconnectDevice \/ PowerOn \/ PowerOff \/ HandleHostModeChanged
    \/ CheckConnectionStatus \/ CheckCutShort
    \/ ReconnectTick \/ StartShot
    \/ \E enabled \in BOOLEAN : SetAutoReconnect(enabled)
    \/ \E p \in Favourites : SetDeviceFavorite(p)
    \/ DiscoverCutShort \/ DeliverOwnerEvent

Next == Surroundings \/ Handlers \/ Discover \/ Restart

\* The three timers of the GUI thread go on firing and its queue is served.
Fairness ==
    /\ WF_vars(CheckConnectionStatus)
    /\ WF_vars(ReconnectTick)
    /\ WF_vars(Discover)
    /\ WF_vars(DeliverOwnerEvent)

Spec == Init /\ [][Next]_vars /\ Fairness

(***************************************************************************)
(* Properties.                                                             *)
(***************************************************************************)

\* The music page never controls another phone than the one shown as
\* connected: the player has the manager's phone, or none.  It has none while
\* the manager has one only after BlueZ stopped under this head unit: the
\* player hears of the stop, the manager only looks at what it lists later.
PlayerFollowsManager ==
    \/ devicePath = device
    \/ devicePath = None /\ ~agentRegistered

\* The controls the music page has are those of the phone that is set,
\* whatever phones came before it; and while it has none for that phone it is
\* still looking for them, unless the end of BlueZ, which takes the phone
\* away, is already on its way.
ControlsMatchPhone ==
    /\ mediaPlayerInterface # None =>
          mediaPlayerInterface = devicePath /\ mediaPlayerPath = devicePath
    /\ devicePath # None =>
          \/ mediaPlayerInterface = devicePath
          \/ discoveryTimer
          \/ \E i \in 1..Len(ownerEvents) : ownerEvents[i] = "stopped"

\* The page's switches say what the adapter does, once the notices under way
\* are delivered: a head unit that can be seen by every phone nearby while it
\* shows "not broadcasting" had a call fail or BlueZ restarted since.
SwitchesMatchAdapter ==
    ~modeEvent /\ ~unseen =>
        /\ powered = (adapter # "off")
        /\ broadcasting = (adapter = "discoverable")

Present(p) == bluez = "up" /\ FirstLinked = p /\ p \in players

\* A phone that stays connected with its music app open is adopted, again
\* after each time the driver or a restart let it go, if the head unit found
\* the adapter when it started; and while it is the one shown its controls
\* are found.  Two cases are excluded because the code never leaves them: the
\* player lost its phone to a restart of BlueZ the manager did not notice, or
\* still remembers a player found before the phones changed places.
PhoneServed ==
    \A p \in Phone :
        /\ <>[]Present(p) => []<>(device = p \/ ~available)
        /\ <>[](Present(p) /\ device = p)
              => <>[](\/ mediaPlayerInterface = p
                     \/ devicePath = None
                     \/ mediaPlayerPath # None)

\* A series of reconnect attempts ends: a phone is connected, or the timer
\* stops, however often the driver switches reconnecting off and on.
ReconnectGivesUp == reconnectTimer ~> (~reconnectTimer \/ device # None)
=============================================================================
