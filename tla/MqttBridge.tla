------------------------------ MODULE MqttBridge ------------------------------
(***************************************************************************)
(* The MQTT side of the OTA backend (main.py): paho's thread, which calls  *)
(* the handlers of connection, disconnection and messages one at a time,   *)
(* the worker of each update job, which tells the server its status, the   *)
(* heartbeat thread and the HTTP thread that asks for an update.  What     *)
(* they publish goes through paho's queue, which outlives a dropped link   *)
(* but not the process.  OtaBackend has a job's steps in full; here a job  *)
(* is its phase and what it tells.                                         *)
(*                                                                         *)
(* Before each publish the device measures its network, which takes        *)
(* seconds: whoever publishes has read the state that long before.         *)
(***************************************************************************)
EXTENDS Naturals, Sequences, Functions

CONSTANTS
  Commands,          \* the update commands, each with a version of its own
  Releases,          \* what the server may announce
  HeartbeatAlways,   \* mqtt_presence_heartbeat_after_announce switched off
  RebootConfigs,     \* the values of reboot_after_apply to consider
  None,
  MaxInbox, MaxOut,  \* bounds: messages underway to and from the device
  MaxDrops, MaxRestarts  \* bounds: dropped links, restarts of the service

Status == {"downloading", "installing", "completed", "failed"}
Telling == [status : Status, command : Commands]
Register == [status |-> "register", command |-> None]
Begun(c) == [status |-> "begun", command |-> c]

ASSUME MqttBridgeAssumption ==
  /\ HeartbeatAlways \in BOOLEAN
  /\ RebootConfigs \subseteq BOOLEAN /\ RebootConfigs # {}
  /\ None \notin Commands \cup Releases
  /\ None \notin Telling \cup {Begun(c) : c \in Commands}
  /\ Commands \cap Releases = {}
  /\ MaxInbox \in Nat /\ MaxOut \in Nat
  /\ MaxDrops \in Nat /\ MaxRestarts \in Nat

VARIABLES
  link,       \* does the broker hold a session with the device?
  connected,  \* self.connected
  will,       \* is the broker to publish the last will ("offline")?
  inbox,      \* messages of the session the handlers have not come to
  out,        \* paho's queue of publishes
  mqtt,       \* what _on_message is about to publish, once it has measured
  heartbeat,  \* "asleep", or "measuring" for the register it will publish
  presence,   \* self._presence_announced
  offer,      \* state.available_release_id
  active,     \* state.phase in ACTIVE_PHASES
  worker,     \* where each command's worker thread is
  rebootAfterApply,  \* reboot_after_apply of the configuration
  offline,    \* does the server have the will as the last it offline?
  announced,  \* history: the server's last announcement, None when a dead
              \* session or process lost it
  outcome,    \* history: the last status told by the worker of the last job;
              \* begun before its first, None once a refusal or a dead
              \* session may come between
  told,       \* history: the last status the server got, kept with outcome
  drops, restarts  \* history: dropped links, restarts so far

session == <<link, connected, will>>
publishers == <<mqtt, heartbeat>>
story == <<outcome, told>>
jobs == <<active, worker, rebootAfterApply, story>>
faults == <<drops, restarts>>
vars == <<session, inbox, out, publishers, presence, offer, jobs, offline,
          announced, faults>>

Stage == {"idle", "start", "fetch", "apply", "installed", "commit",
          "committed", "rebooting", "fail", "clear"}

TypeOK ==
  /\ link \in BOOLEAN /\ connected \in BOOLEAN /\ will \in BOOLEAN
  /\ link => connected /\ ~will
  /\ inbox \in Seq(Commands \cup Releases) /\ Len(inbox) <= MaxInbox
  /\ ~link => inbox = <<>>
  /\ out \in Seq(Telling \cup {Register})
  /\ mqtt \in Telling \cup {None, Register}
  /\ heartbeat \in {"asleep", "measuring"}
  /\ presence \in BOOLEAN /\ active \in BOOLEAN
  /\ offer \in Releases \cup {None}
  /\ worker \in [Commands -> Stage]
  /\ offline \in BOOLEAN
  /\ announced \in Releases \cup {None}
  /\ outcome \in Telling \cup {None} \cup {Begun(c) : c \in Commands}
  /\ told \in Telling \cup {None}
  /\ outcome = None => told = None
  /\ rebootAfterApply \in RebootConfigs
  /\ drops \in 0..MaxDrops /\ restarts \in 0..MaxRestarts

Init ==
  /\ link = FALSE /\ connected = FALSE /\ will = FALSE
  /\ inbox = <<>> /\ out = <<>>
  /\ mqtt = None /\ heartbeat = "asleep"
  /\ presence = FALSE /\ offer = None
  /\ active = FALSE /\ worker = [c \in Commands |-> "idle"]
  /\ offline = FALSE
  /\ announced = None
  /\ outcome = None /\ told = None
  /\ rebootAfterApply \in RebootConfigs
  /\ drops = 0 /\ restarts = 0

-----------------------------------------------------------------------------
(***************************************************************************)
(* The server and the broker, outside this repository.                     *)
(***************************************************************************)
Announce(r) ==
  /\ Len(inbox) < MaxInbox
  /\ announced' = IF link THEN r ELSE None
  /\ inbox' = IF link THEN Append(inbox, r) ELSE inbox
  /\ UNCHANGED <<session, out, publishers, presence, offer, jobs, offline,
                 faults>>

SendCommand(c) ==
  /\ link /\ Len(inbox) < MaxInbox
  /\ inbox' = Append(inbox, c)
  /\ UNCHANGED <<session, out, publishers, presence, offer, jobs, offline,
                 announced, faults>>

\* The broker has the next publish and passes it on.
Deliver ==
  /\ link /\ out # <<>>
  /\ out' = Tail(out)
  /\ offline' = FALSE
  /\ told' = IF outcome = None \/ Head(out) = Register THEN told ELSE Head(out)
  /\ UNCHANGED <<session, inbox, publishers, presence, offer, active, worker,
                 rebootAfterApply, outcome, announced, faults>>

\* From here on a status may be lost, or come from another than the job.
Mixed == outcome' = None /\ told' = None

\* The session is clean: what the device had not handled is lost with it.
LinkDrops ==
  /\ link /\ drops < MaxDrops
  /\ link' = FALSE /\ will' = TRUE /\ drops' = drops + 1
  /\ inbox' = <<>>
  /\ announced' = IF Range(inbox) \cap Releases = {} THEN announced ELSE None
  /\ Mixed
  /\ UNCHANGED <<connected, out, publishers, presence, offer, active, worker,
                 rebootAfterApply, offline, restarts>>

\* After one and a half keepalives, or when the device calls again.
WillSent ==
  /\ will
  /\ will' = FALSE
  /\ offline' = TRUE
  /\ UNCHANGED <<link, connected, inbox, out, publishers, presence, offer,
                 jobs, announced, faults>>

-----------------------------------------------------------------------------
(***************************************************************************)
(* MQTTCommandBridge, on paho's thread.  A handler that publishes measures *)
(* first, and no other callback runs until it returns.                     *)
(***************************************************************************)

\* paho's queue has no limit; nothing new begins while MaxOut wait in it.
Room == connected => Len(out) < MaxOut

\* _publish queues when the flag is set, and says whether it could.
Publish(m) == out' = IF connected THEN Append(out, m) ELSE out

\* publish_register: a register that was queued makes the device known.
PublishRegister ==
  /\ Publish(Register)
  /\ presence' \in IF ~connected THEN {presence}
                   ELSE IF link THEN {TRUE} ELSE {presence, TRUE}

\* Mutation: subscribed, and the flag left as _on_disconnect left it.
OnConnectUnflagged ==
  /\ ~link /\ ~connected /\ ~will /\ mqtt = None
  /\ link' = TRUE
  /\ UNCHANGED <<connected, will, inbox, out, publishers, presence, offer,
                 jobs, offline, announced, faults>>

OnConnect ==
  /\ ~link /\ ~connected /\ ~will /\ mqtt = None
  /\ link' = TRUE /\ connected' = TRUE
  /\ UNCHANGED <<will, inbox, out, publishers, presence, offer, jobs, offline,
                 announced, faults>>

\* Mutation: each connection is a new acquaintance.
OnDisconnectForgets ==
  /\ connected /\ ~link /\ mqtt = None
  /\ connected' = FALSE /\ presence' = FALSE
  /\ UNCHANGED <<link, will, inbox, out, publishers, offer, jobs, offline,
                 announced, faults>>

OnDisconnect ==
  /\ connected /\ ~link /\ mqtt = None
  /\ connected' = FALSE
  /\ UNCHANGED <<link, will, inbox, out, publishers, presence, offer, jobs,
                 offline, announced, faults>>

\* Mutation: whatever comes within ten seconds of another is dropped.
MayDropAny(r) == offer # None

\* _handle_release_announce: the same release within ten seconds is dropped.
MayDrop(r) == r = offer

OnAnnounce ==
  /\ Room /\ mqtt = None /\ inbox # <<>> /\ Head(inbox) \in Releases
  /\ inbox' = Tail(inbox)
  /\ \/ MayDrop(Head(inbox)) /\ UNCHANGED <<offer, mqtt>>
     \/ offer' = Head(inbox) /\ mqtt' = Register
  /\ UNCHANGED <<session, out, heartbeat, presence, jobs, offline, announced,
                 faults>>

\* _start_ota_job: refused while a job is active, or for want of a thread.
Refused(c) == mqtt' = [status |-> "failed", command |-> c]

Accepted(c) ==
  /\ ~active /\ worker[c] = "idle"
  /\ active' = TRUE
  /\ worker' = [worker EXCEPT ![c] = "start"]
  /\ outcome' = IF link /\ mqtt \in {None, Register} THEN Begun(c) ELSE None
  /\ told' = None

OnCommand ==
  /\ Room /\ mqtt = None /\ inbox # <<>> /\ Head(inbox) \in Commands
  /\ inbox' = Tail(inbox)
  /\ \/ /\ Accepted(Head(inbox))
        /\ presence' = TRUE /\ UNCHANGED mqtt
     \/ /\ Refused(Head(inbox))
        /\ Mixed /\ UNCHANGED <<active, worker, presence>>
  /\ UNCHANGED <<session, out, heartbeat, offer, rebootAfterApply,
                 offline, announced, faults>>

\* The handler has measured; it publishes and returns.
Handled ==
  /\ mqtt # None
  /\ mqtt' = None
  /\ IF mqtt = Register THEN PublishRegister
     ELSE Publish(mqtt) /\ UNCHANGED presence
  /\ UNCHANGED <<session, inbox, heartbeat, offer, jobs, offline,
                 announced, faults>>

-----------------------------------------------------------------------------
(***************************************************************************)
(* The HTTP thread: a job started there, and the driver's request.         *)
(***************************************************************************)
StartByHttp(c) ==
  /\ Accepted(c)
  /\ UNCHANGED <<session, inbox, out, publishers, presence, offer,
                 rebootAfterApply, offline, announced, faults>>

\* 503 when there is no connection; what it publishes repeats the offer.
RequestUpdate ==
  /\ Room /\ connected
  /\ PublishRegister
  /\ UNCHANGED <<session, inbox, publishers, offer, jobs, offline, announced,
                 faults>>

-----------------------------------------------------------------------------
(***************************************************************************)
(* The heartbeat.  It looks before it measures, not after.                 *)
(***************************************************************************)
ShouldBeat == connected /\ (HeartbeatAlways \/ presence) /\ ~active

HeartbeatWakes ==
  /\ Room /\ heartbeat = "asleep" /\ ShouldBeat
  /\ heartbeat' = "measuring"
  /\ UNCHANGED <<session, inbox, out, mqtt, presence, offer, jobs,
                 offline, announced, faults>>

HeartbeatBeats ==
  /\ heartbeat = "measuring"
  /\ heartbeat' = "asleep"
  /\ PublishRegister
  /\ UNCHANGED <<session, inbox, mqtt, offer, jobs, offline, announced,
                 faults>>

-----------------------------------------------------------------------------
(***************************************************************************)
(* A worker.  It tells the server where it is; told while disconnected,    *)
(* that is lost, and no later message repeats it.                          *)
(***************************************************************************)
Goto(c, stage) == worker' = [worker EXCEPT ![c] = stage]

Tells(c, status, stage) ==
  /\ Room
  /\ LET m == [status |-> status, command |-> c] IN
       /\ Publish(m)
       /\ outcome' = IF outcome # None /\ outcome.command = c THEN m ELSE outcome
  /\ Goto(c, stage)

Silent(c, stage) == Goto(c, stage) /\ UNCHANGED <<outcome, out>>

\* Mutation: the phase is cleared before the failure is told.
RunClearsFirst(c) ==
  /\ \/ worker[c] = "start" /\ Tells(c, "downloading", "fetch")
        /\ UNCHANGED active
     \/ worker[c] = "fetch" /\ Silent(c, "fail") /\ active' = FALSE
     \/ worker[c] = "fail" /\ Tells(c, "failed", "idle") /\ UNCHANGED active
  /\ UNCHANGED <<session, inbox, publishers, presence, offer, told,
                 rebootAfterApply, offline, announced, faults>>

\* The stages that write an event go to "fail" also when /data is full.  The
\* failure is told only once its own event is written: on a full /data that
\* raises in the except clause, and the thread dies with the phase active.
Run(c) ==
  /\ \/ /\ UNCHANGED active
        /\ \/ worker[c] = "start" /\ Tells(c, "downloading", "fetch")
           \/ worker[c] = "fetch" /\ Tells(c, "installing", "apply")
           \/ worker[c] = "apply" /\ Silent(c, "installed")
           \/ worker[c] = "installed" /\ rebootAfterApply
              /\ Tells(c, "completed", "rebooting")
           \/ worker[c] = "installed" /\ ~rebootAfterApply
              /\ Tells(c, "installing", "commit")
           \/ worker[c] = "commit" /\ Tells(c, "completed", "committed")
           \/ /\ worker[c] \in {"fetch", "apply", "installed", "commit",
                                "committed"}
              /\ Silent(c, "fail")
           \/ worker[c] = "fail" /\ Tells(c, "failed", "clear")
           \/ worker[c] = "fail" /\ Silent(c, "idle")
     \/ worker[c] \in {"committed", "clear"} /\ Silent(c, "idle")
        /\ active' = FALSE
  /\ UNCHANGED <<session, inbox, publishers, presence, offer, told,
                 rebootAfterApply, offline, announced, faults>>

\* systemd restarts the service, or the device reboots.  No "offline" is
\* published by the process itself: nothing calls stop.
Restart ==
  /\ restarts < MaxRestarts
  /\ restarts' = restarts + 1
  /\ link' = FALSE /\ connected' = FALSE /\ will' = (will \/ link)
  /\ inbox' = <<>> /\ out' = <<>> /\ announced' = None
  /\ mqtt' = None /\ heartbeat' = "asleep"
  /\ presence' = FALSE /\ offer' = None
  /\ active' = FALSE /\ worker' = [c \in Commands |-> "idle"]
  /\ Mixed
  /\ UNCHANGED <<rebootAfterApply, offline, drops>>

Next ==
  \/ \E r \in Releases : Announce(r)
  \/ \E c \in Commands : SendCommand(c) \/ StartByHttp(c) \/ Run(c)
  \/ Deliver \/ LinkDrops \/ WillSent
  \/ OnConnect \/ OnDisconnect \/ OnAnnounce \/ OnCommand
  \/ Handled \/ RequestUpdate
  \/ HeartbeatWakes \/ HeartbeatBeats \/ Restart

Spec == Init /\ [][Next]_vars

\* Threads are scheduled and downloads and rauc return; paho reconnects for
\* ever, and a broker that can be reached takes what it is sent.
FairSpec ==
  /\ Spec
  /\ WF_vars(Deliver) /\ WF_vars(WillSent)
  /\ WF_vars(OnConnect) /\ WF_vars(OnDisconnect) /\ WF_vars(Handled)
  /\ WF_vars(HeartbeatWakes) /\ WF_vars(HeartbeatBeats)
  /\ \A c \in Commands : WF_vars(Run(c))

-----------------------------------------------------------------------------
\* The release offered to the driver is the last one the server announced,
\* unless that announcement met a dead session or the process restarted since:
\* the ten second filter drops none but repetitions.
OfferIsLastAnnounced ==
  announced # None
    /\ Range(inbox) \cap Releases = {} =>
  offer = announced

\* When the session held since a job began and no command was refused, the
\* last status the server got is the last the job told: what other threads
\* and earlier jobs tell does not come after it.
OutcomeIsLastTold ==
  outcome \in Telling /\ Range(out) \subseteq {Register} =>
    told = outcome

\* A worker died and left its phase: no job any more, and no heartbeat either.
Wedged == active /\ \A c \in Commands : worker[c] = "idle"

\* A device that has announced itself and is then reported offline is seen
\* again: by its heartbeat once it is back, or by the job it runs.  There are
\* two ways out: a restart or a reboot makes it a stranger, and one whose
\* worker died in its except clause stays silent until somebody restarts it.
SeenAgain ==
  \A n \in 0..MaxRestarts :
    (offline /\ presence /\ restarts = n)
      ~> \/ ~offline \/ restarts > n \/ Wedged
         \/ \E c \in Commands : worker[c] = "rebooting"
=============================================================================
