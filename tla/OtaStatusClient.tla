-------------------------- MODULE OtaStatusClient --------------------------
(***************************************************************************)
(* The head unit's client of the OTA backend: one QObject whose handlers   *)
(* all run on the GUI thread, driven by the OTA page (open: it polls), a   *)
(* single-shot poll timer, at most one HTTP request, and the D-Bus signal  *)
(* that announces a release.  The Home screen shows updateAvailable        *)
(* whether or not the page is open.                                        *)
(*                                                                         *)
(* The backend answers a request with what its status is at that moment;   *)
(* the answer arrives later, or not at all: meanwhile the status, and a    *)
(* signal on the bus, may overtake it.                                     *)
(***************************************************************************)
EXTENDS Naturals

CONSTANTS
  Reports,            \* the <<phase, event>> pairs /ota/status is seen to show
  MaxRetryAttempts,   \* kMaxRetryAttempts
  SignalsLost,        \* may the D-Bus signal of an announcement get lost?
  NoReply, Failed, Accepted

Phase == {"Idle", "Download", "Apply", "Reboot", "Commit"}
Event == {"None", "Start", "Ok", "Fail"}
Status == [phase: Phase, event: Event, available: BOOLEAN]

ASSUME OtaStatusClientAssumption ==
  /\ Reports \subseteq Phase \X Event /\ Reports # {}
  /\ MaxRetryAttempts \in Nat \ {0}
  /\ SignalsLost \in BOOLEAN
  /\ NoReply \notin Status /\ Failed \notin Status /\ Accepted \notin Status
  /\ NoReply # Failed /\ NoReply # Accepted /\ Failed # Accepted

VARIABLES
  client,   \* the object's members
  server,   \* what /ota/status would answer now
  reply,    \* the answer on its way to the client
  signal    \* is an UpdateAvailabilityChanged(true) on the bus?

vars == <<client, server, reply, signal>>

Client ==
  [polling: BOOLEAN, timer: BOOLEAN, request: {"none", "status", "update"},
   online: BOOLEAN, phase: Phase \cup {"Unknown"},
   event: Event \cup {"Unknown"},
   otaState: {"Offline", "Idle", "Running", "Success", "Failed"},
   available: BOOLEAN, retries: 0..MaxRetryAttempts,
   error: {"none", "status", "update"}]

TypeOK ==
  /\ client \in Client
  /\ server \in Status
  /\ reply \in Status \cup {NoReply, Failed, Accepted}
  /\ signal \in BOOLEAN

-----------------------------------------------------------------------------
(***************************************************************************)
(* The object's functions: each maps its members to its members.           *)
(***************************************************************************)

StateFrom(phase, event, online) ==
  IF ~online THEN "Offline"
  ELSE IF event = "Fail" THEN "Failed"
  ELSE IF phase \in {"Download", "Apply", "Reboot", "Commit"} THEN "Running"
  ELSE IF event = "Ok" THEN "Success"
  ELSE "Idle"

\* Mutation: only the badge changes, not the state the page shows.
SetOnlineOnly(c, online) == [c EXCEPT !.online = online]

SetOnline(c, online) ==
  IF c.online = online THEN c
  ELSE [c EXCEPT !.online = online,
                 !.otaState = StateFrom(c.phase, c.event, online)]

\* Mutation: the timer is armed whether or not the client is polling.
ScheduleAlways(c) == [c EXCEPT !.timer = TRUE]

ScheduleNextPoll(c) == [c EXCEPT !.timer = @ \/ c.polling]

\* get(/ota/status), post(/ota/request-update): never two requests at once.
Send(c, kind) ==
  IF c.request # "none" THEN c ELSE [c EXCEPT !.request = kind]

\* requestUpdate stops the poll timer: the answer will arm it again.
RequestUpdate(c) == [Send(c, "update") EXCEPT !.timer = FALSE]

StartPolling(c) ==
  IF c.polling THEN c ELSE ScheduleNextPoll([c EXCEPT !.polling = TRUE])

\* Mutation: the count of retries is not capped.
CountOn(retries) == retries + 1

NextRetry(retries) ==
  IF retries < MaxRetryAttempts THEN retries + 1 ELSE MaxRetryAttempts

\* Mutation: the client gives up at the last retry.
GivesUp(c) ==
  LET failed == [SetOnline(c, FALSE) EXCEPT !.error = "status",
                                            !.retries = NextRetry(@)]
  IN IF c.retries < MaxRetryAttempts THEN ScheduleNextPoll(failed) ELSE failed

HandleStatusFailure(c) ==
  ScheduleNextPoll([SetOnline(c, FALSE) EXCEPT !.error = "status",
                                               !.retries = NextRetry(@)])

\* Mutation: the offer is taken from the announcement alone.
UpdateButOffer(c, status) ==
  [c EXCEPT !.phase = status.phase, !.event = status.event,
            !.otaState = StateFrom(status.phase, status.event, TRUE)]

UpdateFromPayload(c, status) ==
  [c EXCEPT !.phase = status.phase, !.event = status.event,
            !.available = status.available,
            !.otaState = StateFrom(status.phase, status.event, TRUE)]

HandleStatus(c, status) ==
  ScheduleNextPoll([SetOnline(UpdateFromPayload(c, status), TRUE)
                      EXCEPT !.retries = 0, !.error = "none"])

\* The end of a POST: its outcome is shown, and polling goes on at once.
\* Mutation: only an accepted request resumes polling.
ResumeIfAccepted(c, result) ==
  IF result = Accepted THEN ScheduleNextPoll([c EXCEPT !.error = "none"])
  ELSE [c EXCEPT !.error = "update"]

HandleUpdateAnswer(c, result) ==
  ScheduleNextPoll(
    [c EXCEPT !.error = IF result = Accepted THEN "none" ELSE "update"])

\* onRequestFinished, for a reply, an error reply or an aborted request.
RequestFinished(c, result) ==
  LET done == [c EXCEPT !.request = "none"]
  IN CASE c.request = "update" -> HandleUpdateAnswer(done, result)
       [] c.request = "status" /\ result = Failed -> HandleStatusFailure(done)
       [] c.request = "status" /\ result # Failed -> HandleStatus(done, result)

(***************************************************************************)
(* stopPolling.  abort() emits finished() before it returns, and polling   *)
(* is still on: the handler takes the abort for a failure, goes offline    *)
(* and arms the timer that was stopped a few lines above.                  *)
(***************************************************************************)
StopPolling(c) ==
  LET stopped == [c EXCEPT !.timer = FALSE]
      aborted == IF c.request = "none" THEN stopped
                 ELSE RequestFinished(stopped, Failed)
  IN [aborted EXCEPT !.retries = 0, !.error = "none", !.polling = FALSE]
-----------------------------------------------------------------------------

Init ==
  /\ client = [polling |-> FALSE, timer |-> FALSE, request |-> "none",
               online |-> FALSE, phase |-> "Unknown", event |-> "Unknown",
               otaState |-> "Offline", available |-> FALSE, retries |-> 0,
               error |-> "none"]
  /\ server = [phase |-> "Idle", event |-> "None", available |-> FALSE]
  /\ reply = NoReply /\ signal = FALSE

world == <<server, signal>>

\* The page is created: it polls; and refreshes too if it was seen to appear.
OpenPage ==
  /\ ~client.polling
  /\ \E appeared \in BOOLEAN :
       client' = IF appeared THEN Send(StartPolling(client), "status")
                 ELSE StartPolling(client)
  /\ UNCHANGED <<reply, world>>

\* The page is popped: what was asked will not be heard.
ClosePage ==
  /\ client.polling
  /\ client' = StopPolling(client)
  /\ reply' = NoReply
  /\ UNCHANGED world

\* The page's button says Update or Refresh, disabled during a request.
PressButton ==
  /\ client.polling /\ client.request = "none"
  /\ client' = IF client.available THEN RequestUpdate(client)
               ELSE Send(client, "status")
  /\ UNCHANGED <<reply, world>>

\* Polling is not looked at here: a timer left armed asks once more.
PollTimer ==
  /\ client.timer
  /\ LET fired == [client EXCEPT !.timer = FALSE]
     IN client' = IF client.request # "none" THEN ScheduleNextPoll(fired)
                  ELSE Send(fired, "status")
  /\ UNCHANGED <<reply, world>>

\* The backend handles the request; a POST fails when MQTT is not connected.
Answer ==
  /\ client.request # "none" /\ reply = NoReply
  /\ IF client.request = "status" THEN reply' = server
     ELSE reply' \in {Accepted, Failed}
  /\ UNCHANGED <<client, world>>

ReplyArrives ==
  /\ reply # NoReply
  /\ client' = RequestFinished(client, reply)
  /\ reply' = NoReply
  /\ UNCHANGED world

\* The request timer fires, the connection is refused, the JSON is broken.
RequestFails ==
  /\ client.request # "none"
  /\ client' = RequestFinished(client, Failed)
  /\ reply' = NoReply
  /\ UNCHANGED world

\* onUpdateAvailabilityChanged: the backend is alive and has an update.
SignalArrives ==
  /\ signal /\ signal' = FALSE
  /\ client' = SetOnline([client EXCEPT !.available = TRUE], TRUE)
  /\ UNCHANGED <<server, reply>>

\* An OTA job of the backend moves on.
ServerMoves ==
  /\ \E report \in Reports :
       server' = [server EXCEPT !.phase = report[1], !.event = report[2]]
  /\ UNCHANGED <<client, reply, signal>>

\* A release is announced over MQTT: never taken back while it lives.
Announce ==
  /\ server' = [server EXCEPT !.available = TRUE]
  /\ signal' \in IF SignalsLost THEN {TRUE, signal} ELSE {TRUE}
  /\ UNCHANGED <<client, reply>>

\* The backend restarts: the offer was in its memory only.
ServerRestarts ==
  /\ server' = [phase |-> "Idle", event |-> "None", available |-> FALSE]
  /\ UNCHANGED <<client, reply, signal>>

Next ==
  \/ OpenPage \/ ClosePage \/ PressButton \/ PollTimer
  \/ Answer \/ ReplyArrives \/ RequestFails \/ SignalArrives
  \/ ServerMoves \/ Announce \/ ServerRestarts

Spec == Init /\ [][Next]_vars

(***************************************************************************)
(* Qt fires an armed timer: pressing Update stops it, but nobody presses   *)
(* within the 0 ms for which it is then armed, for ever.  The request      *)
(* timer bounds every request; the bus delivers what it accepted.  The     *)
(* backend is a local process that systemd restarts: asked for its status  *)
(* again and again it answers, and answers in time.                        *)
(***************************************************************************)
StatusPoll == client.request = "status"

FairSpec ==
  /\ Spec
  /\ SF_vars(PollTimer) /\ WF_vars(ReplyArrives \/ RequestFails)
  /\ WF_vars(SignalArrives)
  /\ SF_vars(StatusPoll /\ Answer) /\ SF_vars(StatusPoll /\ ReplyArrives)

-----------------------------------------------------------------------------
\* While the page is open the client never falls silent: a poll is due or a
\* request is on its way, whatever failed, timed out, or was pressed
\* (requestUpdate stops the timer; every branch of onRequestFinished must
\* arm it again).
PollingAlive == client.polling => client.timer \/ client.request # "none"

\* The state shown is the one that phase, event and connection imply, although
\* it is recomputed in only two of the places that change them.
StateConsistent ==
  client.otaState = StateFrom(client.phase, client.event, client.online)

\* A closed page costs nothing in the end: the poll that stopPolling's abort
\* leaves armed is the last one.
HiddenGoesQuiet ==
  ~client.polling ~>
    client.polling \/ (~client.timer /\ client.request = "none")

\* An update on offer is shown on an open page, even if the D-Bus signal was
\* lost and an answer computed before the announcement overtook it.
OfferShown ==
  client.polling /\ server.available ~>
    client.available \/ ~client.polling \/ ~server.available

\* However many requests failed, an open page finds the backend again.
RecoversOnline == client.polling ~> client.online \/ ~client.polling
=============================================================================
