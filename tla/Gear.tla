-------------------------------- MODULE Gear --------------------------------
(***************************************************************************)
(* One gear in four places: drive_mode of the controller (which limits the *)
(* throttle), the word in shared memory, gear_ of the cluster's            *)
(* GearManager, and currentGear_ of the head unit.                         *)
(*                                                                         *)
(* The controller writes drive_mode to the word in every loop and never    *)
(* reads it; the cluster reads the word every 300 ms; it signals a change  *)
(* on D-Bus and writes it back; the head unit asks for a gear by D-Bus.    *)
(* The cluster's handlers all run on its GUI thread, the head unit's on    *)
(* its own.  When the controller ends it unlinks the segment; the cluster  *)
(* keeps the one it mapped.                                                *)
(***************************************************************************)
EXTENDS Naturals, Sequences

CONSTANTS
  Gears, Neutral,   \* the gear codes
  MaxPresses,       \* bound on gamepad buttons pressed
  MaxRequests,      \* bound on gears asked for at the head unit
  MaxStarts,        \* bound on starts of the controller
  None              \* no word, no sample, no answer

ASSUME GearAssumption ==
  /\ Neutral \in Gears /\ None \notin Gears
  /\ MaxPresses \in Nat /\ MaxRequests \in Nat /\ MaxStarts \in Nat

VARIABLES
  mode,      \* drive_mode of controller.py
  shm,       \* the segment of that name, and one unlinked but still mapped
  mapped,    \* which of them the cluster has mapped
  cluster,   \* is it running, gear_ and seq_ of its GearManager
  sample,    \* the word its timer has read and not yet passed on
  hu,        \* the head unit: its start, currentGear_ and sequence_
  answer,    \* GetGear's answer
  signals,   \* GearChanged on the way to the head unit
  calls,     \* RequestGear on the way to the cluster
  inputs     \* what was pressed, asked for and started so far

vars == <<mode, shm, mapped, cluster, sample, hu, answer, signals, calls, inputs>>
controller == <<mode, shm>>
display == <<hu, answer>>

Reading == [gear: Gears, seq: Nat]

TypeOK ==
  /\ mode \in Gears
  /\ shm \in [{"live", "dead"} -> Gears \cup {None}]
  /\ mapped \in {"none", "live", "dead"}
  /\ mapped # "none" => shm[mapped] \in Gears
  /\ cluster \in [up: BOOLEAN, gear: Gears, seq: Nat]
  /\ sample \in Gears \cup {None}
  /\ hu \in [stage: {"down", "asked", "answered", "ready"}, gear: Gears, seq: Nat]
  /\ hu.stage = "answered" => answer \in Reading
  /\ signals \in Seq(Reading)
  /\ calls \in Seq(Gears)
  /\ inputs \in [presses: 0..MaxPresses, requests: 0..MaxRequests,
                 starts: 0..MaxStarts]

Init ==
  /\ mode = Neutral
  /\ shm = [s \in {"live", "dead"} |-> None]
  /\ mapped = "none"
  /\ cluster = [up |-> FALSE, gear |-> Neutral, seq |-> 0]
  /\ sample = None
  /\ hu = [stage |-> "down", gear |-> Neutral, seq |-> 0]
  /\ answer = None
  /\ signals = <<>> /\ calls = <<>>
  /\ inputs = [presses |-> 0, requests |-> 0, starts |-> 0]

-----------------------------------------------------------------------------
(* The controller.                                                         *)
Running == shm["live"] # None

\* main: a new segment, neutral before the gamepad is there.
ControllerStarts ==
  /\ ~Running /\ inputs.starts < MaxStarts
  /\ inputs' = [inputs EXCEPT !.starts = @ + 1]
  /\ mode' = Neutral
  /\ shm' = [shm EXCEPT !["live"] = Neutral]
  /\ UNCHANGED <<mapped, cluster, sample, display, signals, calls>>

\* One turn of the loop: the button pressed, if any, then write_mode.
Loop(g) ==
  /\ Running
  /\ mode' = g
  /\ shm' = [shm EXCEPT !["live"] = g]
  /\ UNCHANGED <<mapped, cluster, sample, display, signals, calls>>

Press(g) ==
  /\ inputs.presses < MaxPresses
  /\ inputs' = [inputs EXCEPT !.presses = @ + 1]
  /\ Loop(g)

Idle == Loop(mode) /\ UNCHANGED inputs

\* Mutation: the mapping is taken to move with the name.
ControllerUnlinks ==
  /\ Running
  /\ shm' = [shm EXCEPT !["live"] = None]
  /\ UNCHANGED <<mode, mapped, cluster, sample, display, signals, calls, inputs>>

\* An exception leaves the loop (the car's bus fails): cleanup unlinks.
ControllerStops ==
  /\ Running
  /\ shm' = [shm EXCEPT !["live"] = None,
                         !["dead"] = IF mapped = "live" THEN shm["live"] ELSE @]
  /\ mapped' = IF mapped = "live" THEN "dead" ELSE mapped
  /\ UNCHANGED <<mode, cluster, sample, display, signals, calls, inputs>>

-----------------------------------------------------------------------------
(* The cluster.                                                            *)

\* SharedMemory connects to the segment that is there, or throws; without
\* one the drive mode timer is never set.
ClusterStarts ==
  /\ ~cluster.up
  /\ cluster' = [up |-> TRUE, gear |-> Neutral, seq |-> 0]
  /\ mapped' = IF Running THEN "live" ELSE "none"
  /\ UNCHANGED <<controller, sample, display, signals, calls, inputs>>

\* A handler may run: the thread is not inside the timer's.
Free == cluster.up /\ sample = None

WriteWord(g) ==
  shm' = IF mapped = "none" THEN shm ELSE [shm EXCEPT ![mapped] = g]

Subscribed == hu.stage # "down"

\* emit GearChanged: on the bus, and to the view model.
Signal(g, seq) ==
  signals' = IF Subscribed THEN Append(signals, [gear |-> g, seq |-> seq])
             ELSE signals

\* Mutation: the change is not signalled.
SetGearSilently(g) ==
  IF g = cluster.gear THEN UNCHANGED <<cluster, signals>>
  ELSE /\ cluster' = [cluster EXCEPT !.gear = g, !.seq = @ + 1]
       /\ UNCHANGED signals

SetGear(g) ==
  IF g = cluster.gear THEN UNCHANGED <<cluster, signals>>
  ELSE /\ cluster' = [cluster EXCEPT !.gear = g, !.seq = @ + 1]
       /\ Signal(g, cluster.seq + 1)

\* receiveTimeout reads the word ...
TimerReads ==
  /\ Free /\ mapped # "none"
  /\ sample' = shm[mapped]
  /\ UNCHANGED <<controller, mapped, cluster, display, signals, calls, inputs>>

\* Mutation: what the head unit asked for is kept.
TimerYields ==
  /\ sample # None
  /\ sample' = None
  /\ IF sample = Neutral THEN UNCHANGED <<cluster, signals, shm>>
     ELSE SetGear(sample) /\ WriteWord(sample)
  /\ UNCHANGED <<mode, mapped, display, calls, inputs>>

\* ... and updateFromCluster takes it; applyGearUpdate then writes a changed
\* gear back, over what the controller may have written since.
TimerApplies ==
  /\ sample # None
  /\ sample' = None
  /\ SetGear(sample)
  /\ IF sample = cluster.gear THEN UNCHANGED shm ELSE WriteWord(sample)
  /\ UNCHANGED <<mode, mapped, display, calls, inputs>>

\* RequestGear: accepted whatever it is, and written to the word.
RequestGear ==
  /\ Free /\ calls # <<>>
  /\ calls' = Tail(calls)
  /\ SetGear(Head(calls))
  /\ WriteWord(Head(calls))
  /\ UNCHANGED <<mode, mapped, sample, display, inputs>>

\* GetGear, for a head unit that starts.
GetGear ==
  /\ Free /\ hu.stage = "asked"
  /\ answer' = [gear |-> cluster.gear, seq |-> cluster.seq]
  /\ hu' = [hu EXCEPT !.stage = "answered"]
  /\ UNCHANGED <<controller, mapped, cluster, sample, signals, calls, inputs>>

-----------------------------------------------------------------------------
(* The head unit.                                                          *)

\* The constructor, again after a restart by systemd: subscribed first, then
\* blocked in GetGear.  Without a cluster the call fails at once.
HeadUnitStarts ==
  /\ hu' = [stage |-> IF cluster.up THEN "asked" ELSE "ready",
            gear |-> Neutral, seq |-> 0]
  /\ answer' = None /\ signals' = <<>>
  /\ UNCHANGED <<controller, mapped, cluster, sample, calls, inputs>>

\* updateCurrentGear takes the numbers as they come.
Show(reading) ==
  hu' = [stage |-> "ready", gear |-> reading.gear, seq |-> reading.seq]

\* The blocking call returns before any signal that is queued behind it.
HeadUnitFetched ==
  /\ hu.stage = "answered"
  /\ Show(answer)
  /\ answer' = None
  /\ UNCHANGED <<controller, mapped, cluster, sample, signals, calls, inputs>>

OnGearChanged ==
  /\ hu.stage = "ready" /\ signals # <<>>
  /\ Show(Head(signals))
  /\ signals' = Tail(signals)
  /\ UNCHANGED <<controller, mapped, cluster, sample, answer, calls, inputs>>

\* GearSelector offers the gears it does not show.  What the reply says is
\* only logged: the gear itself comes back by signal.
HeadUnitRequests(g) ==
  /\ hu.stage = "ready" /\ cluster.up
  /\ g # hu.gear
  /\ inputs.requests < MaxRequests
  /\ inputs' = [inputs EXCEPT !.requests = @ + 1]
  /\ calls' = Append(calls, g)
  /\ UNCHANGED <<controller, mapped, cluster, sample, display, signals>>

Next ==
  \/ ControllerStarts \/ Idle \/ ControllerStops
  \/ ClusterStarts \/ TimerReads \/ TimerApplies \/ RequestGear \/ GetGear
  \/ HeadUnitStarts \/ HeadUnitFetched \/ OnGearChanged
  \/ \E g \in Gears : Press(g) \/ HeadUnitRequests(g)

Spec == Init /\ [][Next]_vars

\* The three processes run; nobody has to press, ask or fail.
FairSpec ==
  /\ Spec
  /\ WF_vars(Idle)
  /\ WF_vars(TimerReads) /\ WF_vars(TimerApplies)
  /\ WF_vars(RequestGear) /\ WF_vars(GetGear)
  /\ WF_vars(HeadUnitFetched) /\ WF_vars(OnGearChanged)

-----------------------------------------------------------------------------
\* With no signal on its way the head unit shows the cluster's gear, though it
\* compares no sequence numbers and an answer may overtake older signals.
ShowsWhatWasSignalled ==
  cluster.up /\ hu.stage = "ready" /\ signals = <<>> =>
    hu.gear = cluster.gear /\ hu.seq = cluster.seq

\* Every reading of the cluster that is on its way or shown.
Readings ==
  {[gear |-> cluster.gear, seq |-> cluster.seq]}
    \cup {signals[i] : i \in DOMAIN signals}
    \cup (IF hu.stage = "answered" THEN {answer} ELSE {})
    \cup (IF hu.stage = "ready" /\ cluster.up
          THEN {[gear |-> hu.gear, seq |-> hu.seq]} ELSE {})

\* A sequence number stands for one gear: RequestGear and setCurrentGear count
\* each change, and only changes.
OneGearPerSequence ==
  \A r, s \in Readings : r.seq = s.seq => r.gear = s.gear

\* While the cluster maps the segment the controller writes, the gear that
\* limits the throttle wins: it is shown in the cluster and in the head unit,
\* whatever was asked for there and whatever the cluster wrote back.
DrivenIsShown ==
  \A g \in Gears :
    mode = g /\ mapped = "live" /\ hu.stage = "ready"
      ~> \/ cluster.gear = g /\ hu.gear = g
         \/ mode # g \/ mapped # "live" \/ hu.stage # "ready"
=============================================================================
