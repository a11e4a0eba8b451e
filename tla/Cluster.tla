------------------------------ MODULE Cluster ------------------------------
(***************************************************************************)
(* Speed and battery from the sensors to the head unit's page: the CAN     *)
(* gateway and the battery gauge, the cluster's view model (ViewModel.cpp) *)
(* and its D-Bus object (VehicleDataManager.cpp), the bus, and the head    *)
(* unit's client (vehicle_data_client.cpp).  Either process may start      *)
(* first, end and be started again.                                        *)
(*                                                                         *)
(* A frame is the rpm it carries, or Other: another identifier, or too     *)
(* short.  lastSpeed_ and lastBattery_ of the D-Bus object always equal    *)
(* the view model's values once a slot has run, so they have no variable.  *)
(***************************************************************************)
EXTENDS CanGateway, BatteryMonitor

CONSTANTS
    Rpms,           \* the rpm values of the wheel sensor
    Other,
    MaxSignals      \* bound: VehicleDataChanged signals on the bus

ASSUME ClusterAssumption ==
    /\ \A rpm \in Rpms : rpm \in Nat /\ rpm < 65536
    /\ Other \notin Rpms
    /\ Frames = Rpms \cup {Other}
    /\ MaxSignals \in Nat \ {0}

VARIABLES
    model,          \* the view model: speed and battery
    hasBattery,     \* the INA219 answered at the start: its timer runs
    signals,        \* VehicleDataChanged on their way to the head unit
    headUnit,       \* the client's speed and battery
    subscribed,     \* the interface was valid when the head unit started
    call,           \* GetVehicleData: "none", "asked" or "answered"
    answer,         \* what it was answered
    informed        \* history: since both last started, the head unit was
                    \* given data of this cluster, or it is on its way

clusterVars == <<model, hasBattery>>
clientVars == <<headUnit, subscribed, call, answer, informed>>

vars == <<gatewayVars, volts, batteryVars, clusterVars, signals, clientVars>>

\* Speed in cm/s of a wheel of 6.8 cm, with the code's 3.1415, cut to int.
Speed(rpm) == (68 * 31415 * rpm) \div (10 * 10000 * 60)

Data == [speed : Nat, battery : 0..100]
Nothing == [speed |-> 0, battery |-> 0]

TypeOK ==
    /\ GatewayTypeOK
    /\ volts \in Voltages
    /\ records \in Seq(Voltages) /\ Len(records) <= FilterRange
    /\ sum \in Int /\ average \in Int
    /\ model \in Data
    /\ hasBattery \in BOOLEAN
    /\ signals \in Seq(Data) /\ Len(signals) <= MaxSignals
    /\ headUnit \in Data
    /\ subscribed \in BOOLEAN /\ informed \in BOOLEAN
    /\ call \in {"none", "asked", "answered"} /\ answer \in Data

Init ==
    /\ NoGateway
    /\ volts \in Voltages
    /\ GaugeStart
    /\ model = Nothing /\ hasBattery = FALSE
    /\ signals = <<>>
    /\ headUnit = Nothing /\ subscribed = FALSE
    /\ call = "none" /\ answer = Nothing
    /\ informed = FALSE

(***************************************************************************)
(* The cluster.                                                            *)
(***************************************************************************)
ClusterStarts ==
    /\ OpenCan
    /\ hasBattery' \in BOOLEAN
    /\ informed' = FALSE
    /\ UNCHANGED <<volts, batteryVars, model, signals, headUnit, subscribed,
                   call, answer>>

\* What ends with the process; a call it has not answered fails.
ClusterGone ==
    /\ records' = <<>> /\ sum' = 0 /\ average' = 0
    /\ model' = Nothing /\ hasBattery' = FALSE
    /\ call' = IF call = "asked" THEN "none" ELSE call
    /\ informed' = FALSE
    /\ UNCHANGED <<volts, signals, headUnit, subscribed, answer>>

ClusterKilled ==
    /\ gui # "gone"
    /\ ProcessEnds
    /\ ClusterGone

\* Mutant: the D-Bus object hears of the speed only.
PublishSpeed(next) ==
    /\ model' = next
    /\ signals' = IF subscribed /\ next.speed # model.speed
                  THEN Append(signals, next) ELSE signals
    /\ informed' = (informed \/ (subscribed /\ next # model))

\* onViewModelDataChanged: a signal with both values, when one has changed.
Publish(next) ==
    /\ model' = next
    /\ signals' = IF subscribed /\ next # model THEN Append(signals, next)
                  ELSE signals
    /\ informed' = (informed \/ (subscribed /\ next # model))

\* receiveCanData.
ReceiveCanData ==
    /\ gui = "running" /\ inbox # <<>>
    /\ Len(signals) < MaxSignals
    /\ inbox' = Tail(inbox)
    /\ Publish(IF Head(inbox) = Other THEN model
               ELSE [model EXCEPT !.speed = Speed(Head(inbox))])
    /\ UNCHANGED <<worker, status, quit, gui, volts, batteryVars, hasBattery,
                   headUnit, subscribed, call, answer>>

\* receiveTimeout("battery"), every five seconds.
BatteryTimeout ==
    /\ gui = "running" /\ hasBattery
    /\ Len(signals) < MaxSignals
    /\ GetSoc(volts)
    /\ Publish([model EXCEPT !.battery = SoC(average')])
    /\ UNCHANGED <<gatewayVars, volts, hasBattery, headUnit, subscribed, call,
                   answer>>

VoltageChanges ==
    /\ volts' \in Voltages \ {volts}
    /\ UNCHANGED <<gatewayVars, batteryVars, clusterVars, signals, clientVars>>

\* The event loop answers a call.
GetVehicleData ==
    /\ gui = "running" /\ call = "asked"
    /\ call' = "answered" /\ answer' = model
    /\ informed' = TRUE
    /\ UNCHANGED <<gatewayVars, volts, batteryVars, clusterVars, signals,
                   headUnit, subscribed>>

GatewayStep(step) ==
    /\ step
    /\ UNCHANGED <<volts, batteryVars, clusterVars, signals, clientVars>>

ClusterCloses ==
    \/ GatewayStep(Stop \/ Quit \/ WaitEnds)
    \/ Erase /\ ClusterGone

(***************************************************************************)
(* The head unit.                                                          *)
(***************************************************************************)
\* The constructor subscribes and calls GetVehicleData, which blocks; without
\* the cluster on the bus it does neither, and never again.
HeadUnitStarts ==
    /\ headUnit' = Nothing
    /\ subscribed' = (gui # "gone")
    /\ call' = IF gui # "gone" THEN "asked" ELSE "none"
    /\ answer' = Nothing
    /\ signals' = <<>>
    /\ informed' = FALSE
    /\ UNCHANGED <<gatewayVars, volts, batteryVars, clusterVars>>

HeadUnitFetched ==
    /\ call = "answered"
    /\ headUnit' = answer
    /\ call' = "none" /\ answer' = Nothing
    /\ UNCHANGED <<gatewayVars, volts, batteryVars, clusterVars, signals,
                   subscribed, informed>>

OnVehicleDataChanged ==
    /\ call = "none" /\ signals # <<>>
    /\ headUnit' = Head(signals)
    /\ signals' = Tail(signals)
    /\ UNCHANGED <<gatewayVars, volts, batteryVars, clusterVars, subscribed,
                   call, answer, informed>>

Next ==
    \/ ClusterStarts \/ ClusterKilled
    \/ GatewayStep(ConnectCanModel)
    \/ GatewayStep(WorkerSteps) \/ GatewayStep(ReadReturns)
    \/ GatewayStep(LeaveMain) \/ ClusterCloses
    \/ ReceiveCanData \/ BatteryTimeout \/ VoltageChanges \/ GetVehicleData
    \/ HeadUnitStarts \/ HeadUnitFetched \/ OnVehicleDataChanged

\* Both threads of the cluster are scheduled, its timer fires, the head
\* unit's event loop runs.  Nothing is asked of the bus: it may be silent.
Fairness ==
    /\ WF_vars(GatewayStep(ConnectCanModel))
    /\ WF_vars(GatewayStep(WorkerSteps))
    /\ WF_vars(ClusterCloses)
    /\ WF_vars(ReceiveCanData) /\ SF_vars(BatteryTimeout)
    /\ WF_vars(GetVehicleData)
    /\ WF_vars(HeadUnitFetched) /\ WF_vars(OnVehicleDataChanged)

Spec == Init /\ [][Next]_vars /\ Fairness

(***************************************************************************)
(* Properties.                                                             *)
(***************************************************************************)

\* The end of the cluster waits for a thread that may sit in read() on a
\* silent bus, or may have overwritten the stop it was sent, and the head
\* unit's constructor waits for the cluster: neither waits for ever.
NobodyWaitsForEver ==
    /\ gui \in Closing ~> gui = "gone"
    /\ call = "asked" ~> call # "asked"

\* A voltage that stays is shown in the end, whatever readings came before
\* it, unless it lies more than the threshold under the last reading that
\* was kept: then the gauge holds the old charge for ever.
ChargeSettles ==
    \A v \in Voltages :
        <>[](gui = "running" /\ hasBattery /\ volts = v)
            => <>[](\/ model.battery = SoC(v)
                    \/ records # <<>> /\ v < Last(records) - Threshold)

\* Once nothing is on its way the head unit shows the cluster's values,
\* wherever its call and the signals met, if it has had data of this cluster
\* at all: after a restart of the cluster that takes a change.
HeadUnitShowsCluster ==
    gui = "running" /\ informed /\ call = "none" /\ signals = <<>> =>
        headUnit = model
=============================================================================
