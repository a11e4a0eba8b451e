---------------------------- MODULE Gear_proofs ----------------------------
(***************************************************************************)
(* What the head unit shows and what its numbers mean, for any gears and   *)
(* any number of presses, requests and restarts.  Neither property is      *)
(* inductive: a reading on its way says nothing about the next one unless  *)
(* none is numbered above the cluster's (Counted), the last signal under   *)
(* way is the cluster's own (Latest), and a cluster that is not there yet  *)
(* has nothing under way (Quiet).                                          *)
(***************************************************************************)
EXTENDS Gear, TLAPS

Current == [gear |-> cluster.gear, seq |-> cluster.seq]
Shown == [gear |-> hu.gear, seq |-> hu.seq]

Counted == \A r \in Readings : r.seq <= cluster.seq

Latest ==
  cluster.up =>
    /\ signals # <<>> /\ hu.stage # "down" => signals[Len(signals)] = Current
    /\ signals = <<>> /\ hu.stage = "answered" => answer = Current
    /\ signals = <<>> /\ hu.stage = "ready" => Shown = Current

Quiet ==
  ~cluster.up =>
    /\ cluster.gear = Neutral /\ cluster.seq = 0
    /\ signals = <<>> /\ sample = None
    /\ hu.stage \in {"down", "ready"}
    /\ hu.gear = Neutral /\ hu.seq = 0

Numbered == OneGearPerSequence /\ Counted

IInv == TypeOK /\ Numbered /\ Latest /\ Quiet

LEMMA Initially == Init => IInv
BY GearAssumption
   DEF Init, IInv, TypeOK, Numbered, Counted, Latest, Quiet, Readings,
       OneGearPerSequence, Reading

\* Whoever delivers or drops readings and adds none keeps the numbering.
LEMMA FewerReadings ==
  ASSUME Numbered, UNCHANGED cluster, Readings' \subseteq Readings
  PROVE  Numbered'
BY DEF Numbered, OneGearPerSequence, Counted

\* setCurrentGear: what it counts and signals.
LEMMA SetGearKeeps ==
  ASSUME IInv, NEW g \in Gears, cluster.up, SetGear(g),
         UNCHANGED <<hu, answer>>
  PROVE  /\ Numbered' /\ Latest' /\ Quiet'
         /\ cluster' \in [up : BOOLEAN, gear : Gears, seq : Nat]
         /\ signals' \in Seq(Reading)
<1> DEFINE new == [gear |-> g, seq |-> cluster.seq + 1]
<1> USE DEF IInv
<1>1. CASE g = cluster.gear
  <2>1. UNCHANGED <<cluster, signals>>
    BY <1>1 DEF SetGear
  <2>2. Readings' = Readings
    BY <2>1 DEF Readings
  <2> QED
    BY <2>1, <2>2, FewerReadings
       DEF Latest, Quiet, Current, Shown, TypeOK
<1>2. CASE g # cluster.gear
  <2>1. /\ cluster'.gear = g /\ cluster'.seq = cluster.seq + 1
        /\ cluster'.up = cluster.up
        /\ cluster' \in [up : BOOLEAN, gear : Gears, seq : Nat]
    <3>1. cluster' = [cluster EXCEPT !.gear = g, !.seq = cluster.seq + 1]
      BY <1>2 DEF SetGear
    <3>2. cluster \in [up : BOOLEAN, gear : Gears, seq : Nat]
      BY DEF TypeOK
    <3>3. cluster' = [up |-> cluster.up, gear |-> g, seq |-> cluster.seq + 1]
      BY <3>1, <3>2
    <3>4. cluster.up \in BOOLEAN /\ cluster.seq + 1 \in Nat
      BY <3>2
    <3> QED
      BY <3>3, <3>4
  <2>2. /\ new \in Reading
        /\ signals' = IF hu.stage # "down" THEN Append(signals, new) ELSE signals
    BY <1>2 DEF SetGear, Signal, Subscribed, TypeOK, Reading
  <2>3. signals' \in Seq(Reading)
    BY <2>2 DEF TypeOK
  <2>4. \A i \in DOMAIN signals' : signals'[i] = new \/ \E j \in DOMAIN signals : signals'[i] = signals[j]
    BY <2>2 DEF TypeOK
  <2>5. Readings' \subseteq Readings \cup {new}
    BY <2>1, <2>4 DEF Readings
  <2>6. \A r \in Readings : r.seq \in Nat /\ r.seq <= cluster.seq
    <3>1. \A i \in DOMAIN signals : signals[i] \in Reading
      BY DEF TypeOK
    <3>2. Readings \subseteq Reading
      BY <3>1 DEF Readings, TypeOK, Reading
    <3> QED
      BY <3>2 DEF Numbered, Counted, Reading
  <2>7. cluster.seq \in Nat /\ new.seq = cluster.seq + 1
    BY DEF TypeOK
  <2>8. Counted'
    BY <2>1, <2>5, <2>6, <2>7 DEF Counted
  <2>9. OneGearPerSequence'
    <3> SUFFICES ASSUME NEW r \in Readings', NEW s \in Readings', r.seq = s.seq
                 PROVE  r.gear = s.gear
      BY DEF OneGearPerSequence
    <3>1. CASE r \in Readings /\ s \in Readings
      BY <3>1 DEF Numbered, OneGearPerSequence
    <3>2. CASE r = new \/ s = new
      <4>1. r = new /\ s = new
        BY <3>2, <2>5, <2>6, <2>7
      <4> QED
        BY <4>1
    <3> QED
      BY <3>1, <3>2, <2>5
  <2>10. hu.stage # "down" => signals' # <<>> /\ signals'[Len(signals')] = new
    BY <2>2 DEF TypeOK
  <2>11. Latest'
    BY <2>1, <2>10 DEF Latest, Current, TypeOK
  <2> QED
    BY <2>1, <2>3, <2>8, <2>9, <2>11 DEF Numbered, Quiet
<1> QED
  BY <1>1, <1>2

\* A step that moves no reading.
LEMMA NothingMoves ==
  ASSUME IInv, UNCHANGED <<cluster, hu, answer, signals>>,
         cluster.up \/ UNCHANGED sample
  PROVE  Numbered' /\ Latest' /\ Quiet'
<1>1. Readings' = Readings
  BY DEF Readings
<1> QED
  BY <1>1, FewerReadings DEF IInv, Latest, Quiet, Current, Shown

LEMMA Inductive == IInv /\ [Next]_vars => IInv'
<1> SUFFICES ASSUME IInv, [Next]_vars PROVE IInv'
  OBVIOUS
<1> USE GearAssumption DEF IInv
<1>1. CASE ControllerStarts
  <2>1. TypeOK'
    <3>1. /\ inputs' = [inputs EXCEPT !.starts = @ + 1]
          /\ inputs.starts < MaxStarts
          /\ inputs \in [presses: 0..MaxPresses, requests: 0..MaxRequests,
                         starts: 0..MaxStarts]
      BY <1>1 DEF ControllerStarts, TypeOK
    <3>2. inputs' \in [presses: 0..MaxPresses, requests: 0..MaxRequests,
                       starts: 0..MaxStarts]
      BY <3>1
    <3> QED
      BY <1>1, <3>2 DEF ControllerStarts, TypeOK, display
  <2> QED
    BY <2>1, <1>1, NothingMoves DEF ControllerStarts, display
<1>2. ASSUME NEW g \in Gears, Loop(g), inputs' \in [presses: 0..MaxPresses, requests: 0..MaxRequests, starts: 0..MaxStarts]
      PROVE  IInv'
  <2>1. TypeOK'
    BY <1>2 DEF Loop, Running, TypeOK, display
  <2> QED
    BY <2>1, <1>2, NothingMoves DEF Loop, display
<1>3. CASE Idle
  BY <1>3, <1>2 DEF Idle, TypeOK
<1>4. ASSUME NEW g \in Gears, Press(g) PROVE IInv'
  <2>1. inputs' \in [presses: 0..MaxPresses, requests: 0..MaxRequests, starts: 0..MaxStarts]
    BY <1>4 DEF Press, TypeOK
  <2> QED
    BY <2>1, <1>4, <1>2 DEF Press
<1>5. CASE ControllerStops
  <2>1. TypeOK'
    BY <1>5 DEF ControllerStops, Running, TypeOK, display
  <2> QED
    BY <2>1, <1>5, NothingMoves DEF ControllerStops, display
<1>6. CASE ClusterStarts
  <2>1. TypeOK'
    BY <1>6 DEF ClusterStarts, Running, TypeOK, controller, display
  <2>2. /\ cluster'.up /\ cluster'.gear = Neutral /\ cluster'.seq = 0
        /\ UNCHANGED <<hu, answer, signals>> /\ signals = <<>>
        /\ hu.stage \in {"down", "ready"} /\ hu.gear = Neutral /\ hu.seq = 0
    BY <1>6 DEF ClusterStarts, display, Quiet
  <2>3. Readings' = {[gear |-> Neutral, seq |-> 0]}
    BY <2>2 DEF Readings
  <2>4. Numbered'
    BY <2>2, <2>3 DEF Numbered, OneGearPerSequence, Counted
  <2> QED
    BY <2>1, <2>2, <2>4 DEF Latest, Quiet, Current, Shown
<1>7. CASE TimerReads
  <2>1. TypeOK'
    BY <1>7 DEF TimerReads, Free, TypeOK, controller, display
  <2> QED
    BY <2>1, <1>7, NothingMoves DEF TimerReads, Free, controller, display
<1>8. CASE TimerApplies
  <2>1. sample \in Gears /\ cluster.up
    BY <1>8 DEF TimerApplies, TypeOK, Quiet
  <2>2. /\ Numbered' /\ Latest' /\ Quiet'
        /\ cluster' \in [up : BOOLEAN, gear : Gears, seq : Nat]
        /\ signals' \in Seq(Reading)
    BY <1>8, <2>1, SetGearKeeps DEF TimerApplies, display
  <2>3. shm' \in [{"live", "dead"} -> Gears \cup {None}]
        /\ (mapped # "none" => shm'[mapped] \in Gears)
    BY <1>8, <2>1 DEF TimerApplies, WriteWord, TypeOK
  <2>4. TypeOK'
    BY <1>8, <2>2, <2>3 DEF TimerApplies, TypeOK, display
  <2> QED
    BY <2>2, <2>4
<1>9. CASE RequestGear
  <2>1. Head(calls) \in Gears /\ cluster.up /\ Tail(calls) \in Seq(Gears)
    BY <1>9 DEF RequestGear, Free, TypeOK
  <2>2. /\ Numbered' /\ Latest' /\ Quiet'
        /\ cluster' \in [up : BOOLEAN, gear : Gears, seq : Nat]
        /\ signals' \in Seq(Reading)
    BY <1>9, <2>1, SetGearKeeps DEF RequestGear, display
  <2>3. shm' \in [{"live", "dead"} -> Gears \cup {None}]
        /\ (mapped # "none" => shm'[mapped] \in Gears)
    BY <1>9, <2>1 DEF RequestGear, WriteWord, TypeOK
  <2>4. TypeOK'
    BY <1>9, <2>1, <2>2, <2>3 DEF RequestGear, TypeOK, display
  <2> QED
    BY <2>2, <2>4
<1>10. CASE GetGear
  <2>1. /\ cluster.up /\ UNCHANGED <<cluster, signals>>
        /\ hu.stage = "asked"
        /\ answer' = Current /\ hu'.stage = "answered"
        /\ hu' \in [stage: {"down", "asked", "answered", "ready"}, gear: Gears, seq: Nat]
    BY <1>10 DEF GetGear, Free, controller, TypeOK, Current
  <2>2. TypeOK'
    BY <1>10, <2>1 DEF GetGear, TypeOK, controller, Current, Reading
  <2>3. Readings' = Readings
    BY <2>1 DEF Readings, Current
  <2>4. Numbered'
    BY <2>1, <2>3, FewerReadings
  <2> QED
    BY <2>1, <2>2, <2>4 DEF Latest, Quiet, Current
<1>11. CASE HeadUnitStarts
  <2>1. /\ UNCHANGED <<cluster, sample>> /\ signals' = <<>>
        /\ hu'.stage = IF cluster.up THEN "asked" ELSE "ready"
        /\ hu'.gear = Neutral /\ hu'.seq = 0
    BY <1>11 DEF HeadUnitStarts, controller
  <2>2. TypeOK'
    BY <1>11, <2>1 DEF HeadUnitStarts, TypeOK, controller
  <2>3. Readings' = {Current}
    BY <2>1 DEF Readings, Current
  <2>4. Numbered'
    BY <2>1, <2>3, FewerReadings DEF Readings, Current
  <2> QED
    BY <2>1, <2>2, <2>4 DEF Latest, Quiet, Current, Shown
<1>12. CASE HeadUnitFetched
  <2>1. /\ UNCHANGED <<cluster, sample, signals>> /\ hu.stage = "answered"
        /\ answer \in Reading
        /\ hu'.stage = "ready" /\ hu'.gear = answer.gear /\ hu'.seq = answer.seq
    BY <1>12 DEF HeadUnitFetched, Show, controller, TypeOK
  <2>2. TypeOK'
    BY <1>12, <2>1 DEF HeadUnitFetched, Show, TypeOK, controller, Reading
  <2>3. Shown' = answer
    BY <2>1 DEF Shown, Reading
  <2>4. Numbered'
    BY <2>1, <2>3, FewerReadings DEF Readings, Shown
  <2> QED
    BY <2>1, <2>2, <2>3, <2>4 DEF Latest, Quiet, Current
<1>13. CASE OnGearChanged
  <2>1. /\ UNCHANGED <<cluster, sample>> /\ hu.stage = "ready" /\ signals # <<>>
        /\ signals' = Tail(signals)
        /\ hu'.stage = "ready"
        /\ hu'.gear = Head(signals).gear /\ hu'.seq = Head(signals).seq
    BY <1>13 DEF OnGearChanged, Show, controller
  <2>2. /\ signals \in Seq(Reading) /\ Head(signals) \in Reading
        /\ Tail(signals) \in Seq(Reading) /\ Len(signals) \in Nat \ {0}
        /\ Head(signals) = signals[1] /\ 1 \in DOMAIN signals
        /\ Len(Tail(signals)) = Len(signals) - 1
        /\ \A i \in 1..(Len(signals) - 1) : Tail(signals)[i] = signals[i + 1]
    BY <2>1 DEF TypeOK
  <2>3. TypeOK'
    BY <1>13, <2>1, <2>2 DEF OnGearChanged, Show, TypeOK, controller, Reading
  <2>4. Shown' = Head(signals)
    BY <2>1, <2>2 DEF Shown, Reading
  <2>5. cluster.up
    BY <2>1 DEF Quiet
  <2>6. \A i \in DOMAIN signals' : \E j \in DOMAIN signals : signals'[i] = signals[j]
    BY <2>1, <2>2
  <2>7. Readings' \subseteq Readings
    BY <2>1, <2>2, <2>4, <2>6 DEF Readings, Shown
  <2>8. Numbered'
    BY <2>1, <2>7, FewerReadings
  <2>9. signals[Len(signals)] = Current /\ Current' = Current
    BY <2>1, <2>5 DEF Latest, Current
  <2>10. CASE Len(signals) = 1
    <3>1. signals' = <<>> /\ Shown' = Current'
      BY <2>1, <2>2, <2>4, <2>9, <2>10
    <3> QED
      BY <3>1, <2>1, <2>3, <2>5, <2>8 DEF Latest, Quiet
  <2>11. CASE Len(signals) # 1
    <3>1. signals' # <<>> /\ signals'[Len(signals')] = Current'
      <4>1. Len(signals') = Len(signals) - 1 /\ Len(signals) - 1 \in 1..(Len(signals) - 1)
        BY <2>1, <2>2, <2>11
      <4>2. signals'[Len(signals) - 1] = signals[Len(signals)]
        BY <2>1, <2>2, <4>1
      <4>3. signals' # <<>>
        BY <4>1
      <4> QED
        BY <4>1, <4>2, <4>3, <2>9
    <3> QED
      BY <3>1, <2>1, <2>3, <2>5, <2>8 DEF Latest, Quiet
  <2> QED
    BY <2>10, <2>11
<1>14. ASSUME NEW g \in Gears, HeadUnitRequests(g) PROVE IInv'
  <2>1. TypeOK'
    <3>1. inputs' \in [presses: 0..MaxPresses, requests: 0..MaxRequests, starts: 0..MaxStarts]
      <4>1. /\ inputs.requests \in Nat /\ inputs.requests < MaxRequests
            /\ inputs' = [inputs EXCEPT !.requests = @ + 1]
        BY <1>14 DEF HeadUnitRequests, TypeOK
      <4>2. inputs.requests + 1 \in 0..MaxRequests
        BY <4>1
      <4> QED
        BY <4>1, <4>2 DEF TypeOK
    <3>2. calls' \in Seq(Gears)
      BY <1>14 DEF HeadUnitRequests, TypeOK
    <3> QED
      BY <1>14, <3>1, <3>2 DEF HeadUnitRequests, TypeOK, controller, display
  <2> QED
    BY <2>1, <1>14, NothingMoves DEF HeadUnitRequests, controller, display
<1>15. CASE UNCHANGED vars
  <2>1. TypeOK'
    BY <1>15 DEF vars, TypeOK
  <2> QED
    BY <2>1, <1>15, NothingMoves DEF vars
<1> QED
  BY <1>1, <1>3, <1>4, <1>5, <1>6, <1>7, <1>8, <1>9, <1>10, <1>11, <1>12,
     <1>13, <1>14, <1>15 DEF Next

LEMMA Always == Spec => []IInv
BY Initially, Inductive, PTL DEF Spec

\* GearChanged with its number: updateCurrentGear stores whatever comes, and
\* still no number ever stands for two gears, however many changes are made.
THEOREM OneGear == Spec => []OneGearPerSequence
<1>1. IInv => OneGearPerSequence
  BY DEF IInv, Numbered
<1> QED
  BY <1>1, Always, PTL

\* Once nothing is on its way the head unit shows the cluster's gear and
\* number, whichever of GetGear's answer and the signals came first.
THEOREM ShowsTheGear == Spec => []ShowsWhatWasSignalled
<1>1. IInv => ShowsWhatWasSignalled
  BY DEF IInv, Latest, Current, Shown, ShowsWhatWasSignalled
<1> QED
  BY <1>1, Always, PTL

\* Every variable stays in its range; a mapped segment always holds a gear.
THEOREM GearTyped == Spec => []TypeOK
<1>1. IInv => TypeOK
  BY DEF IInv
<1> QED
  BY <1>1, Always, PTL
=============================================================================
