---------------------------- MODULE Cluster_proofs ----------------------------
(***************************************************************************)
(* What the head unit shows of the cluster, for any sensors, any readings  *)
(* and any number of starts and ends of either process.  The property      *)
(* speaks of a bus that has fallen silent; the invariant says where the    *)
(* cluster's present values are while it has not: last on the bus, in the  *)
(* answer, or shown (Newest).  It needs that whoever was given data is     *)
(* subscribed, so that no change passes unsignalled (Subscribed), and that *)
(* a call under way is to the cluster that runs, with nothing of an        *)
(* earlier one left on the bus (Asked).                                    *)
(*                                                                         *)
(* What the values are does not matter to that property.  The sections     *)
(* after it are about them: the table gives a percentage that never falls  *)
(* as the voltage rises; the running sum of the gauge is that of the       *)
(* readings it keeps, by induction over the window (SetInduction); hence   *)
(* the types, and a charge that is one of the voltages read.               *)
(***************************************************************************)
EXTENDS Cluster, SequenceTheorems, WellFoundedInduction, TLAPS

\* Tuples of variables: every proof sees through them.
USE DEF gatewayVars, batteryVars, clusterVars, clientVars

Sequence == signals \in Seq(Range(signals))

Subscribed == (informed \/ call # "none") => subscribed

Newest ==
    informed =>
        IF signals # <<>> THEN signals[Len(signals)] = model
        ELSE \/ call = "none" /\ headUnit = model
             \/ call = "answered" /\ answer = model

Asked ==
    call = "asked" => gui # "gone" /\ (signals = <<>> \/ informed)

IInv == Sequence /\ Subscribed /\ Newest /\ Asked

LEMMA Initially == Init => IInv
<1> SUFFICES ASSUME Init PROVE IInv
  OBVIOUS
<1>1. signals = <<>>
  BY DEF Init
<1>2. Sequence
  BY <1>1 DEF Sequence
<1> QED
  BY <1>2 DEF IInv, Init, Subscribed, Newest, Asked

LEMMA Undisturbed ==
    ASSUME IInv, UNCHANGED <<model, signals, clientVars>>,
           gui # "gone" => gui' # "gone"
    PROVE  IInv'
BY DEF IInv, Sequence, Subscribed, Newest, Asked

\* A process that starts or ends leaves nobody informed.
LEMMA Uninformed ==
    ASSUME IInv, ~informed', UNCHANGED <<signals, subscribed>>,
           (call' = call /\ call # "asked") \/ call' = "none"
    PROVE  IInv'
BY DEF IInv, Sequence, Subscribed, Newest, Asked

\* onViewModelDataChanged: a change is signalled to whoever was informed.
LEMMA Published ==
    ASSUME IInv, NEW next, Publish(next),
           UNCHANGED <<headUnit, subscribed, call, answer, gui>>
    PROVE  IInv'
<1>1. CASE subscribed /\ next # model
  <2>1. /\ model' = next /\ signals' = Append(signals, next)
        /\ informed'
    BY <1>1 DEF Publish
  <2>2. signals \in Seq(Range(signals) \cup {next})
    BY DEF IInv, Sequence
  <2>3. /\ signals' \in Seq(Range(signals) \cup {next})
        /\ Len(signals') # 0 /\ signals'[Len(signals')] = next
    BY <2>1, <2>2
  <2>4. Sequence'
    BY <2>3, SeqOfRange DEF Sequence
  <2>5. signals' # <<>>
    BY <2>3
  <2> QED
    BY <1>1, <2>1, <2>3, <2>4, <2>5 DEF IInv, Subscribed, Newest, Asked
<1>2. CASE ~(subscribed /\ next # model)
  <2>1. /\ model' = next /\ UNCHANGED signals
        /\ informed' <=> informed
    BY <1>2 DEF Publish
  <2> QED
    BY <1>2, <2>1 DEF IInv, Sequence, Subscribed, Newest, Asked
<1> QED
  BY <1>1, <1>2

LEMMA ClusterKeeps ==
    ASSUME IInv,
           \/ ClusterStarts \/ ClusterKilled \/ ClusterCloses
           \/ ReceiveCanData \/ BatteryTimeout \/ VoltageChanges
           \/ GetVehicleData
    PROVE  IInv'
<1>1. CASE ClusterStarts
  <2>1. call # "asked"
    BY <1>1 DEF ClusterStarts, OpenCan, IInv, Asked
  <2> QED
    BY <1>1, <2>1, Uninformed DEF ClusterStarts
<1>2. CASE ClusterGone
  <2>1. (call' = call /\ call # "asked") \/ call' = "none"
    BY <1>2 DEF ClusterGone
  <2> QED
    BY <1>2, <2>1, Uninformed DEF ClusterGone
<1>3. CASE VoltageChanges
  BY <1>3, Undisturbed DEF VoltageChanges
<1>4. CASE ReceiveCanData \/ BatteryTimeout
  <2>1. PICK next : Publish(next)
    BY <1>4 DEF ReceiveCanData, BatteryTimeout
  <2> QED
    BY <1>4, <2>1, Published DEF ReceiveCanData, BatteryTimeout
<1>5. CASE GetVehicleData
  BY <1>5 DEF GetVehicleData, IInv, Sequence, Subscribed, Newest, Asked
<1>6. CASE ClusterCloses
  <2>1. CASE Stop \/ Quit \/ WaitEnds
    BY <1>6, <2>1, Undisturbed
       DEF ClusterCloses, GatewayStep, Stop, Quit, WaitEnds, Erase
  <2>2. Stop \/ Quit \/ WaitEnds \/ ClusterGone
    BY <1>6 DEF ClusterCloses, GatewayStep
  <2> QED
    BY <1>2, <2>1, <2>2
<1> QED
  BY <1>1, <1>2, <1>3, <1>4, <1>5, <1>6 DEF ClusterKilled

LEMMA HeadUnitKeeps ==
    ASSUME IInv,
           HeadUnitStarts \/ HeadUnitFetched \/ OnVehicleDataChanged
    PROVE  IInv'
<1>1. CASE HeadUnitStarts
  <2>1. /\ signals' = <<>> /\ ~informed' /\ gui' = gui
        /\ call' # "none" => subscribed' /\ gui # "gone"
    BY <1>1 DEF HeadUnitStarts
  <2>2. Sequence'
    BY <2>1 DEF Sequence
  <2> QED
    BY <2>1, <2>2 DEF IInv, Subscribed, Newest, Asked
<1>2. CASE HeadUnitFetched
  BY <1>2 DEF HeadUnitFetched, IInv, Sequence, Subscribed, Newest, Asked
<1>3. CASE OnVehicleDataChanged
  <2>1. /\ call = "none" /\ signals # <<>> /\ headUnit' = Head(signals)
        /\ signals' = Tail(signals)
        /\ UNCHANGED <<model, subscribed, call, informed>>
    BY <1>3 DEF OnVehicleDataChanged
  <2>2. signals \in Seq(Range(signals))
    BY DEF IInv, Sequence
  <2>3. /\ signals' \in Seq(Range(signals))
        /\ Len(signals) \in Nat \ {0} /\ Len(signals') = Len(signals) - 1
        /\ \A i \in 1..Len(signals') : signals'[i] = signals[i + 1]
        /\ Head(signals) = signals[1]
    BY <2>1, <2>2
  <2>4. Sequence'
    BY <2>3, SeqOfRange DEF Sequence
  <2>5. Newest'
    <3>1. CASE signals' = <<>>
      <4>1. Head(signals) = signals[Len(signals)]
        <5>1. Len(signals') = 0
          BY <3>1
        <5> QED
          BY <2>3, <5>1
      <4> QED
        BY <2>1, <3>1, <4>1 DEF IInv, Newest
    <3>2. CASE signals' # <<>>
      <4>1. signals'[Len(signals')] = signals[Len(signals)]
        BY <2>3, <3>2
      <4> QED
        BY <2>1, <3>2, <4>1 DEF IInv, Newest
    <3> QED
      BY <3>1, <3>2
  <2> QED
    BY <2>1, <2>4, <2>5 DEF IInv, Subscribed, Asked
<1> QED
  BY <1>1, <1>2, <1>3

LEMMA StepKeeps == IInv /\ [Next]_vars => IInv'
<1> SUFFICES ASSUME IInv, [Next]_vars PROVE IInv'
  OBVIOUS
<1>1. CASE UNCHANGED vars
  BY <1>1, Undisturbed DEF vars
<1>2. CASE \/ GatewayStep(ConnectCanModel) \/ GatewayStep(WorkerSteps)
           \/ GatewayStep(ReadReturns) \/ GatewayStep(LeaveMain)
  <2>1. gui # "gone" => gui' # "gone"
    BY <1>2 DEF GatewayStep, ConnectCanModel, WorkerSteps, StartChecks,
       StartActivates, LoopLooks, ThreadEnds, ReadReturns, ReadFails, ReadFrame,
       LeaveMain
  <2> QED
    BY <1>2, <2>1, Undisturbed DEF GatewayStep
<1> QED
  BY <1>1, <1>2, ClusterKeeps, HeadUnitKeeps DEF Next

\* Once nothing is on its way the head unit shows the cluster's values
\* (onVehicleDataChanged), however the answer to its call, the signals and the
\* starts of both processes met before.
THEOREM ShowsTheCluster == Spec => []HeadUnitShowsCluster
<1>1. IInv => HeadUnitShowsCluster
  BY DEF IInv, Newest, HeadUnitShowsCluster
<1> QED
  BY <1>1, Initially, StepKeeps, PTL DEF Spec
-----------------------------------------------------------------------------
(* The table from voltage to charge.                                       *)

\* The entries that have one below them.
Entry == 1..11

LEMMA Entries ==
    /\ Len(Table) = 12
    /\ \A k \in 1..12 : Upper(k) \in Int /\ Charge(k) \in 0..100
    /\ \A k \in Entry : Upper(k) > Upper(k + 1) /\ Charge(k) > Charge(k + 1)
    /\ Charge(1) = 100 /\ Charge(12) = 0
BY DEF Table, Upper, Charge, Cells, Entry

LEMMA OnTheLine ==
    ASSUME NEW k \in Entry, NEW v \in Int, Holds(k, v)
    PROVE  /\ Interpolated(k, v) \in Charge(k + 1)..Charge(k)
           /\ \A w \in Int : Holds(k, w) /\ v <= w
                => Interpolated(k, v) <= Interpolated(k, w)
<1>1. Interpolated(k, v) \in Charge(k + 1)..Charge(k)
  BY SMTT(30) DEF Table, Upper, Charge, Cells, Entry, Holds, Interpolated
<1>2. ASSUME NEW w \in Int, Holds(k, w), v <= w
      PROVE  Interpolated(k, v) <= Interpolated(k, w)
  BY <1>2, SMTT(30) DEF Table, Upper, Charge, Cells, Entry, Holds, Interpolated
<1> QED
  BY <1>1, <1>2

LEMMA FirstPair ==
    ASSUME NEW v \in Int, v < Upper(1), v > Upper(12)
    PROVE  \E k \in Entry : Holds(k, v) /\ SoC(v) = Interpolated(k, v)
<1> DEFINE First(k) == Holds(k, v) /\ \A j \in 1..k - 1 : ~Holds(j, v)
<1>1. \E k \in Entry : First(k)
  BY DEF Entry, Holds, Table, Upper, Cells
<1> DEFINE i == CHOOSE k \in 1..Len(Table) - 1 : First(k)
<1>2. 1..Len(Table) - 1 = Entry
  BY Entries DEF Entry
<1>3. i \in Entry /\ First(i)
  BY <1>1, <1>2
<1>4. SoC(v) = Interpolated(i, v)
  BY Entries DEF SoC
<1> QED
  BY <1>3, <1>4

\* A charge is a percentage, whatever the voltage: the pair the loop looks for
\* exists, and the clamp to 0..100 has nothing to do.
LEMMA Percentage ==
    ASSUME NEW v \in Int
    PROVE  SoC(v) \in 0..100
<1>1. CASE v >= Upper(1) \/ v <= Upper(12)
  BY <1>1, Entries DEF SoC
<1>2. CASE v < Upper(1) /\ v > Upper(12)
  <2>1. PICK k \in Entry : Holds(k, v) /\ SoC(v) = Interpolated(k, v)
    BY <1>2, FirstPair
  <2>2. SoC(v) \in Charge(k + 1)..Charge(k)
    BY <2>1, OnTheLine
  <2>3. k \in 1..12 /\ k + 1 \in 1..12
    BY DEF Entry
  <2>4. Charge(k) \in 0..100 /\ Charge(k + 1) \in 0..100
    BY <2>3, Entries
  <2> QED
    BY <2>2, <2>4
<1> QED
  BY <1>1, <1>2, Entries

LEMMA Chain ==
    ASSUME NEW a \in Int, NEW b \in Int, NEW c \in Int, NEW d \in Int,
           a <= b, b <= c, c <= d
    PROVE  a <= d
OBVIOUS

\* A higher voltage never shows a lower charge (voltageToSoC), across the
\* entries of the table as between two of them.
THEOREM ChargeRises ==
    ASSUME NEW v \in Int, NEW w \in Int, v <= w
    PROVE  SoC(v) <= SoC(w)
<1>1. SoC(v) \in 0..100 /\ SoC(w) \in 0..100
  BY Percentage
<1>2. CASE v <= Upper(12)
  <2>1. SoC(v) = 0
    BY <1>2, Entries DEF SoC, Upper, Cells, Table
  <2> QED
    BY <1>1, <2>1
<1>3. CASE w >= Upper(1)
  <2>1. SoC(w) = 100
    BY <1>3 DEF SoC
  <2> QED
    BY <1>1, <2>1
<1>4. CASE v > Upper(12) /\ w < Upper(1)
  <2>0. Upper(1) \in Int /\ Upper(12) \in Int
    BY Entries
  <2>1. PICK i \in Entry : Holds(i, v) /\ SoC(v) = Interpolated(i, v)
    BY <1>4, <2>0, FirstPair
  <2>2. PICK j \in Entry : Holds(j, w) /\ SoC(w) = Interpolated(j, w)
    BY <1>4, <2>0, FirstPair
  <2>3. CASE i = j
    BY <2>1, <2>2, <2>3, OnTheLine
  <2>4. CASE i > j
    <3>1. i \in 1..12 /\ j + 1 \in 1..12
      BY DEF Entry
    <3>2. Charge(i) \in Int /\ Charge(j + 1) \in Int
      BY <3>1, Entries
    <3>3. SoC(v) <= Charge(i) /\ Charge(j + 1) <= SoC(w)
      BY <2>1, <2>2, OnTheLine
    <3>4. Charge(i) <= Charge(j + 1)
      BY <2>4 DEF Entry, Charge, Table
    <3>5. SoC(v) \in Int /\ SoC(w) \in Int
      BY <1>1
    <3> QED
      BY <3>2, <3>3, <3>4, <3>5, Chain, Zenon
  <2>5. CASE i < j
    <3>1. v = w
      BY <2>1, <2>2, <2>5 DEF Holds, Entry, Upper, Table, Cells
    <3> QED
      BY <1>1, <3>1
  <2> QED
    BY <2>3, <2>4, <2>5 DEF Entry
<1> QED
  BY <1>2, <1>3, <1>4, Entries

-----------------------------------------------------------------------------
(* Sums over a window of any length.  The library's induction takes a      *)
(* predicate, which no prover here instantiates; that Nat is well founded  *)
(* gives induction over a set instead.                                     *)

LEMMA Least ==
    ASSUME NEW S, S \subseteq Nat, S # {}
    PROVE  \E m \in S : \A n \in S : m <= n
<1> DEFINE R == OpToRel(<, Nat)
<1>1. IsWellFoundedOn(R, Nat)
  BY NatLessThanWellFounded, Zenon
<1>2. \A x, y \in Nat : <<y, x>> \in R <=> y < x
  BY DEF OpToRel
<1> HIDE DEF R
<1>3. PICK x \in S : \A y \in S : ~(<<y, x>> \in R)
  BY <1>1, WFMin
<1>4. \A y \in S : ~(y < x)
  BY <1>2, <1>3, Zenon
<1>5. \A y \in S : x <= y
  BY <1>4
<1> QED
  BY <1>5

LEMMA SetInduction ==
    ASSUME NEW S, 0 \in S, \A n \in Nat : n \in S => n + 1 \in S
    PROVE  Nat \subseteq S
<1> SUFFICES ASSUME Nat \ S # {} PROVE FALSE
  OBVIOUS
<1>1. PICK m \in Nat \ S : \A n \in Nat \ S : m <= n
  BY Least
<1>2. m - 1 \in Nat /\ m - 1 \in S
  BY <1>1
<1> QED
  BY <1>1, <1>2

\* p[i] is the sum of the first i readings.
PartialSums(p, readings) ==
    /\ p \in [0..Len(readings) -> Int] /\ p[0] = 0
    /\ \A i \in 1..Len(readings) : p[i] = p[i - 1] + readings[i]

\* The sum of the readings, computed from nothing.
Total(readings) ==
    LET total[i \in 0..Len(readings)] ==
            IF i = 0 THEN 0 ELSE total[i - 1] + readings[i]
    IN  total[Len(readings)]

LEMMA TotalIsPartial ==
    ASSUME NEW r \in Seq(Int), NEW p, PartialSums(p, r)
    PROVE  Total(r) = p[Len(r)]
<1> DEFINE Adds(f) == f = [i \in 0..Len(r) |-> IF i = 0 THEN 0 ELSE f[i - 1] + r[i]]
           total == CHOOSE f : Adds(f)
<1>1. Adds(p)
  BY DEF PartialSums
<1>2. Adds(total)
  BY <1>1, Zenon
<1>3. Total(r) = total[Len(r)]
  BY Zenon DEF Total
<1> DEFINE S == {i \in Nat : i <= Len(r) => total[i] = p[i]}
<1> HIDE DEF total
<1>4. 0 \in S
  BY <1>2 DEF PartialSums
<1>5. ASSUME NEW i \in Nat, i \in S
      PROVE  i + 1 \in S
  BY <1>2, <1>5 DEF PartialSums
<1>6. Nat \subseteq S
  <2> HIDE DEF S
  <2> QED
    BY <1>4, <1>5, SetInduction
<1> QED
  BY <1>3, <1>6

\* A reading more, and one less at the other end.
LEMMA OneMore ==
    ASSUME NEW r \in Seq(Int), NEW p, PartialSums(p, r), NEW x \in Int
    PROVE  \E q : PartialSums(q, Append(r, x)) /\ q[Len(r) + 1] = p[Len(r)] + x
<1> DEFINE n == Len(r)
           q == [i \in 0..n + 1 |-> IF i = n + 1 THEN p[n] + x ELSE p[i]]
<1>1. n \in Nat /\ Append(r, x) \in Seq(Int) /\ Len(Append(r, x)) = n + 1
  OBVIOUS
<1>2. q \in [0..n + 1 -> Int] /\ q[0] = 0 /\ q[n + 1] = p[n] + x
  BY <1>1 DEF PartialSums
<1>3. ASSUME NEW i \in 1..n + 1
      PROVE  q[i] = q[i - 1] + Append(r, x)[i]
  <2>1. CASE i = n + 1
    BY <1>1, <2>1 DEF PartialSums
  <2>2. CASE i \in 1..n
    BY <1>1, <2>2 DEF PartialSums
  <2> QED
    BY <1>1, <2>1, <2>2
<1> HIDE DEF q
<1> QED
  BY <1>1, <1>2, <1>3 DEF PartialSums

LEMMA OneLess ==
    ASSUME NEW r \in Seq(Int), NEW p, PartialSums(p, r), r # <<>>
    PROVE  \E q : PartialSums(q, Tail(r)) /\ q[Len(r) - 1] = p[Len(r)] - Head(r)
<1> DEFINE n == Len(r) - 1
           q == [i \in 0..n |-> p[i + 1] - r[1]]
<1>1. /\ n \in Nat /\ Tail(r) \in Seq(Int) /\ Len(Tail(r)) = n /\ Len(r) = n + 1
      /\ Head(r) = r[1] /\ r[1] \in Int
      /\ \A i \in 1..n : Tail(r)[i] = r[i + 1]
  OBVIOUS
<1>2. q \in [0..n -> Int] /\ q[0] = 0 /\ q[n] = p[n + 1] - r[1]
  BY <1>1 DEF PartialSums
<1>3. ASSUME NEW i \in 1..n
      PROVE  q[i] = q[i - 1] + Tail(r)[i]
  <2>1. /\ i \in 0..n /\ i - 1 \in 0..n /\ (i - 1) + 1 = i
        /\ i + 1 \in 1..Len(r) /\ (i + 1) - 1 = i
    BY <1>1
  <2>2. q[i] = p[i + 1] - r[1] /\ q[i - 1] = p[i] - r[1]
    BY <2>1
  <2>3. p[i + 1] = p[i] + r[i + 1]
    BY <2>1 DEF PartialSums
  <2>4. p[i] \in Int /\ r[i + 1] \in Int
    <3>1. i \in 0..Len(r)
      BY <1>1
    <3> QED
      BY <2>1, <3>1, ElementOfSeq DEF PartialSums
  <2>5. \A a, b, c \in Int : (a + b) - c = (a - c) + b
    OBVIOUS
  <2>6. (p[i] + r[i + 1]) - r[1] = (p[i] - r[1]) + r[i + 1]
    BY <1>1, <2>4, <2>5
  <2> QED
    BY <1>1, <2>2, <2>3, <2>6
<1> HIDE DEF q, n
<1>4. PartialSums(q, Tail(r))
  BY <1>1, <1>2, <1>3 DEF PartialSums
<1> QED
  BY <1>1, <1>2, <1>4 DEF n

\* Readings between two bounds have their mean between them.
LEMMA MeanBetween ==
    ASSUME NEW lo \in Int, NEW hi \in Int, NEW r \in Seq(lo..hi), r # <<>>,
           NEW p, PartialSums(p, r)
    PROVE  p[Len(r)] \div Len(r) \in lo..hi
<1> DEFINE S == {i \in Nat : i <= Len(r) => i * lo <= p[i] /\ p[i] <= i * hi}
<1>1. 0 \in S
  BY DEF PartialSums
<1>2. ASSUME NEW i \in Nat, i \in S
      PROVE  i + 1 \in S
  <2> SUFFICES ASSUME i + 1 <= Len(r)
               PROVE  (i + 1) * lo <= p[i + 1] /\ p[i + 1] <= (i + 1) * hi
    OBVIOUS
  <2>1. i + 1 \in 1..Len(r) /\ i \in 0..Len(r) /\ r[i + 1] \in lo..hi
    OBVIOUS
  <2>2. p[i] \in Int /\ p[i + 1] = p[i] + r[i + 1]
    <3>1. (i + 1) - 1 = i
      OBVIOUS
    <3> QED
      BY <2>1, <3>1 DEF PartialSums
  <2>3. i * lo <= p[i] /\ p[i] <= i * hi
    BY <1>2, <2>1
  <2>4. \A b \in Int : i * b \in Int /\ (i + 1) * b = i * b + b
    OBVIOUS
  <2>5. \A a, b, c, d \in Int : a <= b /\ c <= d => a + c <= b + d
    OBVIOUS
  <2>6. lo <= r[i + 1] /\ r[i + 1] <= hi /\ r[i + 1] \in Int
    BY <2>1
  <2>7. i * lo + lo <= p[i] + r[i + 1] /\ p[i] + r[i + 1] <= i * hi + hi
    BY <2>2, <2>3, <2>4, <2>5, <2>6, Zenon
  <2> QED
    BY <2>2, <2>4, <2>7, Zenon
<1>3. Nat \subseteq S
  <2> HIDE DEF S
  <2> QED
    BY <1>1, <1>2, SetInduction
<1> DEFINE n == Len(r)
<1>4. n \in Nat \ {0} /\ p[n] \in Int
  <2>1. n \in Nat \ {0} /\ n \in 0..Len(r)
    BY EmptySeq
  <2> QED
    BY <2>1 DEF PartialSums
<1>5. n * lo <= p[n] /\ p[n] <= n * hi
  BY <1>3, <1>4
<1> HIDE DEF n
<1>6. ASSUME NEW s \in Int, n * lo <= s, s <= n * hi
      PROVE  lo <= s \div n /\ s \div n <= hi /\ s \div n \in Int
  <2>1. n * lo <= s => lo <= s \div n
    BY <1>4
  <2>2. s <= n * hi => s \div n <= hi
    BY <1>4
  <2> QED
    BY <1>4, <1>6, <2>1, <2>2
<1>7. lo <= p[n] \div n /\ p[n] \div n <= hi /\ p[n] \div n \in Int
  <2>1. p[n] \in Int
    BY <1>4
  <2> QED
    BY <1>5, <1>6, <2>1, Zenon
<1> QED
  BY <1>7 DEF n

-----------------------------------------------------------------------------
(* The gauge in the cluster.                                               *)

\* The running sum is that of the window.
WindowSum == \E p : PartialSums(p, records) /\ sum = p[Len(records)]

LEMMA Kept ==
    ASSUME TypeOK, WindowSum, NEW val \in Voltages, Keep(val)
    PROVE  /\ WindowSum'
           /\ records' \in Seq(Voltages) /\ records' # <<>>
           /\ Len(records') <= FilterRange /\ sum' \in Int
<1> USE GaugeAssumption
<1>1. PICK p : PartialSums(p, records) /\ sum = p[Len(records)]
  BY DEF WindowSum
<1>2. /\ records \in Seq(Voltages) /\ records \in Seq(Int) /\ val \in Int
      /\ sum \in Int /\ Len(records) \in Nat /\ Len(records) <= FilterRange
  <2>1. Voltages \subseteq Int /\ records \in Seq(Voltages)
    BY DEF TypeOK
  <2>2. records \in Seq(Int)
    BY <2>1, SeqMonotonic
  <2> QED
    BY <2>1, <2>2 DEF TypeOK
<1>3. CASE Len(records) < FilterRange
  <2>1. records' = Append(records, val) /\ sum' = sum + val
    BY <1>3 DEF Keep
  <2>2. PICK q : PartialSums(q, records') /\ q[Len(records) + 1] = sum + val
    BY <1>1, <1>2, <2>1, OneMore
  <2>3. Len(records') = Len(records) + 1 /\ records' \in Seq(Voltages) /\ records' # <<>>
    BY <1>2, <2>1
  <2>4. q[Len(records')] = sum' /\ sum' \in Int
    BY <1>2, <2>1, <2>2, <2>3
  <2>5. Len(records') <= FilterRange
    BY <1>2, <1>3, <2>3
  <2> QED
    BY <2>2, <2>3, <2>4, <2>5 DEF WindowSum
<1>4. CASE ~(Len(records) < FilterRange)
  <2>1. records' = Append(Tail(records), val) /\ sum' = sum + val - Head(records)
    BY <1>4 DEF Keep
  <2>2. /\ records # <<>> /\ Len(records) = FilterRange
        /\ Tail(records) \in Seq(Voltages) /\ Tail(records) \in Seq(Int)
        /\ Len(Tail(records)) = Len(records) - 1 /\ Head(records) \in Int
    BY <1>2, <1>4
  <2>3. PICK q : PartialSums(q, Tail(records)) /\ q[Len(records) - 1] = sum - Head(records)
    BY <1>1, <1>2, <2>2, OneLess
  <2>4. PICK u : /\ PartialSums(u, records')
                 /\ u[Len(records)] = (sum - Head(records)) + val
    <3>1. PICK u : /\ PartialSums(u, Append(Tail(records), val))
                   /\ u[Len(Tail(records)) + 1] = q[Len(Tail(records))] + val
      BY <1>2, <2>2, <2>3, OneMore
    <3>2. Len(Tail(records)) + 1 = Len(records)
      BY <1>2, <2>2
    <3> QED
      BY <2>1, <2>2, <2>3, <3>1, <3>2
  <2>5. Len(records') = Len(records) /\ records' \in Seq(Voltages) /\ records' # <<>>
    BY <1>2, <2>1, <2>2
  <2>6. sum' = (sum - Head(records)) + val /\ sum' \in Int
    BY <1>2, <2>1, <2>2
  <2> QED
    BY <2>2, <2>4, <2>5, <2>6 DEF WindowSum
<1> QED
  BY <1>3, <1>4

LEMMA Filters ==
    ASSUME TypeOK
    PROVE  Filtered(volts) \in Voltages
<1>1. CASE Glitch(volts)
  <2>1. Len(records) \in 1..Len(records) /\ records[Len(records)] \in Voltages
    BY <1>1 DEF Glitch, TypeOK
  <2> QED
    BY <1>1, <2>1 DEF Filtered, Last
<1>2. CASE ~Glitch(volts)
  BY <1>2 DEF Filtered, TypeOK
<1> QED
  BY <1>1, <1>2

\* The average of a window that is not empty is one of integers.
LEMMA AverageIsInt ==
    ASSUME TypeOK, NEW val, GetSoc(val)
    PROVE  average' \in Int
<1>1. CASE records = <<>>
  BY <1>1 DEF GetSoc, TypeOK
<1>2. CASE records # <<>>
  <2>1. Len(records) \in Nat \ {0} /\ sum \in Int
    BY <1>2, EmptySeq DEF TypeOK
  <2>2. sum \div Len(records) \in Int
    BY <2>1
  <2> QED
    BY <1>2, <2>2 DEF GetSoc, Mean
<1> QED
  BY <1>1, <1>2

LEMMA SpeedIsNat ==
    ASSUME NEW rpm \in Rpms
    PROVE  Speed(rpm) \in Nat
BY ClusterAssumption DEF Speed

LEMMA NothingIsData == Nothing \in Data
BY DEF Nothing, Data

LEMMA PublishTyped ==
    ASSUME TypeOK, NEW next \in Data, Publish(next), Len(signals) < MaxSignals
    PROVE  /\ model' \in Data /\ informed' \in BOOLEAN
           /\ signals' \in Seq(Data) /\ Len(signals') <= MaxSignals
<1>1. CASE subscribed /\ next # model
  <2>1. signals' = Append(signals, next) /\ model' = next /\ informed' = TRUE
    BY <1>1 DEF Publish
  <2>2. signals \in Seq(Data) /\ Len(signals) \in Nat
    BY DEF TypeOK
  <2>3. signals' \in Seq(Data) /\ Len(signals') = Len(signals) + 1
    BY <2>1, <2>2
  <2> QED
    BY <2>1, <2>2, <2>3, ClusterAssumption
<1>2. CASE ~(subscribed /\ next # model)
  BY <1>2 DEF Publish, TypeOK
<1> QED
  BY <1>1, <1>2

LEMMA GatewayTyped ==
    ASSUME GatewayTypeOK,
           \/ OpenCan \/ ConnectCanModel \/ WorkerSteps \/ ReadReturns
           \/ LeaveMain \/ Stop \/ Quit \/ WaitEnds \/ ProcessEnds
    PROVE  GatewayTypeOK'
<1> USE InboxAssumption DEF GatewayTypeOK, Workers, Closing
<1>1. CASE ReadReturns
  <2>1. ASSUME NEW frame \in Frames, ReadFrame(frame)
        PROVE  GatewayTypeOK'
    <3>1. inbox' \in Seq(Frames) /\ Len(inbox') <= MaxInbox
      BY <2>1 DEF ReadFrame
    <3> QED
      BY <2>1, <3>1 DEF ReadFrame
  <2>2. CASE ReadFails
    BY <2>2 DEF ReadFails
  <2> QED
    BY <1>1, <2>1, <2>2 DEF ReadReturns
<1>2. CASE WorkerSteps
  BY <1>2 DEF WorkerSteps, StartChecks, StartActivates, LoopLooks, ThreadEnds
<1>3. CASE OpenCan \/ ConnectCanModel \/ Stop \/ Quit \/ WaitEnds
  BY <1>3 DEF OpenCan, ConnectCanModel, Stop, Quit, WaitEnds
<1>4. CASE LeaveMain \/ ProcessEnds
  <2>1. inbox' = <<>>
    BY <1>4 DEF LeaveMain, ProcessEnds
  <2>2. inbox' \in Seq(Frames) /\ Len(inbox') <= MaxInbox
    BY <2>1
  <2> QED
    BY <1>4, <2>2 DEF LeaveMain, ProcessEnds
<1> QED
  BY <1>1, <1>2, <1>3, <1>4

TInv == TypeOK /\ WindowSum

LEMMA InitiallyTyped == Init => TInv
<1> SUFFICES ASSUME Init PROVE TInv
  OBVIOUS
<1>1. TypeOK
  <2>1. GatewayTypeOK
    <3>1. inbox = <<>>
      BY DEF Init, NoGateway
    <3>2. inbox \in Seq(Frames) /\ Len(inbox) <= MaxInbox
      BY <3>1, InboxAssumption
    <3> QED
      BY <3>2 DEF Init, NoGateway, GatewayTypeOK, Workers
  <2>2. /\ records \in Seq(Voltages) /\ Len(records) <= FilterRange
        /\ signals \in Seq(Data) /\ Len(signals) <= MaxSignals
    BY GaugeAssumption, ClusterAssumption, EmptySeq DEF Init, GaugeStart
  <2>3. model \in Data /\ headUnit \in Data /\ answer \in Data /\ volts \in Voltages
    BY NothingIsData DEF Init
  <2>4. sum \in Int /\ average \in Int
    BY DEF Init, GaugeStart
  <2>5. /\ hasBattery \in BOOLEAN /\ subscribed \in BOOLEAN /\ informed \in BOOLEAN
        /\ call \in {"none", "asked", "answered"}
    BY Zenon DEF Init
  <2> QED
    BY <2>1, <2>2, <2>3, <2>4, <2>5, Zenon DEF TypeOK
<1>2. WindowSum
  <2> DEFINE p == [i \in 0..0 |-> 0]
  <2>1. Len(records) = 0 /\ sum = 0
    BY DEF Init, GaugeStart
  <2>2. PartialSums(p, records) /\ p[Len(records)] = 0
    BY <2>1 DEF PartialSums
  <2> QED
    BY <2>1, <2>2 DEF WindowSum
<1> QED
  BY <1>1, <1>2 DEF TInv

LEMMA SameWindow ==
    ASSUME WindowSum, UNCHANGED <<records, sum>>
    PROVE  WindowSum'
BY DEF WindowSum

LEMMA StepTyped == TInv /\ [Next]_vars => TInv'
<1> SUFFICES ASSUME TInv, [Next]_vars PROVE TInv'
  OBVIOUS
<1> USE DEF TInv
<1>1. CASE UNCHANGED vars
  BY <1>1 DEF vars, TypeOK, GatewayTypeOK, WindowSum
<1>3. CASE ClusterGone /\ GatewayTypeOK'
  <2>1. TypeOK'
    <3>1. records' \in Seq(Voltages) /\ Len(records') <= FilterRange
      BY <1>3, GaugeAssumption, EmptySeq DEF ClusterGone
    <3>2. model' \in Data /\ sum' \in Int /\ average' \in Int
      BY <1>3, NothingIsData DEF ClusterGone
    <3>3. /\ hasBattery' \in BOOLEAN /\ informed' \in BOOLEAN
          /\ subscribed' \in BOOLEAN /\ call' \in {"none", "asked", "answered"}
      BY <1>3, Zenon DEF ClusterGone, TypeOK
    <3>4. /\ volts' \in Voltages /\ headUnit' \in Data /\ answer' \in Data
          /\ signals' \in Seq(Data) /\ Len(signals') <= MaxSignals
      BY <1>3 DEF ClusterGone, TypeOK
    <3> QED
      BY <1>3, <3>1, <3>2, <3>3, <3>4, Zenon DEF TypeOK
  <2>2. WindowSum'
    <3> DEFINE p == [i \in 0..0 |-> 0]
    <3>1. Len(records') = 0 /\ sum' = 0
      BY <1>3 DEF ClusterGone
    <3>2. PartialSums(p, records') /\ p[Len(records')] = 0
      BY <3>1 DEF PartialSums
    <3> QED
      BY <3>1, <3>2 DEF WindowSum
  <2> QED
    BY <2>1, <2>2
<1>4. CASE ClusterStarts
  <2>1. GatewayTypeOK'
    BY <1>4, GatewayTyped DEF ClusterStarts, TypeOK
  <2> QED
    BY <1>4, <2>1, SameWindow DEF ClusterStarts, TypeOK
<1>5. CASE ReceiveCanData
  <2>1. inbox' \in Seq(Frames) /\ Len(inbox') <= MaxInbox /\ Head(inbox) \in Frames
    BY <1>5, InboxAssumption DEF ReceiveCanData, TypeOK, GatewayTypeOK
  <2>2. GatewayTypeOK'
    BY <1>5, <2>1 DEF ReceiveCanData, TypeOK, GatewayTypeOK
  <2> DEFINE next == IF Head(inbox) = Other THEN model
                     ELSE [model EXCEPT !.speed = Speed(Head(inbox))]
  <2>3. next \in Data
    <3>1. model \in Data
      BY DEF TypeOK
    <3>2. Head(inbox) # Other => Speed(Head(inbox)) \in Nat
      BY <2>1, SpeedIsNat, ClusterAssumption
    <3> QED
      BY <3>1, <3>2 DEF Data
  <2>4. Publish(next) /\ Len(signals) < MaxSignals
    BY <1>5 DEF ReceiveCanData
  <2> HIDE DEF next
  <2> QED
    BY <1>5, <2>2, <2>3, <2>4, PublishTyped, SameWindow DEF ReceiveCanData, TypeOK
<1>6. CASE BatteryTimeout
  <2>1. GetSoc(volts) /\ Keep(Filtered(volts)) /\ Filtered(volts) \in Voltages
    BY <1>6, Filters DEF BatteryTimeout, GetSoc
  <2>2. /\ WindowSum' /\ records' \in Seq(Voltages)
        /\ Len(records') <= FilterRange /\ sum' \in Int
    BY <2>1, Kept
  <2>3. average' \in Int
    BY <2>1, AverageIsInt
  <2> DEFINE next == [model EXCEPT !.battery = SoC(average')]
  <2>4. next \in Data
    <3>1. SoC(average') \in 0..100
      BY <2>3, Percentage
    <3> QED
      BY <3>1 DEF TypeOK, Data
  <2>5. Publish(next) /\ Len(signals) < MaxSignals
    BY <1>6 DEF BatteryTimeout
  <2> HIDE DEF next
  <2>6. /\ model' \in Data /\ informed' \in BOOLEAN
        /\ signals' \in Seq(Data) /\ Len(signals') <= MaxSignals
    BY <2>4, <2>5, PublishTyped
  <2>7. GatewayTypeOK'
    BY <1>6 DEF BatteryTimeout, TypeOK, GatewayTypeOK
  <2> QED
    BY <1>6, <2>2, <2>3, <2>6, <2>7 DEF BatteryTimeout, TypeOK
<1>7. CASE VoltageChanges \/ GetVehicleData \/ HeadUnitFetched
  <2>1. GatewayTypeOK' /\ WindowSum'
    BY <1>7, SameWindow DEF VoltageChanges, GetVehicleData, HeadUnitFetched, TypeOK,
       GatewayTypeOK
  <2> QED
    BY <1>7, <2>1, NothingIsData DEF VoltageChanges, GetVehicleData, HeadUnitFetched,
       TypeOK
<1>8. CASE HeadUnitStarts \/ OnVehicleDataChanged
  <2>1. GatewayTypeOK' /\ WindowSum'
    BY <1>8, SameWindow DEF HeadUnitStarts, OnVehicleDataChanged, TypeOK, GatewayTypeOK
  <2>2. signals' \in Seq(Data) /\ Len(signals') <= MaxSignals /\ headUnit' \in Data
    <3>1. CASE HeadUnitStarts
      BY <3>1, ClusterAssumption, EmptySeq, NothingIsData DEF HeadUnitStarts
    <3>2. CASE OnVehicleDataChanged
      <4>1. signals \in Seq(Data) /\ Len(signals) \in Nat /\ Len(signals) <= MaxSignals
        BY DEF TypeOK
      <4>2. /\ Tail(signals) \in Seq(Data) /\ Head(signals) \in Data
            /\ Len(Tail(signals)) <= Len(signals)
        BY <3>2, <4>1 DEF OnVehicleDataChanged
      <4>3. signals' = Tail(signals) /\ headUnit' = Head(signals)
        BY <3>2 DEF OnVehicleDataChanged
      <4> QED
        BY <4>1, <4>2, <4>3, ClusterAssumption
    <3> QED
      BY <1>8, <3>1, <3>2
  <2> QED
    BY <1>8, <2>1, <2>2, NothingIsData DEF HeadUnitStarts, OnVehicleDataChanged, TypeOK
<1>9. CASE \/ GatewayStep(ConnectCanModel) \/ GatewayStep(WorkerSteps)
           \/ GatewayStep(ReadReturns) \/ GatewayStep(LeaveMain)
           \/ GatewayStep(Stop \/ Quit \/ WaitEnds)
  <2>1. GatewayTypeOK'
    BY <1>9, GatewayTyped DEF GatewayStep, TypeOK
  <2> QED
    BY <1>9, <2>1, SameWindow DEF GatewayStep, TypeOK
<1>10. CASE ClusterKilled \/ (Erase /\ ClusterGone)
  <2>1. GatewayTypeOK' /\ ClusterGone
    BY <1>10, GatewayTyped DEF ClusterKilled, Erase, TypeOK
  <2> QED
    BY <1>3, <2>1
<1> QED
  BY <1>1, <1>4, <1>5, <1>6, <1>7, <1>8, <1>9, <1>10 DEF Next, ClusterCloses

LEMMA Typed == Spec => []TInv
BY InitiallyTyped, StepTyped, PTL DEF Spec

\* Types, the window of the gauge and the queues within their lengths, and a
\* charge that is a percentage.
THEOREM ClusterTyped == Spec => []TypeOK
<1>1. TInv => TypeOK
  BY DEF TInv
<1> QED
  BY <1>1, Typed, PTL

\* What getSoc adds and takes away reading by reading is at all times the sum
\* of the readings it keeps.
THEOREM SumOfWindow == Spec => [](sum = Total(records))
<1>1. TInv => sum = Total(records)
  <2> SUFFICES ASSUME TypeOK, WindowSum
               PROVE  sum = Total(records)
    BY DEF TInv
  <2>1. PICK p : PartialSums(p, records) /\ sum = p[Len(records)]
    BY DEF WindowSum
  <2>2. records \in Seq(Int)
    BY GaugeAssumption, SeqMonotonic DEF TypeOK
  <2> QED
    BY <2>1, <2>2, TotalIsPartial
<1> QED
  BY <1>1, Typed, PTL
-----------------------------------------------------------------------------
(* What the gauge shows.                                                   *)

\* The average is one of readings, and the charge that of an average; both
\* are zero before the first reading.
Shown(lo, hi) ==
    /\ average \in {0} \cup (lo..hi)
    /\ model.battery \in {0} \cup (SoC(lo)..SoC(hi))

LEMMA AverageShown ==
    ASSUME NEW lo \in Int, NEW hi \in Int, Voltages \subseteq lo..hi,
           TInv, Shown(lo, hi), NEW val, GetSoc(val)
    PROVE  average' \in {0} \cup (lo..hi)
<1>1. CASE records = <<>>
  BY <1>1 DEF GetSoc, Shown
<1>2. CASE records # <<>>
  <2>1. PICK p : PartialSums(p, records) /\ sum = p[Len(records)]
    BY DEF TInv, WindowSum
  <2>2. records \in Seq(lo..hi)
    BY SeqMonotonic DEF TInv, TypeOK
  <2>3. sum \div Len(records) \in lo..hi
    BY <1>2, <2>1, <2>2, MeanBetween
  <2> QED
    BY <1>2, <2>3 DEF GetSoc, Mean
<1> QED
  BY <1>1, <1>2

LEMMA ChargeShown ==
    ASSUME NEW lo \in Int, NEW hi \in Int, NEW a \in {0} \cup (lo..hi)
    PROVE  SoC(a) \in {0} \cup (SoC(lo)..SoC(hi))
<1>1. CASE a = 0
  BY <1>1, Entries DEF SoC, Upper, Cells, Table
<1>2. CASE a \in lo..hi
  <2>1. SoC(lo) \in Int /\ SoC(a) \in Int /\ SoC(hi) \in Int
    BY <1>2, Percentage
  <2>2. SoC(lo) <= SoC(a) /\ SoC(a) <= SoC(hi)
    BY <1>2, ChargeRises
  <2> QED
    BY <2>1, <2>2
<1> QED
  BY <1>1, <1>2

LEMMA StepShown ==
    ASSUME NEW lo \in Int, NEW hi \in Int, Voltages \subseteq lo..hi,
           TInv, Shown(lo, hi), [Next]_vars
    PROVE  Shown(lo, hi)'
<1>1. CASE ClusterGone
  BY <1>1 DEF ClusterGone, Shown, Nothing
<1>2. CASE ReceiveCanData
  <2> DEFINE next == IF Head(inbox) = Other THEN model
                     ELSE [model EXCEPT !.speed = Speed(Head(inbox))]
  <2>1. average' = average /\ Publish(next)
    BY <1>2 DEF ReceiveCanData, batteryVars
  <2>2. next.battery = model.battery
    BY DEF TInv, TypeOK, Data
  <2>3. model' = next \/ model' = model
    BY <2>1 DEF Publish
  <2> QED
    BY <2>1, <2>2, <2>3 DEF Shown
<1>3. CASE BatteryTimeout
  <2> DEFINE next == [model EXCEPT !.battery = SoC(average')]
  <2>1. GetSoc(volts) /\ Publish(next)
    BY <1>3 DEF BatteryTimeout
  <2>2. average' \in {0} \cup (lo..hi)
    BY <2>1, AverageShown
  <2>3. next.battery = SoC(average')
    BY DEF TInv, TypeOK, Data
  <2>4. next.battery \in {0} \cup (SoC(lo)..SoC(hi))
    BY <2>2, <2>3, ChargeShown
  <2>5. model' = next \/ model' = model
    BY <2>1 DEF Publish
  <2> QED
    BY <2>2, <2>4, <2>5 DEF Shown
<1>4. CASE UNCHANGED <<average, model>>
  BY <1>4 DEF Shown
<1> QED
  <2>1. CASE UNCHANGED vars
    BY <1>4, <2>1 DEF vars, batteryVars
  <2>2. CASE Next
    BY <1>1, <1>2, <1>3, <1>4, <2>2 DEF Next, ClusterCloses, ClusterKilled,
       ClusterStarts, VoltageChanges, GetVehicleData, HeadUnitFetched,
       HeadUnitStarts, OnVehicleDataChanged, GatewayStep, batteryVars
  <2> QED
    BY <2>1, <2>2

\* The gauge shows a charge between those of the lowest and of the highest
\* voltage the chip can answer, or the zero it starts with: neither the drop
\* filter nor the running sum can take the average out of the readings.
THEOREM ShowsACharge ==
    ASSUME NEW lo \in Int, NEW hi \in Int, Voltages \subseteq lo..hi
    PROVE  Spec => [](model.battery \in {0} \cup (SoC(lo)..SoC(hi)))
<1>1. Init => Shown(lo, hi)
  BY DEF Init, GaugeStart, Nothing, Shown
<1>2. TInv /\ Shown(lo, hi) /\ [Next]_vars => Shown(lo, hi)'
  BY StepShown
<1>3. Shown(lo, hi) => model.battery \in {0} \cup (SoC(lo)..SoC(hi))
  BY DEF Shown
<1> QED
  BY <1>1, <1>2, <1>3, Typed, PTL DEF Spec
=============================================================================
