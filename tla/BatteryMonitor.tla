--------------------------- MODULE BatteryMonitor ---------------------------
(***************************************************************************)
(* The cluster's battery gauge: the filter over the last readings of the   *)
(* INA219 (BatteryMonitor.cpp) and the table from voltage to charge        *)
(* (BatterySoc.cpp).  Voltages are whole millivolts of the pack; a reading *)
(* that fails is -1000 (getBusVoltage returns -1).  The code computes in   *)
(* floats: averages are rounded down to a millivolt here.                  *)
(***************************************************************************)
EXTENDS Integers, Sequences, SequencesExt

CONSTANTS
    FilterRange,    \* readings kept (10 in the code)
    Threshold,      \* millivolts below the average that are a glitch (30)
    Voltages        \* what the chip can be made to answer

ASSUME GaugeAssumption ==
    /\ FilterRange \in Nat \ {0}
    /\ Threshold \in Nat
    /\ Voltages \subseteq Int

VARIABLES
    volts,          \* what the chip answers now
    records,        \* _vrecord, oldest first
    sum,            \* _sum, kept up to date reading by reading
    average         \* _average

batteryVars == <<records, sum, average>>

Cells == 3

\* initializeDefaultTable: millivolts of one cell and per cent.
Table == << <<4145, 100>>, <<4100, 93>>, <<4050, 85>>, <<4000, 80>>,
            <<3950, 70>>, <<3870, 60>>, <<3820, 50>>, <<3790, 40>>,
            <<3750, 30>>, <<3700, 20>>, <<3600, 10>>, <<3500, 0>> >>

Upper(i) == Cells * Table[i][1]
Charge(i) == Table[i][2]

\* The voltage lies between entry k and the next one.
Holds(k, v) == v <= Upper(k) /\ v >= Upper(k + 1)

\* On the line between the two, as the conversion to int cuts it.
Interpolated(k, v) ==
    LET span == Upper(k) - Upper(k + 1)
        drop == Charge(k) - Charge(k + 1)
    IN  (Charge(k) * span - (Upper(k) - v) * drop) \div span

\* voltageToSoC: the first pair of entries around the voltage.
SoC(v) ==
    IF v >= Upper(1) THEN 100
    ELSE IF v <= Upper(Len(Table)) THEN 0
    ELSE Interpolated(
            CHOOSE k \in 1..Len(Table) - 1 :
                Holds(k, v) /\ \A j \in 1..k - 1 : ~Holds(j, v), v)

Mean == sum \div Len(records)

\* _filterAbnormalDrop: a reading far below the average of those before it is
\* replaced by the last one kept.
Glitch(val) == records # <<>> /\ val < Mean - Threshold
Filtered(val) == IF Glitch(val) THEN Last(records) ELSE val

GaugeStart == records = <<>> /\ sum = 0 /\ average = 0

\* The reading is kept, and in a full window takes the place of the oldest.
Keep(val) ==
    IF Len(records) < FilterRange
    THEN records' = Append(records, val) /\ sum' = sum + val
    ELSE /\ records' = Append(Tail(records), val)
         /\ sum' = sum + val - Head(records)

\* Mutant: the oldest reading is never dropped.
GetSocUntrimmed(val) ==
    /\ average' = IF records = <<>> THEN average ELSE Mean
    /\ records' = Append(records, Filtered(val))
    /\ sum' = sum + Filtered(val)

\* Mutant: a glitch is left out instead of being replaced.
GetSocSkipping(val) ==
    /\ average' = IF records = <<>> THEN average ELSE Mean
    /\ IF Glitch(val) THEN UNCHANGED <<records, sum>> ELSE Keep(val)

\* getSoc: the average is of the readings before this one.
GetSoc(val) ==
    /\ average' = IF records = <<>> THEN average ELSE Mean
    /\ Keep(Filtered(val))
=============================================================================
