----------------------------- MODULE SlotUpdate -----------------------------
(***************************************************************************)
(* What the A/B boot protocol promises, without files, scripts or crashes: *)
(* one slot is booted next; an update puts the other slot on trial for a   *)
(* limited number of boots; the trial ends with the slot proven or with    *)
(* the slot before it active again.  Every step is atomic.                 *)
(***************************************************************************)
EXTENDS Naturals

CONSTANTS Slots,    \* the rootfs slots
          First,    \* the slot a fresh device runs
          Tries,    \* boots a trial may use, the one that gives up included
          NoTrial

\* What an instance has to provide.
WellFormed ==
  /\ First \in Slots
  /\ Tries \in Nat \ {0}
  /\ NoTrial \notin [slot: Slots, fallback: Slots, left: Nat]

VARIABLES active,   \* the slot the next boot takes
          trial,    \* the trial in progress
          proven    \* slots whose content was found healthy

vars == <<active, trial, proven>>

TypeOK ==
  /\ active \in Slots
  /\ trial \in [slot: Slots, fallback: Slots, left: 1..Tries] \cup {NoTrial}
  /\ proven \subseteq Slots

Init ==
  /\ active = First
  /\ trial = NoTrial
  /\ proven = {First}

\* An installation begins to overwrite a slot that is not in use.
Overwrite(s) ==
  /\ trial = NoTrial /\ s # active /\ active \in proven
  /\ proven' = proven \ {s}
  /\ UNCHANGED <<active, trial>>

\* The new content goes on trial; the proven slot stays as fallback.
Arm(s) ==
  /\ trial = NoTrial /\ s # active /\ active \in proven
  /\ active' = s
  /\ trial' = [slot |-> s, fallback |-> active, left |-> Tries]
  /\ UNCHANGED proven

Spend ==
  /\ trial # NoTrial /\ trial.left > 1
  /\ trial' = [trial EXCEPT !.left = @ - 1]
  /\ UNCHANGED <<active, proven>>

Prove ==
  /\ trial # NoTrial
  /\ proven' = proven \cup {trial.slot}
  /\ UNCHANGED <<active, trial>>

Conclude ==
  /\ trial # NoTrial /\ trial.slot \in proven
  /\ trial' = NoTrial
  /\ UNCHANGED <<active, proven>>

Revert ==
  /\ trial # NoTrial
  /\ active' = trial.fallback
  /\ trial' = NoTrial
  /\ UNCHANGED proven

Next ==
  \/ \E s \in Slots : Overwrite(s) \/ Arm(s)
  \/ Spend \/ Prove \/ Conclude \/ Revert

Spec == Init /\ [][Next]_vars

\* Whatever happens, the device can come back to a proven slot: the one it
\* boots next, or the fallback of the trial in progress.
ProvenSlotReachable ==
  IF trial = NoTrial THEN active \in proven
  ELSE /\ trial.slot = active
       /\ trial.fallback \in proven \ {active}
=============================================================================
