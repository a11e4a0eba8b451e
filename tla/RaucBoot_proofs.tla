-------------------------- MODULE RaucBoot_proofs --------------------------
(***************************************************************************)
(* Proofs about RaucBoot, in three parts: the types and the boot budget,   *)
(* whatever power cuts leave on the card and whenever installs begin; that *)
(* a half-written slot stays shut, when no install begins over a pending   *)
(* update; and that the scripts implement SlotUpdate and keep a way back   *)
(* wherever /boot is not exposed.  Each part adds its own invariant to     *)
(* IInv.                                                                   *)
(***************************************************************************)
EXTENDS RaucBoot, TLAPS

\* What the scripts rely on and TypeOK does not say: they run only in user
\* space, on a booted slot, and read back the variables they sourced.
ScriptsOk ==
  /\ boot \in {"check", "count_sync", "revert_sync", "user"} => booted \in Slot
  /\ boot # "user" => guard = "wait" /\ rauc = "idle"
  /\ guard = "watch" => sourced \in Slot
  /\ rauc \in {"record", "publish", "publish_sync"} => current \in Slot

\* The budget of one copy of /boot.
BudgetOf(files, used) ==
  files.state \in Record =>
    /\ files.state.attempts \in 1..BootAttempts
    /\ files.state.attempts + used <= BootAttempts

\* A power cut brings back the record on the card, so that has to be within
\* budget as well; a boot is charged before its count reaches the card.
BudgetInv ==
  /\ BudgetOf(mem, trials)
  /\ BudgetOf(disk, trials)
  /\ boot = "count_sync" =>
       mem.state \in Record /\ mem.state.attempts + trials + 1 <= BootAttempts

IInv == TypeOK /\ ScriptsOk /\ BudgetInv

LEMMA OtherSlot == \A s : Other(s) \in Slot
BY DEF Other, Slot

\* load_backend_state yields a primary slot and two marks from any /boot.
LEMMA LoadedType ==
  ASSUME NEW files \in BootFiles
  PROVE  Loaded(files) \in Backend
BY RaucBootAssumption DEF Loaded, BootFiles, Backend, Slot

\* A rollback leaves well-formed files and no record.
LEMMA RevertedType ==
  ASSUME NEW files \in BootFiles, NEW s \in Slot
  PROVE  /\ Reverted(files, s) \in BootFiles
         /\ Reverted(files, s).state = Absent
BY RaucBootAssumption DEF Reverted, BootFiles, Slot

LEMMA InitIInv == Init => IInv
<1> SUFFICES ASSUME Init
             PROVE  IInv
  OBVIOUS
<1>1. exposed \in BOOLEAN
  BY DEF Init
<1>2. mem \in BootFiles /\ disk = mem /\ image \in [Slot -> Rootfs]
  BY RaucBootAssumption DEF Init, BootFiles, Slot, Rootfs, Image
<1> QED
  BY RaucBootAssumption, <1>1, <1>2
  DEF Init, IInv, TypeOK, ScriptsOk, BudgetInv, BudgetOf, BootStage, GuardStage,
      RaucStage, Slot

\* Every action keeps the variables within their types.
LEMMA TypeNext ==
  TypeOK /\ ScriptsOk /\ [Next]_vars => TypeOK'
<1> SUFFICES ASSUME TypeOK, ScriptsOk, [Next]_vars
             PROVE  TypeOK'
  OBVIOUS
<1> USE RaucBootAssumption DEF TypeOK, BootFiles, BootStage, GuardStage, RaucStage, ScriptsOk, fileVars, bootVars, guardVars, raucVars, history
<1>1. CASE PowerOn
  BY <1>1 DEF PowerOn
<1>2. CASE CheckNothingPending
  BY <1>2 DEF CheckNothingPending
<1>3. CASE CheckStale
  BY <1>3 DEF CheckStale, OnTrial
<1>4. CASE CheckRollback
  BY <1>4, RevertedType DEF CheckRollback, OnTrial, Record
<1>5. CASE CheckRollbackSync
  BY <1>5 DEF CheckRollbackSync, Sync, Halted
<1>6. CASE CheckCount
  <2>1. mem' \in BootFiles
    <3>0. mem.state \in Record /\ mem.state.attempts > 1
      BY <1>6 DEF CheckCount, OnTrial
    <3>1. mem.state \in Record /\ mem.state.attempts - 1 \in Nat
      BY <3>0 DEF Record
    <3>2. [mem.state EXCEPT !.attempts = @ - 1] \in Record
      BY <3>1 DEF Record
    <3> QED
      BY <1>6, <3>2 DEF CheckCount
  <2>2. boot' = "count_sync" /\ UNCHANGED <<disk, image, booted, guardVars, raucVars, history>>
    BY <1>6 DEF CheckCount
  <2> QED
    BY <2>1, <2>2
<1>7. CASE CheckCountSync
  BY <1>7 DEF CheckCountSync, Sync
<1>8. CASE GuardSkip
  BY <1>8 DEF GuardSkip
<1>9. CASE GuardStale
  <2>1. mem' \in BootFiles
    BY <1>9 DEF GuardStale
  <2> QED
    BY <1>9, <2>1 DEF GuardStale
<1>10. CASE GuardBegin
  <2>1. sourced' \in Slot
    <3>1. mem.state \in Record /\ sourced' = mem.state.prev
      BY <1>10 DEF GuardBegin, OnTrial
    <3> QED
      BY <3>1 DEF Record
  <2> QED
    BY <1>10, <2>1 DEF GuardBegin
<1>11. CASE GuardStable
  BY <1>11, LoadedType DEF GuardStable, Backend
<1>12. CASE GuardMarkSync
  BY <1>12 DEF GuardMarkSync, Sync
<1>13. CASE GuardClear
  <2>1. mem' \in BootFiles
    BY <1>13 DEF GuardClear
  <2> QED
    BY <1>13, <2>1 DEF GuardClear
<1>14. CASE GuardClearSync
  BY <1>14 DEF GuardClearSync, Sync
<1>15. CASE GuardRollback
  BY <1>15, RevertedType DEF GuardRollback
<1>16. CASE GuardRollbackSync
  BY <1>16 DEF GuardRollbackSync, Sync, Halted
<1>17. CASE InstallBegin
  BY <1>17, LoadedType, OtherSlot DEF InstallBegin, Target, Backend
<1>18. CASE InstallBadSync
  BY <1>18, OtherSlot DEF InstallBadSync, Sync, Target, Rootfs
<1>19. CASE InstallWritten
  BY <1>19, OtherSlot DEF InstallWritten, Target, Rootfs
<1>20. CASE SetPrimarySwitch
  <2>1. Target \in Slot
    BY OtherSlot DEF Target
  <2>2. current' \in Slot
    BY <1>20, <2>1 DEF SetPrimarySwitch
  <2>3. mem.cmdline \in Slot => [mem EXCEPT !.prev = mem.cmdline, !.cmdline = Target] \in BootFiles
    BY <2>1
  <2>4. mem' \in BootFiles
    <3>1. CASE current' = Target
      BY <1>20, <3>1 DEF SetPrimarySwitch
    <3>2. CASE current' # Target
      BY <1>20, <2>3, <3>2 DEF SetPrimarySwitch
    <3>3. QED
      BY <3>1, <3>2
  <2>5. rauc' \in RaucStage /\ UNCHANGED <<disk, image, bootVars, guardVars, history>>
    BY <1>20 DEF SetPrimarySwitch
  <2>6. QED
    BY <2>2, <2>4, <2>5
<1>21. CASE SetPrimaryRecord
  BY <1>21, OtherSlot DEF SetPrimaryRecord, Target, Record
<1>22. CASE SetPrimaryPublish
  BY <1>22, OtherSlot, LoadedType DEF SetPrimaryPublish, Target, Backend
<1>23. CASE SetPrimarySync
  BY <1>23 DEF SetPrimarySync, Sync
<1>24. CASE InstallFails
  BY <1>24 DEF InstallFails
<1>25. CASE Reboot
  BY <1>25 DEF Reboot, Sync, Halted
<1>26. CASE PowerCut
  BY <1>26 DEF PowerCut, Survives, Halted
<1>27. CASE CrashReboot
  BY <1>27 DEF CrashReboot, Halted
<1>28. CASE PowerCycle
  BY <1>28 DEF PowerCycle, Halted
<1>29. CASE Writeback
  BY <1>29 DEF Writeback, Sync
<1>30. CASE UNCHANGED vars
  BY <1>30 DEF vars
<1>31. QED
  BY <1>1, <1>2, <1>3, <1>4, <1>5, <1>6, <1>7, <1>8, <1>9, <1>10, <1>11, <1>12, <1>13, <1>14, <1>15, <1>16, <1>17, <1>18, <1>19, <1>20, <1>21, <1>22, <1>23, <1>24, <1>25, <1>26, <1>27, <1>28, <1>29, <1>30 DEF Next, BootCheck, Guard, Install

\* Scripts start when user space is reached and end when it is left.
LEMMA ScriptsNext ==
  TypeOK /\ ScriptsOk /\ [Next]_vars => ScriptsOk'
<1> SUFFICES ASSUME TypeOK, ScriptsOk, [Next]_vars
             PROVE  ScriptsOk'
  OBVIOUS
<1> USE RaucBootAssumption
    DEF TypeOK, BootStage, ScriptsOk, bootVars, guardVars, raucVars
<1>1. CASE PowerOn
  <2>1. disk.cmdline # Torn => disk.cmdline \in Slot
    BY DEF BootFiles
  <2>2. QED
    BY <1>1, <2>1 DEF PowerOn
<1>2. CASE BootCheck
  BY <1>2 DEF BootCheck, CheckNothingPending, CheckStale, CheckRollback,
     CheckRollbackSync, CheckCount, CheckCountSync, Halted
<1>3. CASE GuardBegin
  BY <1>3 DEF GuardBegin, OnTrial, Record
<1>4. CASE Guard /\ ~GuardBegin
  BY <1>4 DEF Guard, GuardSkip, GuardStale, GuardStable, GuardMarkSync,
     GuardClear, GuardClearSync, GuardRollback, GuardRollbackSync, Halted
<1>5. CASE SetPrimarySwitch
  <2>1. current' \in Slot
    BY <1>5, OtherSlot DEF SetPrimarySwitch, Target, BootFiles
  <2>2. QED
    BY <1>5, <2>1 DEF SetPrimarySwitch
<1>6. CASE Install /\ ~SetPrimarySwitch
  BY <1>6 DEF Install, InstallBegin, InstallBadSync, InstallWritten,
     SetPrimaryRecord, SetPrimaryPublish, SetPrimarySync, InstallFails
<1>7. CASE Reboot \/ PowerCut \/ CrashReboot \/ PowerCycle
  BY <1>7 DEF Reboot, PowerCut, CrashReboot, PowerCycle, Halted
<1>8. CASE Writeback
  BY <1>8 DEF Writeback
<1>9. CASE UNCHANGED vars
  BY <1>9 DEF vars
<1>10. QED
  BY <1>1, <1>2, <1>3, <1>4, <1>5, <1>6, <1>7, <1>8, <1>9 DEF Next

\* No action overdraws the budget, on the card or in memory.
LEMMA BudgetNext ==
  TypeOK /\ ScriptsOk /\ BudgetInv /\ [Next]_vars => BudgetInv'
<1> SUFFICES ASSUME TypeOK, ScriptsOk, BudgetInv, [Next]_vars
             PROVE  BudgetInv'
  OBVIOUS
<1> USE RaucBootAssumption
    DEF TypeOK, BootStage, ScriptsOk, BudgetInv,
        fileVars, bootVars, guardVars, raucVars, history
<1>1. CASE PowerOn \/ CheckNothingPending
  BY <1>1 DEF PowerOn, CheckNothingPending, BudgetOf
<1>2. CASE CheckStale
  BY <1>2 DEF CheckStale, BudgetOf, BootFiles
<1>3. CASE CheckRollback \/ GuardRollback
  <2>1. mem'.state = Absent
    BY <1>3, RevertedType DEF CheckRollback, GuardRollback, OnTrial, Record
  <2>2. disk' = disk /\ trials' = trials /\ boot' # "count_sync"
    BY <1>3 DEF CheckRollback, GuardRollback
  <2>3. QED
    BY <2>1, <2>2 DEF BudgetOf
<1>4. CASE CheckRollbackSync \/ GuardRollbackSync \/ Reboot
  BY <1>4 DEF CheckRollbackSync, GuardRollbackSync, Reboot, Sync, Halted, BudgetOf
<1>5. CASE CheckCount
  <2>1. mem.state \in Record /\ mem.state.attempts > 1
    BY <1>5 DEF CheckCount, OnTrial
  <2>2. /\ mem'.state = [mem.state EXCEPT !.attempts = @ - 1]
        /\ disk' = disk /\ trials' = trials
    BY <1>5 DEF CheckCount, BootFiles
  <2>3. mem'.state \in Record /\ mem'.state.attempts = mem.state.attempts - 1
    BY <2>1, <2>2 DEF Record
  <2>4. BudgetOf(mem, trials) /\ BudgetOf(disk, trials)
    OBVIOUS
  <2>5. mem.state.attempts + trials <= BootAttempts /\ mem.state.attempts \in Nat
    BY <2>1, <2>4 DEF BudgetOf
  <2>6. /\ mem'.state.attempts \in 1..BootAttempts
        /\ mem'.state.attempts + trials' + 1 <= BootAttempts
    BY <2>1, <2>2, <2>3, <2>5
  <2>7. QED
    BY <2>2, <2>3, <2>4, <2>6 DEF BudgetOf
<1>6. CASE CheckCountSync
  <2>1. mem.state \in Record /\ mem.state.attempts + trials + 1 <= BootAttempts
    BY <1>6 DEF CheckCountSync
  <2>2. mem' = mem /\ disk' = mem /\ trials' = trials + 1 /\ boot' = "user"
    BY <1>6 DEF CheckCountSync, Sync
  <2>3. mem.state.attempts \in 1..BootAttempts
    BY <2>1 DEF BudgetOf
  <2>4. QED
    BY <2>1, <2>2, <2>3 DEF BudgetOf
<1>7. CASE GuardSkip \/ GuardBegin
  BY <1>7 DEF GuardSkip, GuardBegin, BudgetOf
<1>8. CASE GuardStale \/ GuardClear
  BY <1>8 DEF GuardStale, GuardClear, BudgetOf, BootFiles
<1>9. CASE GuardStable \/ InstallBegin \/ SetPrimaryPublish \/ SetPrimarySwitch
  <2>1. /\ mem'.state = mem.state
        /\ disk' = disk /\ trials' = trials /\ boot' = boot
    BY <1>9 DEF GuardStable, InstallBegin, SetPrimaryPublish, SetPrimarySwitch, BootFiles
  <2>2. QED
    BY <2>1 DEF BudgetOf
<1>10. CASE GuardMarkSync \/ GuardClearSync \/ InstallBadSync \/ SetPrimarySync
              \/ Writeback
  BY <1>10 DEF GuardMarkSync, GuardClearSync, InstallBadSync, SetPrimarySync,
     Writeback, Sync, BudgetOf
<1>11. CASE InstallWritten \/ InstallFails \/ PowerCycle \/ CrashReboot
  BY <1>11 DEF InstallWritten, InstallFails, PowerCycle, CrashReboot, Halted, BudgetOf
<1>12. CASE SetPrimaryRecord
  <2>1. /\ mem'.state = [pending |-> Target, prev |-> current, attempts |-> BootAttempts]
        /\ disk' = disk /\ trials' = 0 /\ boot' = boot /\ boot # "count_sync"
    BY <1>12 DEF SetPrimaryRecord, BootFiles
  <2>2. BudgetOf(mem, trials)'
    BY <2>1 DEF BudgetOf
  <2>3. disk.state \in Record =>
          disk.state.attempts \in 1..BootAttempts /\ disk.state.attempts + 0 <= BootAttempts
    BY DEF BudgetOf
  <2>4. QED
    BY <2>1, <2>2, <2>3 DEF BudgetOf
<1>13. CASE PowerCut
  <2>1. disk'.state \in {disk.state, mem.state, Torn} /\ mem' = disk'
    BY <1>13 DEF PowerCut, Survives
  <2>2. trials' = trials /\ boot' = "off"
    BY <1>13 DEF PowerCut, Halted
  <2>3. QED
    BY <2>1, <2>2 DEF BudgetOf
<1>14. CASE UNCHANGED vars
  BY <1>14 DEF vars, BudgetOf
<1>15. QED
  BY <1>1, <1>2, <1>3, <1>4, <1>5, <1>6, <1>7, <1>8, <1>9, <1>10, <1>11, <1>12,
     <1>13, <1>14 DEF Next, BootCheck, Guard, Install

LEMMA Inductive == Spec => []IInv
<1>1. IInv /\ [Next]_vars => IInv'
  BY TypeNext, ScriptsNext, BudgetNext DEF IInv
<1>2. QED
  BY InitIInv, <1>1, PTL DEF Spec

\* The variables, /boot and the card included, always have their types.
THEOREM TypeCorrect == Spec => []TypeOK
<1>1. IInv => TypeOK
  BY DEF IInv
<1>2. QED
  BY Inductive, <1>1, PTL

\* No pending update is booted more often than boot_attempts allows, with
\* any number of power cuts, before or after a sync, and overlapping installs.
THEOREM BootBudget == Spec => []TrialBudget
<1>1. IInv => TrialBudget
  BY DEF IInv, BudgetInv, BudgetOf, TrialBudget
<1>2. QED
  BY Inductive, <1>1, PTL

-----------------------------------------------------------------------------
(***************************************************************************)
(* A half-written slot stays shut, with any number of power cuts.          *)
(***************************************************************************)

\* A half-written slot is named by no copy of cmdline.txt, no record could
\* lead back to it, and both copies of rauc.bootstate are the same: a power
\* cut between a write and its sync has nothing to tear.
Shut(s) ==
  /\ booted # s /\ mem.cmdline # s /\ disk.cmdline # s
  /\ mem.state \notin Record /\ disk.state \notin Record
  /\ guard \in {"wait", "clear_sync", "done"}
  /\ mem.bstate = disk.bstate
  /\ disk.bstate \in Backend /\ disk.bstate.marks[s] = "bad"

HalfShut == \A s \in Slot : image[s] = "partial" => Shut(s)

\* An install runs beside a guard that has no trial to decide; what it marked
\* bad stays so until it is written, and what it makes primary is written.
InstallAlone ==
  /\ rauc # "idle" =>
       guard \in {"wait", "clear_sync", "done"} /\ ~OnTrial(mem, booted)
  /\ rauc = "bad_sync" =>
       /\ mem.cmdline = booted /\ mem.state \notin Record
       /\ mem.bstate \in Backend /\ mem.bstate.marks[Target] = "bad"
  /\ rauc \in {"switch", "record", "publish", "publish_sync"} =>
       image[Target] # "partial"
  /\ rauc \in {"record", "publish", "publish_sync"} => mem.cmdline # booted

\* A guard that is done leaves no record behind, unless a newer install made
\* another slot primary: the next install finds none.
NoRecordLeft ==
  guard \in {"clear_sync", "done"} /\ mem.cmdline = booted =>
    mem.state \notin Record

HalfInv == HalfShut /\ InstallAlone /\ NoRecordLeft

LEMMA TwoSlots ==
  /\ \A s \in Slot : Other(s) \in Slot /\ Other(s) # s
  /\ \A s, t \in Slot : s = t \/ s = Other(t)
BY DEF Other, Slot

LEMMA HalfNext ==
  InstallWhen # "any" /\ TypeOK /\ ScriptsOk /\ HalfInv /\ [Next]_vars => HalfInv'
<1> SUFFICES ASSUME InstallWhen # "any", TypeOK, ScriptsOk, HalfInv, [Next]_vars
             PROVE  HalfInv'
  OBVIOUS
<1> USE RaucBootAssumption, TwoSlots
    DEF TypeOK, ScriptsOk, BootFiles, HalfInv, HalfShut, Shut, InstallAlone,
        NoRecordLeft, OnTrial, Target, fileVars, bootVars, guardVars,
        raucVars, history
<1>1. CASE PowerOn
  BY <1>1 DEF PowerOn
<1>2. CASE CheckNothingPending
  BY <1>2 DEF CheckNothingPending
<1>3. CASE CheckStale
  BY <1>3 DEF CheckStale
<1>4. CASE CheckRollback
  BY <1>4 DEF CheckRollback, Reverted
<1>5. CASE CheckRollbackSync
  BY <1>5 DEF CheckRollbackSync, Sync, Halted
<1>6. CASE CheckCount
  BY <1>6 DEF CheckCount
<1>7. CASE CheckCountSync
  BY <1>7 DEF CheckCountSync, Sync
<1>8. CASE GuardSkip
  BY <1>8 DEF GuardSkip
<1>9. CASE GuardStale
  BY <1>9 DEF GuardStale
<1>10. CASE GuardBegin
  BY <1>10 DEF GuardBegin
<1>11. CASE GuardStable
  BY <1>11 DEF GuardStable
<1>12. CASE GuardMarkSync
  BY <1>12 DEF GuardMarkSync, Sync
<1>13. CASE GuardClear
  BY <1>13 DEF GuardClear
<1>14. CASE GuardClearSync
  BY <1>14 DEF GuardClearSync, Sync
<1>15. CASE GuardRollback
  BY <1>15 DEF GuardRollback, Reverted
<1>16. CASE GuardRollbackSync
  BY <1>16 DEF GuardRollbackSync, Sync, Halted
<1>17. CASE InstallBegin
  <2>1. /\ booted \in Slot /\ Target \in Slot /\ Target # booted
        /\ mem.cmdline = booted /\ mem.state \notin Record
        /\ guard \in {"done", "wait"}
    BY <1>17 DEF InstallBegin, MayInstall, NoRecordLeft
  <2>2. /\ Loaded(mem) \in Backend
        /\ mem.bstate \in Backend => Loaded(mem) = mem.bstate
    BY LoadedType DEF Loaded
  <2>3. /\ mem'.cmdline = mem.cmdline /\ mem'.prev = mem.prev
        /\ mem'.state = mem.state
        /\ mem'.bstate = [Loaded(mem) EXCEPT !.marks[Target] = "bad"]
    BY <1>17 DEF InstallBegin, BootFiles
  <2>4. mem'.bstate \in Backend /\ mem'.bstate.marks[Target] = "bad"
    BY <2>1, <2>2, <2>3 DEF Backend
  <2>5. /\ rauc' = "bad_sync"
        /\ UNCHANGED <<disk, image, boot, booted, guard, sourced, current>>
    BY <1>17 DEF InstallBegin
  <2>6. ASSUME NEW s \in Slot, image[s] = "partial"
        PROVE  Shut(s)'
    <3>1. Shut(s) /\ s = Target
      BY <2>1, <2>6 DEF HalfShut, Shut, Target
    <3>2. mem'.bstate = mem.bstate
      BY <2>2, <2>3, <3>1 DEF Shut, Backend
    <3> QED
      BY <2>3, <2>5, <3>1, <3>2 DEF Shut
  <2>7. HalfShut'
    BY <2>5, <2>6 DEF HalfShut
  <2>8. InstallAlone'
    BY <2>1, <2>3, <2>4, <2>5 DEF InstallAlone, OnTrial, Target
  <2>9. NoRecordLeft'
    BY <2>1, <2>3 DEF NoRecordLeft
  <2> QED
    BY <2>7, <2>8, <2>9
<1>18. CASE InstallBadSync
  BY <1>18 DEF InstallBadSync, Sync
<1>19. CASE InstallWritten
  <2>1. PICK h \in Images : image' = [image EXCEPT ![Target] = h]
    BY <1>19 DEF InstallWritten
  <2>2. h # "partial" /\ Target \in Slot
    BY <1>19, OtherSlot DEF Image, Target
  <2>3. /\ image'[Target] # "partial"
        /\ \A s \in Slot : image'[s] = "partial" => image[s] = "partial"
    BY <2>1, <2>2
  <2>4. /\ rauc' = "switch" /\ rauc = "write"
        /\ UNCHANGED <<mem, disk, boot, booted, guard, sourced, current>>
    BY <1>19 DEF InstallWritten
  <2>5. HalfShut'
    BY <2>3, <2>4 DEF HalfShut, Shut
  <2>6. InstallAlone'
    BY <2>3, <2>4 DEF InstallAlone, OnTrial, Target
  <2>7. NoRecordLeft'
    BY <2>4 DEF NoRecordLeft
  <2> QED
    BY <2>5, <2>6, <2>7
<1>20. CASE SetPrimarySwitch
  BY <1>20 DEF SetPrimarySwitch
<1>21. CASE SetPrimaryRecord
  BY <1>21 DEF SetPrimaryRecord
<1>22. CASE SetPrimaryPublish
  BY <1>22 DEF SetPrimaryPublish
<1>23. CASE SetPrimarySync
  BY <1>23 DEF SetPrimarySync, Sync
<1>24. CASE InstallFails
  BY <1>24 DEF InstallFails
<1>25. CASE Reboot
  BY <1>25 DEF Reboot, Sync, Halted
<1>26. CASE PowerCut
  BY <1>26 DEF PowerCut, Halted, Survives
<1>27. CASE CrashReboot
  BY <1>27 DEF CrashReboot, Halted
<1>28. CASE PowerCycle
  BY <1>28 DEF PowerCycle, Halted
<1>29. CASE Writeback
  BY <1>29 DEF Writeback, Sync
<1>30. CASE UNCHANGED vars
  BY <1>30 DEF vars, HalfShut, Shut, InstallAlone, NoRecordLeft
<1>31. CASE BootCheck
  BY <1>2, <1>3, <1>4, <1>5, <1>6, <1>7, <1>31 DEF BootCheck
<1>32. CASE Guard
  BY <1>8, <1>9, <1>10, <1>11, <1>12, <1>13, <1>14, <1>15, <1>16, <1>32 DEF Guard
<1>33. CASE Install
  BY <1>17, <1>18, <1>19, <1>20, <1>21, <1>22, <1>23, <1>24, <1>33 DEF Install
<1> QED
  BY <1>1, <1>25, <1>26, <1>27, <1>28, <1>29, <1>30, <1>31, <1>32, <1>33 DEF Next

\* A slot with a half-written rootfs is never what the card boots next, and the
\* card says that it is bad: however often power is cut, when an install never
\* begins over a pending update.
THEOREM HalfWrittenStaysShut ==
  ASSUME InstallWhen # "any"
  PROVE  Spec => []NeverBootsHalfWritten
<1>1. Init => HalfInv
  BY RaucBootAssumption
  DEF Init, HalfInv, HalfShut, InstallAlone, NoRecordLeft, Slot
<1>2. IInv /\ HalfInv /\ [Next]_vars => HalfInv'
  BY HalfNext DEF IInv
<1>3. HalfInv => NeverBootsHalfWritten
  BY DEF HalfInv, HalfShut, Shut, NeverBootsHalfWritten, GetState, Loaded
<1> QED
  BY <1>1, <1>2, <1>3, Inductive, PTL DEF Spec

-----------------------------------------------------------------------------
(***************************************************************************)
(* The scripts implement SlotUpdate wherever power is cut, RAUC killed or  *)
(* an install begun, from one moment at which /boot is exposed to the      *)
(* next.  Everything below is about a /boot that is not exposed.           *)
(***************************************************************************)

\* The card holds one of two things: a confirmed slot and nothing pending, or a
\* slot on trial, with the confirmed one to return to in the record and, where
\* there is a backup, in the backup.
WellKept ==
  \/ disk.state = Absent /\ disk.cmdline \in confirmed
  \/ /\ disk.state \in Record
     /\ disk.cmdline = disk.state.pending
     /\ disk.prev \in {disk.state.prev, Absent}
     /\ disk.state.prev = Other(disk.cmdline) /\ disk.state.prev \in confirmed

\* The backup matters only beside a record.
SameNames ==
  /\ mem.cmdline = disk.cmdline /\ mem.state = disk.state
  /\ disk.state # Absent => mem.prev = disk.prev

RolledBack == mem.cmdline = disk.state.prev /\ mem.state = Absent

Cleared == mem.cmdline = disk.cmdline /\ mem.state = Absent

Counted ==
  /\ mem.cmdline = disk.cmdline /\ mem.prev = disk.prev
  /\ disk.state.attempts > 1
  /\ mem.state = [disk.state EXCEPT !.attempts = @ - 1]

\* What mem is ahead of the card by, at each stage of boot-check ...
CheckKnows ==
  /\ boot \in {"off", "panic", "check"} => mem = disk
  /\ boot \in {"check", "count_sync", "revert_sync"} => booted = disk.cmdline
  /\ boot \in {"count_sync", "revert_sync"} => disk.state \in Record
  /\ boot = "revert_sync" => RolledBack
  /\ boot = "count_sync" => Counted

\* ... of the guard while it decides a trial, which no install runs beside ...
GuardKnows ==
  boot = "user" /\ guard \notin {"wait", "done"} =>
    /\ rauc = "idle" /\ booted = disk.cmdline /\ disk.state \in Record
    /\ guard \in {"watch", "mark_sync", "clear"} => SameNames
    /\ guard = "watch" => sourced = disk.state.prev
    /\ guard \in {"mark_sync", "clear", "clear_sync"} => booted \in confirmed
    /\ guard = "clear_sync" => Cleared
    /\ guard = "revert_sync" => RolledBack

(***************************************************************************)
(* ... and of the install, which may run before the guard looked: it has   *)
(* not switched yet, has written cmdline.txt alone, has written the record *)
(* too (RAUC may be gone by then), or is over and its files on the card.   *)
(***************************************************************************)
Unswitched ==
  /\ rauc \in {"idle", "bad_sync", "write", "switch"} /\ booted = disk.cmdline
  /\ SameNames
  /\ rauc # "idle" \/ guard = "done" => disk.state = Absent

HalfSwitched ==
  /\ rauc = "record" /\ booted = disk.cmdline /\ disk.state = Absent
  /\ mem.cmdline = Target /\ mem.state = Absent
  /\ mem.prev = booted /\ current = booted

Recorded ==
  /\ rauc \in {"publish", "publish_sync", "idle"}
  /\ booted = disk.cmdline /\ disk.state = Absent
  /\ mem.cmdline = Target /\ mem.prev = booted
  /\ mem.state = [pending |-> Target, prev |-> booted, attempts |-> BootAttempts]

Armed ==
  /\ rauc = "idle" /\ SameNames
  /\ disk.cmdline = Target /\ disk.state \in Record

InstallKnows ==
  boot = "user" /\ guard \in {"wait", "done"} =>
    Unswitched \/ HalfSwitched \/ Recorded \/ Armed

CleanInv == WellKept /\ CheckKnows /\ GuardKnows /\ InstallKnows

KeptInv == ~exposed => CleanInv

\* What a sync, or a cut that takes all of it, would bring to the card.
LEMMA Ahead ==
  ASSUME TypeOK, CleanInv, boot \notin {"off", "panic"}
  PROVE  \/ SameNames \/ HalfSwitched \/ Recorded
         \/ disk.state \in Record /\ (Counted \/ RolledBack)
         \/ disk.state \in Record /\ Cleared /\ disk.cmdline \in confirmed
<1>1. CASE boot = "check"
  BY <1>1 DEF CleanInv, CheckKnows, SameNames
<1>2. CASE boot \in {"count_sync", "revert_sync"}
  BY <1>2 DEF CleanInv, CheckKnows
<1>3. CASE boot = "user" /\ guard \in {"wait", "done"}
  BY <1>3 DEF CleanInv, InstallKnows, Unswitched, Armed
<1>4. CASE boot = "user" /\ guard \notin {"wait", "done"}
  BY <1>4 DEF TypeOK, GuardStage, CleanInv, GuardKnows
<1> QED
  BY <1>1, <1>2, <1>3, <1>4 DEF TypeOK, BootStage

LEMMA CleanNext ==
  TypeOK /\ ScriptsOk /\ CleanInv /\ ~exposed' /\ [Next]_vars => CleanInv'
<1> SUFFICES ASSUME TypeOK, ScriptsOk, CleanInv, ~exposed', [Next]_vars
             PROVE  CleanInv'
  OBVIOUS
<1> USE RaucBootAssumption, TwoSlots
    DEF TypeOK, ScriptsOk, BootFiles, CleanInv, WellKept, CheckKnows, GuardKnows,
        InstallKnows, Unswitched, HalfSwitched, Recorded, Armed, SameNames, Counted,
        RolledBack, Cleared, OnTrial, Target, fileVars, bootVars, guardVars,
        raucVars, history
<1>1. CASE PowerOn
  BY <1>1 DEF PowerOn
<1>2. CASE CheckNothingPending
  BY <1>2 DEF CheckNothingPending
<1>3. CASE CheckStale
  BY <1>3 DEF CheckStale, Record
<1>4. CASE CheckRollback
  BY <1>4 DEF CheckRollback, Reverted, Record
<1>5. CASE CheckRollbackSync
  BY <1>5 DEF CheckRollbackSync, Sync, Halted
<1>6. CASE CheckCount
  BY <1>6 DEF CheckCount, Record
<1>7. CASE CheckCountSync
  BY <1>7 DEF CheckCountSync, Sync, Record
<1>8. CASE GuardSkip
  BY <1>8 DEF GuardSkip
<1>9. CASE GuardStale
  BY <1>9 DEF GuardStale, Record
<1>10. CASE GuardBegin
  BY <1>10 DEF GuardBegin, Record
<1>11. CASE GuardStable
  BY <1>11 DEF GuardStable
<1>12. CASE GuardMarkSync
  BY <1>12 DEF GuardMarkSync, Sync
<1>13. CASE GuardClear
  BY <1>13 DEF GuardClear
<1>14. CASE GuardClearSync
  BY <1>14 DEF GuardClearSync, Sync
<1>15. CASE GuardRollback
  BY <1>15 DEF GuardRollback, Reverted, Record
<1>16. CASE GuardRollbackSync
  BY <1>16 DEF GuardRollbackSync, Sync, Halted
<1>17. CASE InstallBegin
  BY <1>17 DEF InstallBegin, NothingPending
<1>18. CASE InstallBadSync
  BY <1>18 DEF InstallBadSync, Sync
<1>19. CASE InstallWritten
  BY <1>19 DEF InstallWritten
<1>20. CASE SetPrimarySwitch
  BY <1>20 DEF SetPrimarySwitch
<1>21. CASE SetPrimaryRecord
  BY <1>21 DEF SetPrimaryRecord
<1>22. CASE SetPrimaryPublish
  BY <1>22 DEF SetPrimaryPublish
<1>23. CASE SetPrimarySync
  BY <1>23 DEF SetPrimarySync, Sync, Record
<1>24. CASE InstallFails
  BY <1>24 DEF InstallFails
<1>25. CASE Reboot
  <2>1. /\ disk' = mem /\ mem' = mem /\ confirmed' = confirmed /\ rauc # "record"
        /\ boot = "user" /\ boot' = "off"
    BY <1>25 DEF Reboot, Sync, Halted
  <2>2. CASE SameNames
    BY <2>1, <2>2
  <2>3. CASE Recorded
    BY <2>1, <2>3 DEF Record
  <2>4. CASE \/ disk.state \in Record /\ RolledBack
             \/ disk.state \in Record /\ Cleared /\ disk.cmdline \in confirmed
    BY <2>1, <2>4
  <2>5. CASE disk.state \in Record /\ Counted
    BY <2>1, <2>5 DEF Record
  <2>6. rauc # "record" => ~HalfSwitched
    OBVIOUS
  <2> HIDE DEF SameNames, HalfSwitched, Recorded, Counted, Cleared, RolledBack
  <2> QED
    BY <2>1, <2>2, <2>3, <2>4, <2>5, <2>6, Ahead
<1>26. CASE PowerCut
  <2>1. /\ mem' = disk' /\ confirmed' = confirmed /\ boot' = "off"
        /\ boot \notin {"off", "panic"}
        /\ ~TornApart(disk')
    BY <1>26 DEF PowerCut, Halted
  <2>2. /\ \/ disk'.cmdline = disk.cmdline /\ disk'.state = disk.state
           \/ disk'.cmdline = mem.cmdline /\ disk'.state = mem.state
        /\ disk'.state \in Record => disk'.prev \in {disk'.state.prev, Absent}
        /\ rauc = "record" => disk'.cmdline # Target
    BY <2>1 DEF TornApart, Names
  <2>3. CASE disk'.cmdline = disk.cmdline /\ disk'.state = disk.state
    BY <2>1, <2>2, <2>3
  <2>4. CASE disk'.cmdline = mem.cmdline /\ disk'.state = mem.state
    <3>1. CASE SameNames
      BY <2>1, <2>2, <2>3, <2>4, <3>1
    <3>2. CASE Recorded
      BY <2>1, <2>2, <2>4, <3>2 DEF Record
    <3>3. CASE \/ disk.state \in Record /\ RolledBack
               \/ disk.state \in Record /\ Cleared /\ disk.cmdline \in confirmed
      BY <2>1, <2>2, <2>4, <3>3
    <3>4. CASE disk.state \in Record /\ Counted
      BY <2>1, <2>2, <2>4, <3>4 DEF Record
    <3>5. ~HalfSwitched
      BY <2>2, <2>4
    <3> HIDE DEF SameNames, HalfSwitched, Recorded, Counted, Cleared, RolledBack
    <3> QED
      BY <2>1, <3>1, <3>2, <3>3, <3>4, <3>5, Ahead
  <2> QED
    BY <2>2, <2>3, <2>4
<1>27. CASE CrashReboot
  BY <1>27 DEF CrashReboot, Halted
<1>28. CASE PowerCycle
  BY <1>28 DEF PowerCycle, Halted
<1>29. CASE Writeback
  BY <1>29 DEF Writeback, Sync, Record
<1>30. CASE UNCHANGED vars
  BY <1>30 DEF vars
<1>31. CASE BootCheck
  BY <1>2, <1>3, <1>4, <1>5, <1>6, <1>7, <1>31 DEF BootCheck
<1>32. CASE Guard
  BY <1>8, <1>9, <1>10, <1>11, <1>12, <1>13, <1>14, <1>15, <1>16, <1>32 DEF Guard
<1>33. CASE Install
  BY <1>17, <1>18, <1>19, <1>20, <1>21, <1>22, <1>23, <1>24, <1>33 DEF Install
<1> QED
  BY <1>1, <1>25, <1>26, <1>27, <1>28, <1>29, <1>30, <1>31, <1>32, <1>33 DEF Next

\* Only a guard that is done with a settled /boot ends an exposure, and leaves
\* /boot as well kept as on a fresh card.
LEMMA SettledIsKept ==
  TypeOK /\ ScriptsOk /\ exposed /\ ~exposed' /\ [Next]_vars => CleanInv'
<1> SUFFICES ASSUME TypeOK, ScriptsOk, exposed, ~exposed', [Next]_vars
             PROVE  CleanInv'
  OBVIOUS
<1>1. \/ GuardSkip /\ Settled(mem) /\ Settled(disk)
      \/ GuardClearSync /\ Settled(mem)
  BY DEF Next, BootCheck, Guard, Install, PowerOn, CheckNothingPending, CheckStale,
     CheckRollback, CheckRollbackSync, CheckCount, CheckCountSync, GuardSkip, GuardStale,
     GuardBegin, GuardStable, GuardMarkSync, GuardClear, GuardClearSync, GuardRollback,
     GuardRollbackSync, InstallBegin, InstallBadSync, InstallWritten, SetPrimarySwitch,
     SetPrimaryRecord, SetPrimaryPublish, SetPrimarySync, InstallFails, Reboot, PowerCut,
     CrashReboot, PowerCycle, Writeback, history, vars
<1>2. Settled(mem) /\ (disk' = mem \/ (disk' = disk /\ Settled(disk)))
  <2>1. GuardSkip => disk' = disk
    BY DEF GuardSkip, fileVars
  <2>2. GuardClearSync => disk' = mem
    BY DEF GuardClearSync, Sync
  <2> QED
    BY <1>1, <2>1, <2>2
<1>3. /\ boot' = "user" /\ booted' = booted /\ guard' = "done"
      /\ rauc' = rauc /\ confirmed' = confirmed /\ mem' = mem
  BY <1>1 DEF GuardSkip, GuardClearSync, Sync, ScriptsOk, fileVars, bootVars, raucVars
<1>4. /\ rauc = "idle" /\ booted \in confirmed
      /\ mem.cmdline = booted /\ mem.state = Absent
      /\ disk'.cmdline = booted /\ disk'.state = Absent
  BY <1>2 DEF Settled, Names
<1> QED
  BY <1>3, <1>4
  DEF CleanInv, WellKept, CheckKnows, GuardKnows, InstallKnows, Unswitched, SameNames

LEMMA KeptInductive == Spec => []KeptInv
<1>1. Init => KeptInv
  BY RaucBootAssumption
  DEF Init, KeptInv, CleanInv, WellKept, CheckKnows, GuardKnows, InstallKnows
<1>2. IInv /\ KeptInv /\ [Next]_vars => KeptInv'
  BY CleanNext, SettledIsKept DEF IInv, KeptInv
<1> QED
  BY <1>1, <1>2, Inductive, PTL DEF Spec

\* While an unconfirmed slot runs and the guard has not decided, its boots are
\* counted and the rollback leads to a confirmed slot: wherever power is cut,
\* RAUC killed or an install begun, unless /boot is exposed.
THEOREM ProtectedOnTrial == Spec => []TrialProtected
<1>1. TypeOK /\ ScriptsOk /\ KeptInv => TrialProtected
  <2> SUFFICES ASSUME TypeOK, ScriptsOk, CleanInv, boot = "user",
                      booted \notin confirmed, guard \in {"wait", "watch"}
               PROVE  OnTrial(mem, booted) /\ Fallback(mem) \in confirmed \ {booted}
    BY DEF KeptInv, TrialProtected
  <2>1. disk.state \in Record /\ SameNames /\ booted = disk.cmdline
    BY RaucBootAssumption, TwoSlots
    DEF TypeOK, ScriptsOk, CleanInv, WellKept, GuardKnows, InstallKnows, Unswitched,
        HalfSwitched, Recorded, Armed, Target
  <2> QED
    BY <2>1, RaucBootAssumption, TwoSlots
    DEF CleanInv, WellKept, SameNames, OnTrial, Fallback, Record
<1> QED
  BY <1>1, Inductive, KeptInductive, PTL DEF IInv

\* A step that leaves the names on the card and the confirmed slots alone is
\* a step of nobody in SlotUpdate.
LEMMA SameCard ==
  ASSUME WellKept, disk'.cmdline = disk.cmdline, disk'.state = disk.state,
         disk.state \in Record => disk'.prev \in {disk.state.prev, Absent},
         confirmed' = confirmed
  PROVE  UNCHANGED Update!vars
<1>1. TrialOf(disk') = TrialOf(disk)
  <2>1. CASE disk.state = Absent
    BY <2>1, RaucBootAssumption DEF TrialOf
  <2>2. CASE disk.state \in Record
    <3>1. Fallback(disk) = disk.state.prev
      BY <2>2, RaucBootAssumption DEF WellKept, Fallback
    <3>2. Fallback(disk') = disk.state.prev
      BY <2>2 DEF Fallback
    <3> QED
      BY <2>2, <3>1, <3>2 DEF TrialOf
  <2> QED
    BY <2>1, <2>2 DEF WellKept
<1> QED
  BY <1>1 DEF Update!vars

LEMMA OnTrialIsTrial ==
  ASSUME WellKept, disk.state \in Record
  PROVE  /\ TrialOf(disk) # Absent
         /\ TrialOf(disk).slot = disk.state.pending
         /\ TrialOf(disk).fallback = disk.state.prev
         /\ TrialOf(disk).left = disk.state.attempts
<1>1. Fallback(disk) = disk.state.prev /\ disk.state.prev \in Slot
  BY RaucBootAssumption DEF WellKept, Fallback, Record
<1>2. TrialOf(disk) \in [slot: Slot, fallback: Slot, left: Nat]
  BY <1>1 DEF TrialOf, Record
<1> QED
  BY <1>1, <1>2, UpdateAssumption DEF TrialOf, Update!WellFormed

\* What mem is ahead by reaches the card, with confirmed as it was: a rollback
\* is Revert, a count Spend, a cleared record Conclude and a new one Arm.
LEMMA ReachesCard ==
  ASSUME TypeOK, ScriptsOk, CleanInv, boot \notin {"off", "panic"},
         disk'.cmdline = mem.cmdline, disk'.state = mem.state,
         disk'.state \in Record => disk'.prev \in {disk'.state.prev, Absent},
         ~HalfSwitched, confirmed' = confirmed
  PROVE  Update!Next \/ UNCHANGED Update!vars
<1> USE RaucBootAssumption
<1>0. WellKept
  BY DEF CleanInv
<1>1. CASE SameNames
  BY <1>0, <1>1, SameCard DEF SameNames
<1>2. CASE disk.state \in Record /\ RolledBack
  <2>1. TrialOf(disk) # Absent /\ TrialOf(disk).fallback = disk.state.prev
    BY <1>0, <1>2, OnTrialIsTrial
  <2>2. disk'.state \notin Record /\ disk'.cmdline = disk.state.prev
    BY <1>2 DEF RolledBack
  <2> QED
    BY <2>1, <2>2 DEF Update!Revert, Update!Next, TrialOf
<1>3. CASE disk.state \in Record /\ Cleared /\ disk.cmdline \in confirmed
  <2>1. TrialOf(disk) # Absent /\ TrialOf(disk).slot \in confirmed
    BY <1>0, <1>3, OnTrialIsTrial DEF WellKept
  <2>2. TrialOf(disk') = Absent /\ disk'.cmdline = disk.cmdline
    BY <1>3 DEF TrialOf, Cleared
  <2> QED
    BY <2>1, <2>2 DEF Update!Conclude, Update!Next
<1>4. CASE disk.state \in Record /\ Counted
  <2>1. /\ mem.state \in Record
        /\ mem.state.pending = disk.state.pending /\ mem.state.prev = disk.state.prev
        /\ mem.state.attempts = disk.state.attempts - 1
    BY <1>4 DEF Counted, TypeOK, BootFiles, Record
  <2>2. TrialOf(disk) # Absent /\ TrialOf(disk).left > 1
    BY <1>0, <1>4, OnTrialIsTrial DEF Counted
  <2>3. Fallback(disk') = Fallback(disk)
    BY <1>0, <1>4, <2>1 DEF WellKept, Fallback
  <2>4. TrialOf(disk') = [TrialOf(disk) EXCEPT !.left = @ - 1]
    BY <1>4, <2>1, <2>3 DEF TrialOf
  <2> QED
    BY <1>4, <2>2, <2>4 DEF Counted, Update!Spend, Update!Next
<1>5. CASE Recorded
  <2>1. /\ booted = disk.cmdline /\ booted \in Slot /\ disk.state = Absent
        /\ disk'.cmdline = Target
        /\ disk'.state = [pending |-> Target, prev |-> booted,
                          attempts |-> BootAttempts]
    BY <1>5, TwoSlots DEF Recorded, TypeOK, ScriptsOk, Target, BootStage
  <2>2. Target \in Slot /\ Target # disk.cmdline
    BY <2>1, TwoSlots DEF Target
  <2>3. disk'.state \in Record /\ booted # Absent
    BY <2>1, <2>2 DEF Record
  <2>4. disk.cmdline \in confirmed
    BY <1>0, <2>1 DEF WellKept
  <2>5. Update!Arm(Target)
    BY <2>1, <2>2, <2>3, <2>4 DEF Update!Arm, TrialOf, Fallback
  <2> QED
    BY <2>2, <2>5 DEF Update!Next
<1> QED
  BY <1>1, <1>2, <1>3, <1>4, <1>5, Ahead

\* Every step of the scripts, of RAUC and of the power supply that neither
\* follows nor makes an exposure is one step of SlotUpdate or none: the one at
\* which a sync, or what a cut spares, brings it to the card.
LEMMA StepRefines ==
  TypeOK /\ ScriptsOk /\ CleanInv /\ ~exposed' /\ [Next]_vars
  => Update!Next \/ UNCHANGED Update!vars
<1> SUFFICES ASSUME TypeOK, ScriptsOk, CleanInv, ~exposed', [Next]_vars
             PROVE  Update!Next \/ UNCHANGED Update!vars
  OBVIOUS
<1> USE RaucBootAssumption
<1>0. WellKept
  BY DEF CleanInv
<1>a. ASSUME disk' = disk, confirmed' = confirmed
      PROVE  UNCHANGED Update!vars
  BY <1>0, <1>a, SameCard DEF WellKept
<1>b. ASSUME Sync, confirmed' = confirmed, boot \notin {"off", "panic"}, rauc # "record"
      PROVE  Update!Next \/ UNCHANGED Update!vars
  <2>1. disk' = mem /\ ~HalfSwitched
    BY <1>b DEF Sync, HalfSwitched
  <2>2. mem.state \in Record => mem.prev \in {mem.state.prev, Absent}
    BY <1>0, <1>b, <2>1, Ahead
    DEF WellKept, SameNames, Counted, Cleared, RolledBack, Recorded, TypeOK, BootFiles,
        Record
  <2> QED
    BY <1>b, <2>1, <2>2, ReachesCard
<1>1. CASE \/ PowerOn \/ CheckNothingPending \/ CheckStale \/ CheckRollback
           \/ CheckCount \/ GuardSkip \/ GuardStale \/ GuardBegin \/ GuardClear
           \/ GuardRollback \/ InstallBegin \/ InstallWritten \/ SetPrimarySwitch
           \/ SetPrimaryRecord \/ SetPrimaryPublish \/ InstallFails \/ CrashReboot
           \/ PowerCycle \/ UNCHANGED vars
  <2>1. disk' = disk /\ confirmed' = confirmed
    BY <1>1 DEF PowerOn, CheckNothingPending, CheckStale, CheckRollback, CheckCount,
       GuardSkip, GuardStale, GuardBegin, GuardClear, GuardRollback, InstallBegin,
       InstallWritten, SetPrimarySwitch, SetPrimaryRecord, SetPrimaryPublish,
       InstallFails, CrashReboot, PowerCycle, vars, fileVars, history
  <2> QED
    BY <2>1, <1>a
<1>2. CASE \/ CheckRollbackSync \/ CheckCountSync \/ GuardMarkSync \/ GuardClearSync
           \/ GuardRollbackSync \/ SetPrimarySync \/ Reboot \/ Writeback
  <2>1. /\ Sync /\ confirmed' = confirmed
        /\ boot \notin {"off", "panic"} /\ rauc # "record"
    BY <1>2 DEF CheckRollbackSync, CheckCountSync, GuardMarkSync, GuardClearSync,
       GuardRollbackSync, SetPrimarySync, Reboot, Writeback, ScriptsOk, TypeOK, BootStage,
       CleanInv, GuardKnows, history
  <2> QED
    BY <2>1, <1>b
<1>3. CASE PowerCut
  <2>1. /\ boot \notin {"off", "panic"} /\ confirmed' = confirmed
        /\ \/ disk'.cmdline = disk.cmdline /\ disk'.state = disk.state
           \/ disk'.cmdline = mem.cmdline /\ disk'.state = mem.state
        /\ disk'.state \in Record => disk'.prev \in {disk'.state.prev, Absent}
        /\ rauc = "record" => disk'.cmdline # Target
    BY <1>3 DEF PowerCut, TornApart, Names
  <2>2. CASE disk'.cmdline = disk.cmdline /\ disk'.state = disk.state
    BY <1>0, <2>1, <2>2, SameCard
  <2>3. CASE disk'.cmdline = mem.cmdline /\ disk'.state = mem.state
    <3>1. ~HalfSwitched
      BY <2>1, <2>3 DEF HalfSwitched
    <3> QED
      BY <2>1, <2>3, <3>1, ReachesCard
  <2> QED
    BY <2>1, <2>2, <2>3
<1>4. CASE GuardStable
  <2>1. /\ disk' = disk /\ confirmed' = confirmed \cup {booted}
        /\ disk.state \in Record /\ disk.cmdline = booted
    BY <1>4 DEF GuardStable, ScriptsOk, CleanInv, GuardKnows, TypeOK, BootStage
  <2>2. disk.state.pending = booted
    BY <1>0, <2>1 DEF WellKept
  <2>3. Update!Prove
    BY <1>0, <2>1, <2>2, OnTrialIsTrial DEF Update!Prove
  <2> QED
    BY <2>3 DEF Update!Next
<1>5. CASE InstallBadSync
  <2>1. disk' = mem /\ confirmed' = confirmed \ {Target}
    BY <1>5 DEF InstallBadSync, Sync
  <2>2. /\ booted \in Slot /\ booted = disk.cmdline
        /\ disk.state = Absent /\ SameNames
    BY <1>5 DEF InstallBadSync, ScriptsOk, CleanInv, GuardKnows, InstallKnows,
       Unswitched, HalfSwitched, Recorded, Armed, TypeOK, BootStage
  <2>3. Target \in Slot /\ Target # disk.cmdline
    BY <2>2, TwoSlots DEF Target
  <2>4. Update!Overwrite(Target)
    BY <1>0, <2>1, <2>2, <2>3 DEF Update!Overwrite, TrialOf, SameNames, WellKept
  <2> QED
    BY <2>3, <2>4 DEF Update!Next
<1>6. CASE BootCheck
  BY <1>1, <1>2, <1>6 DEF BootCheck
<1>7. CASE Guard
  BY <1>1, <1>2, <1>4, <1>7 DEF Guard
<1>8. CASE Install
  BY <1>1, <1>2, <1>5, <1>8 DEF Install
<1> QED
  BY <1>1, <1>2, <1>3, <1>6, <1>7, <1>8 DEF Next

\* The three scripts implement the atomic protocol of SlotUpdate: every step
\* that neither makes nor follows an exposure is one of its steps or none,
\* whatever a power cut spares and whenever an install begins.
THEOREM ScriptsRefineSlotUpdate == Spec => RefinesUnlessExposed
<1>1. Init => Update!Init
  BY RaucBootAssumption DEF Init, Update!Init, TrialOf
<1>2. IInv /\ KeptInv /\ [Next]_vars
        => [exposed \/ exposed' \/ Update!Next]_Update!vars
  BY StepRefines DEF IInv, KeptInv
<1> QED
  BY <1>1, <1>2, Inductive, KeptInductive, PTL DEF Spec, RefinesUnlessExposed

\* What SlotUpdate promises holds of every card that is not exposed: what it
\* boots next is a confirmed slot, or a trial whose rollback leads to one.
THEOREM CardHasAWayBack == Spec => [](~exposed => Update!ProvenSlotReachable)
<1>1. WellKept => Update!ProvenSlotReachable
  <2>1. CASE disk.state \in Record /\ WellKept
    BY <2>1, OnTrialIsTrial, TwoSlots, RaucBootAssumption
    DEF Update!ProvenSlotReachable, WellKept, Record
  <2>2. CASE disk.state = Absent /\ WellKept
    BY <2>2, RaucBootAssumption DEF Update!ProvenSlotReachable, WellKept, TrialOf
  <2> QED
    BY <2>1, <2>2 DEF WellKept
<1>2. KeptInv => (~exposed => Update!ProvenSlotReachable)
  BY <1>1 DEF KeptInv, CleanInv
<1> QED
  BY <1>2, KeptInductive, PTL

-----------------------------------------------------------------------------
(***************************************************************************)
(* Nothing exposes a /boot whose scripts are not stopped before a sync and *)
(* whose installs wait for the guard: then every step implements SlotUpdate. *)
(***************************************************************************)

GuardFirst ==
  boot = "user" /\ guard = "wait" =>
    /\ rauc = "idle" /\ booted = disk.cmdline
    /\ mem.cmdline = disk.cmdline /\ mem.state = disk.state

LEMMA NeverExposed ==
  ASSUME ~CutWhileDirty, InstallWhen = "settled"
  PROVE  Spec => [](~exposed)
<1> USE RaucBootAssumption
<1>1. Init => ~exposed /\ GuardFirst
  BY DEF Init, GuardFirst
<1>2. ASSUME IInv, CleanInv, ~exposed, GuardFirst, [Next]_vars
      PROVE  ~exposed' /\ GuardFirst'
  <2> USE <1>2 DEF IInv, TypeOK, ScriptsOk, BootStage, fileVars, bootVars, guardVars,
      raucVars, history, GuardFirst
  <2>1. mem = disk /\ boot \notin {"off", "panic"} => rauc # "record"
    BY TwoSlots
    DEF CleanInv, GuardKnows, InstallKnows, Unswitched, HalfSwitched, Recorded,
        Armed, Target
  <2>2. CASE Reboot
    BY <2>1, <2>2 DEF Reboot, MayStop, Halted
  <2>3. CASE PowerCut
    <3>1. mem = disk /\ rauc # "record"
      BY <2>1, <2>3 DEF PowerCut, MayStop
    <3>2. disk'.cmdline = disk.cmdline /\ disk'.prev = disk.prev /\ disk'.state = disk.state
      BY <2>3, <3>1 DEF PowerCut, Survives
    <3>3. ~TornApart(disk')
      BY <3>1, <3>2 DEF TornApart, Names, CleanInv, WellKept
    <3>4. boot' = "off" /\ exposed' = (exposed \/ TornApart(disk'))
      BY <2>3 DEF PowerCut, Halted
    <3> QED
      BY <3>3, <3>4
  <2>4. ~GuardStale /\ ~CheckStale
    BY DEF GuardStale, CheckStale, CleanInv, CheckKnows, WellKept, OnTrial
  <2>5. CASE InstallBegin
    <3>1. guard = "done" /\ mem.cmdline = booted /\ boot = "user"
      BY <2>5 DEF InstallBegin, MayInstall
    <3>2. mem.state = Absent
      BY <3>1, TwoSlots
      DEF CleanInv, InstallKnows, Unswitched, HalfSwitched, Recorded, Armed, SameNames,
          Target
    <3> QED
      BY <2>5, <3>1, <3>2 DEF InstallBegin, NothingPending
  <2>6. CASE Install /\ ~InstallBegin
    BY <2>6 DEF Install, InstallBadSync, InstallWritten, SetPrimarySwitch,
       SetPrimaryRecord, SetPrimaryPublish, SetPrimarySync, InstallFails
  <2>7. CASE BootCheck
    BY <2>4, <2>7 DEF BootCheck, CheckNothingPending, CheckRollback, CheckRollbackSync,
       CheckCount, CheckCountSync, Sync, Halted, CleanInv, CheckKnows, Counted
  <2>8. CASE Guard
    BY <2>4, <2>8 DEF Guard, GuardSkip, GuardBegin, GuardStable, GuardMarkSync, GuardClear,
       GuardClearSync, GuardRollback, GuardRollbackSync, Halted
  <2>9. CASE PowerOn \/ CrashReboot \/ PowerCycle \/ Writeback \/ UNCHANGED vars
    BY <2>9 DEF PowerOn, CrashReboot, PowerCycle, Writeback, Halted, Sync, vars
  <2> QED
    BY <2>2, <2>3, <2>5, <2>6, <2>7, <2>8, <2>9 DEF Next
<1> QED
  BY <1>1, <1>2, Inductive, KeptInductive, PTL DEF Spec, KeptInv

\* The scripts implement all of SlotUpdate when nothing stops one halfway and
\* installs wait for the guard.
THEOREM CleanRunsRefine ==
  ASSUME ~CutWhileDirty, InstallWhen = "settled"
  PROVE  Spec => RefinesSlotUpdate
BY ScriptsRefineSlotUpdate, NeverExposed, PTL
DEF RefinesUnlessExposed, RefinesSlotUpdate, Update!Spec

-----------------------------------------------------------------------------
(* The promise of SlotUpdate, and so of every card that implements it.     *)

Promise == Update!TypeOK /\ Update!ProvenSlotReachable

LEMMA PromiseBegins == Update!Init => Promise
BY UpdateAssumption
   DEF Promise, Update!WellFormed, Update!Init, Update!TypeOK,
       Update!ProvenSlotReachable

LEMMA PromiseKept == Promise /\ [Update!Next]_Update!vars => Promise'
<1> SUFFICES ASSUME Promise, [Update!Next]_Update!vars
             PROVE  Promise'
  OBVIOUS
<1>0. Update!WellFormed
  BY UpdateAssumption
<1> USE <1>0 DEF Update!WellFormed, Promise, Update!TypeOK, Update!ProvenSlotReachable
<1>1. ASSUME NEW s \in Slot, Update!Overwrite(s)
      PROVE  Promise'
  BY <1>1 DEF Update!Overwrite
<1>2. ASSUME NEW s \in Slot, Update!Arm(s)
      PROVE  Promise'
  BY <1>2 DEF Update!Arm
<1>3. CASE Update!Spend
  BY <1>3 DEF Update!Spend
<1>4. CASE Update!Prove
  BY <1>4 DEF Update!Prove
<1>5. CASE Update!Conclude
  BY <1>5 DEF Update!Conclude
<1>6. CASE Update!Revert
  BY <1>6 DEF Update!Revert
<1>7. CASE UNCHANGED Update!vars
  BY <1>7 DEF Update!vars
<1> QED
  BY <1>1, <1>2, <1>3, <1>4, <1>5, <1>6, <1>7 DEF Update!Next

\* Whatever order updates, trials and rollbacks come in, the slot booted next
\* is proven or its trial falls back to a proven slot.
THEOREM AlwaysAWayBack ==
  RefinesSlotUpdate => []Update!ProvenSlotReachable
<1>1. Promise => Update!ProvenSlotReachable
  BY DEF Promise
<1> QED
  BY <1>1, PromiseBegins, PromiseKept, PTL DEF RefinesSlotUpdate, Update!Spec
=============================================================================
